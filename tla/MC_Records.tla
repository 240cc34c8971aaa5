------------------------------ MODULE MC_Records ------------------------------
(***************************************************************************)
(* Channels, extended, with Accounts and Listings as instances. They share *)
(* no state, so their interleavings show nothing that each on its own does *)
(* not: a behaviour picks one, from every initial state of it, and runs it *)
(* while the others rest.                                                  *)
(***************************************************************************)
EXTENDS Channels, TLC

CONSTANTS
    User, MaxPassword,  \* of Accounts
    Item, Single, CardOf, MaxAtOnce, MaxRuns, MaxConfirms,  \* of Listings
    r1, r2, c1, c2

CONSTANT Subjects      \* what a behaviour may run

VARIABLES
    subject,            \* what the behaviour runs
    users, sessions, keys, asked, made, setups, accountLapse,
    products, variants, rows, run, match, listingUsed, listingLapse

accountVars == <<users, sessions, keys, asked, made, setups, accountLapse>>
listingVars == <<products, variants, rows, run, match, listingUsed, listingLapse>>
allVars == <<subject, vars, accountVars, listingVars>>

\* Requests of people, as many at once and in all as for a channel.
Acc == INSTANCE Accounts WITH request <- asked, lapse <- accountLapse

\* Calls of create are requests too.
Lst == INSTANCE Listings WITH
    Run <- Request, allocations <- rows, used <- listingUsed, lapse <- listingLapse

\* The conditions of one card.
OneCard == [i \in Item |-> "card"]

Symmetry == Permutations({r1, r2}) \cup Permutations({c1, c2})

ASSUME ChannelParameters == Parameters
ASSUME AccountParameters == Acc!Parameters
ASSUME ListingParameters == Lst!Parameters

\* Accounts start in either of their ways where they run, and in the one where they rest.
AllInit ==
    /\ subject \in Subjects
    /\ Init /\ Acc!Init /\ Lst!Init
    /\ subject = "accounts" \/ setups = 0

AllNext ==
    \/ subject = "channels" /\ Next /\ UNCHANGED <<subject, accountVars, listingVars>>
    \/ subject = "accounts" /\ Acc!Next /\ UNCHANGED <<subject, vars, listingVars>>
    \/ subject = "listings" /\ Lst!Next /\ UNCHANGED <<subject, vars, accountVars>>

AllSpec == AllInit /\ [][AllNext]_allVars

-------------------------------------------------------------------------------
\* Every variable has its type.
AllTypeOK == TypeOK /\ Acc!TypeOK /\ Lst!TypeOK

\* Accounts: an administrator remains, setup happens once, an old password is of no use.
AccountsHold ==
    Acc!AdminRemains /\ Acc!SetupHappensOnce /\ Acc!OldPasswordsAreCut

\* Listings: one product per card and one item per listing, however calls overlap.
ListingsAreOwned ==
    /\ [](Lst!OneProductPerCard /\ Lst!OneItemPerListing)
    /\ [][Lst!MakesNoSecond /\ Lst!LinkStays]_allVars
===============================================================================
