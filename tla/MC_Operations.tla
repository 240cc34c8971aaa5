------------------------------ MODULE MC_Operations ---------------------------
(*****************************************************************************)
(* OutboundSync, extended, with SignIn, Notices, BulkAllocation,             *)
(* ListingContent, ShopifyRequests, DriftRepair and TcgplayerFiles as        *)
(* instances. They share no state, so their interleavings show nothing that  *)
(* each on its own does not: a behaviour picks one, from every initial state *)
(* of it, and runs it.  A variable stands for one of each that needs it, and *)
(* is Null in the behaviours of the others: SignIn, Notices, BulkAllocation  *)
(* and ListingContent borrow those of ShopifyRequests.                       *)
(*****************************************************************************)
EXTENDS OutboundSync, TLC

CONSTANTS None, r1, r2, i1, i2, c1, c2

CONSTANT Subjects      \* what a behaviour may run

CONSTANTS
    Channel,
    MaxQuantity, MaxPushes,                                 \* of ShopifyRequests
    Stock, MaxSales, MaxRuns, MaxTouches,                   \* of DriftRepair
    Sku, CustomerOrder, Price, MaxPut, MaxFiles, MaxFileEdits,  \* of TcgplayerFiles
    Issuer, Person, Replica, SettingsJob, Browser, MaxLogins,   \* of SignIn
    Host, NoticeTask, MaxNotices,                               \* of Notices
    Card, Figure, Policy, MaxChanges, MaxBulkRuns,              \* of BulkAllocation
    Variant, Picture, Batch, MediaPage, MaxContentEdits,        \* of ListingContent
    MaxSaves, MaxMishaps                                        \* of several

VARIABLES
    subject,        \* what the behaviour runs
    \* of several
    shown, task, used, lapse, onHand, advertised,
    \* ShopifyRequests
    alive, accepts, secret, cache, inFlight, told, mints,
    \* DriftRepair
    shelf, due, notices, corrects, counted, touched,
    \* TcgplayerFiles
    shownPrice, awaiting, sheets, pricings, exports, mapped, price, events,
    stored, report, put, ordered, taken, strays, files, fileEdits

\* A policy that is switched off, and one that takes a fifth off and rounds.
Off == [enabled |-> FALSE, percent |-> None, rounding |-> "none", floor |-> None,
        maxPct |-> None, maxUpPct |-> None, maxDownPct |-> None, minDelta |-> None]
On == [Off EXCEPT !.enabled = TRUE, !.percent = 80, !.rounding = "99"]

OffOrOn == {Off, On}

\* The settings of a process, saved and re-read at once, and sign-ins meanwhile.
Sgn == INSTANCE SignIn WITH
    Subject <- Person, Job <- SettingsJob,
    stored <- secret, snapshot <- cache, document <- accepts, pinned <- shown, job <- task,
    login <- inFlight, users <- alive

\* Saves and notices at once.
Not == INSTANCE Notices WITH
    Task <- NoticeTask,
    rows <- secret, password <- accepts, snapshot <- cache, known <- alive,
    given <- inFlight, sent <- told

Blk == INSTANCE BulkAllocation WITH
    Item <- Card, MaxRuns <- MaxBulkRuns,
    stock <- alive, market <- accepts, recorded <- told, policy <- secret, allocation <- shown, run <- task

Con == INSTANCE ListingContent WITH
    Item <- Variant, Run <- Batch, MaxEdits <- MaxContentEdits,
    linked <- accepts, picture <- alive, rules <- secret, media <- cache, page <- shown,
    run <- task, claim <- inFlight

\* The pushes under way are started by the callers there are.
Req == INSTANCE ShopifyRequests WITH Op <- Caller, op <- task

Fix == INSTANCE DriftRepair WITH listed <- advertised, live <- shown, run <- task

Fil == INSTANCE TcgplayerFiles WITH
    Order <- CustomerOrder, listed <- advertised, job <- task, edits <- fileEdits,
    MaxEdits <- MaxFileEdits

common == <<shown, task, used, lapse>>
requestVars == <<alive, accepts, secret, cache, inFlight, told, mints>>
stockVars == <<onHand, advertised>>
repairVars == <<shelf, due, notices, corrects, counted, touched>>
fileVars == <<shownPrice, awaiting, sheets, pricings, exports, mapped, price,
              events, stored, report, put, ordered, taken, strays, files,
              fileEdits>>
allVars == <<subject, vars, common, requestVars, stockVars, repairVars, fileVars>>

Symmetry == Permutations({r1, r2}) \cup Permutations({i1, i2}) \cup Permutations({c1, c2})

ASSUME OutboundParameters == Parameters
ASSUME PlatformParameters == Req!Parameters /\ Fix!Parameters /\ Fil!Parameters
ASSUME SettingsParameters == Sgn!Parameters /\ Not!Parameters
ASSUME WorkParameters == Blk!Parameters /\ Con!Parameters

CommonRests ==
    /\ shown = Null /\ task = Null /\ used = Null /\ lapse = Null

RequestsRest ==
    /\ alive = Null /\ accepts = Null /\ secret = Null /\ cache = Null
    /\ inFlight = Null /\ told = Null /\ mints = Null

StockRests ==
    /\ onHand = Null /\ advertised = Null

RepairsRest ==
    /\ shelf = Null /\ due = Null /\ notices = Null /\ corrects = Null
    /\ counted = Null /\ touched = Null

FilesRest ==
    /\ shownPrice = Null /\ awaiting = Null /\ sheets = Null /\ pricings = Null
    /\ exports = Null /\ mapped = Null /\ price = Null /\ events = Null
    /\ stored = Null /\ report = Null /\ put = Null /\ ordered = Null
    /\ taken = Null /\ strays = Null /\ files = Null /\ fileEdits = Null

AllInit ==
    /\ subject \in Subjects
    /\ Init
    /\ subject # "sync" => \A op \in Op : wanted[op] = i1
    /\ \/ subject = "sync" /\ CommonRests /\ RequestsRest
       \/ subject = "settings" /\ Sgn!Init /\ told = Null /\ mints = Null
       \/ subject = "notices" /\ Not!Init /\ shown = Null /\ mints = Null
       \/ /\ subject = "bulk" /\ Blk!Init
          /\ cache = Null /\ inFlight = Null /\ mints = Null
       \/ subject = "content" /\ Con!Init /\ told = Null /\ mints = Null
       \/ subject = "requests" /\ Req!Init
       \/ subject = "repairs" /\ Fix!Init /\ RequestsRest
       \/ subject = "files" /\ Fil!Init /\ RequestsRest /\ used = Null /\ lapse = Null
    /\ subject \notin {"repairs", "files"} => StockRests
    /\ subject # "repairs" => RepairsRest
    /\ subject # "files" => FilesRest

\* A step of what stands in the variables of ShopifyRequests.
RequestNext ==
    \/ subject = "settings" /\ Sgn!Next /\ UNCHANGED <<told, mints>>
    \/ subject = "notices" /\ Not!Next /\ UNCHANGED <<shown, mints>>
    \/ subject = "bulk" /\ Blk!Next /\ UNCHANGED <<cache, inFlight, mints>>
    \/ subject = "content" /\ Con!Next /\ UNCHANGED <<told, mints>>
    \/ subject = "requests" /\ Req!Next

AllNext ==
    \/ /\ subject = "sync" /\ Next
       /\ UNCHANGED <<subject, common, requestVars, stockVars, repairVars, fileVars>>
    \/ RequestNext /\ UNCHANGED <<subject, vars, stockVars, repairVars, fileVars>>
    \/ subject = "repairs" /\ Fix!Next /\ UNCHANGED <<subject, vars, requestVars, fileVars>>
    \/ /\ subject = "files" /\ Fil!Next
       /\ UNCHANGED <<subject, vars, used, lapse, requestVars, repairVars>>

AllSpec == AllInit /\ [][AllNext]_allVars

-------------------------------------------------------------------------------
\* Every variable of what runs has its type.
AllTypeOK ==
    CASE subject = "sync" -> TypeOK
      [] subject = "settings" -> Sgn!TypeOK
      [] subject = "notices" -> Not!TypeOK
      [] subject = "bulk" -> Blk!TypeOK
      [] subject = "content" -> Con!TypeOK
      [] subject = "requests" -> Req!TypeOK
      [] subject = "repairs" -> Fix!TypeOK
      [] subject = "files" -> Fil!TypeOK

\* SignIn and Notices: settings are what was saved, and nobody is locked out or let in by them.
SettingsHold ==
    /\ subject = "settings" => Sgn!SignInHolds
    /\ subject = "notices" => Not!NoticesHold

\* BulkAllocation and ListingContent: what is put on a channel, and what its pages show.
ListingWorkHolds ==
    /\ subject = "bulk" => Blk!BulkHolds
    /\ subject = "content" => Con!ContentHolds

\* ShopifyRequests, DriftRepair and TcgplayerFiles: what reaches a platform and comes back.
PlatformHolds ==
    /\ subject = "requests" => Req!RequestsHold
    /\ subject = "repairs" => Fix!RepairsAreRight
    /\ subject = "files" => Fil!FilesAreSafe
===============================================================================
