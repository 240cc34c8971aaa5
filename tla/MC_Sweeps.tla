-------------------------------- MODULE MC_Sweeps --------------------------------
(***************************************************************************)
(* What runs again and again until it has caught up: the sweeps of prices, *)
(* of sold-out listings and of drift, the flags they raise and the re-read *)
(* of the sign-in settings, with the fairness of each.  Repricing is the   *)
(* one extended; AlertFlags, SelloutPolicy, OutboundSync and SignIn are    *)
(* instances.  They share no state, so their interleavings show nothing    *)
(* that each on its own does not: a behaviour picks one of them and runs   *)
(* it, with the others at rest.                                            *)
(***************************************************************************)
EXTENDS Repricing

CONSTANTS Null, i1, i2, r1, r2

CONSTANTS
    Subjects,           \* what a behaviour may run
    Source, Swept,      \* the flags, and those that a sweep clears
    MaxStock, MaxEdits  \* of the sellout policy

\* One policy that is switched off, and one whose limit and threshold tell three moves apart.
Off == [enabled |-> FALSE, percent |-> 100, rounding |-> "none", floor |-> None,
        maxPct |-> 10, maxUpPct |-> None, maxDownPct |-> None, minDelta |-> None]
On == [Off EXCEPT !.enabled = TRUE, !.rounding = "99", !.maxDownPct = 50, !.minDelta = 5]
OffOrOn == {Off, On}

VARIABLES
    subject,        \* what the behaviour is about
    trouble, alerts, reporter, mailed, unmailed, budget,
    onHand, desired, advertised, stamped, setting, listing, pushJob, missed, worker, flagged,
    hiding, drafts, attempts, selloutUsed,
    wanted, listed, status, enabled, alarm, live, job, tries, stalls, phase, read, owed,
    reconciler, seen, cause, landed, edits, troubles,
    stored, snapshot, document, pinned, reload, login, users, signInUsed, signInLapse

Alf == INSTANCE AlertFlags WITH worker <- reporter

Sel == INSTANCE SelloutPolicy WITH
    MaxTouches <- MaxMishaps, MaxFailures <- MaxMishaps,
    listed <- advertised, job <- pushJob, cause <- hiding, used <- selloutUsed

\* One operation, two figures, one caller and two attempts a job.
Out == INSTANCE OutboundSync WITH
    Op <- {"quantity"}, Value <- {1, 2}, Caller <- {"api"}, MaxAttempts <- 2, MaxStalls <- 1,
    AutoCorrect <- TRUE, MaxEdits <- 1, MaxTroubles <- 1,
    flagged <- alarm, attempts <- tries, sweep <- reconciler

\* One provider, two saves and re-reads of them at once, and nobody signing in.
Sgn == INSTANCE SignIn WITH
    Issuer <- {i1}, Subject <- {}, Replica <- {"api"}, Job <- {r1, r2}, Browser <- {},
    MaxSaves <- 2, MaxLogins <- 0, MaxMishaps <- 1,
    job <- reload, used <- signInUsed, lapse <- signInLapse

ASSUME RepricingParameters == Parameters
ASSUME FlagParameters == Alf!Parameters
ASSUME SelloutParameters == Sel!Parameters

pricing == vars
flags == <<trouble, alerts, reporter, mailed, unmailed, budget>>
sellout == <<onHand, desired, advertised, stamped, setting, listing, pushJob, missed, worker,
             flagged, hiding, drafts, attempts, selloutUsed>>
sync == <<wanted, listed, status, enabled, alarm, live, job, tries, stalls, phase, read, owed,
          reconciler, seen, cause, landed, edits, troubles>>
signIn == <<stored, snapshot, document, pinned, reload, login, users, signInUsed, signInLapse>>

allVars == <<subject, pricing, flags, sellout, sync, signIn>>

\* A step of the one the behaviour is about.
Flagging(A) == subject = "flags" /\ A /\ UNCHANGED <<subject, pricing, sellout, sync, signIn>>
Selling(A) == subject = "sellout" /\ A /\ UNCHANGED <<subject, pricing, flags, sync, signIn>>
Syncing(A) == subject = "sync" /\ A /\ UNCHANGED <<subject, pricing, flags, sellout, signIn>>
Signing(A) == subject = "signIn" /\ A /\ UNCHANGED <<subject, pricing, flags, sellout, sync>>
Pricing(A) == subject = "pricing" /\ A /\ UNCHANGED <<subject, flags, sellout, sync, signIn>>

AllInit ==
    /\ subject \in Subjects
    /\ Init /\ Alf!Init /\ Sel!Init /\ Out!Init /\ Sgn!Init
    /\ subject # "pricing" => market = 1000 /\ policy = Off /\ price = None
    /\ subject # "sync" => listed = 1
    /\ subject # "signIn" => pinned = {}

AllNext ==
    \/ Pricing(Next) \/ Flagging(Alf!Next) \/ Selling(Sel!Next) \/ Syncing(Out!Next)
    \/ Signing(Sgn!Next)

\* The fairness of each: see there for what the code's scheduling justifies.
AllFairness ==
    /\ WF_allVars(Pricing(Push))
    /\ \A s \in Sweep : WF_allVars(Pricing(SweepNext(s)))
    /\ WF_allVars(Pricing(ReviewNext))
    /\ \A w \in Alf!Worker : WF_allVars(Flagging(Alf!Step(w)))
    /\ \A s \in Swept : WF_allVars(Flagging(Alf!Report(<<s, "scheduled">>)))
    /\ WF_allVars(Selling(Sel!Push))
    /\ \A w \in Sel!Worker : WF_allVars(Selling(Sel!DraftStep(w)))
    /\ \A s \in Sweep : WF_allVars(Selling(Sel!StartSweep(s)))
    /\ WF_allVars(Syncing(Out!Work("quantity")))
    /\ WF_allVars(Syncing(Out!Recover("quantity")))
    /\ WF_allVars(Syncing(Out!Enqueue("api")))
    /\ WF_allVars(Syncing(Out!SweepLoad \/ Out!SweepCompare \/ Out!SweepCorrect))
    /\ \A j \in {r1, r2} : WF_allVars(Signing(Sgn!Step(j)))
    /\ WF_allVars(Signing(\E j \in {r1, r2} : Sgn!Refresh(j, "api")))

AllSpec == AllInit /\ [][AllNext]_allVars /\ AllFairness

-------------------------------------------------------------------------------
\* Every variable of every module has its type.
AllTypeOK == TypeOK /\ Alf!TypeOK /\ Sel!TypeOK /\ Out!TypeOK /\ Sgn!TypeOK

\* AlertFlags and SelloutPolicy, what holds at every moment: few flags, each mailed at its
\* severity; a restocked listing is visible, and hiding and showing it are linked.
SweepsAreSound ==
    /\ Alf!OpenFlagsBounded /\ Alf!SeverityIsMailed
    /\ Sel!RestockedIsVisible /\ Sel!StampIsOneAttempt

\* The same two, in the end: a flag follows its condition, a sold-out listing is drafted, by
\* the sweep where nothing is on hand and by its push where stock is held back.
AlertsAndDraftsFollow == Alf!FlagsFollow /\ Sel!SoldOutIsDrafted /\ Sel!HeldBackIsDrafted

\* What must catch up: the price with the market, the channel with the ledger and with what
\* was last pushed to it, and the settings of a process with the stored ones.
ChannelsCatchUp ==
    /\ ChannelFollows
    /\ Out!Converges /\ Out!DriftIsRepaired
    /\ Sgn!SettingsCatchUp
===============================================================================
