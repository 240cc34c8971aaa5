----------------------------- MODULE SelloutPolicy -----------------------------
(***************************************************************************)
(* One listing of one channel under SelloutService: drafted when its       *)
(* stock reaches zero, published again when it is restocked, but only if   *)
(* it was the hub that drafted it.  The hub remembers that in a stamp on   *)
(* its own row, the listing's status is the platform's, and no statement   *)
(* covers both.  The event half runs at the end of a quantity push, the    *)
(* sweeps run beside it.                                                   *)
(*                                                                         *)
(* The channel may advertise less than is on hand, where stock is reserved *)
(* or partitioned: a push acts on what is advertised, a sweep only where   *)
(* nothing is on hand at all.  Which change queues a push is the subject   *)
(* of InventoryLedger, and OutboundSync has the queue in detail.           *)
(***************************************************************************)
EXTENDS Naturals, FiniteSets

CONSTANTS
    Sweep,          \* the scheduled sweep and those asked for by hand
    MaxStock,
    MaxEdits,       \* changes of stock and of the channel's settings
    MaxTouches,     \* status changes by an operator on the platform
    MaxFailures     \* failed or unanswered platform calls, and crashes

\* What the theorems about this module assume.
Parameters ==
    /\ IsFiniteSet(Sweep) /\ "push" \notin Sweep
    /\ MaxStock \in Nat /\ MaxEdits \in Nat /\ MaxTouches \in Nat /\ MaxFailures \in Nat

VARIABLES
    onHand,         \* InventoryItem.quantityOnHand
    desired,        \* what the ledger derives for this channel
    listed,         \* ChannelAllocation.listedQuantity
    stamped,        \* ChannelAllocation.selloutDraftedAt is set
    setting,        \* draftAtSellout (with the scope) and reactivateOnRestock
    listing,        \* the platform's side: quantity, status and who set it
    job,            \* the queue's job for the quantity, unless the worker runs it
    missed,         \* the figure of the ledger is not on its way to the channel
    worker,         \* per worker: its step, and the quantity a push is sending
    flagged,        \* the sweep's flag, see AlertFlags
    cause,          \* what may have left restocked stock hidden
    drafts,         \* times the hub drafted the listing
    attempts,       \* times the hub set out to publish it
    used            \* edits, touches and failures so far

ledger == <<onHand, desired>>
queue == <<job, missed>>
vars == <<ledger, listed, stamped, setting, listing, queue, worker, flagged, cause,
          drafts, attempts, used>>

Worker == {"push"} \cup Sweep
Idle == [step |-> "idle", quantity |-> 0]

Init ==
    /\ onHand = MaxStock
    /\ desired = MaxStock
    /\ listed = MaxStock
    /\ stamped = FALSE
    /\ setting = [draftAtSellout |-> TRUE, reactivateOnRestock |-> TRUE]
    /\ listing = [quantity |-> MaxStock, status |-> "active", setBy |-> "operator"]
    /\ job = "none"
    /\ missed = FALSE
    /\ worker = [w \in Worker |-> Idle]
    /\ flagged = FALSE
    /\ cause = {}
    /\ drafts = 0
    /\ attempts = 0
    /\ used = [edits |-> 0, touches |-> 0, failures |-> 0]

At(w, step) == worker[w].step = step
Goto(w, step) == worker' = [worker EXCEPT ![w].step = step]
Done(w) == worker' = [worker EXCEPT ![w] = Idle]

hub == <<ledger, listed, setting, queue, flagged, used>>

-------------------------------------------------------------------------------
\* An addition is dropped while a job runs that read another figure, or is kept as failed.
Enqueue(quantity) ==
    IF job = "none" /\ At("push", "idle")
    THEN job' = "waiting" /\ UNCHANGED missed
    ELSE /\ missed' = CASE job = "waiting" -> missed
                        [] job = "failed" -> TRUE
                        [] OTHER -> worker["push"].quantity # quantity
         /\ UNCHANGED job

\* Stock is counted, sold, reserved or partitioned; a new figure for the channel is queued.
ChangeStock ==
    /\ used.edits < MaxEdits
    /\ \E n \in 0..MaxStock : \E d \in 0..n :
        /\ n # onHand \/ d # desired
        /\ onHand' = n /\ desired' = d
        /\ IF d # desired THEN Enqueue(d) ELSE UNCHANGED queue
    /\ used' = [used EXCEPT !.edits = @ + 1]
    /\ UNCHANGED <<listed, stamped, setting, listing, worker, flagged, cause, drafts,
                   attempts>>

ChangeSetting ==
    /\ used.edits < MaxEdits
    /\ \/ setting' = [setting EXCEPT !.draftAtSellout = ~@]
       \/ setting' = [setting EXCEPT !.reactivateOnRestock = ~@]
    /\ used' = [used EXCEPT !.edits = @ + 1]
    /\ UNCHANGED <<ledger, listed, stamped, listing, queue, worker, flagged, cause, drafts,
                   attempts>>

\* A person drafts or publishes the product on the platform; the hub is not told.
TouchListing ==
    /\ used.touches < MaxTouches
    /\ listing' = [listing EXCEPT !.status = IF @ = "active" THEN "draft" ELSE "active",
                                  !.setBy = "operator"]
    /\ used' = [used EXCEPT !.touches = @ + 1]
    /\ UNCHANGED <<ledger, listed, stamped, setting, queue, worker, flagged, cause, drafts,
                   attempts>>

-------------------------------------------------------------------------------
\* A quantity push reads the ledger when it starts ...
StartPush ==
    /\ job = "waiting" /\ At("push", "idle")
    /\ job' = "none" /\ missed' = FALSE
    /\ worker' = [worker EXCEPT !["push"] = [step |-> "send", quantity |-> desired]]
    /\ UNCHANGED <<ledger, listed, stamped, setting, listing, flagged, cause, drafts,
                   attempts, used>>

\* The job is tried again, or that was the last attempt and it keeps its id.
TryAgain(unsent) ==
    \/ job' = "waiting" /\ UNCHANGED missed
    \/ job' = "failed" /\ missed' = (missed \/ unsent)

\* ... sends what it read, or fails, perhaps for want of the answer alone ...
SendQuantity ==
    /\ At("push", "send")
    /\ \/ /\ listing' = [listing EXCEPT !.quantity = worker["push"].quantity]
          /\ Goto("push", "record")
          /\ UNCHANGED <<queue, cause, used>>
       \/ /\ used.failures < MaxFailures
          /\ used' = [used EXCEPT !.failures = @ + 1]
          /\ \/ UNCHANGED <<listing, cause>>
             \/ /\ listing' = [listing EXCEPT !.quantity = worker["push"].quantity]
                /\ cause' = cause \cup {"unanswered"}
          /\ TryAgain(TRUE)
          /\ Done("push")
    /\ UNCHANGED <<ledger, listed, stamped, setting, flagged, drafts, attempts>>

\* Mutant of RecordPush: the policy only hears of pushes of zero.
RecordPushOfZero ==
    /\ At("push", "record")
    /\ listed' = worker["push"].quantity
    /\ IF listed' = 0 THEN Goto("push", "draftGate") ELSE Done("push")
    /\ UNCHANGED <<ledger, stamped, setting, listing, queue, flagged, cause, drafts,
                   attempts, used>>

\* ... and, once that is recorded, turns to the sellout policy.
RecordPush ==
    /\ At("push", "record")
    /\ listed' = worker["push"].quantity
    /\ Goto("push", IF worker["push"].quantity = 0 THEN "draftGate" ELSE "activeGate")
    /\ UNCHANGED <<ledger, stamped, setting, listing, queue, flagged, cause, drafts,
                   attempts, used>>

\* Mutant of StartSweep: a listing that was stamped once is taken for drafted.
StartSweepUnstamped(w) ==
    /\ w \in Sweep /\ At(w, "idle")
    /\ setting.draftAtSellout
    /\ IF listed = 0 /\ onHand = 0 /\ ~stamped
       THEN Goto(w, "draftGate") /\ UNCHANGED flagged
       ELSE flagged' = FALSE /\ UNCHANGED worker
    /\ UNCHANGED <<ledger, listed, stamped, setting, listing, queue, cause, drafts,
                   attempts, used>>

\* A sweep looks for listings with nothing advertised and nothing on hand.
StartSweep(w) ==
    /\ w \in Sweep /\ At(w, "idle")
    /\ setting.draftAtSellout
    /\ IF listed = 0 /\ onHand = 0
       THEN Goto(w, "draftGate") /\ UNCHANGED flagged
       ELSE flagged' = FALSE /\ UNCHANGED worker
    /\ UNCHANGED <<ledger, listed, stamped, setting, listing, queue, cause, drafts,
                   attempts, used>>

\* The last step of a listing: a push swallows a failure, a sweep flags it.
Leave(w, failed) ==
    /\ Done(w)
    /\ flagged' = IF w \in Sweep THEN failed ELSE flagged

-------------------------------------------------------------------------------
(***************************************************************************)
(* draftIfSoldOut, for the push and the sweeps alike.                      *)
(***************************************************************************)

DraftGate(w) ==
    /\ At(w, "draftGate")
    /\ IF setting.draftAtSellout
       THEN Goto(w, "draftLook") /\ UNCHANGED flagged
       ELSE Leave(w, FALSE)
    /\ UNCHANGED <<ledger, listed, stamped, setting, listing, queue, cause, drafts,
                   attempts, used>>

\* The connector reads status and stock first, and writes the status in a second request.
DraftLook(w) ==
    /\ At(w, "draftLook")
    /\ IF listing.status = "active" /\ listing.quantity = 0
       THEN Goto(w, "draft") /\ UNCHANGED flagged
       ELSE Leave(w, FALSE)
    /\ UNCHANGED <<ledger, listed, stamped, setting, listing, queue, cause, drafts,
                   attempts, used>>

SetStatus(status) == listing' = [listing EXCEPT !.status = status, !.setBy = "hub"]

Draft(w) ==
    /\ At(w, "draft")
    /\ SetStatus("draft")
    /\ Goto(w, "stamp")
    /\ drafts' = drafts + 1
    /\ UNCHANGED <<ledger, listed, stamped, setting, queue, flagged, cause, attempts, used>>

\* Mutant of Stamp: the row is only stamped while it is still listed at zero.
StampAtZero(w) ==
    /\ At(w, "stamp")
    /\ stamped' = (stamped \/ listed = 0)
    /\ cause' = cause \cup {c \in {"overtaken"} : listing.quantity > 0}
    /\ Leave(w, FALSE)
    /\ UNCHANGED <<ledger, listed, setting, listing, queue, drafts, attempts, used>>

Stamp(w) ==
    /\ At(w, "stamp")
    /\ stamped' = TRUE
    /\ cause' = cause \cup {c \in {"overtaken"} : listing.quantity > 0}
    /\ Leave(w, FALSE)
    /\ UNCHANGED <<ledger, listed, setting, listing, queue, drafts, attempts, used>>

-------------------------------------------------------------------------------
(***************************************************************************)
(* reactivateIfRestocked, at the end of a push of more than zero.          *)
(***************************************************************************)

ActiveGate ==
    /\ At("push", "activeGate")
    /\ IF setting.reactivateOnRestock
       THEN Goto("push", "permit") /\ UNCHANGED cause
       ELSE Done("push") /\ cause' = cause \cup {"switchedOff"}
    /\ UNCHANGED <<hub, stamped, listing, drafts, attempts>>

Permit ==
    /\ At("push", "permit")
    /\ IF stamped THEN Goto("push", "spend") ELSE Done("push")
    /\ UNCHANGED <<hub, stamped, listing, cause, drafts, attempts>>

\* The stamp goes before the platform is asked: it permits one attempt.
Spend ==
    /\ At("push", "spend")
    /\ stamped' = FALSE
    /\ attempts' = attempts + 1
    /\ Goto("push", "activeLook")
    /\ UNCHANGED <<hub, listing, cause, drafts>>

ActiveLook ==
    /\ At("push", "activeLook")
    /\ IF listing.status = "draft" THEN Goto("push", "activate") ELSE Done("push")
    /\ UNCHANGED <<hub, stamped, listing, cause, drafts, attempts>>

Activate ==
    /\ At("push", "activate")
    /\ SetStatus("active")
    /\ Done("push")
    /\ UNCHANGED <<hub, stamped, cause, drafts, attempts>>

-------------------------------------------------------------------------------
Asking == {"draftLook", "draft", "activeLook", "activate"}

\* A request to the platform fails, or is carried out and its answer lost: the caller only
\* sees an error, which a push swallows and a sweep reports.
PlatformError(w) ==
    /\ worker[w].step \in Asking
    /\ used.failures < MaxFailures
    /\ used' = [used EXCEPT !.failures = @ + 1]
    /\ cause' = cause \cup {"error"}
    /\ \/ UNCHANGED <<listing, drafts>>
       \/ At(w, "draft") /\ SetStatus("draft") /\ drafts' = drafts + 1
       \/ At(w, "activate") /\ SetStatus("active") /\ UNCHANGED drafts
    /\ Leave(w, TRUE)
    /\ UNCHANGED <<ledger, listed, stamped, setting, queue, attempts>>

\* The process is killed.  The queue runs an unfinished push again from the start.
Crash(w) ==
    /\ ~At(w, "idle")
    /\ used.failures < MaxFailures
    /\ used' = [used EXCEPT !.failures = @ + 1]
    /\ cause' = cause \cup {"crash"}
    /\ IF w = "push" THEN TryAgain(worker[w].step \in {"send", "record"})
                     ELSE UNCHANGED queue
    /\ Done(w)
    /\ UNCHANGED <<ledger, listed, stamped, setting, listing, flagged, drafts, attempts>>

Push == StartPush \/ SendQuantity \/ RecordPush \/ ActiveGate \/ Permit \/ Spend
        \/ ActiveLook \/ Activate
DraftStep(w) == DraftGate(w) \/ DraftLook(w) \/ Draft(w) \/ Stamp(w)

\* A failed job is dropped after a week.
Expire ==
    /\ job = "failed"
    /\ job' = "none"
    /\ UNCHANGED <<ledger, missed, listed, stamped, setting, listing, worker, flagged, cause,
                   drafts, attempts, used>>

Next ==
    \/ ChangeStock \/ ChangeSetting \/ TouchListing
    \/ Push \/ Expire
    \/ \E w \in Sweep : StartSweep(w)
    \/ \E w \in Worker : DraftStep(w) \/ PlatformError(w) \/ Crash(w)

\* Queued pushes are worked off, started work goes on, and sweeps recur.
Fairness ==
    /\ WF_vars(Push)
    /\ \A w \in Worker : WF_vars(DraftStep(w))
    /\ \A w \in Sweep : WF_vars(StartSweep(w))

Spec == Init /\ [][Next]_vars /\ Fairness

-------------------------------------------------------------------------------
Steps == {"idle", "send", "record", "draftGate", "draftLook", "draft", "stamp",
          "activeGate", "permit", "spend", "activeLook", "activate"}

TypeOK ==
    /\ onHand \in 0..MaxStock /\ desired \in 0..MaxStock /\ listed \in 0..MaxStock
    /\ stamped \in BOOLEAN /\ missed \in BOOLEAN /\ flagged \in BOOLEAN
    /\ job \in {"none", "waiting", "failed"}
    /\ setting \in [draftAtSellout: BOOLEAN, reactivateOnRestock: BOOLEAN]
    /\ listing \in [quantity: 0..MaxStock, status: {"active", "draft"},
                    setBy: {"hub", "operator"}]
    /\ worker \in [Worker -> [step: Steps, quantity: 0..MaxStock]]
    /\ cause \subseteq {"overtaken", "switchedOff", "unanswered", "error", "crash"}
    /\ drafts \in Nat /\ attempts \in Nat
    /\ used \in [edits: 0..MaxEdits, touches: 0..MaxTouches, failures: 0..MaxFailures]

HiddenByHub == listing.status = "draft" /\ listing.setBy = "hub"

\* A listing the hub has drafted is back once it shows stock, unless one of the named
\* causes occurred: a push of new stock passed by before the draft was stamped, or landed
\* without an answer, the channel did not republish at the time, a platform call failed, or
\* a worker was killed.
RestockedIsVisible ==
    HiddenByHub /\ listing.quantity > 0 /\ setting.reactivateOnRestock
        => \/ cause # {}
           \/ ~At("push", "idle")
           \/ \E w \in Sweep : At(w, "stamp")

\* "The stamp is permission for one attempt, not a standing instruction": the hub never
\* sets out to publish more often than it has drafted, also when publishing fails.
OneAttemptPerDraft == attempts <= drafts

\* Whatever was overtaken, a hidden listing keeps the stamp the next push needs to show it
\* again; only a failure or a kill loses it.
HiddenKeepsPermission ==
    HiddenByHub /\ cause \cap {"error", "crash"} = {}
        => \/ stamped
           \/ \E w \in Worker : At(w, "stamp")
           \/ At("push", "activeLook") \/ At("push", "activate")

\* With the policy on and nothing on hand, a listing ends as a draft, also when the draft at
\* the end of the push failed or its worker died: the sweep catches up, provided the push of
\* the zero itself was not missed.
SoldOutIsDrafted ==
    <>[](onHand = 0 /\ setting.draftAtSellout /\ ~missed) => <>[](listing.status = "draft")

\* Stock that is held back is never swept: a listing that shows none of it is drafted by its
\* push alone, and only if the policy was on, nothing failed, and nobody published it since.
HeldBackIsDrafted ==
    [](setting.draftAtSellout /\ used.failures = 0 /\ used.touches = 0) =>
        (<>[](desired = 0 /\ ~missed) => <>[](listing.status = "draft"))

\* A stamp is there for as long as its one attempt is owed, and no longer.
StampIsOneAttempt == OneAttemptPerDraft /\ HiddenKeepsPermission
===============================================================================
