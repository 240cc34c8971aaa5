------------------------------ MODULE OutboundSync -----------------------------
(***************************************************************************)
(* How one allocation's quantity and price reach its channel: callers that *)
(* changed the ledger and owe a push, the push queue with one job id per   *)
(* operation, the outbound worker and its retries, the platform, and the   *)
(* reconciliation sweep.  InventoryLedger is what happens before: here a   *)
(* committed change is one step, after which its caller owes a push.       *)
(***************************************************************************)
EXTENDS Integers, FiniteSets

CONSTANTS
    Op,             \* the operations that are queued: "quantity", "price"
    Value,          \* quantities and prices, told apart by nothing but equality
    Caller,         \* requests that change the ledger or the price
    MaxAttempts,    \* attempts of a push job
    MaxStalls,      \* how often BullMQ requeues a job whose worker went silent
    AutoCorrect,    \* ChannelInstance.reconcileAutoCorrect
    MaxEdits,       \* bound: changes of the ledger
    MaxTroubles,    \* bound: processes killed, queue outages, seller edits, toggles
    Null

\* What the constants must be.
Parameters ==
    /\ "quantity" \in Op /\ Op \subseteq {"quantity", "price"}
    /\ Value # {} /\ Null \notin Value \cup [op: Op, from: Value]
    /\ MaxAttempts \in Nat \ {0}
    /\ {MaxStalls, MaxEdits, MaxTroubles} \subseteq Nat
    /\ AutoCorrect \in BOOLEAN

VARIABLES
    \* the database
    wanted,     \* what the ledger derives for the channel, and the price it holds
    listed,     \* ChannelAllocation.listedQuantity
    status,     \* ChannelAllocation.status
    enabled,    \* ChannelInstance.enabled
    flagged,    \* the channel's sync_failure flag is open
    \* the platform
    live,
    \* the queue, per operation
    job,
    attempts,   \* attemptsMade
    stalls,
    \* the worker's run of the job
    phase,
    read,       \* the snapshot of the ledger it pushes from
    \* callers: the push each still owes
    owed,
    \* the reconciliation sweep
    sweep,
    seen,       \* the listedQuantity it loaded
    \* history and bounds
    cause,      \* what can leave the channel behind since the ledger was last read
    landed,     \* the quantity of the last push that was recorded
    edits, troubles

queue == <<job, attempts, stalls>>
worker == <<phase, read>>
row == <<listed, status, flagged>>
bounds == <<edits, troubles>>
vars == <<wanted, row, enabled, live, queue, worker, owed, sweep, seen, cause, landed, bounds>>

JobState == {"none", "waiting", "active", "failed"}
Phase == {"idle", "picked", "begun", "read", "pushed", "recorded"}
Cause == {"swallowed", "held", "lost", "disabled", "failed", "seller"}

Snapshot == [Op -> Value]

Init ==
    \E v \in Value :
        /\ wanted = [op \in Op |-> v]
        /\ listed = v
        /\ status = "listed"
        /\ enabled = TRUE
        /\ flagged = FALSE
        /\ live = [op \in Op |-> v]
        /\ job = [op \in Op |-> "none"]
        /\ attempts = [op \in Op |-> 0]
        /\ stalls = [op \in Op |-> 0]
        /\ phase = [op \in Op |-> "idle"]
        /\ read = [op \in Op |-> Null]
        /\ owed = [e \in Caller |-> Null]
        /\ sweep = "idle"
        /\ seen = Null
        /\ cause = [op \in Op |-> {}]
        /\ landed = v
        /\ edits = 0
        /\ troubles = 0

Trouble == troubles < MaxTroubles /\ troubles' = troubles + 1

-------------------------------------------------------------------------------
(***************************************************************************)
(* The queue.  A job keeps its id while it waits, runs or is kept as       *)
(* failed, and adding a job under an id that is taken does nothing.        *)
(***************************************************************************)

\* Some attempt has yet to read the ledger.  A job whose worker died is not over.
WillRead(op) ==
    \/ job[op] = "waiting"
    \/ job[op] = "active" /\ phase[op] \in {"idle", "picked", "begun"}

Add(op) ==
    IF job[op] = "none"
    THEN /\ job' = [job EXCEPT ![op] = "waiting"]
         /\ attempts' = [attempts EXCEPT ![op] = 0]
         /\ stalls' = [stalls EXCEPT ![op] = 0]
         /\ UNCHANGED cause
    ELSE /\ cause' = [cause EXCEPT ![op] = @ \cup
                        (IF job[op] = "failed" THEN {"held"}
                         ELSE IF ~WillRead(op) /\ read[op][op] # wanted[op]
                         THEN {"swallowed"} ELSE {})]
         /\ UNCHANGED queue

\* removeOnComplete: the id is free again.
Remove(op) == job' = [job EXCEPT ![op] = "none"]

\* removeOnFail: a failed job is kept, and at some time a week later dropped.
Expire(op) ==
    /\ job[op] = "failed"
    /\ Remove(op)
    /\ UNCHANGED <<wanted, row, enabled, live, attempts, stalls, worker, owed, sweep, seen,
                   cause, landed, bounds>>

-------------------------------------------------------------------------------
(***************************************************************************)
(* Callers: a mutation of the ledger, or repricing's applyPrice.           *)
(***************************************************************************)

Edit(e, op, v) ==
    /\ owed[e] = Null
    /\ edits < MaxEdits
    /\ v # wanted[op]
    /\ wanted' = [wanted EXCEPT ![op] = v]
    /\ owed' = [owed EXCEPT ![e] = [op |-> op, from |-> wanted[op]]]
    /\ edits' = edits + 1
    /\ UNCHANGED <<row, enabled, live, queue, worker, sweep, seen, cause, landed, troubles>>

\* Mutant of Enqueue: a quantity is pushed if it differs from listedQuantity.
EnqueueUnlessListed(e) ==
    /\ owed[e] # Null
    /\ owed' = [owed EXCEPT ![e] = Null]
    /\ LET op == owed[e].op
       IN  IF op = "price" \/ (enabled /\ wanted[op] # listed)
           THEN Add(op)
           ELSE UNCHANGED <<queue, cause>>
    /\ UNCHANGED <<wanted, row, enabled, live, worker, sweep, seen, landed, bounds>>

\* A quantity is pushed if it differs from the one before this caller's commit and the
\* channel is enabled; a price always.
Enqueue(e) ==
    /\ owed[e] # Null
    /\ owed' = [owed EXCEPT ![e] = Null]
    /\ LET op == owed[e].op
           moved == op = "price" \/ wanted[op] # owed[e].from
       IN  CASE moved /\ (op = "price" \/ enabled) -> Add(op)
             [] moved /\ op = "quantity" /\ ~enabled ->
                    /\ cause' = [cause EXCEPT ![op] = @ \cup {"disabled"}]
                    /\ UNCHANGED queue
             [] OTHER -> UNCHANGED <<queue, cause>>
    /\ UNCHANGED <<wanted, row, enabled, live, worker, sweep, seen, landed, bounds>>

\* The caller dies before it queued the push, or the queue cannot be reached.
LosePush(e) ==
    /\ owed[e] # Null
    /\ Trouble
    /\ owed' = [owed EXCEPT ![e] = Null]
    /\ cause' = [cause EXCEPT ![owed[e].op] = @ \cup {"lost"}]
    /\ UNCHANGED <<wanted, row, enabled, live, queue, worker, sweep, seen, landed, edits>>

-------------------------------------------------------------------------------
(***************************************************************************)
(* The outbound worker: one attempt of a job.                              *)
(***************************************************************************)

At(op, label) == phase' = [phase EXCEPT ![op] = label]

\* The attempt is over, and what it read is gone.
Leave(op) == At(op, "idle") /\ read' = [read EXCEPT ![op] = Null]

Pick(op) ==
    /\ job[op] = "waiting"
    /\ job' = [job EXCEPT ![op] = "active"]
    /\ At(op, "picked")
    /\ UNCHANGED <<wanted, row, enabled, live, attempts, stalls, read, owed, sweep, seen,
                   cause, landed, bounds>>

\* A disabled channel ends the job in silence.
Begin(op) ==
    /\ phase[op] = "picked"
    /\ IF enabled
       THEN At(op, "begun") /\ UNCHANGED <<job, cause>>
       ELSE /\ At(op, "idle")
            /\ Remove(op)
            /\ cause' = [cause EXCEPT ![op] = @ \cup {"disabled"}]
    /\ UNCHANGED <<wanted, row, enabled, live, attempts, stalls, read, owed, sweep, seen,
                   landed, bounds>>

\* The figures are read now, whatever the job was queued for.
ReadLedger(op) ==
    /\ phase[op] = "begun"
    /\ read' = [read EXCEPT ![op] = wanted]
    /\ cause' = [cause EXCEPT ![op] = {}]
    /\ At(op, "read")
    /\ UNCHANGED <<wanted, row, enabled, live, queue, owed, sweep, seen, landed, bounds>>

Push(op) ==
    /\ phase[op] = "read"
    /\ live' = [live EXCEPT ![op] = read[op][op]]
    /\ At(op, "pushed")
    /\ UNCHANGED <<wanted, row, enabled, queue, read, owed, sweep, seen, cause, landed, bounds>>

\* Every push records the quantity of its snapshot, a price push included.
Record(op) ==
    /\ phase[op] = "pushed"
    /\ listed' = read[op]["quantity"]
    /\ status' = "listed"
    /\ landed' = IF op = "quantity" THEN read[op]["quantity"] ELSE landed
    /\ At(op, "recorded")
    /\ UNCHANGED <<wanted, enabled, flagged, live, queue, read, owed, sweep, seen, cause, bounds>>

Complete(op) ==
    /\ phase[op] = "recorded"
    /\ Leave(op)
    /\ Remove(op)
    /\ UNCHANGED <<wanted, row, enabled, live, attempts, stalls, owed, sweep, seen,
                   cause, landed, bounds>>

\* Mutant of Throw: an error that is not final is swallowed, and the job is over.
ThrowNothing(op, terminal) ==
    /\ Leave(op)
    /\ attempts' = [attempts EXCEPT ![op] = @ + 1]
    /\ job' = [job EXCEPT ![op] = IF terminal THEN "failed" ELSE "none"]
    /\ cause' = [cause EXCEPT ![op] = IF terminal THEN @ \cup {"failed"} ELSE @]

\* The attempt threw: the job waits for its next attempt or is failed for good.
Throw(op, terminal) ==
    /\ Leave(op)
    /\ attempts' = [attempts EXCEPT ![op] = @ + 1]
    /\ job' = [job EXCEPT ![op] = IF terminal THEN "failed" ELSE "waiting"]
    /\ cause' = [cause EXCEPT ![op] = IF terminal THEN @ \cup {"failed"} ELSE @]

\* Mutant of IsLastAttempt: off by one.
IsLastAttemptLate(op) == attempts[op] >= MaxAttempts

IsLastAttempt(op) == attempts[op] + 1 >= MaxAttempts

\* The allocation or the channel cannot be resolved: nothing is marked or flagged.
FailUnmarked(op) ==
    /\ phase[op] = "picked"
    /\ \E unrecoverable \in BOOLEAN : Throw(op, unrecoverable \/ IsLastAttempt(op))
    /\ UNCHANGED <<wanted, row, enabled, live, stalls, owed, sweep, seen, landed, bounds>>

\* Reading, pushing or recording failed; a push may have landed all the same.
Fail(op) ==
    /\ phase[op] \in {"begun", "read", "pushed"}
    /\ live' \in {live} \cup IF phase[op] = "read"
                             THEN {[live EXCEPT ![op] = read[op][op]]} ELSE {}
    /\ \E unrecoverable \in BOOLEAN :
        LET terminal == unrecoverable \/ IsLastAttempt(op)
        IN  /\ Throw(op, terminal)
            /\ status' = IF terminal THEN "error" ELSE status
            /\ flagged' = (flagged \/ terminal)
    /\ UNCHANGED <<wanted, listed, enabled, stalls, owed, sweep, seen, landed, bounds>>

WorkerDies(op) ==
    /\ phase[op] # "idle"
    /\ Trouble
    /\ Leave(op)
    /\ UNCHANGED <<wanted, row, enabled, live, queue, owed, sweep, seen, cause, landed,
                   edits>>

\* BullMQ finds a job whose worker no longer renews its lock.
Recover(op) ==
    /\ job[op] = "active"
    /\ phase[op] = "idle"
    /\ IF stalls[op] < MaxStalls
       THEN /\ stalls' = [stalls EXCEPT ![op] = @ + 1]
            /\ job' = [job EXCEPT ![op] = "waiting"]
            /\ UNCHANGED cause
       ELSE /\ job' = [job EXCEPT ![op] = "failed"]
            /\ cause' = [cause EXCEPT ![op] = @ \cup {"failed"}]
            /\ UNCHANGED stalls
    /\ UNCHANGED <<wanted, row, enabled, live, attempts, worker, owed, sweep, seen, landed,
                   bounds>>

-------------------------------------------------------------------------------
(***************************************************************************)
(* Reconciliation: load what we believe, ask the channel, push again.      *)
(***************************************************************************)

SweepLoad ==
    /\ sweep = "idle"
    /\ enabled
    /\ sweep' = "loaded"
    /\ seen' = listed
    /\ UNCHANGED <<wanted, row, enabled, live, queue, worker, owed, cause, landed, bounds>>

\* Mutant of SweepCompare: the channel is compared with what the ledger asks for.
SweepCompareWanted ==
    /\ sweep = "loaded"
    /\ sweep' = IF live["quantity"] # wanted["quantity"] THEN "drifted" ELSE "idle"
    /\ seen' = Null
    /\ UNCHANGED <<wanted, row, enabled, live, queue, worker, owed, cause, landed, bounds>>

\* Drift is a difference with what was last pushed; nothing else is acted on.
SweepCompare ==
    /\ sweep = "loaded"
    /\ sweep' = IF live["quantity"] # seen THEN "drifted" ELSE "idle"
    /\ seen' = Null
    /\ UNCHANGED <<wanted, row, enabled, live, queue, worker, owed, cause, landed, bounds>>

SweepCorrect ==
    /\ sweep = "drifted"
    /\ sweep' = "idle"
    /\ IF AutoCorrect THEN Add("quantity") ELSE UNCHANGED <<queue, cause>>
    /\ UNCHANGED <<wanted, row, enabled, live, worker, owed, seen, landed, bounds>>

\* The platform or the queue does not answer, or the process dies.
SweepDies ==
    /\ sweep # "idle"
    /\ Trouble
    /\ sweep' = "idle"
    /\ seen' = Null
    /\ UNCHANGED <<wanted, row, enabled, live, queue, worker, owed, cause, landed, edits>>

-------------------------------------------------------------------------------
(***************************************************************************)
(* People: the seller on the platform, the operator in the hub.            *)
(***************************************************************************)

SellerEdit(op, v) ==
    /\ v # live[op]
    /\ Trouble
    /\ live' = [live EXCEPT ![op] = v]
    /\ cause' = [cause EXCEPT ![op] = @ \cup {"seller"}]
    /\ UNCHANGED <<wanted, row, enabled, queue, worker, owed, sweep, seen, landed, edits>>

Toggle ==
    /\ Trouble
    /\ enabled' = ~enabled
    /\ UNCHANGED <<wanted, row, live, queue, worker, owed, sweep, seen, cause, landed, edits>>

ResolveAlert ==
    /\ flagged
    /\ flagged' = FALSE
    /\ UNCHANGED <<wanted, listed, status, enabled, live, queue, worker, owed, sweep, seen,
                   cause, landed, bounds>>

-------------------------------------------------------------------------------
Work(op) ==
    \/ Pick(op) \/ Begin(op) \/ ReadLedger(op) \/ Push(op) \/ Record(op) \/ Complete(op)
    \/ FailUnmarked(op) \/ Fail(op)

Next ==
    \/ \E op \in Op : Work(op) \/ WorkerDies(op) \/ Recover(op) \/ Expire(op)
    \/ \E e \in Caller : Enqueue(e) \/ LosePush(e)
    \/ \E e \in Caller, op \in Op, v \in Value : Edit(e, op, v)
    \/ SweepLoad \/ SweepCompare \/ SweepCorrect \/ SweepDies
    \/ \E op \in Op, v \in Value : SellerEdit(op, v)
    \/ Toggle \/ ResolveAlert

Spec == Init /\ [][Next]_vars

\* A process that is not killed goes on, BullMQ runs what waits and checks for stalled
\* jobs, and the sweep is scheduled again and again.
Fairness ==
    /\ \A op \in Op : WF_vars(Work(op)) /\ WF_vars(Recover(op))
    /\ \A e \in Caller : WF_vars(Enqueue(e))
    /\ WF_vars(SweepLoad \/ SweepCompare \/ SweepCorrect)

FairSpec == Spec /\ Fairness

-------------------------------------------------------------------------------
(***************************************************************************)
(* Properties                                                              *)
(***************************************************************************)

\* The types of the state: an attempt has a snapshot of ledger figures or none, and no
\* job is tried more often than the queue allows.
TypeOK ==
    /\ wanted \in Snapshot /\ live \in Snapshot
    /\ listed \in Value /\ landed \in Value
    /\ status \in {"listed", "error"}
    /\ enabled \in BOOLEAN /\ flagged \in BOOLEAN
    /\ job \in [Op -> JobState]
    /\ attempts \in [Op -> 0..MaxAttempts]
    /\ stalls \in [Op -> 0..MaxStalls]
    /\ phase \in [Op -> Phase]
    /\ read \in [Op -> Snapshot \cup {Null}]
    /\ owed \in [Caller -> [op: Op, from: Value] \cup {Null}]
    /\ sweep \in {"idle", "loaded", "drifted"}
    /\ seen \in Value \cup {Null}
    /\ cause \in [Op -> SUBSET Cause]
    /\ edits \in 0..MaxEdits /\ troubles \in 0..MaxTroubles

Settled ==
    /\ \A op \in Op : job[op] \in {"none", "failed"}
    /\ \A e \in Caller : owed[e] = Null

\* A channel shows something other than the ledger asks for only while a caller owes it a
\* push, an attempt that has not read the ledger is to come, an attempt that read what the
\* ledger asks for is about to push it, or for one of the listed causes since.
StaleExplained ==
    \A op \in Op :
        live[op] # wanted[op] =>
            \/ \E e \in Caller : owed[e] # Null /\ owed[e].op = op
            \/ WillRead(op)
            \/ phase[op] = "read" /\ read[op][op] = wanted[op]
            \/ cause[op] # {}

\* "Safe precisely because the payload carries no value: whichever job survives reads the
\* latest state": when all is quiet and nothing went wrong but that pushes were collapsed
\* into a job, the channel shows the latest state.
CollapsingIsSafe ==
    (Settled /\ \A op \in Op : cause[op] \subseteq {"swallowed"}) => live = wanted

\* "Only now does the cached belief about the channel become true": listedQuantity is the
\* quantity last pushed.
ListedWasPushed == listed = landed

\* A channel catches up with the ledger, unless something on the list of causes happened.
Converges ==
    \A op \in Op : []<>(live[op] = wanted[op] \/ cause[op] # {})

\* A quantity that differs from what was last pushed is pushed again by the sweep, unless
\* the channel is disabled or a failed job holds the id.
DriftIsRepaired ==
    []<>(live["quantity"] = listed \/ ~enabled \/ job["quantity"] = "failed")
===============================================================================
