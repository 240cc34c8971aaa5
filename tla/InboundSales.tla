------------------------------ MODULE InboundSales -----------------------------
(***************************************************************************)
(* How a sale on a channel becomes a decrement of the ledger: the webhook  *)
(* endpoint and the upload of an order file, which store a payload as a    *)
(* WebhookEvent row and queue its id; the inbound queue; and the inbound   *)
(* worker, which applies a payload's sales one by one and keeps one        *)
(* SyncEvent row per attempt, by which it knows a sale it has applied.     *)
(* Only the commit of a sale is seen here of the ledger: InventoryLedger   *)
(* is what happens inside.                                                 *)
(***************************************************************************)
EXTENDS Integers, Sequences, FiniteSets

CONSTANTS
    Sale,           \* sales, told apart by SaleEvent.externalEventId
    Webhook, File,  \* payloads: a webhook's body, the bytes of an uploaded export
    SalesIn,        \* the sales a payload lists, in its order
    InitialOnHand,
    MaxAttempts,    \* attempts of an inbound job
    MaxStalls,      \* how often BullMQ requeues a job whose worker went silent
    Concurrency,    \* jobs the worker runs at once
    MaxTroubles     \* bound: failed calls, killed processes, payloads not understood

Payload == Webhook \cup File

ASSUME PayloadAssumption ==
    /\ Webhook \cap File = {}
    /\ SalesIn \in [Payload -> Seq(Sale)]
ASSUME LimitsAssumption ==
    /\ {InitialOnHand, MaxStalls, MaxTroubles} \subseteq Nat
    /\ {MaxAttempts, Concurrency} \subseteq Nat \ {0}

VARIABLES
    \* the database
    row,        \* WebhookEvent.status, "none" before the row exists
    outcomes,   \* per sale, the outcomes of the SyncEvent rows that name it
    mapped,     \* sales whose listing some allocation carries
    onHand,
    \* the queue
    job, attempts, stalls,
    \* payloads stored by a request that has yet to queue them
    owed,
    \* the worker's run of a payload's job
    phase,
    at,         \* the sale it is at
    conflict,   \* whether the ledger reported one for that sale
    \* history and bounds
    taken,      \* how often the ledger was decremented for a sale
    slips,      \* why an application of the sale may go unnoticed by the next
    abandoned,  \* payloads never queued, or whose job failed and was not queued anew
    troubles

queue == <<job, attempts, stalls>>
run == <<phase, at, conflict>>
history == <<taken, slips, abandoned>>
vars == <<row, outcomes, mapped, onHand, queue, owed, run, history, troubles>>

Row == {"none", "received", "processed", "failed"}
Outcome == {"ok", "conflict", "error", "unmapped"}
JobState == {"none", "waiting", "active", "failed", "completed"}
Phase == {"idle", "picked", "next", "begun", "sold", "unparsed", "done"}
Slip == {"conflict", "error", "lost", "killed", "overlap"}

Init ==
    /\ row = [p \in Payload |-> "none"]
    /\ outcomes = [s \in Sale |-> {}]
    /\ mapped \in SUBSET Sale
    /\ onHand = InitialOnHand
    /\ job = [p \in Payload |-> "none"]
    /\ attempts = [p \in Payload |-> 0]
    /\ stalls = [p \in Payload |-> 0]
    /\ owed = {}
    /\ phase = [p \in Payload |-> "idle"]
    /\ at = [p \in Payload |-> 1]
    /\ conflict = [p \in Payload |-> FALSE]
    /\ taken = [s \in Sale |-> 0]
    /\ slips = [s \in Sale |-> {}]
    /\ abandoned = {}
    /\ troubles = 0

Trouble == troubles < MaxTroubles /\ troubles' = troubles + 1

-------------------------------------------------------------------------------
(***************************************************************************)
(* Ingress.  The row is stored first and its id is queued in a later call. *)
(* A delivery that finds its row does nothing; of two that do not, the     *)
(* unique key lets one create it.                                          *)
(***************************************************************************)

Receive(w) ==
    /\ row[w] = "none"
    /\ row' = [row EXCEPT ![w] = "received"]
    /\ owed' = owed \cup {w}
    /\ UNCHANGED <<outcomes, mapped, onHand, queue, run, history, troubles>>

TakesUpload(f) == row[f] \in {"none", "failed"}

\* A file whose row says failed is taken again; any other the hub knows is a duplicate.
Upload(f) ==
    /\ TakesUpload(f)
    /\ row' = [row EXCEPT ![f] = "received"]
    /\ owed' = owed \cup {f}
    /\ UNCHANGED <<outcomes, mapped, onHand, queue, run, history, troubles>>

\* Mutant of Enqueue: without a job id of its own, every call adds a job.
EnqueueWithoutId(p) ==
    /\ p \in owed
    /\ owed' = owed \ {p}
    /\ job' = [job EXCEPT ![p] = "waiting"]
    /\ attempts' = [attempts EXCEPT ![p] = 0]
    /\ stalls' = [stalls EXCEPT ![p] = 0]
    /\ abandoned' = abandoned \ {p}
    /\ UNCHANGED <<row, outcomes, mapped, onHand, run, taken, slips, troubles>>

\* Adding a job under an id the queue still holds, finished or not, does nothing.
Enqueue(p) ==
    /\ p \in owed
    /\ owed' = owed \ {p}
    /\ IF job[p] = "none"
       THEN /\ job' = [job EXCEPT ![p] = "waiting"]
            /\ attempts' = [attempts EXCEPT ![p] = 0]
            /\ stalls' = [stalls EXCEPT ![p] = 0]
            /\ abandoned' = abandoned \ {p}
       ELSE UNCHANGED <<queue, abandoned>>
    /\ UNCHANGED <<row, outcomes, mapped, onHand, run, taken, slips, troubles>>

\* Redis is away, or the process ends between the row and the job.
EnqueueFails(p) ==
    /\ p \in owed
    /\ Trouble
    /\ owed' = owed \ {p}
    /\ abandoned' = abandoned \cup {p}
    /\ UNCHANGED <<row, outcomes, mapped, onHand, queue, run, taken, slips>>

\* The seller, or the push that lists the item, ties the listing to an allocation.
LinkListing(s) ==
    /\ s \notin mapped
    /\ mapped' = mapped \cup {s}
    /\ UNCHANGED <<row, outcomes, onHand, queue, owed, run, history, troubles>>

-------------------------------------------------------------------------------
(***************************************************************************)
(* The queue.  A failed job is kept for a week, and with it its id.        *)
(***************************************************************************)

Active == {p \in Payload : job[p] = "active"}

Pick(p) ==
    /\ job[p] = "waiting"
    /\ Cardinality(Active) < Concurrency
    /\ job' = [job EXCEPT ![p] = "active"]
    /\ phase' = [phase EXCEPT ![p] = "picked"]
    /\ UNCHANGED <<row, outcomes, mapped, onHand, attempts, stalls, owed, at, conflict,
                   history, troubles>>

Fails(p) ==
    /\ job' = [job EXCEPT ![p] = "failed"]
    /\ abandoned' = abandoned \cup {p}

EndRun(p) ==
    /\ phase' = [phase EXCEPT ![p] = "idle"]
    /\ at' = [at EXCEPT ![p] = 1]
    /\ conflict' = [conflict EXCEPT ![p] = FALSE]

IsLastAttempt(p) == attempts[p] + 1 >= MaxAttempts

\* An exception leaves the handler: the job waits for another attempt or fails.
Thrown(p) ==
    /\ EndRun(p)
    /\ attempts' = [attempts EXCEPT ![p] = @ + 1]
    /\ IF IsLastAttempt(p)
       THEN Fails(p)
       ELSE /\ job' = [job EXCEPT ![p] = "waiting"]
            /\ UNCHANGED abandoned
    /\ UNCHANGED stalls

\* UnrecoverableError: no further attempt.
Refused(p) ==
    /\ EndRun(p)
    /\ attempts' = [attempts EXCEPT ![p] = @ + 1]
    /\ Fails(p)
    /\ UNCHANGED stalls

Completed(p) ==
    /\ EndRun(p)
    /\ job' = [job EXCEPT ![p] = "completed"]
    /\ UNCHANGED <<attempts, stalls>>

\* The worker's process ends.  The job stays active until its lock is found expired.
Dies(p) ==
    /\ job[p] = "active" /\ phase[p] # "idle"
    /\ Trouble
    /\ EndRun(p)
    /\ slips' = IF phase[p] = "sold"
                THEN [slips EXCEPT ![SalesIn[p][at[p]]] = @ \cup {"killed"}]
                ELSE slips
    /\ UNCHANGED <<row, outcomes, mapped, onHand, queue, owed, taken, abandoned>>

\* Mutant of Recover: a job that stalled too often is left as it is.
RecoverWhileAllowed(p) ==
    /\ job[p] = "active" /\ phase[p] = "idle"
    /\ stalls[p] < MaxStalls
    /\ job' = [job EXCEPT ![p] = "waiting"]
    /\ stalls' = [stalls EXCEPT ![p] = @ + 1]
    /\ UNCHANGED <<row, outcomes, mapped, onHand, attempts, owed, run, history, troubles>>

Recover(p) ==
    /\ job[p] = "active" /\ phase[p] = "idle"
    /\ IF stalls[p] < MaxStalls
       THEN /\ job' = [job EXCEPT ![p] = "waiting"]
            /\ stalls' = [stalls EXCEPT ![p] = @ + 1]
            /\ UNCHANGED abandoned
       ELSE /\ Fails(p)
            /\ UNCHANGED stalls
    /\ UNCHANGED <<row, outcomes, mapped, onHand, attempts, owed, run, taken, slips,
                   troubles>>

\* removeOnFail's age, removeOnComplete's count: the id is free again.
Forget(p) ==
    /\ job[p] \in {"failed", "completed"}
    /\ job' = [job EXCEPT ![p] = "none"]
    /\ UNCHANGED <<row, outcomes, mapped, onHand, attempts, stalls, owed, run, history,
                   troubles>>

-------------------------------------------------------------------------------
(***************************************************************************)
(* The worker's handler.                                                   *)
(***************************************************************************)

\* The row is read and the payload parsed.  A row already processed ends the job.
Load(p) ==
    /\ phase[p] = "picked"
    /\ \/ /\ row[p] = "processed"
          /\ Completed(p)
          /\ UNCHANGED troubles
       \/ /\ row[p] # "processed"
          /\ phase' = [phase EXCEPT ![p] = "next"]
          /\ UNCHANGED <<queue, at, conflict, troubles>>
       \/ /\ row[p] # "processed"
          /\ Trouble
          /\ phase' = [phase EXCEPT ![p] = "unparsed"]
          /\ UNCHANGED <<queue, at, conflict>>
    /\ UNCHANGED <<row, outcomes, mapped, onHand, owed, history>>

\* A payload that does not parse: the row is marked, then the job refused.
MarkFailed(p) ==
    /\ phase[p] = "unparsed"
    /\ IF row[p] # "failed"
       THEN /\ row' = [row EXCEPT ![p] = "failed"]
            /\ UNCHANGED <<queue, run, abandoned>>
       ELSE /\ Refused(p)
            /\ UNCHANGED row
    /\ UNCHANGED <<outcomes, mapped, onHand, owed, taken, slips, troubles>>

Selling(p) == at[p] <= Len(SalesIn[p])

Current(p) == SalesIn[p][at[p]]

\* Mutant of AlreadyApplied: any row of the sale counts.
AlreadyAttempted(s) == outcomes[s] # {}

\* Mutant of AlreadyApplied: a sale is known by the delivery alone.
NeverApplied(s) == FALSE

AlreadyApplied(s) == "ok" \in outcomes[s]

SkipApplied(p) ==
    /\ phase[p] = "next" /\ Selling(p)
    /\ AlreadyApplied(Current(p))
    /\ at' = [at EXCEPT ![p] = @ + 1]
    /\ UNCHANGED <<row, outcomes, mapped, onHand, queue, owed, phase, conflict, history,
                   troubles>>

\* No allocation has this listing: a conflict is recorded and a flag raised.
RecordUnmapped(p) ==
    /\ phase[p] = "next" /\ Selling(p)
    /\ ~AlreadyApplied(Current(p))
    /\ Current(p) \notin mapped
    /\ outcomes' = [outcomes EXCEPT ![Current(p)] = @ \cup {"unmapped"}]
    /\ at' = [at EXCEPT ![p] = @ + 1]
    /\ UNCHANGED <<row, mapped, onHand, queue, owed, phase, conflict, history, troubles>>

\* The check, the lookup and the pending row: between them and the commit others run.
Begin(p) ==
    /\ phase[p] = "next" /\ Selling(p)
    /\ ~AlreadyApplied(Current(p))
    /\ Current(p) \in mapped
    /\ phase' = [phase EXCEPT ![p] = "begun"]
    /\ UNCHANGED <<row, outcomes, mapped, onHand, queue, owed, at, conflict, history,
                   troubles>>

\* Another run took this sale since this one checked it.
CheckIsStale(p) ==
    \/ AlreadyApplied(Current(p))
    \/ \E q \in Payload \ {p} : phase[q] = "sold" /\ Current(q) = Current(p)

\* The ledger takes the sale: an oversell is clamped, and, like a reserve or an
\* allocation that had to give, reported as a conflict.
Commit(p) ==
    /\ phase[p] = "begun"
    /\ \E c \in BOOLEAN :
        /\ onHand = 0 => c
        /\ conflict' = [conflict EXCEPT ![p] = c]
    /\ onHand' = IF onHand = 0 THEN 0 ELSE onHand - 1
    /\ taken' = [taken EXCEPT ![Current(p)] = @ + 1]
    /\ slips' = [slips EXCEPT ![Current(p)] =
                     IF CheckIsStale(p) THEN @ \cup {"overlap"} ELSE @]
    /\ phase' = [phase EXCEPT ![p] = "sold"]
    /\ UNCHANGED <<row, outcomes, mapped, queue, owed, at, abandoned, troubles>>

\* The alerts are raised and the row gets its outcome; a failure to write it is swallowed.
Finish(p) ==
    /\ phase[p] = "sold"
    /\ LET outcome == IF conflict[p] THEN "conflict" ELSE "ok"
       IN  \/ /\ outcomes' = [outcomes EXCEPT ![Current(p)] = @ \cup {outcome}]
              /\ slips' = [slips EXCEPT ![Current(p)] =
                               IF conflict[p] THEN @ \cup {"conflict"} ELSE @]
              /\ UNCHANGED troubles
           \/ /\ Trouble
              /\ slips' = [slips EXCEPT ![Current(p)] = @ \cup {"lost"}]
              /\ UNCHANGED outcomes
    /\ at' = [at EXCEPT ![p] = @ + 1]
    /\ phase' = [phase EXCEPT ![p] = "next"]
    /\ conflict' = [conflict EXCEPT ![p] = FALSE]
    /\ UNCHANGED <<row, mapped, onHand, queue, owed, taken, abandoned>>

\* Contention, a vanished item or the database: the sale throws before its commit, or
\* after it (the ledger's read-back, the alerts).  Either way the row says error.
SaleThrows(p) ==
    /\ phase[p] \in {"begun", "sold"}
    /\ Trouble
    /\ outcomes' = [outcomes EXCEPT ![Current(p)] = @ \cup {"error"}]
    /\ slips' = [slips EXCEPT ![Current(p)] =
                     IF phase[p] = "sold" THEN @ \cup {"error"} ELSE @]
    /\ Thrown(p)
    /\ UNCHANGED <<row, mapped, onHand, owed, taken>>

\* The channel cannot be resolved, or the database fails, outside of a sale.
StepThrows(p) ==
    /\ phase[p] \in {"picked", "next"}
    /\ Trouble
    /\ Thrown(p)
    /\ UNCHANGED <<row, outcomes, mapped, onHand, owed, taken, slips>>

MarkProcessed(p) ==
    /\ phase[p] = "next" /\ ~Selling(p)
    /\ row' = [row EXCEPT ![p] = "processed"]
    /\ phase' = [phase EXCEPT ![p] = "done"]
    /\ UNCHANGED <<outcomes, mapped, onHand, queue, owed, at, conflict, history, troubles>>

Complete(p) ==
    /\ phase[p] = "done"
    /\ Completed(p)
    /\ UNCHANGED <<row, outcomes, mapped, onHand, owed, history, troubles>>

Ingress == (\E w \in Webhook : Receive(w)) \/ (\E f \in File : Upload(f))

Step(p) ==
    \/ Load(p) \/ MarkFailed(p)
    \/ SkipApplied(p) \/ RecordUnmapped(p) \/ Begin(p)
    \/ Commit(p) \/ Finish(p)
    \/ MarkProcessed(p) \/ Complete(p)

Next ==
    \/ Ingress
    \/ \E s \in Sale : LinkListing(s)
    \/ \E p \in Payload :
        \/ Enqueue(p) \/ EnqueueFails(p)
        \/ Pick(p) \/ Step(p) \/ SaleThrows(p) \/ StepThrows(p)
        \/ Dies(p) \/ Recover(p) \/ Forget(p)

Spec == Init /\ [][Next]_vars

\* A process goes on, and a queue with a live worker hands out and recovers its jobs.
\* Nothing makes a platform deliver, a seller upload or link, or Redis forget a job.
FairSpec ==
    /\ Spec
    /\ \A p \in Payload : WF_vars(Enqueue(p)) /\ WF_vars(Pick(p)) /\ WF_vars(Step(p))
                          /\ WF_vars(Recover(p))

-------------------------------------------------------------------------------
(***************************************************************************)
(* Properties                                                              *)
(***************************************************************************)

\* Every variable has its type, a job runs at most MaxAttempts times, the worker never
\* runs more than Concurrency of them, and a payload is never queued while it runs.
TypeOK ==
    /\ row \in [Payload -> Row]
    /\ outcomes \in [Sale -> SUBSET Outcome]
    /\ mapped \subseteq Sale
    /\ onHand \in 0..InitialOnHand
    /\ job \in [Payload -> JobState]
    /\ attempts \in [Payload -> 0..MaxAttempts]
    /\ stalls \in [Payload -> 0..MaxStalls]
    /\ owed \subseteq Payload
    /\ phase \in [Payload -> Phase]
    /\ at \in [Payload -> Nat \ {0}]
    /\ conflict \in [Payload -> BOOLEAN]
    /\ taken \in [Sale -> Nat]
    /\ slips \in [Sale -> SUBSET Slip]
    /\ abandoned \subseteq Payload
    /\ troubles \in 0..MaxTroubles
    /\ Cardinality(Active) <= Concurrency
    /\ \A p \in Payload : phase[p] # "idle" => job[p] = "active"

\* The ledger is decremented twice for a sale only if an application of it ended
\* without an "ok" row (a conflict, an error after the commit, a lost write, a killed
\* process) or two runs were inside applySale for it at once: whatever the redeliveries,
\* retries and payloads that repeat it, nothing else gets past the per-sale check.
AppliedTwiceIsExplained ==
    \A s \in Sale : taken[s] > 1 => slips[s] # {}

\* A payload marked processed had each of its sales taken from the ledger, or recorded
\* as one of a listing the hub does not manage: no error, retry or crash loses a sale.
ProcessedIsAccountedFor ==
    \A p \in Payload : row[p] = "processed" =>
        \A i \in DOMAIN SalesIn[p] :
            taken[SalesIn[p][i]] > 0 \/ "unmapped" \in outcomes[SalesIn[p][i]]

\* A stored payload is processed, or marked failed, or its job fails, or it was never
\* queued: no order of deaths, stalls and retries leaves it behind with none of these.
Settles ==
    \A p \in Payload :
        row[p] = "received" ~>
            \/ row[p] \in {"processed", "failed"}
            \/ job[p] = "failed"
            \/ p \in abandoned

\* "Per-sale keys come from the connector and are what actually stop a double
\* decrement" (channel-files.service.ts): a sale decrements the ledger once.
AppliedOnce == \A s \in Sale : taken[s] <= 1

\* "The operator re-uploading is how they retry, so reuse the row and queue it again
\* rather than telling them it is a duplicate and leaving it stuck": a file whose job
\* failed and whose sales were not all applied is taken again when it is uploaded.
FailedUploadCanBeRetried ==
    \A f \in File :
        job[f] = "failed" /\ row[f] # "processed" => TakesUpload(f) \/ f \in owed

-------------------------------------------------------------------------------
(***************************************************************************)
(* The invariant behind the properties.                                    *)
(***************************************************************************)

\* A job that is still to run has an attempt left.
AttemptsLeft ==
    \A p \in Payload : job[p] \in {"waiting", "active"} => attempts[p] < MaxAttempts

\* A run that applies a sale is at one.
RunsAreAtASale ==
    \A p \in Payload : phase[p] \in {"begun", "sold"} => Selling(p)

\* A run starts at the first sale of its payload.
RunsStartAtFirst ==
    \A p \in Payload : phase[p] \in {"idle", "picked"} => at[p] = 1

\* A sale that was taken without a slip was taken once, and either its row says ok or
\* the run that took it has yet to write so.
TakenOnceWithoutSlip ==
    \A s \in Sale : slips[s] = {} /\ taken[s] > 0 =>
        /\ taken[s] = 1
        /\ \/ "ok" \in outcomes[s]
           \/ \E p \in Payload : phase[p] = "sold" /\ Current(p) = s

\* Only a sale that was taken is known as applied, or about to be.
AppliedMeansTaken ==
    /\ \A s \in Sale : "ok" \in outcomes[s] => taken[s] > 0
    /\ \A p \in Payload : phase[p] = "sold" => taken[Current(p)] > 0

Accounted(s) == taken[s] > 0 \/ "unmapped" \in outcomes[s]

\* A run accounts for a sale before it goes on to the next, and for all before it ends.
RunsAccountInOrder ==
    \A p \in Payload :
        /\ phase[p] \in {"next", "begun", "sold"} =>
            \A i \in DOMAIN SalesIn[p] : i < at[p] => Accounted(SalesIn[p][i])
        /\ phase[p] = "done" =>
            \A i \in DOMAIN SalesIn[p] : Accounted(SalesIn[p][i])

IInv ==
    /\ TypeOK
    /\ IsFiniteSet(Active)
    /\ AttemptsLeft
    /\ RunsAreAtASale
    /\ RunsStartAtFirst
    /\ TakenOnceWithoutSlip
    /\ AppliedMeansTaken
    /\ RunsAccountInOrder
    /\ ProcessedIsAccountedFor

================================================================================
