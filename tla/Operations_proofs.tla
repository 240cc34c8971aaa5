----------------------------- MODULE Operations_proofs -----------------------------
(***************************************************************************)
(* Proofs about what MC_Operations puts side by side, for any values of    *)
(* the constants and whatever runs beside.  OutboundSync: a channel that   *)
(* is behind the ledger is behind for a reason.  ShopifyRequests: bursts   *)
(* mint one token, and what a push reports is so.  DriftRepair: a count    *)
(* that is right makes the ledger right.  TcgplayerFiles: a line of a pull *)
(* sheet is sold once, whatever is uploaded, and no price file moves stock.*)
(* SignIn and Notices: settings are what was saved.  BulkAllocation: a     *)
(* price is the policy's.  ListingContent: a page shows what was reported. *)
(***************************************************************************)
EXTENDS MC_Operations, FiniteSetTheorems, SequenceTheorems, TLAPS

-------------------------------------------------------------------------------
(***************************************************************************)
(* The inductive invariant.                                                *)
(***************************************************************************)

\* A caller is about to queue a push of the operation, and will find that its figure moved.
Owes(op) ==
    \E e \in Caller : owed[e] # Null /\ owed[e].op = op /\ owed[e].from # wanted[op]

\* A worker runs a job that is active, one that may still be tried, from a snapshot.
Attempt(op) ==
    /\ phase[op] # "idle" => job[op] = "active"
    /\ job[op] \in {"waiting", "active"} => attempts[op] < MaxAttempts
    /\ phase[op] \in {"read", "pushed", "recorded"} => read[op] \in Snapshot

\* What was pushed is what the channel shows, or somebody meddled since it was read.
Landed(op) ==
    phase[op] \in {"pushed", "recorded"} => live[op] = read[op][op] \/ cause[op] # {}

\* An attempt is about to push an old figure only while a caller is to push the new one,
\* or for a cause on the list.
Outdated(op) ==
    phase[op] = "read" /\ read[op][op] # wanted[op] => Owes(op) \/ cause[op] # {}

\* StaleExplained of one operation; a caller that owes a push will find its figure moved.
Explained(op) ==
    live[op] # wanted[op] =>
        \/ Owes(op)
        \/ WillRead(op)
        \/ phase[op] = "read" /\ read[op][op] = wanted[op]
        \/ cause[op] # {}

OpInv(op) == Attempt(op) /\ Landed(op) /\ Outdated(op) /\ Explained(op)

IInv == TypeOK /\ \A op \in Op : OpInv(op)

\* An action that leaves what is said of an operation alone keeps it.
LEMMA Untouched ==
    ASSUME NEW op \in Op, OpInv(op), wanted' = wanted,
           \A e \in Caller : owed[e] # Null /\ owed[e].op = op => owed'[e] = owed[e],
           job'[op] = job[op], attempts'[op] = attempts[op], phase'[op] = phase[op],
           read'[op] = read[op], live'[op] = live[op], cause'[op] = cause[op]
    PROVE  OpInv(op)'
<1>1. Owes(op) => Owes(op)'
  BY DEF Owes
<1>2. WillRead(op)' = WillRead(op)
  BY DEF WillRead
<1> QED  BY <1>1, <1>2 DEF OpInv, Attempt, Landed, Outdated, Explained

LEMMA InitEstablishes ==
    ASSUME Parameters, Init PROVE IInv
<1>1. PICK v \in Value :
        /\ wanted = [op \in Op |-> v] /\ live = [op \in Op |-> v]
        /\ listed = v /\ landed = v
  BY DEF Init
<1>2. TypeOK
  <2>1. wanted \in Snapshot /\ live \in Snapshot /\ listed \in Value /\ landed \in Value
    BY <1>1 DEF Snapshot
  <2>2. enabled \in BOOLEAN /\ flagged \in BOOLEAN
    BY DEF Init
  <2>5. /\ status \in {"listed", "error"} /\ sweep \in {"idle", "loaded", "drifted"}
        /\ job \in [Op -> JobState] /\ phase \in [Op -> Phase]
    BY DEF Init, JobState, Phase
  <2>3. /\ attempts \in [Op -> 0..MaxAttempts] /\ stalls \in [Op -> 0..MaxStalls]
        /\ edits \in 0..MaxEdits /\ troubles \in 0..MaxTroubles
    BY DEF Init, Parameters
  <2>4. /\ read \in [Op -> Snapshot \cup {Null}]
        /\ owed \in [Caller -> [op: Op, from: Value] \cup {Null}]
        /\ seen \in Value \cup {Null} /\ cause \in [Op -> SUBSET Cause]
    BY DEF Init
  <2> QED  BY <2>1, <2>2, <2>3, <2>4, <2>5 DEF TypeOK
<1>3. ASSUME NEW op \in Op PROVE OpInv(op)
  BY <1>1 DEF Init, OpInv, Attempt, Landed, Outdated, Explained
<1> QED  BY <1>2, <1>3 DEF IInv

-------------------------------------------------------------------------------
(***************************************************************************)
(* The queue.                                                              *)
(***************************************************************************)

\* After a push was queued an attempt is to come, or the one under way pushes the figure
\* there is, or a cause is noted.
LEMMA AddCatchesUp ==
    ASSUME Parameters, TypeOK, NEW op \in Op, OpInv(op), Add(op),
           wanted' = wanted, UNCHANGED worker, live' = live
    PROVE  /\ job' \in [Op -> JobState] /\ attempts' \in [Op -> 0..MaxAttempts]
           /\ stalls' \in [Op -> 0..MaxStalls] /\ cause' \in [Op -> SUBSET Cause]
           /\ OpInv(op)'
           /\ \A q \in Op \ {op} :
                 /\ job'[q] = job[q] /\ attempts'[q] = attempts[q]
                 /\ cause'[q] = cause[q]
<1> USE DEF TypeOK, worker, queue
<1>1. CASE job[op] = "none"
  <2>1. /\ job' = [job EXCEPT ![op] = "waiting"] /\ attempts' = [attempts EXCEPT ![op] = 0]
        /\ stalls' = [stalls EXCEPT ![op] = 0] /\ cause' = cause
    BY <1>1 DEF Add
  <2>2. phase[op] = "idle"
    BY <1>1 DEF OpInv, Attempt
  <2>3. OpInv(op)'
    BY <2>1, <2>2 DEF OpInv, Attempt, Landed, Outdated, Explained, WillRead, Parameters
  <2> QED  BY <2>1, <2>3 DEF JobState, Parameters
<1>2. CASE job[op] # "none"
  <2> DEFINE more == IF job[op] = "failed" THEN {"held"}
                     ELSE IF ~WillRead(op) /\ read[op][op] # wanted[op]
                     THEN {"swallowed"} ELSE {}
  <2>1. cause' = [cause EXCEPT ![op] = @ \cup more] /\ UNCHANGED queue
    BY <1>2 DEF Add
  <2>2. more \subseteq Cause
    BY DEF Cause
  <2>3. cause' \in [Op -> SUBSET Cause] /\ cause'[op] = cause[op] \cup more
    BY <2>1, <2>2
  <2>4. WillRead(op)' = WillRead(op)
    BY <2>1 DEF WillRead
  <2> HIDE DEF TypeOK, more
  <2>5. \/ more # {} \/ WillRead(op)
        \/ phase[op] \in {"read", "pushed", "recorded"} /\ read[op][op] = wanted[op]
    <3>1. job[op] \in JobState /\ phase[op] \in Phase
      BY DEF TypeOK
    <3>2. CASE job[op] = "failed"
      BY <3>2 DEF more
    <3>3. CASE job[op] # "failed" /\ ~WillRead(op) /\ read[op][op] # wanted[op]
      BY <3>3 DEF more
    <3>4. CASE job[op] # "failed" /\ ~WillRead(op) /\ read[op][op] = wanted[op]
      BY <1>2, <3>1, <3>4 DEF WillRead, JobState, Phase
    <3> QED  BY <3>2, <3>3, <3>4
  <2>6. Attempt(op)' /\ Landed(op)'
    BY <2>1, <2>3 DEF OpInv, Attempt, Landed
  <2>7. Outdated(op)'
    BY <2>1, <2>3, <2>5 DEF OpInv, Attempt, Outdated, WillRead
  <2>8. Explained(op)'
    BY <2>1, <2>3, <2>4, <2>5 DEF OpInv, Landed, Explained
  <2> QED  BY <2>1, <2>3, <2>6, <2>7, <2>8 DEF OpInv, TypeOK
<1> QED  BY <1>1, <1>2

-------------------------------------------------------------------------------
(***************************************************************************)
(* The worker, the callers and the rest, one action at a time.             *)
(***************************************************************************)

\* A job that is picked up is still to read the ledger.
LEMMA PickKeeps ==
    ASSUME Parameters, IInv, NEW op \in Op, Pick(op) PROVE IInv'
<1> USE DEF Parameters
<1>1. TypeOK'
  BY DEF IInv, TypeOK, Pick, At, row, bounds, JobState, Phase
<1>2. OpInv(op)'
  BY DEF IInv, TypeOK, Pick, At, row, OpInv,
         Attempt, Landed, Outdated, Explained, WillRead, Owes
<1>3. ASSUME NEW q \in Op \ {op} PROVE OpInv(q)'
  BY <1>3, Untouched DEF IInv, TypeOK, Pick, At
<1> QED  BY <1>1, <1>2, <1>3 DEF IInv

\* A channel that is disabled ends the job, and that is a cause.
LEMMA BeginKeeps ==
    ASSUME Parameters, IInv, NEW op \in Op, Begin(op) PROVE IInv'
<1> USE DEF Parameters
<1>1. TypeOK'
  BY DEF IInv, TypeOK, Begin, At, Remove, row, bounds, JobState, Phase, Cause
<1>2. OpInv(op)'
  <2>1. CASE enabled
    BY <2>1 DEF IInv, TypeOK, Begin, At, row, OpInv, Attempt, Landed, Outdated, Explained,
                WillRead
  <2>2. CASE ~enabled
    <3>1. "disabled" \in cause'[op] /\ phase'[op] = "idle" /\ job'[op] = "none"
      BY <2>2 DEF IInv, TypeOK, Begin, At, Remove
    <3> QED  BY <3>1 DEF OpInv, Attempt, Landed, Outdated, Explained
  <2> QED  BY <2>1, <2>2
<1>3. ASSUME NEW q \in Op \ {op} PROVE OpInv(q)'
  BY <1>3, Untouched DEF IInv, TypeOK, Begin, At, Remove
<1> QED  BY <1>1, <1>2, <1>3 DEF IInv

\* What is read now is what the ledger asks for.
LEMMA ReadLedgerKeeps ==
    ASSUME Parameters, IInv, NEW op \in Op, ReadLedger(op) PROVE IInv'
<1> USE DEF Parameters
<1>1. TypeOK'
  BY DEF IInv, TypeOK, ReadLedger, At, row, queue, bounds, Phase
<1>2. OpInv(op)'
  BY DEF IInv, TypeOK, ReadLedger, At, row, queue, OpInv,
         Attempt, Landed, Outdated, Explained, WillRead, Owes
<1>3. ASSUME NEW q \in Op \ {op} PROVE OpInv(q)'
  BY <1>3, Untouched DEF IInv, TypeOK, ReadLedger, At, queue
<1> QED  BY <1>1, <1>2, <1>3 DEF IInv

\* What is pushed is what the channel shows.
LEMMA PushKeeps ==
    ASSUME Parameters, IInv, NEW op \in Op, Push(op) PROVE IInv'
<1> USE DEF Parameters
<1>1. TypeOK'
  BY DEF IInv, TypeOK, OpInv, Attempt, Push, At, row, queue, bounds, Phase, Snapshot
<1>2. OpInv(op)'
  BY DEF IInv, TypeOK, Push, At, row, queue, OpInv,
         Attempt, Landed, Outdated, Explained, WillRead, Owes, Snapshot
<1>3. ASSUME NEW q \in Op \ {op} PROVE OpInv(q)'
  BY <1>3, Untouched DEF IInv, TypeOK, Push, At, queue
<1> QED  BY <1>1, <1>2, <1>3 DEF IInv

\* Recording a push changes nothing the channel shows.
LEMMA RecordKeeps ==
    ASSUME Parameters, IInv, NEW op \in Op, Record(op) PROVE IInv'
<1> USE DEF Parameters
<1>1. TypeOK'
  BY DEF IInv, TypeOK, OpInv, Attempt, Record, At, row, queue, bounds, Phase, Snapshot
<1>2. OpInv(op)'
  BY DEF IInv, TypeOK, Record, At, row, queue, OpInv,
         Attempt, Landed, Outdated, Explained, WillRead, Owes
<1>3. ASSUME NEW q \in Op \ {op} PROVE OpInv(q)'
  BY <1>3, Untouched DEF IInv, TypeOK, Record, At, queue
<1> QED  BY <1>1, <1>2, <1>3 DEF IInv

\* A push that is done leaves the channel as it was read.
LEMMA CompleteKeeps ==
    ASSUME Parameters, IInv, NEW op \in Op, Complete(op) PROVE IInv'
<1> USE DEF Parameters
<1>1. TypeOK'
  BY DEF IInv, TypeOK, Complete, Leave, At, Remove, row, queue, bounds, Phase, JobState
<1>2. OpInv(op)'
  BY DEF IInv, TypeOK, Complete, Leave, At, Remove, row, queue, OpInv,
         Attempt, Landed, Outdated, Explained, WillRead, Owes
<1>3. ASSUME NEW q \in Op \ {op} PROVE OpInv(q)'
  BY <1>3, Untouched DEF IInv, TypeOK, Complete, Leave, At, Remove
<1> QED  BY <1>1, <1>2, <1>3 DEF IInv

\* A failed job that is dropped had a cause noted.
LEMMA ExpireKeeps ==
    ASSUME Parameters, IInv, NEW op \in Op, Expire(op) PROVE IInv'
<1> USE DEF Parameters
<1>1. TypeOK'
  BY DEF IInv, TypeOK, Expire, Remove, row, worker, bounds, JobState
<1>2. OpInv(op)'
  BY DEF IInv, TypeOK, Expire, Remove, row, worker, OpInv,
         Attempt, Landed, Outdated, Explained, WillRead, Owes
<1>3. ASSUME NEW q \in Op \ {op} PROVE OpInv(q)'
  BY <1>3, Untouched DEF IInv, TypeOK, Expire, Remove, worker
<1> QED  BY <1>1, <1>2, <1>3 DEF IInv

\* A job whose worker died waits for another attempt or has failed, a cause.
LEMMA RecoverKeeps ==
    ASSUME Parameters, IInv, NEW op \in Op, Recover(op) PROVE IInv'
<1> USE DEF Parameters
<1>1. TypeOK'
  BY DEF IInv, TypeOK, Recover, row, worker, bounds, JobState, Cause
<1>2. OpInv(op)'
  <2>1. CASE stalls[op] < MaxStalls
    <3>1. job'[op] = "waiting" /\ attempts' = attempts /\ phase'[op] = "idle"
      BY <2>1 DEF IInv, TypeOK, Recover, worker
    <3> QED  BY <3>1 DEF IInv, Recover, OpInv, Attempt, Landed, Outdated, Explained, WillRead
  <2>2. CASE ~(stalls[op] < MaxStalls)
    <3>1. job'[op] = "failed" /\ "failed" \in cause'[op] /\ phase'[op] = "idle"
      BY <2>2 DEF IInv, TypeOK, Recover, worker
    <3> QED  BY <3>1 DEF OpInv, Attempt, Landed, Outdated, Explained
  <2> QED  BY <2>1, <2>2
<1>3. ASSUME NEW q \in Op \ {op} PROVE OpInv(q)'
  BY <1>3, Untouched DEF IInv, TypeOK, Recover, worker
<1> QED  BY <1>1, <1>2, <1>3 DEF IInv

\* A worker that dies leaves its job active, to be found.
LEMMA WorkerDiesKeeps ==
    ASSUME Parameters, IInv, NEW op \in Op, WorkerDies(op) PROVE IInv'
<1> USE DEF Parameters
<1>1. TypeOK'
  BY DEF IInv, TypeOK, WorkerDies, Trouble, Leave, At, row, queue, Phase
<1>2. OpInv(op)'
  <2>1. /\ job[op] = "active" /\ job'[op] = "active"
        /\ attempts'[op] = attempts[op] /\ phase'[op] = "idle"
    BY DEF IInv, TypeOK, OpInv, Attempt, WorkerDies, Leave, At, queue
  <2> QED  BY <2>1 DEF IInv, OpInv, Attempt, Landed, Outdated, Explained, WillRead
<1>3. ASSUME NEW q \in Op \ {op} PROVE OpInv(q)'
  BY <1>3, Untouched DEF IInv, TypeOK, WorkerDies, Leave, At, queue
<1> QED  BY <1>1, <1>2, <1>3 DEF IInv

\* An attempt that threw leaves its job waiting for another, or failed with a cause noted.
LEMMA ThrowKeeps ==
    ASSUME Parameters, IInv, NEW op \in Op, NEW terminal \in BOOLEAN, Throw(op, terminal),
           phase[op] # "idle", attempts[op] + 1 >= MaxAttempts => terminal
    PROVE  /\ job' \in [Op -> JobState] /\ attempts' \in [Op -> 0..MaxAttempts]
           /\ phase' \in [Op -> Phase] /\ read' \in [Op -> Snapshot \cup {Null}]
           /\ cause' \in [Op -> SUBSET Cause]
           /\ OpInv(op)'
<1> USE DEF Parameters
<1>1. job[op] = "active" /\ attempts[op] < MaxAttempts
  BY DEF IInv, OpInv, Attempt
<1>2. /\ phase' \in [Op -> Phase] /\ read' \in [Op -> Snapshot \cup {Null}]
      /\ phase'[op] = "idle"
  BY DEF IInv, TypeOK, Throw, Leave, At, Phase
<1>3. attempts' \in [Op -> 0..MaxAttempts] /\ attempts'[op] = attempts[op] + 1
  BY <1>1 DEF IInv, TypeOK, Throw
<1>4. CASE terminal
  <2>1. job' \in [Op -> JobState] /\ cause' \in [Op -> SUBSET Cause]
    BY <1>4 DEF IInv, TypeOK, Throw, JobState, Cause
  <2>2. job'[op] = "failed" /\ "failed" \in cause'[op]
    BY <1>4 DEF IInv, TypeOK, Throw
  <2> QED  BY <1>2, <1>3, <2>1, <2>2
           DEF OpInv, Attempt, Landed, Outdated, Explained
<1>5. CASE ~terminal
  <2>1. job' \in [Op -> JobState] /\ cause' \in [Op -> SUBSET Cause]
    BY <1>5 DEF IInv, TypeOK, Throw, JobState
  <2>2. job'[op] = "waiting" /\ attempts'[op] < MaxAttempts
    BY <1>3, <1>5 DEF IInv, TypeOK, Throw
  <2> QED  BY <1>2, <1>3, <2>1, <2>2
           DEF OpInv, Attempt, Landed, Outdated, Explained, WillRead
<1> QED  BY <1>4, <1>5

\* A job whose channel cannot be resolved.
LEMMA FailUnmarkedKeeps ==
    ASSUME Parameters, IInv, NEW op \in Op, FailUnmarked(op) PROVE IInv'
<1>1. PICK unrecoverable \in BOOLEAN : Throw(op, unrecoverable \/ IsLastAttempt(op))
  BY DEF FailUnmarked
<1> DEFINE terminal == unrecoverable \/ IsLastAttempt(op)
<1>2. terminal \in BOOLEAN /\ (attempts[op] + 1 >= MaxAttempts => terminal)
  BY DEF IsLastAttempt
<1>3. phase[op] # "idle"
  BY DEF FailUnmarked
<1>4. /\ job' \in [Op -> JobState] /\ attempts' \in [Op -> 0..MaxAttempts]
      /\ phase' \in [Op -> Phase] /\ read' \in [Op -> Snapshot \cup {Null}]
      /\ cause' \in [Op -> SUBSET Cause] /\ OpInv(op)'
  BY <1>1, <1>2, <1>3, ThrowKeeps
<1>5. TypeOK'
  BY <1>4 DEF IInv, TypeOK, FailUnmarked, row, bounds
<1>6. ASSUME NEW q \in Op \ {op} PROVE OpInv(q)'
  BY <1>1, <1>6, Untouched DEF IInv, TypeOK, FailUnmarked, Throw, Leave, At
<1> QED  BY <1>4, <1>5, <1>6 DEF IInv

\* An attempt that failed while it read, pushed or recorded.
LEMMA FailKeeps ==
    ASSUME Parameters, IInv, NEW op \in Op, Fail(op) PROVE IInv'
<1>1. PICK unrecoverable \in BOOLEAN :
        LET terminal == unrecoverable \/ IsLastAttempt(op)
        IN  /\ Throw(op, terminal)
            /\ status' = IF terminal THEN "error" ELSE status
            /\ flagged' = (flagged \/ terminal)
  BY DEF Fail
<1> DEFINE terminal == unrecoverable \/ IsLastAttempt(op)
<1>2. terminal \in BOOLEAN /\ (attempts[op] + 1 >= MaxAttempts => terminal)
  BY DEF IsLastAttempt
<1>3. phase[op] # "idle"
  BY DEF Fail
<1>4. /\ job' \in [Op -> JobState] /\ attempts' \in [Op -> 0..MaxAttempts]
      /\ phase' \in [Op -> Phase] /\ read' \in [Op -> Snapshot \cup {Null}]
      /\ cause' \in [Op -> SUBSET Cause] /\ OpInv(op)'
  BY <1>1, <1>2, <1>3, ThrowKeeps
<1>5. \/ live' = live
      \/ phase[op] = "read" /\ live' = [live EXCEPT ![op] = read[op][op]]
  <2>1. live' \in {live} \cup IF phase[op] = "read"
                             THEN {[live EXCEPT ![op] = read[op][op]]} ELSE {}
    BY DEF Fail
  <2>2. CASE phase[op] = "read"
    BY <2>1, <2>2
  <2>3. CASE phase[op] # "read"
    BY <2>1, <2>3
  <2> QED  BY <2>2, <2>3
<1>6. live' \in Snapshot
  BY <1>5 DEF IInv, TypeOK, OpInv, Attempt, Snapshot
<1>7. status' \in {"listed", "error"} /\ flagged' \in BOOLEAN
  BY <1>1, <1>2 DEF IInv, TypeOK
<1>8. TypeOK'
  BY <1>4, <1>6, <1>7 DEF IInv, TypeOK, Fail, bounds
<1>9. ASSUME NEW q \in Op \ {op} PROVE OpInv(q)'
  BY <1>1, <1>5, <1>9, Untouched DEF IInv, TypeOK, Snapshot, Fail, Throw, Leave, At
<1> QED  BY <1>4, <1>8, <1>9 DEF IInv

\* A change of the ledger is one its caller owes a push for.
LEMMA EditKeeps ==
    ASSUME Parameters, IInv, NEW e \in Caller, NEW op \in Op, NEW v \in Value, Edit(e, op, v)
    PROVE  IInv'
<1>1. TypeOK'
  <2>1. wanted' \in Snapshot /\ owed' \in [Caller -> [op: Op, from: Value] \cup {Null}]
    BY DEF IInv, TypeOK, Edit, Snapshot
  <2>2. edits' \in 0..MaxEdits /\ troubles' = troubles
    BY DEF IInv, TypeOK, Edit, Parameters
  <2>3. UNCHANGED <<row, enabled, live, queue, worker, sweep, seen, cause, landed>>
    BY DEF Edit
  <2> QED  BY <2>1, <2>2, <2>3 DEF IInv, TypeOK, row, queue, worker
<1>2. /\ wanted' = [wanted EXCEPT ![op] = v] /\ v # wanted[op] /\ wanted[op] \in Value
      /\ owed[e] = Null /\ owed' = [owed EXCEPT ![e] = [op |-> op, from |-> wanted[op]]]
      /\ UNCHANGED <<live, queue, worker, cause>>
  BY DEF IInv, TypeOK, Edit, Snapshot
<1>3. Owes(op)'
  <2>1. [op |-> op, from |-> wanted[op]] # Null
    BY <1>2 DEF Parameters
  <2>2. owed'[e] = [op |-> op, from |-> wanted[op]] /\ wanted'[op] = v
    BY <1>2 DEF IInv, TypeOK, Snapshot
  <2> QED  BY <1>2, <2>1, <2>2 DEF Owes
<1>4. ASSUME NEW q \in Op PROVE OpInv(q)'
  <2>1. Attempt(q)' /\ Landed(q)'
    BY <1>2 DEF IInv, OpInv, Attempt, Landed, queue, worker
  <2>2. CASE q = op
    BY <1>3, <2>1, <2>2 DEF OpInv, Outdated, Explained
  <2>3. CASE q # op
    <3>1. wanted'[q] = wanted[q]
      BY <1>2, <2>3 DEF IInv, TypeOK, Snapshot
    <3>2. Owes(q) => Owes(q)'
      BY <1>2, <3>1 DEF IInv, TypeOK, Owes
    <3> QED  BY <1>2, <2>1, <3>1, <3>2
             DEF IInv, OpInv, Outdated, Explained, WillRead, queue, worker
  <2> QED  BY <2>2, <2>3
<1> QED  BY <1>1, <1>4 DEF IInv

\* A push that was queued, or need not be.
LEMMA EnqueueKeeps ==
    ASSUME Parameters, IInv, NEW e \in Caller, Enqueue(e) PROVE IInv'
<1>0. owed[e] # Null /\ owed[e] \in [op: Op, from: Value]
  BY DEF IInv, TypeOK, Enqueue
<1> PICK op \in Op : op = owed[e].op
  BY <1>0
<1> DEFINE moved == op = "price" \/ wanted[op] # owed[e].from
<1>1. /\ owed[e] # Null /\ op = owed[e].op
      /\ owed' = [owed EXCEPT ![e] = Null]
      /\ owed' \in [Caller -> [op: Op, from: Value] \cup {Null}]
  BY <1>0 DEF IInv, TypeOK, Enqueue
<1>2. op = "quantity" \/ op = "price"
  BY <1>1 DEF Parameters
<1>3. \A q \in Op \ {op} : \A d \in Caller :
         owed[d] # Null /\ owed[d].op = q => owed'[d] = owed[d]
  BY <1>1 DEF IInv, TypeOK
<1>4. UNCHANGED <<wanted, row, enabled, live, worker, sweep, seen, landed, bounds>>
  BY DEF Enqueue
<1>5. CASE moved /\ (op = "price" \/ enabled)
  <2>1. Add(op)
    BY <1>5 DEF Enqueue
  <2>2. /\ job' \in [Op -> JobState] /\ attempts' \in [Op -> 0..MaxAttempts]
        /\ stalls' \in [Op -> 0..MaxStalls] /\ cause' \in [Op -> SUBSET Cause]
        /\ OpInv(op)'
        /\ \A q \in Op \ {op} :
              job'[q] = job[q] /\ attempts'[q] = attempts[q] /\ cause'[q] = cause[q]
    BY <1>1, <1>4, <2>1, AddCatchesUp DEF IInv
  <2>3. TypeOK'
    BY <1>1, <1>4, <2>2 DEF IInv, TypeOK, row, worker, bounds
  <2>4. ASSUME NEW q \in Op \ {op} PROVE OpInv(q)'
    BY <1>3, <1>4, <2>2, <2>4, Untouched DEF IInv, worker
  <2> QED  BY <2>2, <2>3, <2>4 DEF IInv
<1>6. CASE moved /\ op = "quantity" /\ ~enabled
  <2>1. cause' = [cause EXCEPT ![op] = @ \cup {"disabled"}] /\ UNCHANGED queue
    BY <1>6 DEF Enqueue
  <2>2. TypeOK'
    BY <1>1, <1>4, <2>1 DEF IInv, TypeOK, row, queue, worker, bounds, Cause
  <2>3. "disabled" \in cause'[op]
    BY <1>1, <2>1 DEF IInv, TypeOK
  <2>4. OpInv(op)'
    BY <1>1, <1>4, <2>1, <2>3
       DEF IInv, OpInv, Attempt, Landed, Outdated, Explained, queue, worker
  <2>5. ASSUME NEW q \in Op \ {op} PROVE OpInv(q)'
    BY <1>3, <1>4, <2>1, <2>5, Untouched DEF IInv, TypeOK, queue, worker
  <2> QED  BY <2>2, <2>4, <2>5 DEF IInv
<1>7. CASE ~moved
  <2>1. UNCHANGED <<queue, cause>>
    BY <1>7 DEF Enqueue
  <2>2. TypeOK'
    BY <1>1, <1>4, <2>1 DEF IInv, TypeOK, row, queue, worker, bounds
  <2>3. Owes(op) => Owes(op)'
    BY <1>1, <1>4, <1>7 DEF IInv, TypeOK, Owes
  <2>4. OpInv(op)'
    BY <1>1, <1>4, <2>1, <2>3
       DEF IInv, OpInv, Attempt, Landed, Outdated, Explained, WillRead, queue, worker
  <2>5. ASSUME NEW q \in Op \ {op} PROVE OpInv(q)'
    BY <1>3, <1>4, <2>1, <2>5, Untouched DEF IInv, queue, worker
  <2> QED  BY <2>2, <2>4, <2>5 DEF IInv
<1> QED  BY <1>2, <1>5, <1>6, <1>7

\* A push that is lost is a cause.
LEMMA LosePushKeeps ==
    ASSUME Parameters, IInv, NEW e \in Caller, LosePush(e) PROVE IInv'
<1>1. owed[e] # Null /\ owed[e] \in [op: Op, from: Value]
  BY DEF IInv, TypeOK, LosePush
<1> PICK op \in Op : op = owed[e].op
  BY <1>1
<1>2. /\ owed' = [owed EXCEPT ![e] = Null]
      /\ cause' = [cause EXCEPT ![op] = @ \cup {"lost"}]
      /\ UNCHANGED <<wanted, row, enabled, live, queue, worker, sweep, seen, landed, edits>>
  BY DEF LosePush
<1>3. TypeOK'
  BY <1>2 DEF IInv, TypeOK, LosePush, Trouble, row, queue, worker, Cause, Parameters
<1>4. OpInv(op)'
  <2>1. "lost" \in cause'[op]
    BY <1>2 DEF IInv, TypeOK
  <2> QED  BY <1>2, <2>1 DEF IInv, OpInv, Attempt, Landed, Outdated, Explained, queue, worker
<1>5. ASSUME NEW q \in Op \ {op} PROVE OpInv(q)'
  <2>1. \A d \in Caller : owed[d] # Null /\ owed[d].op = q => owed'[d] = owed[d]
    BY <1>2, <1>5 DEF IInv, TypeOK
  <2> QED  BY <1>2, <1>5, <2>1, Untouched DEF IInv, TypeOK, queue, worker
<1> QED  BY <1>3, <1>4, <1>5 DEF IInv

\* A seller who edits the listing is a cause.
LEMMA SellerEditKeeps ==
    ASSUME Parameters, IInv, NEW op \in Op, NEW v \in Value, SellerEdit(op, v) PROVE IInv'
<1>1. TypeOK'
  BY DEF IInv, TypeOK, SellerEdit, Trouble, row, queue, worker, Cause, Snapshot, Parameters
<1>2. OpInv(op)'
  <2>1. "seller" \in cause'[op]
    BY DEF IInv, TypeOK, SellerEdit
  <2> QED  BY <2>1
           DEF IInv, SellerEdit, OpInv, Attempt, Landed, Outdated, Explained, queue, worker
<1>3. ASSUME NEW q \in Op \ {op} PROVE OpInv(q)'
  BY <1>3, Untouched DEF IInv, TypeOK, SellerEdit, queue, worker, Snapshot
<1> QED  BY <1>1, <1>2, <1>3 DEF IInv

\* The sweep changes nothing but the queue, as a caller that queues a push.
LEMMA SweepKeeps ==
    ASSUME Parameters, IInv, SweepLoad \/ SweepCompare \/ SweepCorrect \/ SweepDies
    PROVE  IInv'
<1>1. CASE ~(SweepCorrect /\ AutoCorrect)
  <2>1. UNCHANGED <<wanted, row, enabled, live, queue, worker, owed, cause, landed, edits>>
    BY <1>1 DEF SweepLoad, SweepCompare, SweepCorrect, SweepDies, bounds
  <2>2. /\ sweep' \in {"idle", "loaded", "drifted"} /\ seen' \in Value \cup {Null}
        /\ troubles' \in 0..MaxTroubles
    BY DEF IInv, TypeOK, SweepLoad, SweepCompare, SweepCorrect, SweepDies, Trouble, bounds,
           Parameters
  <2>3. TypeOK'
    BY <2>1, <2>2 DEF IInv, TypeOK, row, queue, worker
  <2>4. ASSUME NEW q \in Op PROVE OpInv(q)'
    BY <2>1, Untouched DEF IInv, queue, worker
  <2> QED  BY <2>3, <2>4 DEF IInv
<1>2. CASE SweepCorrect /\ AutoCorrect
  <2>1. /\ Add("quantity") /\ sweep' = "idle" /\ "quantity" \in Op
        /\ UNCHANGED <<wanted, row, enabled, live, worker, owed, seen, landed, bounds>>
    BY <1>2 DEF SweepCorrect, Parameters
  <2>2. /\ job' \in [Op -> JobState] /\ attempts' \in [Op -> 0..MaxAttempts]
        /\ stalls' \in [Op -> 0..MaxStalls] /\ cause' \in [Op -> SUBSET Cause]
        /\ OpInv("quantity")'
        /\ \A q \in Op \ {"quantity"} :
              job'[q] = job[q] /\ attempts'[q] = attempts[q] /\ cause'[q] = cause[q]
    BY <2>1, AddCatchesUp DEF IInv
  <2>3. TypeOK'
    BY <2>1, <2>2 DEF IInv, TypeOK, row, worker, bounds
  <2>4. ASSUME NEW q \in Op \ {"quantity"} PROVE OpInv(q)'
    BY <2>1, <2>2, <2>4, Untouched DEF IInv, worker
  <2> QED  BY <2>2, <2>3, <2>4 DEF IInv
<1> QED  BY <1>1, <1>2

\* An operator who switches the channel or resolves a flag moves no figure.
LEMMA OperatorKeeps ==
    ASSUME Parameters, IInv, Toggle \/ ResolveAlert PROVE IInv'
<1>1. UNCHANGED <<wanted, live, queue, worker, owed, cause>>
  BY DEF Toggle, ResolveAlert
<1>2. TypeOK'
  <2>1. CASE Toggle
    BY <2>1 DEF IInv, TypeOK, Toggle, Trouble, row, queue, worker, Parameters
  <2>2. CASE ResolveAlert
    BY <2>2 DEF IInv, TypeOK, ResolveAlert, queue, worker, bounds
  <2> QED  BY <2>1, <2>2
<1>3. ASSUME NEW q \in Op PROVE OpInv(q)'
  BY <1>1, Untouched DEF IInv, queue, worker
<1> QED  BY <1>2, <1>3 DEF IInv

-------------------------------------------------------------------------------
(***************************************************************************)
(* The theorems.                                                           *)
(***************************************************************************)

LEMMA NextKeeps ==
    ASSUME Parameters, IInv, [Next]_vars PROVE IInv'
<1>1. ASSUME NEW op \in Op, Work(op) PROVE IInv'
  BY <1>1, PickKeeps, BeginKeeps, ReadLedgerKeeps, PushKeeps, RecordKeeps, CompleteKeeps,
     FailUnmarkedKeeps, FailKeeps DEF Work
<1>2. ASSUME NEW op \in Op, WorkerDies(op) \/ Recover(op) \/ Expire(op) PROVE IInv'
  BY <1>2, WorkerDiesKeeps, RecoverKeeps, ExpireKeeps
<1>3. ASSUME NEW e \in Caller, Enqueue(e) \/ LosePush(e) PROVE IInv'
  BY <1>3, EnqueueKeeps, LosePushKeeps
<1>4. ASSUME NEW e \in Caller, NEW op \in Op, NEW v \in Value, Edit(e, op, v) PROVE IInv'
  BY <1>4, EditKeeps
<1>5. ASSUME NEW op \in Op, NEW v \in Value, SellerEdit(op, v) PROVE IInv'
  BY <1>5, SellerEditKeeps
<1>6. CASE SweepLoad \/ SweepCompare \/ SweepCorrect \/ SweepDies
  BY <1>6, SweepKeeps
<1>7. CASE Toggle \/ ResolveAlert
  BY <1>7, OperatorKeeps
<1>8. CASE UNCHANGED vars
  <2>1. TypeOK'
    BY <1>8 DEF IInv, TypeOK, vars, row, queue, worker, bounds
  <2>2. ASSUME NEW q \in Op PROVE OpInv(q)'
    BY <1>8, Untouched DEF IInv, vars, queue, worker
  <2> QED  BY <2>1, <2>2 DEF IInv
<1> QED  BY <1>1, <1>2, <1>3, <1>4, <1>5, <1>6, <1>7, <1>8 DEF Next

\* The invariant of the queue, in every reachable state.
THEOREM InvariantHolds == ASSUME Parameters PROVE Spec => []IInv
<1>1. Init => IInv
  BY InitEstablishes
<1>2. IInv /\ [Next]_vars => IInv'
  BY NextKeeps
<1> QED  BY <1>1, <1>2, PTL DEF Spec

\* The types of the state, and with them that a job is never tried more often than the
\* queue allows: TypeOK, of every specification of the outbound worker's queue.
THEOREM TypesHold == ASSUME Parameters PROVE Spec => []TypeOK
<1>1. IInv => TypeOK
  BY DEF IInv
<1> QED  BY <1>1, InvariantHolds, PTL

\* A channel shows something other than the ledger asks for only while somebody or
\* something is about to change that, or for a cause on the list: collapsing the pushes of
\* an operation into one job loses no change of itself (outbound-queue.service.ts).
THEOREM StaleIsExplained == ASSUME Parameters PROVE Spec => []StaleExplained
<1>1. IInv => StaleExplained
  BY DEF IInv, OpInv, Explained, Owes, StaleExplained
<1> QED  BY <1>1, InvariantHolds, PTL

-------------------------------------------------------------------------------
(***************************************************************************)
(* Requests to Shopify.                                                    *)
(***************************************************************************)

AnyToken == Channel \X Nat

Pushing == [step: {"idle", "token", "wait", "send", "reply"}, channel: Channel \cup {Null},
            secret: Nat, want: Req!Quantity, token: AnyToken \cup {Null},
            phase: {"read", "write"}, again: BOOLEAN, attempt: Nat, seen: Req!Quantity,
            reply: {"401", "read", "set", "stale", Null}, stands: BOOLEAN, sold: BOOLEAN]

Minting == [secret: Nat, token: AnyToken \cup {Null}]

RequestTyped ==
    /\ shown \in [Channel -> Req!Quantity] /\ alive \subseteq AnyToken
    /\ accepts \in [Channel -> Nat] /\ secret \in [Channel -> Nat]
    /\ cache \in [Channel -> [token: AnyToken \cup {Null}, usable: BOOLEAN]]
    /\ inFlight \in [Channel -> Minting \cup {Null}]
    /\ task \in [Caller -> Pushing]
    /\ told \in [Channel -> Req!Quantity \cup {Null}]
    /\ mints \in [Channel -> [made: Nat, grounds: Nat]]

\* A token request is on its way, and has one.
Brings(c) == inFlight[c] # Null /\ inFlight[c].token # Null

\* A push that is under way has a channel, and one that sends has a token of it.
OpFits(o) ==
    /\ ~Req!At(o, "idle") => task[o].channel \in Channel
    /\ Req!At(o, "send") => task[o].token # Null
    /\ task[o].token # Null => task[o].token[1] = task[o].channel
    /\ Req!At(o, "wait") => inFlight[task[o].channel] # Null

\* A channel's tokens are its own; a usable one is there.  There is a ground left for the
\* request that has to be made when there is no usable token and none on its way.
ChannelFits(c) ==
    /\ cache[c].token # Null => cache[c].token[1] = c
    /\ cache[c].usable => cache[c].token # Null
    /\ Brings(c) => inFlight[c].token[1] = c
    /\ mints[c].made <= mints[c].grounds
    /\ ~cache[c].usable /\ inFlight[c] = Null => mints[c].made < mints[c].grounds
    /\ told[c] # Null => told[c] = shown[c]

\* As long as nothing moved the number, what the platform answered is what it shows.
AnswerStands(o) ==
    Req!At(o, "reply") /\ task[o].stands =>
        /\ task[o].reply = "read" => task[o].seen = shown[task[o].channel]
        /\ task[o].reply = "set" => task[o].want = shown[task[o].channel]

\* A token on its way, and whatever a second try may come by, is alive: it was minted after
\* the refusal, and no revocation came since.
SecondTry(o) ==
    task[o].again =>
        /\ ~Req!At(o, "idle")
        /\ task[o].token # Null => task[o].token \in alive
        /\ cache[task[o].channel].usable => cache[task[o].channel].token \in alive
        /\ Req!At(o, "reply") => task[o].reply # "401"

Fresh ==
    "amid" \notin lapse =>
        /\ \A c \in Channel : Brings(c) => inFlight[c].token \in alive
        /\ \A o \in Caller : SecondTry(o)

RequestIInv ==
    /\ RequestTyped
    /\ \A o \in Caller : OpFits(o) /\ AnswerStands(o)
    /\ \A c \in Channel : ChannelFits(c)
    /\ Fresh
    /\ Req!RevocationIsABlip

LEMMA RequestsInit ==
    ASSUME Req!Parameters, Req!Init PROVE RequestIInv
<1>1. Req!Idle \in Pushing
  BY DEF Req!Idle, Pushing, Req!Parameters, Req!Quantity
<1>2. RequestTyped
  BY <1>1 DEF Req!Init, RequestTyped, Req!Parameters, Req!Empty, Req!Quantity
<1>3. \A o \in Caller : task[o] = Req!Idle
  BY DEF Req!Init
<1>4. \A o \in Caller : OpFits(o) /\ AnswerStands(o) /\ SecondTry(o)
  BY <1>3 DEF OpFits, AnswerStands, SecondTry, Req!At, Req!Idle
<1>5. \A c \in Channel : ChannelFits(c) /\ ~Brings(c)
  BY DEF Req!Init, ChannelFits, Brings, Req!Empty
<1> QED  BY <1>2, <1>4, <1>5 DEF RequestIInv, Fresh, Req!RevocationIsABlip, Req!Init

\* A push goes on, by what it alone changes and what is told of its channel.
LEMMA OnePushKeeps ==
    ASSUME RequestIInv, NEW p \in Caller, NEW next \in Pushing,
           task' = [task EXCEPT ![p] = next],
           UNCHANGED <<shown, alive, accepts, secret, cache, inFlight, mints, lapse>>,
           told' \in [Channel -> Req!Quantity \cup {Null}],
           \A c \in Channel : told'[c] # Null => told'[c] = shown[c],
           OpFits(p)', AnswerStands(p)', "amid" \notin lapse => SecondTry(p)'
    PROVE  RequestIInv'
<1>1. RequestTyped /\ task'[p] = next /\ \A o \in Caller : o # p => task'[o] = task[o]
  BY DEF RequestIInv, RequestTyped
<1>2. RequestTyped'
  BY <1>1 DEF RequestTyped
<1>3. \A o \in Caller : o # p => OpFits(o)' /\ AnswerStands(o)'
  BY <1>1 DEF RequestIInv, OpFits, AnswerStands, Req!At
<1>4. \A c \in Channel : ChannelFits(c)'
  BY DEF RequestIInv, ChannelFits, Brings
<1>5. Fresh'
  <2> SUFFICES ASSUME "amid" \notin lapse'
               PROVE  /\ \A c \in Channel : Brings(c)' => inFlight'[c].token \in alive'
                      /\ \A o \in Caller : SecondTry(o)'
    BY DEF Fresh
  <2>1. \A c \in Channel : Brings(c)' => inFlight'[c].token \in alive'
    BY DEF RequestIInv, Fresh, Brings
  <2>2. \A o \in Caller : o # p => SecondTry(o)'
    BY <1>1 DEF SecondTry, Req!At, RequestIInv, Fresh
  <2> QED  BY <2>1, <2>2
<1> QED  BY <1>2, <1>3, <1>4, <1>5 DEF RequestIInv, Req!RevocationIsABlip

\* A push that is over is what it was before it began.
LEMMA IdleFits ==
    ASSUME Req!Parameters, NEW p \in Caller, task'[p] = Req!Idle
    PROVE  Req!Idle \in Pushing /\ OpFits(p)' /\ AnswerStands(p)' /\ SecondTry(p)'
<1>1. Req!Idle \in Pushing
  BY DEF Req!Idle, Pushing, Req!Parameters, Req!Quantity
<1> QED  BY <1>1 DEF OpFits, AnswerStands, SecondTry, Req!At, Req!Idle

LEMMA RequestBeginKeeps ==
    ASSUME Req!Parameters, RequestIInv, NEW p \in Caller, NEW d \in Channel,
           Req!Begin(p, d) PROVE RequestIInv'
<1>1. PICK q \in Req!Quantity :
        task' = [task EXCEPT ![p] = [Req!Idle EXCEPT !.step = "token", !.channel = d,
                                             !.secret = secret[d], !.want = q]]
  BY DEF Req!Begin
<1>2. /\ UNCHANGED <<shown, alive, accepts, secret, cache, inFlight, told, mints, lapse>>
      /\ RequestTyped
  BY DEF Req!Begin, Req!platform, RequestIInv
<1> DEFINE next == [Req!Idle EXCEPT !.step = "token", !.channel = d, !.secret = secret[d],
                                   !.want = q]
<1>3. next.step = "token" /\ next.channel = d /\ next.token = Null /\ next.again = FALSE
  BY DEF Req!Idle
<1>4. next \in Pushing
  <2>1. Req!Idle \in Pushing
    BY DEF Req!Idle, Pushing, Req!Parameters, Req!Quantity
  <2>2. secret[d] \in Nat
    BY <1>2 DEF RequestTyped
  <2> QED  BY <2>1, <2>2 DEF Pushing
<1>5. task'[p] = next
  BY <1>1, <1>2 DEF RequestTyped
<1> HIDE DEF next
<1>6. OpFits(p)' /\ AnswerStands(p)' /\ SecondTry(p)'
  BY <1>3, <1>5 DEF OpFits, AnswerStands, SecondTry, Req!At
<1>7. told' \in [Channel -> Req!Quantity \cup {Null}]
      /\ \A c \in Channel : told'[c] # Null => told'[c] = shown[c]
  BY <1>2 DEF RequestTyped, RequestIInv, ChannelFits
<1> QED  BY <1>1, <1>2, <1>4, <1>6, <1>7, OnePushKeeps DEF next

LEMMA GetTokenKeeps ==
    ASSUME Req!Parameters, RequestIInv, NEW p \in Caller, Req!GetToken(p) PROVE RequestIInv'
<1> DEFINE d == task[p].channel
<1>1. /\ RequestTyped /\ d \in Channel /\ Req!At(p, "token") /\ task[p] \in Pushing
      /\ UNCHANGED <<shown, alive, accepts, secret, cache, told, lapse>>
  BY DEF RequestIInv, Req!GetToken, Req!platform, OpFits, Req!At, RequestTyped
<1>2. told' \in [Channel -> Req!Quantity \cup {Null}]
      /\ \A c \in Channel : told'[c] # Null => told'[c] = shown[c]
  BY <1>1 DEF RequestTyped, RequestIInv, ChannelFits
<1>3. CASE cache[d].usable
  <2> DEFINE next == [task[p] EXCEPT !.step = "send", !.token = cache[d].token]
  <2>1. task' = [task EXCEPT ![p] = next] /\ UNCHANGED <<inFlight, mints>>
    BY <1>1, <1>3 DEF Req!GetToken, RequestTyped, Pushing
  <2>2. cache[d].token \in AnyToken \cup {Null}
    BY <1>1 DEF RequestTyped
  <2>3. /\ next \in Pushing /\ next.step = "send" /\ next.token = cache[d].token
        /\ next.channel = d /\ next.again = task[p].again
    BY <1>1, <2>2 DEF Pushing
  <2>4. task'[p] = next
    BY <1>1, <2>1 DEF RequestTyped
  <2> HIDE DEF next
  <2>5. next.token # Null /\ next.token[1] = d
    BY <1>1, <1>3, <2>3 DEF ChannelFits, RequestIInv
  <2>6. "amid" \notin lapse => SecondTry(p)'
    BY <1>1, <1>3, <2>3, <2>4 DEF SecondTry, RequestIInv, Fresh, Req!At
  <2> HIDE DEF d
  <2>7. OpFits(p)' /\ AnswerStands(p)'
    BY <1>1, <2>3, <2>4, <2>5 DEF OpFits, AnswerStands, Req!At
  <2> QED  BY <1>1, <1>2, <2>1, <2>3, <2>6, <2>7, OnePushKeeps
<1>4. CASE ~cache[d].usable
  <2> DEFINE next == [task[p] EXCEPT !.step = "wait"]
  <2>1. task' = [task EXCEPT ![p] = next]
    BY <1>1, <1>4 DEF Req!GetToken, RequestTyped, Pushing
  <2>2. /\ next \in Pushing /\ next.step = "wait" /\ next.token = task[p].token
        /\ next.channel = d /\ next.again = task[p].again
    BY <1>1 DEF Pushing
  <2>3. task'[p] = next /\ \A o \in Caller : o # p => task'[o] = task[o]
    BY <1>1, <2>1 DEF RequestTyped
  <2> HIDE DEF next
  <2>4. "amid" \notin lapse => SecondTry(p)'
    BY <1>1, <2>2, <2>3 DEF SecondTry, RequestIInv, Fresh, Req!At
  <2>5. AnswerStands(p)'
    BY <2>2, <2>3 DEF AnswerStands, Req!At
  <2>6. CASE inFlight[d] # Null
    <3>1. UNCHANGED <<inFlight, mints>>
      BY <1>4, <2>6 DEF Req!GetToken
    <3>2. OpFits(p)'
      BY <1>1, <2>2, <2>3, <2>6, <3>1 DEF OpFits, Req!At, RequestIInv
    <3> QED  BY <1>1, <1>2, <2>1, <2>2, <2>4, <2>5, <3>1, <3>2, OnePushKeeps
  <2>7. CASE inFlight[d] = Null
    <3> DEFINE request == [secret |-> task[p].secret, token |-> Null]
    <3>1. /\ inFlight' = [inFlight EXCEPT ![d] = request]
          /\ mints' = [mints EXCEPT ![d].made = @ + 1]
      BY <1>4, <2>7 DEF Req!GetToken
    <3>2. request \in Minting /\ request # Null /\ request.token = Null
      BY <1>1 DEF Minting, Pushing, Req!Parameters, AnyToken
    <3>3. inFlight'[d] = request /\ \A c \in Channel : c # d => inFlight'[c] = inFlight[c]
      BY <1>1, <3>1 DEF RequestTyped
    <3>4. \A c \in Channel : inFlight[c] # Null => inFlight'[c] = inFlight[c]
      BY <2>7, <3>3
    <3>5. /\ mints[d] \in [made: Nat, grounds: Nat] /\ mints'[d].made = mints[d].made + 1
          /\ mints'[d].grounds = mints[d].grounds
          /\ \A c \in Channel : c # d => mints'[c] = mints[c]
          /\ mints' \in [Channel -> [made: Nat, grounds: Nat]]
      BY <1>1, <3>1 DEF RequestTyped
    <3> HIDE DEF request
    <3>6. RequestTyped'
      BY <1>1, <2>1, <2>2, <3>1, <3>2, <3>5 DEF RequestTyped
    <3>7. \A c \in Channel : Brings(c)' => Brings(c) /\ inFlight'[c] = inFlight[c]
      BY <3>2, <3>3 DEF Brings
    <3>8. \A o \in Caller : OpFits(o)' /\ AnswerStands(o)'
      <4> SUFFICES ASSUME NEW o \in Caller PROVE OpFits(o)' /\ AnswerStands(o)'
        OBVIOUS
      <4>1. CASE o = p
        BY <1>1, <2>2, <2>3, <2>5, <3>2, <3>3, <4>1 DEF OpFits, Req!At, RequestIInv
      <4>2. CASE o # p
        BY <1>1, <2>3, <3>4, <4>2 DEF OpFits, AnswerStands, Req!At, RequestIInv
      <4> QED  BY <4>1, <4>2
    <3>9. \A c \in Channel : ChannelFits(c)'
      <4> SUFFICES ASSUME NEW c \in Channel PROVE ChannelFits(c)'
        OBVIOUS
      <4>1. ChannelFits(c)
        BY DEF RequestIInv
      <4> HIDE DEF d
      <4>2. CASE c = d
        BY <1>1, <1>4, <2>7, <3>2, <3>3, <3>5, <3>7, <4>1, <4>2 DEF ChannelFits
      <4>3. CASE c # d
        BY <1>1, <3>3, <3>5, <3>7, <4>1, <4>3 DEF ChannelFits
      <4> QED  BY <4>2, <4>3
    <3>10. Fresh'
      <4>1. ASSUME "amid" \notin lapse', NEW o \in Caller, o # p PROVE SecondTry(o)'
        BY <1>1, <2>3, <4>1 DEF SecondTry, Req!At, RequestIInv, Fresh
      <4>2. ASSUME "amid" \notin lapse', NEW c \in Channel, Brings(c)'
            PROVE  inFlight'[c].token \in alive'
        BY <1>1, <3>7, <4>2 DEF RequestIInv, Fresh
      <4> QED  BY <1>1, <2>4, <4>1, <4>2 DEF Fresh
    <3> QED  BY <1>1, <3>6, <3>8, <3>9, <3>10 DEF RequestIInv, Req!RevocationIsABlip
  <2> QED  BY <2>6, <2>7
<1> QED  BY <1>3, <1>4

LEMMA MintKeeps ==
    ASSUME Req!Parameters, RequestIInv, NEW d \in Channel, Req!Mint(d) PROVE RequestIInv'
<1> DEFINE t == <<d, mints[d].made>>
<1>1. /\ RequestTyped /\ inFlight[d] # Null /\ inFlight[d].token = Null
      /\ alive' = alive \cup {t} /\ inFlight' = [inFlight EXCEPT ![d].token = t]
      /\ UNCHANGED <<shown, accepts, secret, cache, task, told, mints, used, lapse>>
  BY DEF RequestIInv, Req!Mint
<1>2. t \in AnyToken /\ t # Null /\ t[1] = d
  BY <1>1 DEF RequestTyped, AnyToken, Req!Parameters
<1> HIDE DEF t
<1>3. /\ inFlight'[d] \in Minting /\ inFlight'[d].token = t
      /\ \A c \in Channel : c # d => inFlight'[c] = inFlight[c]
      /\ inFlight' \in [Channel -> Minting \cup {Null}]
  BY <1>1, <1>2 DEF RequestTyped, Minting
<1>4. inFlight'[d] # Null
  BY <1>3 DEF Minting, Req!Parameters, AnyToken
<1>5. RequestTyped'
  BY <1>1, <1>2, <1>3 DEF RequestTyped
<1>6. \A o \in Caller : OpFits(o)' /\ AnswerStands(o)'
  BY <1>1, <1>3, <1>4 DEF RequestIInv, OpFits, AnswerStands, Req!At
<1>7. \A c \in Channel : ChannelFits(c)'
  <2> SUFFICES ASSUME NEW c \in Channel PROVE ChannelFits(c)'
    OBVIOUS
  <2>1. CASE c = d
    BY <1>1, <1>2, <1>3, <1>4, <2>1 DEF RequestIInv, ChannelFits, Brings
  <2>2. CASE c # d
    BY <1>1, <1>3, <2>2 DEF RequestIInv, ChannelFits, Brings
  <2> QED  BY <2>1, <2>2
<1>8. Fresh'
  <2>1. ASSUME "amid" \notin lapse', NEW c \in Channel, Brings(c)'
        PROVE  inFlight'[c].token \in alive'
    <3>1. CASE c = d
      BY <1>1, <1>3, <3>1
    <3>2. CASE c # d
      BY <1>1, <1>3, <2>1, <3>2 DEF RequestIInv, Fresh, Brings
    <3> QED  BY <3>1, <3>2
  <2>2. ASSUME "amid" \notin lapse', NEW o \in Caller PROVE SecondTry(o)'
    BY <1>1, <2>2 DEF RequestIInv, Fresh, SecondTry, Req!At
  <2> QED  BY <2>1, <2>2 DEF Fresh
<1> QED  BY <1>1, <1>5, <1>6, <1>7, <1>8 DEF RequestIInv, Req!RevocationIsABlip

LEMMA MintedKeeps ==
    ASSUME Req!Parameters, RequestIInv, NEW d \in Channel, Req!Minted(d) PROVE RequestIInv'
<1> DEFINE t == inFlight[d].token
           sent(o) == [task[o] EXCEPT !.step = "send", !.token = t]
<1>1. /\ RequestTyped /\ Brings(d)
      /\ cache' = [cache EXCEPT ![d] = [token |-> t, usable |-> TRUE]]
      /\ task' = [o \in Caller |-> IF o \in Req!Waiting(d) THEN sent(o) ELSE task[o]]
      /\ inFlight' = [inFlight EXCEPT ![d] = Null]
      /\ UNCHANGED <<shown, alive, accepts, secret, told, mints, used, lapse>>
  BY DEF RequestIInv, Req!Minted, Req!platform, Brings
<1>2. t \in AnyToken /\ t # Null /\ t[1] = d /\ ("amid" \notin lapse => t \in alive)
  <2>1. t \in AnyToken \cup {Null}
    BY <1>1 DEF RequestTyped, Minting, Brings
  <2> QED  BY <1>1, <2>1 DEF RequestIInv, ChannelFits, Brings, Fresh
<1> HIDE DEF t
<1>3. \A o \in Req!Waiting(d) :
        /\ sent(o) \in Pushing /\ sent(o).step = "send" /\ sent(o).token = t
        /\ sent(o).channel = d /\ sent(o).again = task[o].again
        /\ Req!At(o, "wait") /\ task[o].channel = d
  <2> TAKE o \in Req!Waiting(d)
  <2>1. task[o] \in Pushing /\ Req!At(o, "wait") /\ task[o].channel = d
    BY <1>1 DEF Req!Waiting, RequestTyped
  <2> QED  BY <1>2, <2>1 DEF Pushing
<1>4. /\ \A o \in Req!Waiting(d) : task'[o] = sent(o)
      /\ \A o \in Caller \ Req!Waiting(d) : task'[o] = task[o]
      /\ \A o \in Caller \ Req!Waiting(d) : Req!At(o, "wait") => task[o].channel # d
  BY <1>1 DEF Req!Waiting
<1> HIDE DEF sent
<1>5. /\ inFlight'[d] = Null /\ \A c \in Channel : c # d => inFlight'[c] = inFlight[c]
      /\ cache'[d] = [token |-> t, usable |-> TRUE]
      /\ \A c \in Channel : c # d => cache'[c] = cache[c]
  BY <1>1 DEF RequestTyped
<1>6. RequestTyped'
  <2>1. task' \in [Caller -> Pushing]
    BY <1>1, <1>3 DEF RequestTyped
  <2> QED  BY <1>1, <1>2, <2>1 DEF RequestTyped
<1>7. \A o \in Caller : OpFits(o)' /\ AnswerStands(o)'
  <2> SUFFICES ASSUME NEW o \in Caller PROVE OpFits(o)' /\ AnswerStands(o)'
    OBVIOUS
  <2>1. CASE o \in Req!Waiting(d)
    BY <1>2, <1>3, <1>4, <2>1 DEF OpFits, AnswerStands, Req!At
  <2>2. CASE o \notin Req!Waiting(d)
    BY <1>1, <1>4, <1>5, <2>2 DEF RequestIInv, OpFits, AnswerStands, Req!At
  <2> QED  BY <2>1, <2>2
<1>8. \A c \in Channel : ChannelFits(c)'
  <2> SUFFICES ASSUME NEW c \in Channel PROVE ChannelFits(c)'
    OBVIOUS
  <2>1. CASE c = d
    BY <1>1, <1>2, <1>5, <2>1 DEF RequestIInv, ChannelFits, Brings
  <2>2. CASE c # d
    BY <1>1, <1>5, <2>2 DEF RequestIInv, ChannelFits, Brings
  <2> QED  BY <2>1, <2>2
<1>9. Fresh'
  <2>1. ASSUME "amid" \notin lapse', NEW c \in Channel, Brings(c)'
        PROVE  inFlight'[c].token \in alive'
    BY <1>1, <1>5, <2>1 DEF RequestIInv, Fresh, Brings
  <2>2. ASSUME "amid" \notin lapse', NEW o \in Caller PROVE SecondTry(o)'
    <3>1. SecondTry(o) /\ t \in alive'
      BY <1>1, <1>2, <2>2 DEF RequestIInv, Fresh
    <3>2. ~Req!At(o, "idle") => task[o].channel \in Channel
      BY DEF RequestIInv, OpFits
    <3>3. task[o].channel \in Channel => \/ cache'[task[o].channel] = cache[task[o].channel]
                                       \/ cache'[task[o].channel].token = t
      BY <1>5
    <3>4. CASE o \in Req!Waiting(d)
      BY <1>1, <1>3, <1>4, <1>5, <3>1, <3>4 DEF SecondTry, Req!At
    <3>5. CASE o \notin Req!Waiting(d)
      BY <1>1, <1>4, <3>1, <3>2, <3>3, <3>5 DEF SecondTry, Req!At
    <3> QED  BY <3>4, <3>5
  <2> QED  BY <2>1, <2>2 DEF Fresh
<1> QED  BY <1>1, <1>6, <1>7, <1>8, <1>9 DEF RequestIInv, Req!RevocationIsABlip

LEMMA MintFailsKeeps ==
    ASSUME Req!Parameters, RequestIInv, NEW d \in Channel, Req!MintFails(d) PROVE RequestIInv'
<1>1. /\ RequestTyped /\ inFlight[d] # Null
      /\ task' = [o \in Caller |-> IF o \in Req!Waiting(d) THEN Req!Idle ELSE task[o]]
      /\ inFlight' = [inFlight EXCEPT ![d] = Null]
      /\ mints' = [mints EXCEPT ![d].grounds = @ + 1]
      /\ UNCHANGED <<shown, alive, accepts, secret, cache, told, lapse>>
  BY DEF RequestIInv, Req!MintFails, Req!platform, Req!Ground
<1>2. /\ \A o \in Req!Waiting(d) : task'[o] = Req!Idle
      /\ \A o \in Caller \ Req!Waiting(d) : task'[o] = task[o]
      /\ \A o \in Caller \ Req!Waiting(d) : Req!At(o, "wait") => task[o].channel # d
  BY <1>1 DEF Req!Waiting
<1>3. /\ inFlight'[d] = Null /\ \A c \in Channel : c # d => inFlight'[c] = inFlight[c]
      /\ mints[d].made \in Nat /\ mints[d].grounds \in Nat
      /\ mints'[d].made = mints[d].made /\ mints'[d].grounds = mints[d].grounds + 1
      /\ \A c \in Channel : c # d => mints'[c] = mints[c]
      /\ mints' \in [Channel -> [made: Nat, grounds: Nat]]
  BY <1>1 DEF RequestTyped
<1>4. RequestTyped'
  <2>1. Req!Idle \in Pushing
    BY DEF Req!Idle, Pushing, Req!Parameters, Req!Quantity
  <2>2. task' \in [Caller -> Pushing]
    BY <1>1, <2>1 DEF RequestTyped
  <2> QED  BY <1>1, <1>3, <2>2 DEF RequestTyped
<1>5. \A o \in Caller : OpFits(o)' /\ AnswerStands(o)'
  <2> SUFFICES ASSUME NEW o \in Caller PROVE OpFits(o)' /\ AnswerStands(o)'
    OBVIOUS
  <2>1. CASE o \in Req!Waiting(d)
    BY <1>2, <2>1, IdleFits
  <2>2. CASE o \notin Req!Waiting(d)
    BY <1>1, <1>2, <1>3, <2>2 DEF RequestIInv, OpFits, AnswerStands, Req!At
  <2> QED  BY <2>1, <2>2
<1>6. \A c \in Channel : ChannelFits(c)'
  <2> SUFFICES ASSUME NEW c \in Channel PROVE ChannelFits(c)'
    OBVIOUS
  <2>1. CASE c = d
    BY <1>1, <1>3, <2>1 DEF RequestIInv, ChannelFits, Brings
  <2>2. CASE c # d
    BY <1>1, <1>3, <2>2 DEF RequestIInv, ChannelFits, Brings
  <2> QED  BY <2>1, <2>2
<1>7. Fresh'
  <2>1. ASSUME "amid" \notin lapse', NEW c \in Channel, Brings(c)'
        PROVE  inFlight'[c].token \in alive'
    BY <1>1, <1>3, <2>1 DEF RequestIInv, Fresh, Brings
  <2>2. ASSUME "amid" \notin lapse', NEW o \in Caller PROVE SecondTry(o)'
    <3>1. CASE o \in Req!Waiting(d)
      BY <1>2, <3>1, IdleFits
    <3>2. CASE o \notin Req!Waiting(d)
      BY <1>1, <1>2, <2>2, <3>2 DEF RequestIInv, Fresh, SecondTry, Req!At
    <3> QED  BY <3>1, <3>2
  <2> QED  BY <2>1, <2>2 DEF Fresh
<1> QED  BY <1>1, <1>4, <1>5, <1>6, <1>7 DEF RequestIInv, Req!RevocationIsABlip

\* All that a move of the number takes from a push is its claim to the answer.
LEMMA MovedPush ==
    ASSUME NEW push \in Pushing, NEW c
    PROVE  LET q == Req!Moved(push, c)
           IN  /\ q \in Pushing /\ q.step = push.step /\ q.channel = push.channel
               /\ q.token = push.token /\ q.again = push.again /\ q.reply = push.reply
               /\ q.want = push.want /\ q.seen = push.seen
               /\ q.stands => push.stands /\ push.channel # c
BY DEF Req!Moved, Pushing

LEMMA SendKeeps ==
    ASSUME Req!Parameters, RequestIInv, NEW p \in Caller, Req!Send(p) PROVE RequestIInv'
<1> DEFINE d == task[p].channel
           answer == Req!Answer(p)
           now(o) == IF answer = "set" THEN Req!Moved(task[o], d) ELSE task[o]
           next == [now(p) EXCEPT !.step = "reply", !.reply = answer, !.stands = TRUE,
                                  !.seen = IF answer = "read" THEN shown[d] ELSE @]
<1>1. /\ RequestTyped /\ Req!At(p, "send") /\ d \in Channel /\ task[p].token # Null
      /\ UNCHANGED <<alive, accepts, secret, cache, inFlight, mints, used>>
  BY DEF RequestIInv, Req!Send, OpFits, Req!At
<1>2. task' = [[o \in Caller |-> now(o)] EXCEPT ![p].step = "reply", ![p].reply = answer,
                 ![p].stands = TRUE, ![p].seen = IF answer = "read" THEN shown[d] ELSE @]
  BY DEF Req!Send
<1>3. \A o \in Caller : task[o] \in Pushing
  BY <1>1 DEF RequestTyped
<1>4. \A o \in Caller :
        /\ now(o) \in Pushing /\ now(o).step = task[o].step /\ now(o).channel = task[o].channel
        /\ now(o).token = task[o].token /\ now(o).again = task[o].again
        /\ now(o).reply = task[o].reply /\ now(o).want = task[o].want
               /\ now(o).seen = task[o].seen
        /\ now(o).stands => task[o].stands /\ (answer = "set" => task[o].channel # d)
  BY <1>3, MovedPush
<1>5. answer \in {"401", "read", "set", "stale"}
      /\ (answer = "401" <=> task[p].token \notin alive)
  BY DEF Req!Answer
<1>6. shown[d] \in Req!Quantity
  BY <1>1 DEF RequestTyped
<1> HIDE DEF answer, d
<1>7. task'[p] = next /\ \A o \in Caller : o # p => task'[o] = now(o)
  <2> HIDE DEF now
  <2> QED  BY <1>2, <1>4 DEF Pushing
<1>8. /\ next \in Pushing /\ next.step = "reply" /\ next.channel = d
             /\ next.token = task[p].token
      /\ next.again = task[p].again /\ next.reply = answer /\ next.want = task[p].want
      /\ answer = "read" => next.seen = shown[d]
  <2>1. now(p) \in Pushing /\ now(p).channel = d
    BY <1>4 DEF d
  <2>2. now(p).token = task[p].token /\ now(p).again = task[p].again
        /\ now(p).want = task[p].want
    BY <1>4
  <2> HIDE DEF now
  <2> DEFINE number == IF answer = "read" THEN shown[d] ELSE now(p).seen
  <2>3. number \in Req!Quantity
    BY <1>6, <2>1 DEF Pushing
  <2>4. answer = "read" => number = shown[d]
    OBVIOUS
  <2> HIDE DEF number
  <2>5. next = [now(p) EXCEPT !.step = "reply", !.reply = answer, !.stands = TRUE,
                              !.seen = number]
    BY DEF number
  <2> HIDE DEF next
  <2>6. next \in Pushing
    BY <1>5, <2>1, <2>3, <2>5 DEF Pushing
  <2>7. /\ next.step = "reply" /\ next.reply = answer /\ next.seen = number
        /\ next.channel = now(p).channel /\ next.token = now(p).token
        /\ next.again = now(p).again /\ next.want = now(p).want
    BY <2>1, <2>5 DEF Pushing
  <2> QED  BY <2>1, <2>2, <2>4, <2>6, <2>7
<1> HIDE DEF next
<1>9. task' \in [Caller -> Pushing]
  <2> HIDE DEF now
  <2>1. DOMAIN task' = Caller /\ \A o \in Caller : task'[o] \in Pushing
    BY <1>2, <1>4, <1>7, <1>8
  <2>2. task' = [o \in Caller |-> task'[o]]
    BY <1>2
  <2> QED  BY <2>1, <2>2
<1> HIDE DEF now
<1>10. /\ answer = "set" =>
            /\ shown' = [shown EXCEPT ![d] = task[p].want] /\ told' = [told EXCEPT ![d] = Null]
            /\ "amid" \in lapse' <=> "amid" \in lapse
            /\ "refused" \in lapse' <=> "refused" \in lapse
       /\ answer # "set" => UNCHANGED <<shown, told, lapse>>
  BY DEF Req!Send, answer, d
<1>11. RequestTyped'
  <2>1. task[p].want \in Req!Quantity
    BY <1>3 DEF Pushing
  <2>2. shown' \in [Channel -> Req!Quantity] /\ told' \in [Channel -> Req!Quantity \cup {Null}]
    BY <1>1, <1>10, <2>1 DEF RequestTyped
  <2> QED  BY <1>1, <1>9, <2>2 DEF RequestTyped
<1>12. /\ answer = "set" => shown'[d] = task[p].want
       /\ \A c \in Channel : c # d => shown'[c] = shown[c] /\ told'[c] = told[c]
       /\ answer # "set" => shown' = shown
       /\ \A c \in Channel : told'[c] # Null => told'[c] = told[c] /\ shown'[c] = shown[c]
  BY <1>1, <1>10 DEF RequestTyped
<1>13. \A o \in Caller : OpFits(o)' /\ AnswerStands(o)'
  <2> SUFFICES ASSUME NEW o \in Caller PROVE OpFits(o)' /\ AnswerStands(o)'
    OBVIOUS
  <2>1. OpFits(o) /\ AnswerStands(o)
    BY DEF RequestIInv
  <2>2. CASE o = p
    <3>1. OpFits(o)'
      BY <1>1, <1>7, <1>8, <2>1, <2>2 DEF OpFits, Req!At, d
    <3>2. AnswerStands(o)'
      BY <1>1, <1>7, <1>8, <1>12, <2>2 DEF AnswerStands, Req!At
    <3> QED  BY <3>1, <3>2
  <2>3. CASE o # p
    <3>1. task'[o] = now(o)
      BY <1>7, <2>3
    <3>2. OpFits(o)'
      BY <1>1, <1>4, <2>1, <3>1 DEF OpFits, Req!At
    <3>3. AnswerStands(o)'
      <4> SUFFICES ASSUME Req!At(o, "reply")', task'[o].stands
                   PROVE  shown'[task[o].channel] = shown[task[o].channel]
        BY <1>4, <2>1, <3>1 DEF AnswerStands, Req!At
      <4>1. task[o].channel \in Channel
        BY <1>4, <2>1, <3>1 DEF OpFits, Req!At
      <4> QED  BY <1>4, <1>12, <3>1, <4>1
    <3> QED  BY <3>2, <3>3
  <2> QED  BY <2>2, <2>3
<1>14. \A c \in Channel : ChannelFits(c)'
  BY <1>1, <1>12 DEF RequestIInv, ChannelFits, Brings
<1>15. Fresh'
  <2>1. "amid" \notin lapse' => "amid" \notin lapse
    BY <1>10
  <2>2. ASSUME "amid" \notin lapse', NEW c \in Channel, Brings(c)'
        PROVE  inFlight'[c].token \in alive'
    BY <1>1, <2>1, <2>2 DEF RequestIInv, Fresh, Brings
  <2>3. ASSUME "amid" \notin lapse', NEW o \in Caller PROVE SecondTry(o)'
    <3>1. SecondTry(o)
      BY <2>1, <2>3 DEF RequestIInv, Fresh
    <3>2. CASE o = p
      BY <1>1, <1>5, <1>7, <1>8, <3>1, <3>2 DEF SecondTry, Req!At, d
    <3>3. CASE o # p
      BY <1>1, <1>4, <1>7, <3>1, <3>3 DEF SecondTry, Req!At
    <3> QED  BY <3>2, <3>3
  <2> QED  BY <2>2, <2>3 DEF Fresh
<1>16. Req!RevocationIsABlip'
  BY <1>10 DEF RequestIInv, Req!RevocationIsABlip
<1> QED  BY <1>11, <1>13, <1>14, <1>15, <1>16 DEF RequestIInv

LEMMA UnauthorisedKeeps ==
    ASSUME Req!Parameters, RequestIInv, NEW p \in Caller, Req!Unauthorised(p) PROVE RequestIInv'
<1> DEFINE d == task[p].channel
<1>1. /\ RequestTyped /\ Req!At(p, "reply") /\ task[p].reply = "401" /\ d \in Channel
             /\ task[p] \in Pushing
      /\ UNCHANGED <<shown, alive, accepts, secret, inFlight, told>>
  BY DEF RequestIInv, Req!Unauthorised, OpFits, Req!At, RequestTyped, Req!platform
<1>2. told \in [Channel -> Req!Quantity \cup {Null}]
      /\ \A c \in Channel : told[c] # Null => told[c] = shown[c]
  BY <1>1 DEF RequestTyped, RequestIInv, ChannelFits
<1>3. CASE task[p].again
  <2>1. /\ task' = [task EXCEPT ![p] = Req!Idle] /\ lapse' = lapse \cup {"refused"}
        /\ UNCHANGED <<cache, mints>>
    BY <1>3 DEF Req!Unauthorised
  <2>2. "amid" \in lapse
    BY <1>1, <1>3 DEF RequestIInv, Fresh, SecondTry
  <2>3. task'[p] = Req!Idle /\ \A o \in Caller : o # p => task'[o] = task[o]
    BY <1>1, <2>1 DEF RequestTyped
  <2>4. RequestTyped'
    BY <1>1, <2>1, <2>3, IdleFits DEF RequestTyped
  <2>5. \A o \in Caller : OpFits(o)' /\ AnswerStands(o)'
    <3>1. OpFits(p)' /\ AnswerStands(p)'
      BY <2>3, IdleFits
    <3>2. \A o \in Caller : o # p => OpFits(o)' /\ AnswerStands(o)'
      BY <1>1, <2>3 DEF RequestIInv, OpFits, AnswerStands, Req!At
    <3> QED  BY <3>1, <3>2
  <2>6. \A c \in Channel : ChannelFits(c)'
    BY <1>1, <2>1 DEF RequestIInv, ChannelFits, Brings
  <2> QED  BY <2>1, <2>2, <2>4, <2>5, <2>6 DEF RequestIInv, Fresh, Req!RevocationIsABlip
<1>4. CASE ~task[p].again
  <2> DEFINE next == [task[p] EXCEPT !.step = "token", !.again = TRUE, !.reply = Null,
                                   !.token = Null]
  <2>1. /\ task' = [task EXCEPT ![p] = next] /\ cache' = [cache EXCEPT ![d] = Req!Empty]
        /\ mints' = [mints EXCEPT ![d].grounds = @ + 1] /\ UNCHANGED lapse
    BY <1>1, <1>4 DEF Req!Unauthorised, Req!Ground, RequestTyped, Pushing
  <2>2. next \in Pushing /\ next.step = "token" /\ next.token = Null /\ next.channel = d
    BY <1>1 DEF Pushing
  <2>3. task'[p] = next /\ \A o \in Caller : o # p => task'[o] = task[o]
    BY <1>1, <2>1 DEF RequestTyped
  <2> HIDE DEF next
  <2>4. /\ cache'[d] = Req!Empty /\ \A c \in Channel : c # d => cache'[c] = cache[c]
        /\ mints[d].made \in Nat /\ mints[d].grounds \in Nat
        /\ mints'[d].made = mints[d].made /\ mints'[d].grounds = mints[d].grounds + 1
        /\ \A c \in Channel : c # d => mints'[c] = mints[c]
        /\ mints' \in [Channel -> [made: Nat, grounds: Nat]]
    BY <1>1, <2>1 DEF RequestTyped
  <2>5. RequestTyped'
    BY <1>1, <2>1, <2>2, <2>4 DEF RequestTyped, Req!Empty
  <2>6. \A o \in Caller : OpFits(o)' /\ AnswerStands(o)'
    <3>1. OpFits(p)' /\ AnswerStands(p)'
      BY <1>1, <2>2, <2>3 DEF OpFits, AnswerStands, Req!At
    <3>2. \A o \in Caller : o # p => OpFits(o)' /\ AnswerStands(o)'
      BY <1>1, <2>3 DEF RequestIInv, OpFits, AnswerStands, Req!At
    <3> QED  BY <3>1, <3>2
  <2> HIDE DEF d
  <2>7. \A c \in Channel : ChannelFits(c)'
    <3> SUFFICES ASSUME NEW c \in Channel PROVE ChannelFits(c)'
      OBVIOUS
    <3>1. CASE c = d
      BY <1>1, <2>1, <2>4, <3>1 DEF RequestIInv, ChannelFits, Brings, Req!Empty
    <3>2. CASE c # d
      BY <1>1, <2>1, <2>4, <3>2 DEF RequestIInv, ChannelFits, Brings
    <3> QED  BY <3>1, <3>2
  <2>8. Fresh'
    <3>1. ASSUME "amid" \notin lapse', NEW c \in Channel, Brings(c)'
          PROVE  inFlight'[c].token \in alive'
      BY <1>1, <2>1, <3>1 DEF RequestIInv, Fresh, Brings
    <3>2. ASSUME "amid" \notin lapse', NEW o \in Caller PROVE SecondTry(o)'
      <4>1. CASE o = p
        BY <2>2, <2>3, <2>4, <4>1 DEF SecondTry, Req!At, Req!Empty
      <4>2. CASE o # p
        <5>1. SecondTry(o) /\ (~Req!At(o, "idle") => task[o].channel \in Channel)
          BY <2>1, <3>2 DEF RequestIInv, Fresh, OpFits
        <5>2. CASE task[o].channel = d
          BY <1>1, <2>3, <2>4, <4>2, <5>1, <5>2 DEF SecondTry, Req!At, Req!Empty
        <5>3. CASE task[o].channel # d
          BY <1>1, <2>3, <2>4, <4>2, <5>1, <5>3 DEF SecondTry, Req!At
        <5> QED  BY <5>2, <5>3
      <4> QED  BY <4>1, <4>2
    <3> QED  BY <3>1, <3>2 DEF Fresh
  <2> QED  BY <2>1, <2>5, <2>6, <2>7, <2>8 DEF RequestIInv, Req!RevocationIsABlip
<1> QED  BY <1>3, <1>4

\* A push that goes on to its next request, which is a first try, or is over.
LEMMA GoesOn ==
    ASSUME Req!Parameters, RequestIInv, NEW p \in Caller, Req!At(p, "reply"),
           UNCHANGED <<shown, alive, accepts, secret, cache, inFlight, mints, lapse>>,
           \/ \E side \in {"read", "write"}, attempt \in Nat, number \in Req!Quantity :
                 Req!Then(p, side, attempt, number)
           \/ task' = [task EXCEPT ![p] = Req!Idle] /\ UNCHANGED told
           \/ Req!Succeed(p) /\ task[p].reply \in {"read", "set"}
                         /\ (task[p].reply = "read" => task[p].seen = task[p].want)
    PROVE  RequestIInv'
<1> DEFINE d == task[p].channel
<1>1. RequestTyped /\ task[p] \in Pushing /\ d \in Channel /\ OpFits(p) /\ AnswerStands(p)
  BY DEF RequestIInv, RequestTyped, OpFits, Req!At
<1>2. told \in [Channel -> Req!Quantity \cup {Null}]
      /\ \A c \in Channel : told[c] # Null => told[c] = shown[c]
  BY <1>1 DEF RequestTyped, RequestIInv, ChannelFits
<1>3. ASSUME NEW side \in {"read", "write"}, NEW attempt \in Nat, NEW number \in Req!Quantity,
             Req!Then(p, side, attempt, number)
      PROVE  RequestIInv'
  <2> DEFINE next == [task[p] EXCEPT !.step = "token", !.phase = side, !.again = FALSE,
                         !.attempt = attempt, !.seen = number, !.reply = Null, !.token = Null]
  <2>1. task' = [task EXCEPT ![p] = next] /\ UNCHANGED told
    BY <1>3 DEF Req!Then
  <2>2. next \in Pushing
    BY <1>1 DEF Pushing
  <2>3. next.step = "token" /\ next.token = Null /\ next.channel = d /\ next.again = FALSE
    BY <1>1 DEF Pushing
  <2>4. task'[p] = next
    BY <1>1, <2>1 DEF RequestTyped
  <2> HIDE DEF next
  <2>5. OpFits(p)' /\ AnswerStands(p)' /\ SecondTry(p)'
    BY <1>1, <2>3, <2>4 DEF OpFits, AnswerStands, SecondTry, Req!At
  <2> QED  BY <1>2, <2>1, <2>2, <2>5, OnePushKeeps
<1>4. ASSUME task' = [task EXCEPT ![p] = Req!Idle],
             told' \in [Channel -> Req!Quantity \cup {Null}],
             \A c \in Channel : told'[c] # Null => told'[c] = shown[c]
      PROVE  RequestIInv'
  <2>1. task'[p] = Req!Idle
    BY <1>1, <1>4 DEF RequestTyped
  <2> QED  BY <1>4, <2>1, IdleFits, OnePushKeeps
<1>5. ASSUME Req!Succeed(p), task[p].reply \in {"read", "set"},
             task[p].reply = "read" => task[p].seen = task[p].want
      PROVE  RequestIInv'
  <2>1. task[p].stands => task[p].want = shown[d]
    BY <1>1, <1>5 DEF AnswerStands
  <2>2. task[p].want \in Req!Quantity
    BY <1>1 DEF Pushing
  <2>3. /\ task' = [task EXCEPT ![p] = Req!Idle]
        /\ told' = [told EXCEPT ![d] = IF task[p].stands THEN task[p].want ELSE @]
    BY <1>5 DEF Req!Succeed
  <2> HIDE DEF d
  <2>4. told' \in [Channel -> Req!Quantity \cup {Null}]
    BY <1>1, <1>2, <2>2, <2>3
  <2>5. \A c \in Channel : told'[c] # Null => told'[c] = shown[c]
    BY <1>1, <1>2, <2>1, <2>3
  <2> QED  BY <1>4, <2>3, <2>4, <2>5
<1> QED  BY <1>2, <1>3, <1>4, <1>5

LEMMA RepliesKeep ==
    ASSUME Req!Parameters, RequestIInv, NEW p \in Caller,
           Req!HaveRead(p) \/ Req!Written(p) \/ Req!ReplyLost(p)
    PROVE  RequestIInv'
<1>1. task[p] \in Pushing
  BY DEF RequestIInv, RequestTyped
<1>2. task[p].attempt \in Nat /\ task[p].seen \in Req!Quantity /\ 0 \in Req!Quantity
      /\ 2 \in Nat
  BY <1>1 DEF Pushing, Req!Quantity, Req!Parameters
<1>3. CASE Req!HaveRead(p)
  BY <1>2, <1>3, GoesOn DEF Req!HaveRead, Req!platform
<1>4. CASE Req!Written(p)
  BY <1>2, <1>4, GoesOn DEF Req!Written, Req!platform
<1>5. CASE Req!ReplyLost(p)
  BY <1>5, GoesOn DEF Req!ReplyLost, Req!platform
<1> QED  BY <1>3, <1>4, <1>5

LEMMA PurchaseKeeps ==
    ASSUME Req!Parameters, RequestIInv, NEW d \in Channel, Req!Purchase(d) PROVE RequestIInv'
<1> DEFINE now(o) == IF task[o].channel = d
                     THEN [Req!Moved(task[o], d) EXCEPT !.sold = @ \/ Req!HasRead(task[o])]
                     ELSE task[o]
<1>1. /\ RequestTyped /\ shown[d] > 0 /\ task' = [o \in Caller |-> now(o)]
      /\ shown' = [shown EXCEPT ![d] = @ - 1] /\ told' = [told EXCEPT ![d] = Null]
      /\ UNCHANGED <<alive, accepts, secret, cache, inFlight, mints, lapse>>
  BY DEF RequestIInv, Req!Purchase
<1>2. ASSUME NEW o \in Caller
      PROVE  /\ now(o) \in Pushing /\ now(o).step = task[o].step
             /\ now(o).channel = task[o].channel /\ now(o).token = task[o].token
             /\ now(o).again = task[o].again /\ now(o).reply = task[o].reply
             /\ now(o).want = task[o].want /\ now(o).seen = task[o].seen
             /\ now(o).stands => task[o].stands /\ task[o].channel # d
  <2>1. task[o] \in Pushing
    BY <1>1 DEF RequestTyped
  <2> DEFINE moved == Req!Moved(task[o], d)
             sold == moved.sold \/ Req!HasRead(task[o])
  <2>2. /\ moved \in Pushing /\ moved.step = task[o].step /\ moved.channel = task[o].channel
        /\ moved.token = task[o].token /\ moved.again = task[o].again
        /\ moved.reply = task[o].reply /\ moved.want = task[o].want /\ moved.seen = task[o].seen
        /\ moved.stands => task[o].stands /\ task[o].channel # d
    BY <2>1, MovedPush
  <2>3. sold \in BOOLEAN
    OBVIOUS
  <2>4. task[o].channel = d => now(o) = [moved EXCEPT !.sold = sold]
    OBVIOUS
  <2>5. task[o].channel # d => now(o) = task[o]
    OBVIOUS
  <2> HIDE DEF moved, sold, now
  <2>6. CASE task[o].channel = d
    <3>1. now(o) \in Pushing
      BY <2>2, <2>3, <2>4, <2>6 DEF Pushing
    <3>2. /\ now(o).step = moved.step /\ now(o).channel = moved.channel
          /\ now(o).token = moved.token /\ now(o).again = moved.again
          /\ now(o).reply = moved.reply /\ now(o).want = moved.want
          /\ now(o).seen = moved.seen /\ now(o).stands = moved.stands
      BY <2>2, <2>4, <2>6 DEF Pushing
    <3> QED  BY <2>2, <3>1, <3>2
  <2>7. CASE task[o].channel # d
    BY <2>1, <2>5, <2>7
  <2> QED  BY <2>6, <2>7
<1> HIDE DEF now
<1>3. \A o \in Caller : task'[o] = now(o)
  BY <1>1
<1>4. RequestTyped'
  <2>1. task' \in [Caller -> Pushing]
    BY <1>1, <1>2
  <2>2. shown[d] - 1 \in Req!Quantity
    BY <1>1 DEF RequestTyped, Req!Quantity, Req!Parameters
  <2>3. shown' \in [Channel -> Req!Quantity] /\ told' \in [Channel -> Req!Quantity \cup {Null}]
    BY <1>1, <2>2 DEF RequestTyped
  <2> QED  BY <1>1, <2>1, <2>3 DEF RequestTyped
<1>5. /\ \A c \in Channel : c # d => shown'[c] = shown[c]
      /\ \A c \in Channel : told'[c] # Null => told'[c] = told[c] /\ shown'[c] = shown[c]
  BY <1>1 DEF RequestTyped
<1>6. \A o \in Caller : OpFits(o)' /\ AnswerStands(o)'
  <2> SUFFICES ASSUME NEW o \in Caller PROVE OpFits(o)' /\ AnswerStands(o)'
    OBVIOUS
  <2>1. OpFits(o) /\ AnswerStands(o)
    BY DEF RequestIInv
  <2>2. OpFits(o)'
    BY <1>1, <1>2, <1>3, <2>1 DEF OpFits, Req!At
  <2>3. AnswerStands(o)'
    <3> SUFFICES ASSUME Req!At(o, "reply")', task'[o].stands
                 PROVE  shown'[task[o].channel] = shown[task[o].channel]
      BY <1>2, <1>3, <2>1 DEF AnswerStands, Req!At
    <3>1. task[o].channel \in Channel
      BY <1>2, <1>3, <2>1 DEF OpFits, Req!At
    <3> QED  BY <1>2, <1>3, <1>5, <3>1
  <2> QED  BY <2>2, <2>3
<1>7. \A c \in Channel : ChannelFits(c)'
  BY <1>1, <1>5 DEF RequestIInv, ChannelFits, Brings
<1>8. Fresh'
  <2>1. ASSUME "amid" \notin lapse', NEW c \in Channel, Brings(c)'
        PROVE  inFlight'[c].token \in alive'
    BY <1>1, <2>1 DEF RequestIInv, Fresh, Brings
  <2>2. ASSUME "amid" \notin lapse', NEW o \in Caller PROVE SecondTry(o)'
    <3>1. SecondTry(o)
      BY <1>1, <2>2 DEF RequestIInv, Fresh
    <3> QED  BY <1>1, <1>2, <1>3, <3>1 DEF SecondTry, Req!At
  <2> QED  BY <2>1, <2>2 DEF Fresh
<1> QED  BY <1>1, <1>4, <1>6, <1>7, <1>8 DEF RequestIInv, Req!RevocationIsABlip

LEMMA LapseKeeps ==
    ASSUME Req!Parameters, RequestIInv, NEW d \in Channel, Req!Lapse(d) PROVE RequestIInv'
<1>1. /\ RequestTyped /\ cache[d].usable
      /\ cache' = [cache EXCEPT ![d].usable = FALSE]
      /\ mints' = [mints EXCEPT ![d].grounds = @ + 1]
      /\ UNCHANGED <<shown, alive, accepts, secret, inFlight, task, told, lapse>>
  BY DEF RequestIInv, Req!Lapse, Req!Ground, Req!platform
<1>2. /\ cache'[d].usable = FALSE /\ cache'[d].token = cache[d].token
      /\ \A c \in Channel : c # d => cache'[c] = cache[c]
      /\ cache' \in [Channel -> [token: AnyToken \cup {Null}, usable: BOOLEAN]]
  BY <1>1 DEF RequestTyped
<1>3. /\ mints[d].made \in Nat /\ mints[d].grounds \in Nat
      /\ mints'[d].made = mints[d].made /\ mints'[d].grounds = mints[d].grounds + 1
      /\ \A c \in Channel : c # d => mints'[c] = mints[c]
      /\ mints' \in [Channel -> [made: Nat, grounds: Nat]]
  BY <1>1 DEF RequestTyped
<1>4. RequestTyped'
  BY <1>1, <1>2, <1>3 DEF RequestTyped
<1>5. \A o \in Caller : OpFits(o)' /\ AnswerStands(o)'
  BY <1>1 DEF RequestIInv, OpFits, AnswerStands, Req!At
<1>6. \A c \in Channel : ChannelFits(c)'
  <2> SUFFICES ASSUME NEW c \in Channel PROVE ChannelFits(c)'
    OBVIOUS
  <2>1. CASE c = d
    BY <1>1, <1>2, <1>3, <2>1 DEF RequestIInv, ChannelFits, Brings
  <2>2. CASE c # d
    BY <1>1, <1>2, <1>3, <2>2 DEF RequestIInv, ChannelFits, Brings
  <2> QED  BY <2>1, <2>2
<1>7. Fresh'
  <2>1. ASSUME "amid" \notin lapse', NEW c \in Channel, Brings(c)'
        PROVE  inFlight'[c].token \in alive'
    BY <1>1, <2>1 DEF RequestIInv, Fresh, Brings
  <2>2. ASSUME "amid" \notin lapse', NEW o \in Caller PROVE SecondTry(o)'
    <3>1. SecondTry(o) /\ (~Req!At(o, "idle") => task[o].channel \in Channel)
      BY <1>1, <2>2 DEF RequestIInv, Fresh, OpFits
    <3>2. task[o].channel \in Channel /\ cache'[task[o].channel].usable =>
             cache'[task[o].channel] = cache[task[o].channel]
      BY <1>2
    <3> QED  BY <1>1, <3>1, <3>2 DEF SecondTry, Req!At
  <2> QED  BY <2>1, <2>2 DEF Fresh
<1> QED  BY <1>1, <1>4, <1>5, <1>6, <1>7 DEF RequestIInv, Req!RevocationIsABlip

LEMMA RevokeKeeps ==
    ASSUME Req!Parameters, RequestIInv, NEW d \in Channel, NEW next \in {1, 2},
           Req!Revoke(d, next)
    PROVE  RequestIInv'
<1>1. /\ RequestTyped /\ alive' = {t \in alive : t[1] # d}
             /\ accepts' = [accepts EXCEPT ![d] = next]
      /\ lapse' = lapse \cup {l \in {"amid"} : Req!Amid(d)}
      /\ UNCHANGED <<shown, secret, cache, inFlight, task, told, mints>>
  BY DEF RequestIInv, Req!Revoke
<1>2. RequestTyped'
  BY <1>1 DEF RequestTyped
<1>3. \A o \in Caller : OpFits(o)' /\ AnswerStands(o)'
  BY <1>1 DEF RequestIInv, OpFits, AnswerStands, Req!At
<1>4. \A c \in Channel : ChannelFits(c)'
  BY <1>1 DEF RequestIInv, ChannelFits, Brings
<1>5. Fresh'
  <2>1. SUFFICES ASSUME "amid" \notin lapse'
                 PROVE  /\ \A c \in Channel : Brings(c)' => inFlight'[c].token \in alive'
                        /\ \A o \in Caller : SecondTry(o)'
    BY DEF Fresh
  <2>2. "amid" \notin lapse /\ ~Req!Amid(d)
    BY <1>1, <2>1
  <2>3. ASSUME NEW c \in Channel, Brings(c)' PROVE inFlight'[c].token \in alive'
    <3>1. Brings(c) /\ c # d
      BY <1>1, <2>2, <2>3 DEF Brings, Req!Amid
    <3>2. inFlight[c].token \in alive /\ inFlight[c].token[1] = c
      BY <2>2, <3>1 DEF RequestIInv, Fresh, ChannelFits
    <3> QED  BY <1>1, <3>1, <3>2
  <2>4. ASSUME NEW o \in Caller PROVE SecondTry(o)'
    <3>1. SUFFICES ASSUME task[o].again PROVE SecondTry(o)'
      BY <1>1 DEF SecondTry
    <3> DEFINE c == task[o].channel
    <3>2. SecondTry(o) /\ OpFits(o) /\ c # d
      BY <2>2, <3>1 DEF RequestIInv, Fresh, Req!Amid
    <3>3. c \in Channel /\ ChannelFits(c)
      BY <3>1, <3>2 DEF SecondTry, OpFits, RequestIInv
    <3>4. task[o].token # Null => task[o].token \in alive /\ task[o].token[1] = c
      BY <3>1, <3>2 DEF SecondTry, OpFits
    <3>5. cache[c].usable => cache[c].token \in alive /\ cache[c].token[1] = c
      BY <3>1, <3>2, <3>3 DEF SecondTry, ChannelFits
    <3> QED  BY <1>1, <3>1, <3>2, <3>4, <3>5 DEF SecondTry, Req!At
  <2> QED  BY <2>3, <2>4
<1>6. Req!RevocationIsABlip'
  BY <1>1 DEF RequestIInv, Req!RevocationIsABlip
<1> QED  BY <1>2, <1>3, <1>4, <1>5, <1>6 DEF RequestIInv

LEMMA StoreSecretKeeps ==
    ASSUME Req!Parameters, RequestIInv, NEW d \in Channel, Req!StoreSecret(d) PROVE RequestIInv'
<1>1. /\ RequestTyped /\ secret' = [secret EXCEPT ![d] = accepts[d]]
      /\ UNCHANGED <<shown, alive, accepts, cache, inFlight, task, told, mints, lapse>>
  BY DEF RequestIInv, Req!StoreSecret, Req!platform
<1>2. RequestTyped'
  BY <1>1 DEF RequestTyped
<1>3. \A o \in Caller : OpFits(o)' /\ AnswerStands(o)'
  BY <1>1 DEF RequestIInv, OpFits, AnswerStands, Req!At
<1>4. \A c \in Channel : ChannelFits(c)'
  BY <1>1 DEF RequestIInv, ChannelFits, Brings
<1>5. Fresh'
  BY <1>1 DEF RequestIInv, Fresh, Brings, SecondTry, Req!At
<1> QED  BY <1>1, <1>2, <1>3, <1>4, <1>5 DEF RequestIInv, Req!RevocationIsABlip

LEMMA RestKeeps ==
    ASSUME RequestIInv, UNCHANGED Req!vars PROVE RequestIInv'
<1>1. UNCHANGED <<shown, alive, accepts, secret, cache, inFlight, task, told, mints, lapse>>
  BY DEF Req!vars
<1>2. RequestTyped'
  BY <1>1 DEF RequestIInv, RequestTyped
<1>3. \A o \in Caller : OpFits(o)' /\ AnswerStands(o)'
  BY <1>1 DEF RequestIInv, OpFits, AnswerStands, Req!At
<1>4. \A c \in Channel : ChannelFits(c)'
  BY <1>1 DEF RequestIInv, ChannelFits, Brings
<1>5. Fresh'
  BY <1>1 DEF RequestIInv, Fresh, Brings, SecondTry, Req!At
<1> QED  BY <1>1, <1>2, <1>3, <1>4, <1>5 DEF RequestIInv, Req!RevocationIsABlip

\* Every step of the requests preserves the invariant.
LEMMA RequestsNext ==
    ASSUME Req!Parameters, RequestIInv, [Req!Next]_(Req!vars) PROVE RequestIInv'
<1>1. CASE \E o \in Caller : \/ \E c \in Channel : Req!Begin(o, c)
                         \/ Req!GetToken(o) \/ Req!Send(o) \/ Req!Unauthorised(o)
                         \/ Req!HaveRead(o)
                         \/ Req!Written(o) \/ Req!ReplyLost(o)
  BY <1>1, RequestBeginKeeps, GetTokenKeeps, SendKeeps, UnauthorisedKeeps, RepliesKeep
<1>2. CASE \E c \in Channel : \/ Req!Mint(c) \/ Req!Minted(c) \/ Req!MintFails(c)
                              \/ Req!Purchase(c) \/ Req!Lapse(c) \/ Req!StoreSecret(c)
                              \/ \E next \in {1, 2} : Req!Revoke(c, next)
  BY <1>2, MintKeeps, MintedKeeps, MintFailsKeeps, PurchaseKeeps, LapseKeeps,
     StoreSecretKeeps, RevokeKeeps
<1>3. CASE UNCHANGED Req!vars
  BY <1>3, RestKeeps
<1> QED  BY <1>1, <1>2, <1>3 DEF Req!Next

\* What the invariant says of the requests.
LEMMA RequestsInvariantSays ==
    ASSUME RequestIInv PROVE Req!RequestsHold
BY DEF RequestIInv, Req!RequestsHold, Req!BurstsMintOnce, Req!TokensStayHome, Req!ToldIsShown,
   Req!NobodyWaitsForever,
       OpFits, ChannelFits

\* However pushes overlap, tokens lapse and are revoked and customers buy: one request for a
\* token per ground, tokens of the right channel, true reports, and nobody left waiting.
THEOREM RequestsAreSound ==
    ASSUME Req!Parameters PROVE Req!Spec => []Req!RequestsHold
<1> QED  BY RequestsInit, RequestsNext, RequestsInvariantSays, PTL DEF Req!Spec

\* Finite sets are the same in the instances.
LEMMA SameSets ==
    \A S : /\ Fix!Cardinality(S) = Cardinality(S) /\ Fil!Cardinality(S) = Cardinality(S)
           /\ Blk!Cardinality(S) = Cardinality(S)
           /\ Fil!IsFiniteSet(S) <=> IsFiniteSet(S)
           /\ Blk!IsFiniteSet(S) <=> IsFiniteSet(S)
BY DEF Fix!Cardinality, Fil!Cardinality, Blk!Cardinality, Fil!IsFiniteSet, Blk!IsFiniteSet,
       Cardinality, IsFiniteSet

-------------------------------------------------------------------------------
(***************************************************************************)
(* Reports of drift and their repair.                                      *)
(***************************************************************************)

RepairListing == [quantity: Nat, active: BOOLEAN]

Reconciling == [step: {"none", "loaded", "reported"}, listed: Nat, desired: Nat,
                kinds: SUBSET {"missing", "quantity", "inactive"}, theirs: Nat,
                right: BOOLEAN, clear: BOOLEAN, why: SUBSET {"landed", "touched"}]

RepairTyped ==
    /\ shelf \in Int /\ onHand \in Nat
    /\ advertised \in [Channel -> Nat] /\ shown \in [Channel -> RepairListing \cup {Null}]
    /\ task \in [Channel -> Reconciling]
    /\ used \in [sales: Nat, runs: Nat, touches: Nat]
    /\ IsFiniteSet(notices) /\ \A n \in notices : n[2] \in Nat /\ n[2] <= used.sales

RepairShows(c) == shown[c] # Null
RepairLoaded(c) == task[c].step = "loaded"

\* What is on a channel that nobody touched is what was pushed; and where it is not what a
\* reconciliation has loaded, a push landed since, or somebody touched it.
RepairExplained(c) ==
    /\ RepairShows(c) /\ c \notin touched => shown[c].quantity = advertised[c]
    /\ RepairLoaded(c) /\ RepairShows(c) /\ shown[c].quantity # task[c].listed =>
          c \in touched \/ "landed" \in task[c].why
    /\ Fix!Reported(c) /\ "quantity" \in task[c].kinds => task[c].why # {}

\* A report made with every sale heard of counts what the ledger should.
RepairCounts(c) ==
    Fix!Reported(c) /\ task[c].right /\ task[c].clear => task[c].theirs = shelf + Fix!Unheard

RepairIInv ==
    /\ RepairTyped
    /\ \A c \in Channel : RepairExplained(c) /\ RepairCounts(c)
    /\ Fix!LedgerIsRight

LEMMA BlankFits ==
    ASSUME NEW c PROVE Fix!Blank \in Reconciling /\ Fix!Blank.step = "none"
BY DEF Fix!Blank, Reconciling

LEMMA RepairsInit ==
    ASSUME Fix!Parameters, Fix!Init PROVE RepairIInv
<1>1. Fix!Unheard = 0 /\ IsFiniteSet(notices)
  BY FS_EmptySet, SameSets DEF Fix!Init, Fix!Unheard
<1>2. onHand \in Nat /\ shelf \in Int
  BY DEF Fix!Init, Fix!Parameters
<1>3. RepairTyped
  BY <1>1, <1>2, BlankFits DEF Fix!Init, RepairTyped, RepairListing
<1>4. \A c \in Channel : RepairExplained(c) /\ RepairCounts(c)
  BY BlankFits DEF Fix!Init, RepairExplained, RepairCounts, RepairLoaded, Fix!Reported
<1>5. Fix!LedgerIsRight
  <2>1. counted => onHand = Stock
    BY DEF Fix!Init
  <2>2. shelf = Stock /\ Stock = Stock + 0
    BY DEF Fix!Init, Fix!Parameters
  <2> QED  BY <1>1, <2>1, <2>2 DEF Fix!LedgerIsRight
<1> QED  BY <1>3, <1>4, <1>5 DEF RepairIInv

LEMMA BuyKeeps ==
    ASSUME Fix!Parameters, RepairIInv, NEW d \in Channel, Fix!Buy(d) PROVE RepairIInv'
<1>1. /\ RepairTyped /\ RepairShows(d) /\ shown[d].quantity > 0
      /\ used' = [used EXCEPT !["sales"] = @ + 1]
      /\ shown' = [shown EXCEPT ![d].quantity = @ - 1] /\ shelf' = shelf - 1
      /\ notices' = notices \cup {<<d, used'.sales>>} /\ touched' = touched \cup {d}
      /\ UNCHANGED <<onHand, advertised, due, corrects, task, counted, lapse>>
  BY DEF RepairIInv, Fix!Buy, Fix!Use, RepairShows
<1>2. used'.sales = used.sales + 1 /\ used.sales \in Nat
      /\ used' \in [sales: Nat, runs: Nat, touches: Nat]
  BY <1>1 DEF RepairTyped
<1>3. <<d, used'.sales>> \notin notices
  BY <1>1, <1>2 DEF RepairTyped
<1>4. Fix!Unheard' = Fix!Unheard + 1 /\ Fix!Unheard \in Nat /\ IsFiniteSet(notices')
  BY <1>1, <1>3, FS_AddElement, FS_CardinalityType, SameSets DEF RepairTyped, Fix!Unheard
<1>5. shown[d] \in RepairListing
  BY <1>1 DEF RepairTyped, RepairShows
<1>6. /\ shown' \in [Channel -> RepairListing \cup {Null}]
      /\ \A c \in Channel : c # d => shown'[c] = shown[c]
  BY <1>1, <1>5 DEF RepairTyped, RepairListing
<1>7. RepairTyped'
  BY <1>1, <1>2, <1>4, <1>6 DEF RepairTyped
<1>8. \A c \in Channel : RepairExplained(c)'
  BY <1>1, <1>6 DEF RepairIInv, RepairExplained, RepairShows, RepairLoaded, Fix!Reported
<1>9. \A c \in Channel : RepairCounts(c)'
  BY <1>1, <1>4 DEF RepairIInv, RepairCounts, Fix!Reported, RepairTyped
<1>10. Fix!LedgerIsRight'
  BY <1>1, <1>4 DEF RepairIInv, Fix!LedgerIsRight, RepairTyped
<1> QED  BY <1>7, <1>8, <1>9, <1>10 DEF RepairIInv

LEMMA TouchKeeps ==
    ASSUME Fix!Parameters, RepairIInv, NEW d \in Channel, Fix!Touch(d) PROVE RepairIInv'
<1>1. /\ RepairTyped /\ RepairShows(d) /\ touched' = touched \cup {d}
      /\ used' = [used EXCEPT !["touches"] = @ + 1]
      /\ UNCHANGED <<shelf, onHand, advertised, due, notices, corrects, task, counted, lapse>>
  BY DEF RepairIInv, Fix!Touch, Fix!Use, RepairShows
<1>2. /\ shown' \in [Channel -> RepairListing \cup {Null}]
      /\ \A c \in Channel : c # d => shown'[c] = shown[c]
  <2>1. shown[d] \in RepairListing /\ (IF shelf > 0 THEN shelf ELSE 0) \in Nat
    BY <1>1 DEF RepairTyped, RepairShows
  <2>2. CASE shown' = [shown EXCEPT ![d].quantity = IF shelf > 0 THEN shelf ELSE 0]
    BY <1>1, <2>1, <2>2 DEF RepairTyped, RepairListing
  <2>3. CASE shown' = [shown EXCEPT ![d].active = FALSE]
    BY <1>1, <2>1, <2>3 DEF RepairTyped, RepairListing
  <2>4. CASE shown' = [shown EXCEPT ![d] = Null]
    BY <1>1, <2>4 DEF RepairTyped
  <2> QED  BY <2>2, <2>3, <2>4 DEF Fix!Touch
<1>3. used' \in [sales: Nat, runs: Nat, touches: Nat] /\ used'.sales = used.sales
  BY <1>1 DEF RepairTyped
<1>4. RepairTyped'
  BY <1>1, <1>2, <1>3 DEF RepairTyped
<1>5. \A c \in Channel : RepairExplained(c)'
  BY <1>1, <1>2 DEF RepairIInv, RepairExplained, RepairShows, RepairLoaded, Fix!Reported
<1>6. Fix!Unheard' = Fix!Unheard
  BY <1>1 DEF Fix!Unheard
<1>7. \A c \in Channel : RepairCounts(c)'
  BY <1>1, <1>6 DEF RepairIInv, RepairCounts, Fix!Reported
<1>8. Fix!LedgerIsRight'
  BY <1>1, <1>6 DEF RepairIInv, Fix!LedgerIsRight
<1> QED  BY <1>4, <1>5, <1>7, <1>8 DEF RepairIInv

LEMMA ApplySaleKeeps ==
    ASSUME Fix!Parameters, RepairIInv, NEW notice \in notices, Fix!ApplySale(notice)
    PROVE  RepairIInv'
<1> DEFINE now(c) == IF Fix!Reported(c) THEN [task[c] EXCEPT !.clear = FALSE] ELSE task[c]
<1>1. /\ RepairTyped /\ notices' = notices \ {notice}
      /\ onHand' = IF onHand > 0 THEN onHand - 1 ELSE 0
      /\ lapse' = lapse \cup {l \in {"clash"} : onHand = 0}
      /\ task' = [d \in Channel |-> now(d)]
      /\ UNCHANGED <<shelf, advertised, shown, corrects, counted, touched, used>>
  BY DEF RepairIInv, Fix!ApplySale, Fix!SetOnHand
<1>2. /\ Fix!Unheard' = Fix!Unheard - 1 /\ Fix!Unheard \in Nat /\ Fix!Unheard' \in Nat
      /\ IsFiniteSet(notices')
  BY <1>1, FS_RemoveElement, FS_CardinalityType, SameSets DEF RepairTyped, Fix!Unheard
<1>3. ASSUME NEW c \in Channel
      PROVE  /\ task'[c] \in Reconciling /\ task'[c].step = task[c].step
             /\ task'[c].kinds = task[c].kinds /\ task'[c].why = task[c].why
             /\ task'[c].listed = task[c].listed
             /\ Fix!Reported(c) => task'[c].clear = FALSE
  <2>1. task[c] \in Reconciling /\ task'[c] = now(c)
    BY <1>1 DEF RepairTyped
  <2> QED  BY <2>1 DEF Reconciling
<1> HIDE DEF now
<1>4. RepairTyped'
  <2>1. task' \in [Channel -> Reconciling]
    BY <1>1, <1>3
  <2>2. onHand' \in Nat
    BY <1>1 DEF RepairTyped
  <2> QED  BY <1>1, <1>2, <2>1, <2>2 DEF RepairTyped
<1>5. \A c \in Channel : RepairExplained(c)'
  BY <1>1, <1>3 DEF RepairIInv, RepairExplained, RepairShows, RepairLoaded, Fix!Reported
<1>6. \A c \in Channel : RepairCounts(c)'
  BY <1>3 DEF RepairCounts, Fix!Reported
<1>7. Fix!LedgerIsRight'
  <2> SUFFICES ASSUME counted', lapse' = {} PROVE onHand' = shelf' + Fix!Unheard'
    BY DEF Fix!LedgerIsRight
  <2>1. lapse = {} /\ onHand # 0 /\ onHand \in Nat /\ shelf \in Int
    BY <1>1 DEF RepairTyped
  <2> QED  BY <1>1, <1>2, <2>1 DEF RepairIInv, Fix!LedgerIsRight
<1> QED  BY <1>4, <1>5, <1>6, <1>7 DEF RepairIInv

LEMMA RepairPushKeeps ==
    ASSUME Fix!Parameters, RepairIInv, NEW d \in Channel, Fix!Push(d) PROVE RepairIInv'
<1>1. /\ RepairTyped /\ UNCHANGED <<shelf, onHand, notices, corrects, counted, used, lapse>>
      /\ Fix!Unheard' = Fix!Unheard
  BY DEF RepairIInv, Fix!Push, Fix!Unheard
<1>2. Fix!LedgerIsRight'
  BY <1>1 DEF RepairIInv, Fix!LedgerIsRight
<1>3. CASE ~RepairShows(d)
  <2>1. UNCHANGED <<shown, advertised, touched, task>>
    BY <1>3 DEF Fix!Push, RepairShows
  <2>2. RepairTyped'
    BY <1>1, <2>1 DEF RepairTyped
  <2>3. \A c \in Channel : RepairExplained(c)' /\ RepairCounts(c)'
    BY <1>1, <2>1 DEF RepairIInv, RepairExplained, RepairCounts, RepairShows, RepairLoaded,
       Fix!Reported
  <2> QED  BY <1>2, <2>2, <2>3 DEF RepairIInv
<1>4. CASE RepairShows(d)
  <2> DEFINE why == IF task[d].step = "loaded" THEN task[d].why \cup {"landed"} ELSE task[d].why
  <2>1. /\ shown' = [shown EXCEPT ![d].quantity = onHand]
        /\ advertised' = [advertised EXCEPT ![d] = onHand] /\ touched' = touched \ {d}
        /\ task' = [task EXCEPT ![d].why = why]
    BY <1>4 DEF Fix!Push, RepairShows
  <2>2. shown[d] \in RepairListing /\ task[d] \in Reconciling /\ onHand \in Nat
    BY <1>1, <1>4 DEF RepairTyped, RepairShows
  <2>3. why \in SUBSET {"landed", "touched"} /\ task[d].why \subseteq why
        /\ (RepairLoaded(d) => "landed" \in why)
    BY <2>2 DEF Reconciling, RepairLoaded
  <2> HIDE DEF why
  <2>4. /\ task'[d] \in Reconciling /\ task'[d].why = why /\ task'[d].step = task[d].step
        /\ task'[d].kinds = task[d].kinds /\ task'[d].right = task[d].right
        /\ task'[d].clear = task[d].clear /\ task'[d].theirs = task[d].theirs
        /\ task'[d].listed = task[d].listed
        /\ \A c \in Channel : c # d => task'[c] = task[c]
        /\ task' \in [Channel -> Reconciling]
    BY <1>1, <2>1, <2>2, <2>3 DEF RepairTyped, Reconciling
  <2>5. /\ shown'[d] \in RepairListing /\ shown'[d].quantity = onHand /\ advertised'[d] = onHand
        /\ \A c \in Channel : c # d => shown'[c] = shown[c] /\ advertised'[c] = advertised[c]
        /\ shown' \in [Channel -> RepairListing \cup {Null}] /\ advertised' \in [Channel -> Nat]
    BY <1>1, <2>1, <2>2 DEF RepairTyped, RepairListing
  <2>6. RepairTyped'
    BY <1>1, <2>4, <2>5 DEF RepairTyped
  <2>7. \A c \in Channel : RepairExplained(c)'
    <3> SUFFICES ASSUME NEW c \in Channel PROVE RepairExplained(c)'
      OBVIOUS
    <3>1. CASE c = d
      BY <2>3, <2>4, <2>5, <3>1 DEF RepairIInv, RepairExplained, RepairShows, RepairLoaded,
         Fix!Reported
    <3>2. CASE c # d
      BY <2>1, <2>4, <2>5, <3>2 DEF RepairIInv, RepairExplained, RepairShows, RepairLoaded,
         Fix!Reported
    <3> QED  BY <3>1, <3>2
  <2>8. \A c \in Channel : RepairCounts(c)'
    BY <1>1, <2>4 DEF RepairIInv, RepairCounts, Fix!Reported
  <2> QED  BY <1>2, <2>6, <2>7, <2>8 DEF RepairIInv
<1> QED  BY <1>3, <1>4

LEMMA LoadKeeps ==
    ASSUME Fix!Parameters, RepairIInv, NEW d \in Channel, Fix!Load(d) PROVE RepairIInv'
<1> DEFINE next == [Fix!Blank EXCEPT !.step = "loaded", !.listed = advertised[d],
                                    !.desired = onHand]
<1>1. /\ RepairTyped /\ task' = [task EXCEPT ![d] = next]
             /\ used' = [used EXCEPT !["runs"] = @ + 1]
      /\ UNCHANGED <<shelf, onHand, advertised, shown, due, notices, corrects, counted, touched,
                     lapse>>
      /\ Fix!Unheard' = Fix!Unheard
  BY DEF RepairIInv, Fix!Load, Fix!Use, Fix!Unheard
<1>2. next \in Reconciling /\ next.step = "loaded" /\ next.listed = advertised[d]
  BY <1>1 DEF RepairTyped, Fix!Blank, Reconciling
<1> HIDE DEF next
<1>3. /\ task'[d] = next /\ \A c \in Channel : c # d => task'[c] = task[c]
      /\ task' \in [Channel -> Reconciling]
  BY <1>1, <1>2 DEF RepairTyped
<1>4. used' \in [sales: Nat, runs: Nat, touches: Nat] /\ used'.sales = used.sales
  BY <1>1 DEF RepairTyped
<1>5. RepairTyped'
  BY <1>1, <1>3, <1>4 DEF RepairTyped
<1>6. \A c \in Channel : RepairExplained(c)' /\ RepairCounts(c)'
  <2> SUFFICES ASSUME NEW c \in Channel PROVE RepairExplained(c)' /\ RepairCounts(c)'
    OBVIOUS
  <2>1. CASE c = d
    BY <1>1, <1>2, <1>3, <2>1 DEF RepairIInv, RepairExplained, RepairCounts, RepairShows,
       RepairLoaded, Fix!Reported
  <2>2. CASE c # d
    BY <1>1, <1>3, <2>2 DEF RepairIInv, RepairExplained, RepairCounts, RepairShows,
       RepairLoaded, Fix!Reported
  <2> QED  BY <2>1, <2>2
<1>7. Fix!LedgerIsRight'
  BY <1>1 DEF RepairIInv, Fix!LedgerIsRight
<1> QED  BY <1>5, <1>6, <1>7 DEF RepairIInv

LEMMA CompareKeeps ==
    ASSUME Fix!Parameters, RepairIInv, NEW d \in Channel, Fix!Compare(d) PROVE RepairIInv'
<1> DEFINE kinds == Fix!Kinds(task[d], shown[d])
           theirs == IF shown[d] = Null THEN 0 ELSE shown[d].quantity
           why == task[d].why \cup {w \in {"touched"} : d \in touched}
           next == [task[d] EXCEPT !.step = "reported", !.kinds = kinds, !.theirs = theirs,
                       !.right = (theirs = shelf), !.clear = (Fix!Unheard = 0),
                       !.why = @ \cup {w \in {"touched"} : d \in touched}]
<1>1. /\ RepairTyped /\ RepairLoaded(d) /\ task[d] \in Reconciling
      /\ UNCHANGED <<shelf, onHand, advertised, shown, notices, corrects, counted, touched,
                     used, lapse>>
      /\ Fix!Unheard' = Fix!Unheard
  BY DEF RepairIInv, Fix!Compare, Fix!Unheard, RepairLoaded, RepairTyped
<1>2. task' = [task EXCEPT ![d] = next]
  BY DEF Fix!Compare
<1>3. theirs \in Nat /\ why \subseteq {"landed", "touched"}
  BY <1>1 DEF RepairTyped, RepairListing, Reconciling
<1>4. kinds \subseteq {"missing", "quantity", "inactive"}
  BY DEF Fix!Kinds
<1>5. "quantity" \in kinds => RepairShows(d) /\ shown[d].quantity # task[d].listed
  BY DEF Fix!Kinds, RepairShows
<1>6. "quantity" \in kinds => why # {}
  BY <1>1, <1>5 DEF RepairIInv, RepairExplained
<1> HIDE DEF kinds, theirs
<1> DEFINE right == (theirs = shelf)
           clear == (Fix!Unheard = 0)
<1>7. right \in BOOLEAN /\ clear \in BOOLEAN
  OBVIOUS
<1>8. next = [task[d] EXCEPT !.step = "reported", !.kinds = kinds, !.theirs = theirs,
                            !.right = right, !.clear = clear, !.why = why]
  OBVIOUS
<1> HIDE DEF why, right, clear, next
<1>9. /\ next \in Reconciling /\ next.step = "reported" /\ next.kinds = kinds
      /\ next.why = why /\ next.theirs = theirs
      /\ next.right = right /\ next.clear = clear
  BY <1>1, <1>3, <1>4, <1>7, <1>8 DEF Reconciling
<1>10. /\ task'[d] = next /\ \A c \in Channel : c # d => task'[c] = task[c]
      /\ task' \in [Channel -> Reconciling]
  BY <1>1, <1>2, <1>9 DEF RepairTyped
<1>11. RepairTyped'
  BY <1>1, <1>10 DEF RepairTyped
<1>12. \A c \in Channel : RepairExplained(c)' /\ RepairCounts(c)'
  <2> SUFFICES ASSUME NEW c \in Channel PROVE RepairExplained(c)' /\ RepairCounts(c)'
    OBVIOUS
  <2>1. CASE c = d
    <3>1. RepairExplained(c)'
      BY <1>1, <1>6, <1>9, <1>10, <2>1 DEF RepairIInv, RepairExplained, RepairShows,
         RepairLoaded, Fix!Reported
    <3>2. ASSUME right, clear PROVE theirs = shelf + Fix!Unheard
      <4>1. theirs = shelf /\ Fix!Unheard = 0 /\ shelf \in Int
        BY <1>1, <3>2 DEF right, clear, RepairTyped
      <4> QED  BY <4>1
    <3>3. RepairCounts(c)'
      BY <1>1, <1>9, <1>10, <2>1, <3>2 DEF RepairCounts, Fix!Reported
    <3> QED  BY <3>1, <3>3
  <2>2. CASE c # d
    BY <1>1, <1>10, <2>2 DEF RepairIInv, RepairExplained, RepairCounts, RepairShows,
       RepairLoaded, Fix!Reported
  <2> QED  BY <2>1, <2>2
<1>13. Fix!LedgerIsRight'
  BY <1>1 DEF RepairIInv, Fix!LedgerIsRight
<1> QED  BY <1>11, <1>12, <1>13 DEF RepairIInv

LEMMA SetLedgerKeeps ==
    ASSUME Fix!Parameters, RepairIInv, NEW d \in Channel, Fix!SetLedger(d) PROVE RepairIInv'
<1>1. /\ RepairTyped /\ Fix!Reported(d) /\ task[d].right /\ task[d] \in Reconciling
      /\ onHand' = task[d].theirs /\ counted' = TRUE
      /\ lapse' = lapse \cup {l \in {"crossed"} : ~task[d].clear}
      /\ task' = [task EXCEPT ![d] = Fix!Blank]
      /\ UNCHANGED <<shelf, advertised, shown, notices, corrects, touched, used>>
      /\ Fix!Unheard' = Fix!Unheard
  BY DEF RepairIInv, Fix!SetLedger, Fix!SetOnHand, Fix!Unheard, RepairTyped
<1>2. /\ task'[d] = Fix!Blank /\ \A c \in Channel : c # d => task'[c] = task[c]
      /\ task' \in [Channel -> Reconciling]
  BY <1>1, BlankFits DEF RepairTyped
<1>3. RepairTyped'
  BY <1>1, <1>2 DEF RepairTyped, Reconciling
<1>4. \A c \in Channel : RepairExplained(c)' /\ RepairCounts(c)'
  <2> SUFFICES ASSUME NEW c \in Channel PROVE RepairExplained(c)' /\ RepairCounts(c)'
    OBVIOUS
  <2>1. CASE c = d
    BY <1>1, <1>2, <2>1, BlankFits DEF RepairIInv, RepairExplained, RepairCounts, RepairShows,
       RepairLoaded, Fix!Reported
  <2>2. CASE c # d
    BY <1>1, <1>2, <2>2 DEF RepairIInv, RepairExplained, RepairCounts, RepairShows,
       RepairLoaded, Fix!Reported
  <2> QED  BY <2>1, <2>2
<1>5. Fix!LedgerIsRight'
  <2> SUFFICES ASSUME lapse' = {} PROVE onHand' = shelf' + Fix!Unheard'
    BY DEF Fix!LedgerIsRight
  <2>1. task[d].clear
    BY <1>1
  <2> QED  BY <1>1, <2>1 DEF RepairIInv, RepairCounts
<1> QED  BY <1>3, <1>4, <1>5 DEF RepairIInv

LEMMA RepairRestKeeps ==
    ASSUME RepairIInv, UNCHANGED Fix!vars PROVE RepairIInv'
<1>1. /\ UNCHANGED <<shelf, onHand, advertised, shown, notices, task, counted,
            touched, used, lapse>>
      /\ Fix!Unheard' = Fix!Unheard
  BY DEF Fix!vars, Fix!Unheard
<1>2. RepairTyped'
  BY <1>1 DEF RepairIInv, RepairTyped
<1>3. \A c \in Channel : RepairExplained(c)' /\ RepairCounts(c)'
  BY <1>1 DEF RepairIInv, RepairExplained, RepairCounts, RepairShows, RepairLoaded, Fix!Reported
<1> QED  BY <1>1, <1>2, <1>3 DEF RepairIInv, Fix!LedgerIsRight

\* Every step of the reconciliations preserves the invariant.
LEMMA RepairsNext ==
    ASSUME Fix!Parameters, RepairIInv, [Fix!Next]_(Fix!vars) PROVE RepairIInv'
<1>1. CASE \E c \in Channel : \/ Fix!Buy(c) \/ Fix!Touch(c) \/ Fix!Push(c)
                              \/ Fix!Load(c) \/ Fix!Compare(c) \/ Fix!SetLedger(c)
  BY <1>1, BuyKeeps, TouchKeeps, RepairPushKeeps, LoadKeeps, CompareKeeps, SetLedgerKeeps
<1>2. CASE \E notice \in notices : Fix!ApplySale(notice)
  BY <1>2, ApplySaleKeeps
<1>3. CASE UNCHANGED Fix!vars
  BY <1>3, RepairRestKeeps
<1> QED  BY <1>1, <1>2, <1>3 DEF Fix!Next

\* What the invariant says of the reconciliations.
LEMMA RepairsInvariantSays ==
    ASSUME RepairIInv PROVE Fix!RepairsAreRight
BY DEF RepairIInv, Fix!RepairsAreRight, Fix!DriftsAreReal, RepairExplained

\* For any channels, stock and bounds: a difference that is reported has a reason, and a
\* count made when every sale had been heard of makes the ledger right (diffLiveState,
\* ChannelsPage: "Set ledger").
THEOREM RepairsAreSound ==
    ASSUME Fix!Parameters PROVE Fix!Spec => []Fix!RepairsAreRight
<1> QED  BY RepairsInit, RepairsNext, RepairsInvariantSays, PTL DEF Fix!Spec

-------------------------------------------------------------------------------
(***************************************************************************)
(* Files that a person carries.                                            *)
(***************************************************************************)

FileSheet == SUBSET [line: Fil!Line, quantity: Nat]

FileEntry == [units: Nat, clash: BOOLEAN]

FileTyped ==
    /\ shown \in [Sku -> Nat] /\ awaiting \in [Fil!Line -> Nat]
    /\ ordered \in [Fil!Line -> 0..MaxPut] /\ put \in [Sku -> Nat]
    /\ sheets \subseteq FileSheet /\ DOMAIN stored \subseteq FileSheet
    /\ stored = [sheet \in DOMAIN stored |-> stored[sheet]]
    /\ task \in [sheet: FileSheet, rest: FileSheet] \cup {Null}
    /\ taken \in [Fil!Line -> Seq(FileEntry)]

\* No sheet holds more of a line than was ordered.
AwaitsOrdered == \A l \in Fil!Line : awaiting[l] <= ordered[l]
SheetsFit ==
    \A sheet \in sheets \cup DOMAIN stored :
        \A sale \in sheet : sale.quantity <= ordered[sale.line]

\* The price files that were downloaded add to no quantity.
ExportsAddNothing == \A file \in exports : \A s \in DOMAIN file : file[s].add = 0

\* A line that was taken without a clash, and no other, is on record as applied.
Applied(l) == [key |-> l, outcome |-> "ok"] \in events
TakenFits(l) ==
    /\ \A i \in 1..Len(taken[l]) : taken[l][i].units <= ordered[l]
    /\ \A i \in 1..Len(taken[l]) : taken[l][i].clash \/ Applied(l)
    /\ \A i \in 1..(Len(taken[l]) - 1) : taken[l][i].clash
    /\ Applied(l) => taken[l] # <<>>

\* A sale was taken from stock, or is on record as unmapped.
Seen(sale) == taken[sale.line] # <<>> \/ sale.line \in strays

\* The worker has seen what it has left behind.
JobFits ==
    task # Null =>
        /\ task.sheet \in DOMAIN stored /\ task.rest \subseteq task.sheet
        /\ \A sale \in task.sheet \ task.rest : Seen(sale)

SalesInv ==
    /\ AwaitsOrdered /\ SheetsFit /\ JobFits /\ Fil!NothingIsMissed
    /\ \A l \in Fil!Line : TakenFits(l)

FileIInv == FileTyped /\ SalesInv /\ ExportsAddNothing /\ Fil!StockIsTheirs

LEMMA FilesInit ==
    ASSUME Fil!Parameters, Fil!Init PROVE FileIInv
<1>1. taken \in [Fil!Line -> Seq(FileEntry)] /\ \A l \in Fil!Line : taken[l] = <<>>
  BY DEF Fil!Init
<1>2. DOMAIN stored = {} /\ stored = [sheet \in DOMAIN stored |-> stored[sheet]]
  <2>1. DOMAIN stored = {}
    BY DEF Fil!Init
  <2>2. stored = [x \in {} |-> Null]
    BY DEF Fil!Init
  <2> QED  BY <2>1, <2>2
<1>3. FileTyped
  BY <1>1, <1>2 DEF Fil!Init, FileTyped, Fil!Parameters
<1>4. AwaitsOrdered
  BY DEF Fil!Init, AwaitsOrdered
<1>5. SheetsFit /\ JobFits /\ Fil!NothingIsMissed
  BY <1>2 DEF Fil!Init, SheetsFit, JobFits, Fil!NothingIsMissed
<1>6. \A l \in Fil!Line : TakenFits(l)
  <2> TAKE l \in Fil!Line
  <2>1. taken[l] = <<>> /\ ~Applied(l)
    BY <1>1 DEF Fil!Init, Applied
  <2>2. Len(taken[l]) = 0
    BY <2>1
  <2> QED  BY <2>1, <2>2 DEF TakenFits
<1>7. ExportsAddNothing
  BY DEF Fil!Init, ExportsAddNothing
<1>8. Fil!StockIsTheirs
  <2> SUFFICES ASSUME NEW s \in Sku PROVE shown[s] + Cardinality(Fil!Bought(s)) = put[s]
    BY SameSets DEF Fil!StockIsTheirs
  <2>1. Fil!Bought(s) = {}
    BY DEF Fil!Init, Fil!Bought
  <2>2. Cardinality(Fil!Bought(s)) = 0
    BY <2>1, FS_EmptySet
  <2> QED  BY <2>2 DEF Fil!Init
<1> QED  BY <1>3, <1>4, <1>5, <1>6, <1>7, <1>8 DEF FileIInv, SalesInv

-------------------------------------------------------------------------------
\* What only concerns the platform's prices and the hub's ledger.
LEMMA SalesUntouched ==
    ASSUME FileIInv,
           UNCHANGED <<awaiting, ordered, sheets, events, stored, task, taken, strays>>
    PROVE  SalesInv'
<1>1. \A l \in Fil!Line : TakenFits(l)'
  BY DEF FileIInv, SalesInv, TakenFits, Applied
<1>2. AwaitsOrdered' /\ SheetsFit' /\ Fil!NothingIsMissed'
  BY DEF FileIInv, SalesInv, AwaitsOrdered, SheetsFit, Fil!NothingIsMissed
<1>3. JobFits'
  BY DEF FileIInv, SalesInv, JobFits, Seen
<1> QED  BY <1>1, <1>2, <1>3 DEF SalesInv

LEMMA StockUntouched ==
    ASSUME FileIInv, UNCHANGED <<shown, ordered, put>> PROVE Fil!StockIsTheirs'
BY DEF FileIInv, Fil!StockIsTheirs, Fil!Bought

\* There are as many units of a listing as were bought of it in all.
LEMMA BoughtIsFinite ==
    ASSUME Fil!Parameters, NEW s
    PROVE  IsFiniteSet(Fil!Bought(s)) /\ Cardinality(Fil!Bought(s)) \in Nat
<1> DEFINE all == (CustomerOrder \X {s}) \X (1..MaxPut)
<1>1. IsFiniteSet(CustomerOrder) /\ IsFiniteSet({s}) /\ IsFiniteSet(1..MaxPut)
  <2>1. IsFiniteSet(CustomerOrder) /\ MaxPut \in Int /\ 1 \in Int
    BY SameSets DEF Fil!Parameters
  <2>2. IsFiniteSet({s})
    BY FS_Singleton
  <2>3. IsFiniteSet(1..MaxPut)
    BY <2>1, FS_Interval
  <2> QED  BY <2>1, <2>2, <2>3
<1>2. IsFiniteSet(CustomerOrder \X {s})
  BY <1>1, FS_Product
<1>3. IsFiniteSet(all)
  BY <1>1, <1>2, FS_Product
<1>4. Fil!Bought(s) \subseteq all
  BY DEF Fil!Bought, Fil!Line
<1> HIDE DEF all
<1>5. IsFiniteSet(Fil!Bought(s))
  BY <1>3, <1>4, FS_Subset
<1> QED  BY <1>5, FS_CardinalityType

LEMMA PutUpKeeps ==
    ASSUME Fil!Parameters, FileIInv, NEW d \in Sku, Fil!PutUp(d) PROVE FileIInv'
<1>1. /\ FileTyped /\ put' = [put EXCEPT ![d] = @ + 1] /\ shown' = [shown EXCEPT ![d] = @ + 1]
      /\ UNCHANGED <<awaiting, ordered, sheets, exports, events, stored, task, taken, strays>>
  BY DEF FileIInv, Fil!PutUp, Fil!hand, Fil!inbound
<1>2. FileTyped'
  BY <1>1 DEF FileTyped
<1>3. Fil!StockIsTheirs'
  <2> SUFFICES ASSUME NEW s \in Sku PROVE shown'[s] + Cardinality(Fil!Bought(s)') = put'[s]
    BY SameSets DEF Fil!StockIsTheirs
  <2>1. Fil!Bought(s)' = Fil!Bought(s)
    BY <1>1 DEF Fil!Bought
  <2>2. shown[s] + Cardinality(Fil!Bought(s)) = put[s] /\ Cardinality(Fil!Bought(s)) \in Nat
    BY BoughtIsFinite, SameSets DEF FileIInv, Fil!StockIsTheirs
  <2> QED  BY <1>1, <2>1, <2>2 DEF FileTyped
<1> QED  BY <1>1, <1>2, <1>3, SalesUntouched DEF FileIInv, ExportsAddNothing

LEMMA FileBuyKeeps ==
    ASSUME Fil!Parameters, FileIInv, NEW l \in Fil!Line, NEW quantity \in 1..MaxPut,
           Fil!Buy(l, quantity)
    PROVE  FileIInv'
<1>1. /\ FileTyped /\ ordered[l] = 0 /\ quantity <= shown[l[2]] /\ quantity \in Nat
      /\ shown' = [shown EXCEPT ![l[2]] = @ - quantity]
      /\ awaiting' = [awaiting EXCEPT ![l] = quantity]
      /\ ordered' = [ordered EXCEPT ![l] = quantity]
      /\ UNCHANGED <<sheets, exports, events, stored, task, put, taken, strays>>
  BY DEF FileIInv, Fil!Buy, Fil!hand, Fil!inbound
<1>2. l[2] \in Sku
  BY DEF Fil!Line
<1>3. /\ ordered'[l] = quantity /\ \A k \in Fil!Line : k # l => ordered'[k] = ordered[k]
      /\ \A k \in Fil!Line :
            ordered[k] \in Nat /\ ordered'[k] \in Nat /\ ordered[k] <= ordered'[k]
  BY <1>1, Fil!Parameters DEF FileTyped, Fil!Parameters
<1>4. FileTyped'
  <2>1. shown[l[2]] - quantity \in Nat
    BY <1>1, <1>2 DEF FileTyped
  <2>2. shown' \in [Sku -> Nat]
    BY <1>1, <1>2, <2>1 DEF FileTyped
  <2>3. awaiting' \in [Fil!Line -> Nat] /\ ordered' \in [Fil!Line -> 0..MaxPut]
    BY <1>1 DEF FileTyped, Fil!Parameters
  <2> QED  BY <1>1, <2>2, <2>3 DEF FileTyped
<1>5. AwaitsOrdered'
  BY <1>1, <1>3 DEF FileIInv, SalesInv, AwaitsOrdered, FileTyped
<1>6. SheetsFit'
  <2> SUFFICES ASSUME NEW sheet \in sheets \cup DOMAIN stored, NEW sale \in sheet
               PROVE  sale.quantity <= ordered'[sale.line]
    BY <1>1 DEF SheetsFit
  <2>1. sale.line \in Fil!Line /\ sale.quantity \in Nat
    BY <1>1 DEF FileTyped, FileSheet
  <2>2. sale.quantity <= ordered[sale.line]
    BY DEF FileIInv, SalesInv, SheetsFit
  <2> QED  BY <1>3, <2>1, <2>2
<1>7. \A k \in Fil!Line : TakenFits(k)'
  <2> SUFFICES ASSUME NEW k \in Fil!Line PROVE TakenFits(k)'
    OBVIOUS
  <2>1. TakenFits(k) /\ taken[k] \in Seq(FileEntry)
    BY <1>1 DEF FileIInv, SalesInv, FileTyped
  <2>2. \A i \in 1..Len(taken[k]) : taken[k][i].units \in Nat
    <3>1. \A i \in 1..Len(taken[k]) : taken[k][i] \in FileEntry
      BY <2>1, ElementOfSeq
    <3> QED  BY <3>1 DEF FileEntry
  <2>3. \A i \in 1..Len(taken[k]) : taken[k][i].units <= ordered'[k]
    BY <1>3, <2>1, <2>2 DEF TakenFits
  <2> QED  BY <1>1, <2>1, <2>3 DEF TakenFits, Applied
<1>8. JobFits' /\ Fil!NothingIsMissed'
  BY <1>1 DEF FileIInv, SalesInv, JobFits, Seen, Fil!NothingIsMissed
<1>9. Fil!StockIsTheirs'
  <2> SUFFICES ASSUME NEW s \in Sku PROVE shown'[s] + Cardinality(Fil!Bought(s)') = put'[s]
    BY SameSets DEF Fil!StockIsTheirs
  <2>1. /\ shown[s] + Cardinality(Fil!Bought(s)) = put[s]
        /\ IsFiniteSet(Fil!Bought(s)) /\ Cardinality(Fil!Bought(s)) \in Nat
    BY BoughtIsFinite, SameSets DEF FileIInv, Fil!StockIsTheirs
  <2>2. CASE s # l[2]
    <3>1. Fil!Bought(s)' = Fil!Bought(s)
      BY <1>3, <2>2 DEF Fil!Bought
    <3> QED  BY <1>1, <2>1, <2>2, <3>1 DEF FileTyped
  <2>3. CASE s = l[2]
    <3> DEFINE new == {l} \X (1..quantity)
    <3>1. Fil!Bought(s)' = Fil!Bought(s) \cup new
      <4>1. \A unit \in new : unit \in Fil!Bought(s)'
        <5> SUFFICES ASSUME NEW unit \in new PROVE unit \in Fil!Bought(s)'
          OBVIOUS
        <5>1. unit[1] = l /\ unit[2] \in 1..quantity /\ unit = <<unit[1], unit[2]>>
          OBVIOUS
        <5>2. quantity <= MaxPut /\ MaxPut \in Nat
          BY DEF Fil!Parameters
        <5>3. unit[2] \in 1..MaxPut /\ unit[2] <= quantity
          BY <1>1, <5>1, <5>2
        <5>4. unit \in Fil!Line \X (1..MaxPut)
          BY <5>1, <5>3
        <5> QED  BY <1>3, <2>3, <5>1, <5>3, <5>4 DEF Fil!Bought
      <4>2. \A unit \in Fil!Bought(s)' : unit[1] # l => unit \in Fil!Bought(s)
        BY <1>3 DEF Fil!Bought
      <4>3. \A unit \in Fil!Bought(s)' : unit[1] = l => unit \in new
        BY <1>3 DEF Fil!Bought
      <4>4. \A unit \in Fil!Bought(s) : unit \in Fil!Bought(s)'
        BY <1>3 DEF Fil!Bought
      <4> QED  BY <4>1, <4>2, <4>3, <4>4
    <3>2. Fil!Bought(s) \cap new = {}
      BY <1>1 DEF Fil!Bought
    <3>3. IsFiniteSet(new) /\ Cardinality(new) = quantity
      <4>1. IsFiniteSet({l}) /\ Cardinality({l}) = 1
        BY FS_Singleton
      <4>2. IsFiniteSet(1..quantity) /\ Cardinality(1..quantity) = quantity
        BY <1>1, FS_Interval
      <4>3. IsFiniteSet(new) /\ Cardinality(new) = Cardinality({l}) * Cardinality(1..quantity)
        BY <4>1, <4>2, FS_Product
      <4> QED  BY <1>1, <4>1, <4>2, <4>3
    <3> HIDE DEF new
    <3>4. Cardinality({}) = 0
      BY FS_EmptySet
    <3>5. Cardinality(Fil!Bought(s) \cup new)
             = Cardinality(Fil!Bought(s)) + Cardinality(new)
                 - Cardinality(Fil!Bought(s) \cap new)
      BY <2>1, <3>3, FS_Union
    <3>7. Cardinality(Fil!Bought(s) \cap new) = 0
      BY <3>2, <3>4
    <3>8. Cardinality(Fil!Bought(s)') = Cardinality(Fil!Bought(s) \cup new)
      BY <3>1
    <3>6. Cardinality(Fil!Bought(s)') = Cardinality(Fil!Bought(s)) + quantity
      BY <1>1, <2>1, <3>3, <3>5, <3>7, <3>8
    <3> QED  BY <1>1, <2>1, <2>3, <3>6 DEF FileTyped
  <2> QED  BY <2>2, <2>3
<1> QED  BY <1>1, <1>4, <1>5, <1>6, <1>7, <1>8, <1>9 DEF FileIInv, SalesInv, ExportsAddNothing

LEMMA ShipKeeps ==
    ASSUME Fil!Parameters, FileIInv, NEW l \in Fil!Line, Fil!Ship(l) PROVE FileIInv'
<1>1. /\ FileTyped /\ awaiting[l] > 0 /\ awaiting' = [awaiting EXCEPT ![l] = @ - 1]
      /\ UNCHANGED <<shown, ordered, sheets, exports, events, stored, task, put, taken, strays>>
  BY DEF FileIInv, Fil!Ship, Fil!hand, Fil!inbound, Fil!history
<1>2. FileTyped'
  BY <1>1 DEF FileTyped
<1>3. AwaitsOrdered'
  BY <1>1 DEF FileIInv, SalesInv, AwaitsOrdered, FileTyped
<1>4. \A k \in Fil!Line : TakenFits(k)'
  BY <1>1 DEF FileIInv, SalesInv, TakenFits, Applied
<1>5. SheetsFit' /\ Fil!NothingIsMissed' /\ JobFits'
  BY <1>1 DEF FileIInv, SalesInv, SheetsFit, Fil!NothingIsMissed, JobFits, Seen
<1> QED  BY <1>1, <1>2, <1>3, <1>4, <1>5, StockUntouched DEF FileIInv, SalesInv,
            ExportsAddNothing

\* A pull sheet lists no more than was ordered.
LEMMA DownloadKeeps ==
    ASSUME Fil!Parameters, FileIInv, Fil!Download PROVE FileIInv'
<1>1. /\ FileTyped /\ sheets' \in {sheets, sheets \cup {Fil!PullSheet}}
      /\ UNCHANGED <<shown, awaiting, ordered, exports, events, stored, task, put, taken,
                     strays>>
  BY DEF FileIInv, Fil!Download, Fil!platform, Fil!inbound, Fil!history
<1>2. Fil!PullSheet \in FileSheet
  BY <1>1 DEF Fil!PullSheet, FileSheet, FileTyped
<1>3. \A sale \in Fil!PullSheet : sale.quantity <= ordered[sale.line]
  BY DEF Fil!PullSheet, FileIInv, SalesInv, AwaitsOrdered
<1>4. FileTyped'
  BY <1>1, <1>2 DEF FileTyped
<1>5. SheetsFit'
  BY <1>1, <1>3 DEF FileIInv, SalesInv, SheetsFit
<1>6. \A k \in Fil!Line : TakenFits(k)'
  BY <1>1 DEF FileIInv, SalesInv, TakenFits, Applied
<1>7. AwaitsOrdered' /\ Fil!NothingIsMissed' /\ JobFits'
  BY <1>1 DEF FileIInv, SalesInv, AwaitsOrdered, Fil!NothingIsMissed, JobFits, Seen
<1> QED  BY <1>1, <1>4, <1>5, <1>6, <1>7, StockUntouched DEF FileIInv, SalesInv,
            ExportsAddNothing

LEMMA UploadPricesKeeps ==
    ASSUME Fil!Parameters, FileIInv, NEW file \in exports, Fil!UploadPrices(file)
    PROVE  FileIInv'
<1>1. /\ FileTyped
      /\ shown' = [s \in Sku |-> IF s \in DOMAIN file THEN shown[s] + file[s].add ELSE shown[s]]
      /\ UNCHANGED <<awaiting, ordered, sheets, exports, events, stored, task, put, taken,
                     strays>>
  BY DEF FileIInv, Fil!UploadPrices, Fil!hand, Fil!inbound, Fil!history
<1>2. \A s \in DOMAIN file : file[s].add = 0
  BY DEF FileIInv, ExportsAddNothing
<1>3. shown' = shown
  BY <1>1, <1>2 DEF FileTyped
<1>4. FileTyped'
  BY <1>1, <1>3 DEF FileTyped
<1> QED  BY <1>1, <1>3, <1>4, SalesUntouched, StockUntouched DEF FileIInv, ExportsAddNothing

\* What the hub changes of its own, a price file downloaded, an inventory compared.
LEMMA EditsKeep ==
    ASSUME Fil!Parameters, FileIInv,
           \/ \E s \in Sku : Fil!MapListing(s) \/ Fil!SellElsewhere(s)
           \/ \E s \in Sku, p \in Price : Fil!EditPrice(s, p)
           \/ Fil!DownloadPrices
           \/ \E file \in pricings : Fil!ImportInventory(file)
           \/ UNCHANGED Fil!vars
    PROVE  FileIInv'
<1>1. UNCHANGED <<shown, awaiting, ordered, sheets, events, stored, task, put, taken, strays>>
  BY DEF Fil!MapListing, Fil!SellElsewhere, Fil!EditPrice, Fil!DownloadPrices,
     Fil!ImportInventory, Fil!vars, Fil!platform,
         Fil!hand, Fil!inbound, Fil!history
<1>2. exports' = exports \/ exports' = exports \cup {Fil!ExportListings}
  BY DEF Fil!MapListing, Fil!SellElsewhere, Fil!EditPrice, Fil!DownloadPrices,
     Fil!ImportInventory, Fil!vars, Fil!hand
<1>3. \A s \in DOMAIN Fil!ExportListings : Fil!ExportListings[s].add = 0
  BY DEF Fil!ExportListings
<1>4. ExportsAddNothing'
  BY <1>2, <1>3 DEF FileIInv, ExportsAddNothing
<1>5. FileTyped'
  BY <1>1 DEF FileIInv, FileTyped
<1> QED  BY <1>1, <1>4, <1>5, SalesUntouched, StockUntouched DEF FileIInv

LEMMA UploadSheetKeeps ==
    ASSUME Fil!Parameters, FileIInv, NEW sheet \in sheets, Fil!UploadSheet(sheet)
    PROVE  FileIInv'
<1>1. /\ FileTyped /\ sheet \notin DOMAIN stored
      /\ stored' = [x \in DOMAIN stored \cup {sheet} |->
                      IF x = sheet THEN "received" ELSE stored[x]]
      /\ UNCHANGED <<shown, awaiting, ordered, sheets, exports, events, task, put, taken,
                     strays>>
  BY DEF FileIInv, Fil!UploadSheet, Fil!platform, Fil!hand, Fil!history
<1>2. /\ DOMAIN stored' = DOMAIN stored \cup {sheet} /\ stored'[sheet] = "received"
      /\ \A x \in DOMAIN stored : stored'[x] = stored[x]
      /\ stored' = [x \in DOMAIN stored' |-> stored'[x]]
  BY <1>1
<1>3. FileTyped'
  BY <1>1, <1>2 DEF FileTyped
<1>4. SheetsFit' /\ AwaitsOrdered'
  BY <1>1, <1>2 DEF FileIInv, SalesInv, SheetsFit, AwaitsOrdered
<1>5. Fil!NothingIsMissed'
  BY <1>1, <1>2 DEF FileIInv, SalesInv, Fil!NothingIsMissed
<1>6. JobFits'
  BY <1>1, <1>2 DEF FileIInv, SalesInv, JobFits, Seen
<1>7. \A k \in Fil!Line : TakenFits(k)'
  BY <1>1 DEF FileIInv, SalesInv, TakenFits, Applied
<1> QED  BY <1>1, <1>3, <1>4, <1>5, <1>6, <1>7, StockUntouched DEF FileIInv, SalesInv,
            ExportsAddNothing

LEMMA TakeKeeps ==
    ASSUME Fil!Parameters, FileIInv, NEW sheet \in DOMAIN stored, Fil!Take(sheet)
    PROVE  FileIInv'
<1>1. /\ FileTyped /\ task' = [sheet |-> sheet, rest |-> sheet]
      /\ UNCHANGED <<shown, awaiting, ordered, sheets, exports, events, stored, put, taken,
                     strays>>
  BY DEF FileIInv, Fil!Take, Fil!platform, Fil!hand, Fil!history
<1>2. FileTyped'
  BY <1>1 DEF FileTyped
<1>3. JobFits'
  BY <1>1 DEF JobFits
<1>4. \A k \in Fil!Line : TakenFits(k)'
  BY <1>1 DEF FileIInv, SalesInv, TakenFits, Applied
<1>5. SheetsFit' /\ AwaitsOrdered' /\ Fil!NothingIsMissed'
  BY <1>1 DEF FileIInv, SalesInv, SheetsFit, AwaitsOrdered, Fil!NothingIsMissed
<1> QED  BY <1>1, <1>2, <1>3, <1>4, <1>5, StockUntouched DEF FileIInv, SalesInv,
            ExportsAddNothing

LEMMA FinishKeeps ==
    ASSUME Fil!Parameters, FileIInv, Fil!Finish PROVE FileIInv'
<1>1. /\ FileTyped /\ task # Null /\ task.rest = {} /\ task' = Null
      /\ stored' = [stored EXCEPT ![task.sheet] = "processed"]
      /\ UNCHANGED <<shown, awaiting, ordered, sheets, exports, events, put, taken, strays>>
  BY DEF FileIInv, Fil!Finish, Fil!platform, Fil!hand, Fil!history
<1>2. task.sheet \in DOMAIN stored /\ \A sale \in task.sheet : Seen(sale)
  BY <1>1 DEF FileIInv, SalesInv, JobFits
<1>3. /\ DOMAIN stored' = DOMAIN stored
      /\ \A x \in DOMAIN stored : x # task.sheet => stored'[x] = stored[x]
      /\ stored' = [x \in DOMAIN stored' |-> stored'[x]]
  BY <1>1, <1>2
<1>4. FileTyped'
  BY <1>1, <1>3 DEF FileTyped
<1>5. Fil!NothingIsMissed'
  BY <1>1, <1>2, <1>3 DEF FileIInv, SalesInv, Fil!NothingIsMissed, Seen
<1>6. JobFits'
  BY <1>1 DEF JobFits
<1>7. \A k \in Fil!Line : TakenFits(k)'
  BY <1>1 DEF FileIInv, SalesInv, TakenFits, Applied
<1>8. SheetsFit' /\ AwaitsOrdered'
  BY <1>1, <1>3 DEF FileIInv, SalesInv, SheetsFit, AwaitsOrdered
<1> QED  BY <1>1, <1>4, <1>5, <1>6, <1>7, <1>8, StockUntouched DEF FileIInv, SalesInv,
            ExportsAddNothing

\* Of the sales of a line, in any sheets, one is applied; another is tried again only after
\* a clash.
LEMMA FileApplySaleKeeps ==
    ASSUME Fil!Parameters, FileIInv, NEW sale \in Fil!Sale, Fil!ApplySale(sale) PROVE FileIInv'
<1> DEFINE l == sale.line
           clash == onHand[l[2]] < sale.quantity
           entry == [units |-> sale.quantity, clash |-> clash]
<1>1. /\ FileTyped /\ task # Null /\ sale \in task.rest
             /\ task' = [task EXCEPT !.rest = @ \ {sale}]
      /\ UNCHANGED <<shown, awaiting, ordered, sheets, exports, stored, put>>
  BY DEF FileIInv, Fil!ApplySale, Fil!platform, Fil!hand
<1>2. l \in Fil!Line /\ sale.quantity \in Nat /\ clash \in BOOLEAN /\ entry \in FileEntry
  BY DEF Fil!Sale, FileEntry
<1>3. /\ task \in [sheet: FileSheet, rest: FileSheet] /\ task.sheet \in DOMAIN stored
      /\ task.rest \subseteq task.sheet /\ sale \in task.sheet
      /\ \A other \in task.sheet \ task.rest : Seen(other)
  BY <1>1 DEF FileIInv, SalesInv, JobFits, FileTyped
<1>4. sale.quantity <= ordered[l]
  BY <1>3 DEF FileIInv, SalesInv, SheetsFit
<1>5. /\ task'.sheet = task.sheet /\ task'.rest = task.rest \ {sale}
      /\ task' \in [sheet: FileSheet, rest: FileSheet]
  BY <1>1, <1>3 DEF FileSheet
<1>6. /\ \A k \in Fil!Line : TakenFits(k)
      /\ \A k \in Fil!Line : taken[k] \in Seq(FileEntry)
  BY <1>1 DEF FileIInv, SalesInv, FileTyped
<1> HIDE DEF clash, l, entry
<1>7. /\ taken' \in [Fil!Line -> Seq(FileEntry)] /\ \A k \in Fil!Line : TakenFits(k)'
      /\ \A k \in Fil!Line : taken[k] # <<>> => taken'[k] # <<>>
      /\ strays \subseteq strays' /\ Seen(sale)'
  <2>1. CASE Fil!AlreadyApplied(sale) /\ UNCHANGED <<events, taken, strays>>
    <3>1. Applied(l)
      BY <2>1 DEF Fil!AlreadyApplied, Fil!SaleKey, Applied, l
    <3>2. taken[l] # <<>>
      BY <1>2, <1>6, <3>1 DEF TakenFits
    <3>3. \A k \in Fil!Line : TakenFits(k)'
      BY <1>1, <1>6, <2>1 DEF TakenFits, Applied
    <3> QED  BY <1>1, <2>1, <3>2, <3>3 DEF FileTyped, Seen, l
  <2>2. CASE Fil!Enter(sale, "conflict") /\ strays' = strays \cup {sale.line} /\ taken' = taken
    <3>1. \A k \in Fil!Line : Applied(k)' <=> Applied(k)
      BY <2>2 DEF Fil!Enter, Applied
    <3>2. \A k \in Fil!Line : TakenFits(k)'
      BY <1>1, <1>6, <2>2, <3>1 DEF TakenFits
    <3> QED  BY <1>1, <2>2, <3>2 DEF FileTyped, Seen
  <2>3. CASE /\ ~Fil!AlreadyApplied(sale)
             /\ Fil!Enter(sale, IF clash THEN "conflict" ELSE "ok")
             /\ taken' = [taken EXCEPT ![l] = Append(@, entry)]
             /\ strays' = strays
    <3>1. ~Applied(l)
      BY <2>3 DEF Fil!AlreadyApplied, Fil!SaleKey, Applied, l
    <3>2. /\ taken'[l] = Append(taken[l], entry)
          /\ \A k \in Fil!Line : k # l => taken'[k] = taken[k]
      BY <1>1, <1>2, <2>3 DEF FileTyped
    <3>3. \A k \in Fil!Line : Applied(k)' <=> Applied(k) \/ (k = l /\ ~clash)
      BY <1>2, <2>3 DEF Fil!Enter, Fil!SaleKey, Applied, l
    <3>4. taken[l] \in Seq(FileEntry) /\ Len(taken[l]) \in Nat
      BY <1>2, <1>6
    <3>5. /\ taken'[l] \in Seq(FileEntry) /\ Len(taken'[l]) = Len(taken[l]) + 1
          /\ \A i \in 1..Len(taken[l]) : taken'[l][i] = taken[l][i]
          /\ taken'[l][Len(taken[l]) + 1] = entry /\ taken'[l] # <<>>
      BY <1>2, <3>2, <3>4, AppendProperties
    <3>6. taken' \in [Fil!Line -> Seq(FileEntry)]
      BY <1>1, <1>2, <2>3, <3>2, <3>5 DEF FileTyped
    <3>7. TakenFits(l)'
      <4>1. \A i \in 1..Len(taken[l]) :
               taken[l][i].units <= ordered[l] /\ taken[l][i].clash
        BY <1>2, <1>6, <3>1 DEF TakenFits
      <4>2. \A i \in 1..Len(taken'[l]) : i \in 1..Len(taken[l]) \/ i = Len(taken[l]) + 1
        BY <3>4, <3>5
      <4>3. entry.units = sale.quantity /\ entry.clash = clash
        BY DEF entry
      <4>4. \A i \in 1..Len(taken'[l]) : taken'[l][i].units <= ordered'[l]
        BY <1>1, <1>4, <3>5, <4>1, <4>2, <4>3
      <4>5. \A i \in 1..Len(taken'[l]) : taken'[l][i].clash \/ Applied(l)'
        BY <1>2, <3>3, <3>5, <4>1, <4>2, <4>3
      <4>6. \A i \in 1..(Len(taken'[l]) - 1) : taken'[l][i].clash
        BY <3>4, <3>5, <4>1
      <4> QED  BY <3>5, <4>4, <4>5, <4>6 DEF TakenFits
    <3>8. ASSUME NEW k \in Fil!Line, k # l PROVE TakenFits(k)'
      BY <1>1, <1>6, <3>2, <3>3, <3>8 DEF TakenFits
    <3> QED  BY <2>3, <3>2, <3>5, <3>6, <3>7, <3>8 DEF Seen, l
  <2> QED  BY <2>1, <2>2, <2>3 DEF Fil!ApplySale, clash, entry, l
<1>8. JobFits'
  <2> SUFFICES ASSUME NEW other \in task'.sheet \ task'.rest PROVE Seen(other)'
    BY <1>1, <1>3, <1>5 DEF JobFits
  <2>1. CASE other = sale
    BY <1>7, <2>1
  <2>2. CASE other # sale
    <3>1. Seen(other) /\ other.line \in Fil!Line
      BY <1>3, <1>5, <2>2 DEF FileSheet
    <3> QED  BY <1>7, <3>1 DEF Seen
  <2> QED  BY <2>1, <2>2
<1>9. Fil!NothingIsMissed'
  <2> SUFFICES ASSUME NEW sheet \in DOMAIN stored, stored[sheet] = "processed",
                      NEW other \in sheet
               PROVE  taken'[other.line] # <<>> \/ other.line \in strays'
    BY <1>1 DEF Fil!NothingIsMissed
  <2>1. other.line \in Fil!Line
    BY <1>1 DEF FileTyped, FileSheet
  <2>2. taken[other.line] # <<>> \/ other.line \in strays
    BY DEF FileIInv, SalesInv, Fil!NothingIsMissed
  <2> QED  BY <1>7, <2>1, <2>2
<1>10. FileTyped'
  BY <1>1, <1>5, <1>7 DEF FileTyped
<1>11. SheetsFit' /\ AwaitsOrdered'
  BY <1>1 DEF FileIInv, SalesInv, SheetsFit, AwaitsOrdered
<1> QED  BY <1>1, <1>7, <1>8, <1>9, <1>10, <1>11, StockUntouched
         DEF FileIInv, SalesInv, ExportsAddNothing

LEMMA FilesNext ==
    ASSUME Fil!Parameters, FileIInv, [Fil!Next]_(Fil!vars) PROVE FileIInv'
<1>1. CASE \E s \in Sku : Fil!PutUp(s)
  BY <1>1, PutUpKeeps
<1>2. CASE \E l \in Fil!Line, quantity \in 1..MaxPut : Fil!Buy(l, quantity)
  BY <1>2, FileBuyKeeps
<1>3. CASE \E l \in Fil!Line : Fil!Ship(l)
  BY <1>3, ShipKeeps
<1>4. CASE Fil!Download
  BY <1>4, DownloadKeeps
<1>5. CASE \E file \in exports : Fil!UploadPrices(file)
  BY <1>5, UploadPricesKeeps
<1>6. CASE \E sheet \in sheets : Fil!UploadSheet(sheet)
  BY <1>6, UploadSheetKeeps
<1>7. CASE \E sheet \in DOMAIN stored : Fil!Take(sheet)
  BY <1>7, TakeKeeps
<1>8. CASE \E sale \in Fil!Sale : Fil!ApplySale(sale)
  BY <1>8, FileApplySaleKeeps
<1>9. CASE Fil!Finish
  BY <1>9, FinishKeeps
<1> QED  BY <1>1, <1>2, <1>3, <1>4, <1>5, <1>6, <1>7, <1>8, <1>9, EditsKeep DEF Fil!Next

LEMMA FilesInvariantSays ==
    ASSUME FileIInv PROVE Fil!FilesAreSafe
<1>1. Fil!SoldOnce
  <2> SUFFICES ASSUME NEW l \in Fil!Line
               PROVE  /\ \A i \in DOMAIN taken[l] : taken[l][i].units <= ordered[l]
                      /\ \A i \in 1..(Len(taken[l]) - 1) : taken[l][i].clash
    BY DEF Fil!SoldOnce
  <2>1. TakenFits(l) /\ taken[l] \in Seq(FileEntry)
    BY DEF FileIInv, SalesInv, FileTyped
  <2>2. DOMAIN taken[l] = 1..Len(taken[l])
    BY <2>1
  <2> QED  BY <2>1, <2>2 DEF TakenFits
<1> QED  BY <1>1 DEF FileIInv, SalesInv, Fil!FilesAreSafe

\* For any listings, orders, prices and bounds, whatever files are uploaded, in whatever
\* order and however often: nothing is sold twice, nothing is missed, no stock is moved.
THEOREM FilesAreSound ==
    ASSUME Fil!Parameters PROVE Fil!Spec => []Fil!FilesAreSafe
<1>1. Fil!Init => FileIInv
  BY FilesInit
<1>2. FileIInv /\ [Fil!Next]_(Fil!vars) => FileIInv'
  BY FilesNext
<1>3. FileIInv => Fil!FilesAreSafe
  BY FilesInvariantSays
<1> QED  BY <1>1, <1>2, <1>3, PTL DEF Fil!Spec

-------------------------------------------------------------------------------
(***************************************************************************)
(* The provider people sign in by.                                         *)
(***************************************************************************)

PatchType == [enabled: BOOLEAN \cup {Null}, issuer: Issuer \cup {Null},
              secret: Issuer \cup {Null}, claim: BOOLEAN \cup {Null}, local: BOOLEAN \cup {Null}]
JobType == [step: {"idle", "check", "rows", "secret", "query", "install", "finish"},
            at: Replica \cup {Null}, patch: Sgn!Patch \cup {Sgn!NoPatch}, read: Sgn!Settings]
LoginType == [step: {"idle", "away", "resolve", "write"}, issuer: Issuer \cup {Null},
              subject: Person \cup {Null}, role: Sgn!Role \cup {Null}, found: Sgn!Account \cup {Null}]
UsedType == [saves: 0..MaxSaves, logins: 0..MaxLogins, mishaps: 0..MaxMishaps]

Somebody == \E w \in Sgn!Who : alive[w] # Null
SubjectIn == \E s \in Person : Sgn!IsActive(alive, s)

\* What a step of a job, or of a sign-in, says of what it holds.
SignInJobFits == \A j \in SettingsJob : task[j].step # "idle" => task[j].at \in Replica
LoginFits ==
    \A b \in Browser :
        /\ inFlight[b].step \in {"resolve", "write"} => inFlight[b].subject \in Person
        /\ inFlight[b].step = "resolve" => inFlight[b].role \in Sgn!Role
        /\ inFlight[b].step = "write" /\ inFlight[b].found = Null =>
              inFlight[b].role \in Sgn!Role /\ (inFlight[b].role = "admin" \/ Somebody)

\* The door is closed, or about to be, behind someone.
DoorFits ==
    "left" \notin lapse =>
        /\ ~secret.local => SubjectIn
        /\ \A j \in SettingsJob : task[j].step = "rows" /\ task[j].patch.local = FALSE => SubjectIn

\* Without an overlap one job is at work, and between its two statements it still holds the
\* secret of the provider it has stored.
SecretFits ==
    {"overlap", "broken"} \cap lapse = {} =>
        /\ \A i, j \in SettingsJob : task[i].step # "idle" /\ task[j].step # "idle" => i = j
        /\ \A j \in SettingsJob : task[j].step = "secret" =>
              secret.issuer = task[j].patch.secret /\ secret.issuer # Null
        /\ secret.secret = secret.issuer \/ \E j \in SettingsJob : task[j].step = "secret"

SignInIInv == Sgn!TypeOK /\ SignInJobFits /\ LoginFits /\ Sgn!AdminIsKept /\ DoorFits /\ SecretFits

\* A form sends a provider with its secret.
LEMMA PatchFits ==
    ASSUME NEW p \in Sgn!Patch \cup {Sgn!NoPatch}
    PROVE  p \in PatchType /\ p.issuer = p.secret
<1>1. Sgn!NoPatch \in PatchType /\ Sgn!NoPatch.issuer = Null /\ Sgn!NoPatch.secret = Null
  BY DEF Sgn!NoPatch, PatchType
<1>2. ASSUME NEW i \in Issuer
      PROVE  LET q == [Sgn!NoPatch EXCEPT !.issuer = i, !.secret = i]
                 r == [Sgn!NoPatch EXCEPT !.issuer = i, !.secret = i, !.enabled = TRUE]
             IN  q \in PatchType /\ q.issuer = q.secret /\ r \in PatchType /\ r.issuer = r.secret
  BY <1>1 DEF PatchType
<1>3. ASSUME NEW e \in BOOLEAN
      PROVE  /\ [Sgn!NoPatch EXCEPT !.enabled = e] \in PatchType
             /\ [Sgn!NoPatch EXCEPT !.enabled = e].issuer = [Sgn!NoPatch EXCEPT !.enabled = e].secret
             /\ [Sgn!NoPatch EXCEPT !.claim = e] \in PatchType
             /\ [Sgn!NoPatch EXCEPT !.claim = e].issuer = [Sgn!NoPatch EXCEPT !.claim = e].secret
             /\ [Sgn!NoPatch EXCEPT !.local = e] \in PatchType
             /\ [Sgn!NoPatch EXCEPT !.local = e].issuer = [Sgn!NoPatch EXCEPT !.local = e].secret
  BY <1>1 DEF PatchType
<1> DEFINE Providers == {[Sgn!NoPatch EXCEPT !.issuer = i, !.secret = i] : i \in Issuer}
           OnAtOnce == {[Sgn!NoPatch EXCEPT !.issuer = i, !.secret = i, !.enabled = TRUE] :
                            i \in Issuer}
           Switches == {[Sgn!NoPatch EXCEPT !.enabled = e] : e \in BOOLEAN}
           Claims == {[Sgn!NoPatch EXCEPT !.claim = c] : c \in BOOLEAN}
           Doors == {[Sgn!NoPatch EXCEPT !.local = l] : l \in BOOLEAN}
<1>4. p \in {Sgn!NoPatch} \cup Providers \cup OnAtOnce \cup Switches \cup Claims \cup Doors
  BY Zenon DEF Sgn!Patch
<1>5. CASE p \in Providers \cup OnAtOnce
  BY <1>2, <1>5
<1>6. CASE p \in Switches
  BY <1>3, <1>6
<1>7. CASE p \in Claims
  BY <1>3, <1>7
<1>8. CASE p \in Doors
  BY <1>3, <1>8
<1> HIDE DEF Providers, OnAtOnce, Switches, Claims, Doors
<1>9. CASE p = Sgn!NoPatch
  BY <1>1, <1>9
<1> QED  BY <1>4, <1>5, <1>6, <1>7, <1>8, <1>9

LEMMA MergedType ==
    ASSUME Sgn!Parameters, NEW from \in Sgn!Settings, NEW p \in PatchType, NEW fields
    PROVE  Sgn!Merged(from, p, fields) \in Sgn!Settings
  BY DEF Sgn!Merged, PatchType, Sgn!Settings

LEMMA SettingsPatch == Sgn!Settings \subseteq PatchType
  BY DEF Sgn!Settings, PatchType

LEMMA RestTypes ==
    ASSUME Sgn!Parameters
    PROVE  /\ Sgn!NoJob \in JobType /\ Sgn!NoJob.step = "idle"
           /\ Sgn!NoLogin \in LoginType /\ Sgn!NoLogin.step = "idle" /\ Sgn!Blank \in Sgn!Settings
<1>1. Sgn!Blank \in Sgn!Settings
  BY DEF Sgn!Blank, Sgn!Settings
<1>2. Sgn!NoJob \in JobType /\ Sgn!NoJob.step = "idle"
  BY <1>1 DEF Sgn!NoJob, JobType
<1>3. Sgn!NoLogin \in LoginType /\ Sgn!NoLogin.step = "idle"
  BY DEF Sgn!NoLogin, LoginType
<1> QED  BY <1>1, <1>2, <1>3

LEMMA SignInInit == ASSUME Sgn!Parameters, Sgn!Init PROVE SignInIInv
<1>0. task = [j \in SettingsJob |-> Sgn!NoJob] /\ inFlight = [b \in Browser |-> Sgn!NoLogin]
      /\ lapse = {}
  BY DEF Sgn!Init
<1>1. /\ secret \in Sgn!Settings /\ shown \subseteq Sgn!AllFields /\ secret.local = TRUE
      /\ secret.secret = secret.issuer
  <2>1. CASE secret = Sgn!Blank /\ shown = {}
    BY <2>1, RestTypes DEF Sgn!Blank
  <2>2. CASE /\ \E i \in Issuer, c \in BOOLEAN :
                secret = [Sgn!Blank EXCEPT !.enabled = TRUE, !.issuer = i, !.secret = i, !.claim = c]
             /\ shown = {"enabled", "issuer", "secret", "claim"}
    <3>1. PICK i \in Issuer, c \in BOOLEAN :
              secret = [Sgn!Blank EXCEPT !.enabled = TRUE, !.issuer = i, !.secret = i, !.claim = c]
      BY <2>2
    <3> QED  BY <2>2, <3>1 DEF Sgn!Blank, Sgn!Settings, Sgn!AllFields
  <2> QED  BY <2>1, <2>2 DEF Sgn!Init
<1>2. alive \in [Sgn!Who -> Sgn!Account \cup {Null}] /\ Sgn!AdminIsKept
  <2>1. CASE alive = [w \in Sgn!Who |-> IF w = Sgn!Operator THEN Sgn!NewAccount("admin") ELSE Null]
    <3>1. Sgn!NewAccount("admin") \in Sgn!Account /\ Sgn!NewAccount("admin").active = TRUE
          /\ Sgn!NewAccount("admin").role = "admin"
      BY DEF Sgn!NewAccount, Sgn!Account, Sgn!Role
    <3>2. Sgn!NewAccount("admin") # Null
      BY <3>1 DEF Sgn!Parameters, Sgn!Account, Sgn!Role
    <3>3. Sgn!Operator \in Sgn!Who /\ alive[Sgn!Operator] = Sgn!NewAccount("admin")
      BY <2>1 DEF Sgn!Who
    <3>4. Sgn!Operator \in Sgn!Admins(alive)
      BY <3>1, <3>2, <3>3 DEF Sgn!Admins, Sgn!IsActive
    <3> QED  BY <2>1, <3>1, <3>4 DEF Sgn!AdminIsKept
  <2>2. CASE alive = [w \in Sgn!Who |-> Null]
    BY <2>2 DEF Sgn!AdminIsKept
  <2> QED  BY <2>1, <2>2 DEF Sgn!Init
<1>3. Sgn!TypeOK
  <2>1. used \in UsedType
    <3>1. used = [saves |-> 0, logins |-> 0, mishaps |-> 0]
      BY DEF Sgn!Init
    <3> QED  BY <3>1 DEF UsedType, Sgn!Parameters
  <2>2. task \in [SettingsJob -> JobType] /\ inFlight \in [Browser -> LoginType]
    BY <1>0, RestTypes
  <2>3. cache \in [Replica -> Sgn!Settings] /\ accepts \in [Replica -> Issuer \cup {Null}]
    BY <1>1 DEF Sgn!Init
  <2> QED  BY <1>0, <1>1, <1>2, <2>1, <2>2, <2>3 DEF Sgn!TypeOK, UsedType, JobType, LoginType
<1>4. SignInJobFits /\ LoginFits
  BY <1>0, RestTypes DEF SignInJobFits, LoginFits
<1>5. DoorFits /\ SecretFits
  BY <1>0, <1>1, RestTypes DEF DoorFits, SecretFits
<1> QED  BY <1>2, <1>3, <1>4, <1>5 DEF SignInIInv

\* A step of one job that stores nothing.
LEMMA JobStep ==
    ASSUME SignInIInv, Sgn!Parameters, NEW j \in SettingsJob, NEW q \in JobType,
           task' = [task EXCEPT ![j] = q],
           UNCHANGED <<secret, shown, accepts, inFlight, alive>>,
           cache' \in [Replica -> Sgn!Settings], used' \in UsedType,
           lapse' \in SUBSET {"overlap", "broken", "astray", "mapped", "left"},
               lapse \subseteq lapse',
           "mapped" \in lapse' => "mapped" \in lapse,
           q.step # "idle" => q.at \in Replica,
           q.step # "secret",
           q.step = "rows" /\ q.patch.local = FALSE => "left" \in lapse \/ SubjectIn,
           task[j].step = "secret" => "broken" \in lapse',
           task[j].step = "idle" /\ q.step # "idle" /\ (\E i \in SettingsJob : task[i].step # "idle")
              => "overlap" \in lapse'
    PROVE  SignInIInv'
<1>1. task' \in [SettingsJob -> JobType] /\ task'[j] = q
      /\ \A i \in SettingsJob \ {j} : task'[i] = task[i]
  BY DEF SignInIInv, Sgn!TypeOK, JobType
<1>2. Sgn!TypeOK'
  BY <1>1 DEF SignInIInv, Sgn!TypeOK, JobType, UsedType
<1>3. SignInJobFits' /\ LoginFits' /\ Sgn!AdminIsKept'
  BY <1>1 DEF SignInIInv, SignInJobFits, LoginFits, Sgn!AdminIsKept, Somebody, Sgn!Admins,
     Sgn!IsActive
<1>4. DoorFits'
  BY <1>1 DEF SignInIInv, DoorFits, SubjectIn, Sgn!IsActive
<1>5. SecretFits'
  <2> SUFFICES ASSUME {"overlap", "broken"} \cap lapse' = {} PROVE SecretFits'
    BY DEF SecretFits
  <2>1. {"overlap", "broken"} \cap lapse = {} /\ task[j].step # "secret"
    OBVIOUS
  <2>2. \A h, i \in SettingsJob : task'[h].step # "idle" /\ task'[i].step # "idle" => h = i
    <3> SUFFICES ASSUME NEW h \in SettingsJob, NEW i \in SettingsJob, task'[h].step # "idle",
                        task'[i].step # "idle", h # i
                 PROVE  FALSE
      OBVIOUS
    <3>1. \A k \in SettingsJob \ {j} : k \in {h, i} => task[k].step # "idle"
      BY <1>1
    <3>2. \E k \in {h, i} : k # j
      OBVIOUS
    <3>3. j \in {h, i} => q.step # "idle"
      BY <1>1
    <3> QED  BY <2>1, <3>1, <3>2, <3>3 DEF SignInIInv, SecretFits
  <2>3. \A i \in SettingsJob : task'[i].step = "secret" => i # j /\ task'[i] = task[i]
    BY <1>1
  <2>4. \A i \in SettingsJob : task[i].step = "secret" => task'[i].step = "secret"
    BY <1>1, <2>1
  <2> QED  BY <2>1, <2>2, <2>3, <2>4 DEF SignInIInv, SecretFits
<1> QED  BY <1>2, <1>3, <1>4, <1>5 DEF SignInIInv

\* One more of what a bound allows.
LEMMA UseTypes ==
    ASSUME Sgn!TypeOK, Sgn!Parameters
    PROVE  /\ Sgn!Mishap => used' \in UsedType
           /\ used.saves < MaxSaves /\ used' = [used EXCEPT !.saves = @ + 1] => used' \in UsedType
           /\ used.logins < MaxLogins /\ used' = [used EXCEPT !.logins = @ + 1] => used' \in UsedType
  BY DEF Sgn!TypeOK, Sgn!Parameters, UsedType, Sgn!Mishap

LEMMA LapseTypes ==
    ASSUME Sgn!TypeOK
    PROVE  /\ lapse \in SUBSET {"overlap", "broken", "astray", "mapped", "left"}
           /\ lapse \cup Sgn!Overlap \in SUBSET {"overlap", "broken", "astray", "mapped", "left"}
           /\ "mapped" \in lapse \cup Sgn!Overlap => "mapped" \in lapse
           /\ (\E i \in SettingsJob : task[i].step # "idle") => "overlap" \in lapse \cup Sgn!Overlap
  BY DEF Sgn!TypeOK, Sgn!Overlap

\* A save or a re-read starts.
LEMMA StartJobs ==
    ASSUME SignInIInv, Sgn!Parameters, NEW j \in SettingsJob, NEW p \in Replica,
           Sgn!AskSave(j, p) \/ Sgn!Refresh(j, p)
    PROVE  SignInIInv'
<1>0. Sgn!NoJob \in JobType /\ used \in UsedType /\ cache \in [Replica -> Sgn!Settings] /\ Sgn!TypeOK
  BY RestTypes DEF SignInIInv, Sgn!TypeOK, UsedType
<1>1. CASE Sgn!AskSave(j, p)
  <2>1. PICK patch \in Sgn!Patch :
          task' = [task EXCEPT ![j] = [Sgn!NoJob EXCEPT !.step = "check", !.at = p, !.patch = patch]]
    BY <1>1 DEF Sgn!AskSave
  <2> DEFINE q == [Sgn!NoJob EXCEPT !.step = "check", !.at = p, !.patch = patch]
  <2>2. q \in JobType /\ q.step = "check" /\ q.at = p
    BY <1>0 DEF JobType
  <2>3. task' = [task EXCEPT ![j] = q]
    BY <2>1
  <2>4. /\ UNCHANGED <<secret, cache, shown, accepts, inFlight, alive>>
        /\ lapse' = lapse \cup Sgn!Overlap /\ task[j].step = "idle"
        /\ used.saves < MaxSaves /\ used' = [used EXCEPT !.saves = @ + 1]
    BY <1>1 DEF Sgn!AskSave, Sgn!JobAt, Sgn!people
  <2>5. used' \in UsedType
    BY <1>0, <2>4, UseTypes
  <2> HIDE DEF q
  <2> QED  BY <1>0, <2>2, <2>3, <2>4, <2>5, LapseTypes, JobStep
<1>2. CASE Sgn!Refresh(j, p)
  <2> DEFINE q == [Sgn!NoJob EXCEPT !.step = "query", !.at = p]
  <2>2. q \in JobType /\ q.step = "query" /\ q.at = p
    BY <1>0 DEF JobType
  <2>3. task' = [task EXCEPT ![j] = q]
    BY <1>2 DEF Sgn!Refresh
  <2>4. /\ UNCHANGED <<secret, cache, shown, accepts, inFlight, alive, used>>
        /\ lapse' = lapse \cup Sgn!Overlap /\ task[j].step = "idle"
    BY <1>2 DEF Sgn!Refresh, Sgn!JobAt, Sgn!people
  <2> HIDE DEF q
  <2> QED  BY <1>0, <2>2, <2>3, <2>4, LapseTypes, JobStep
<1> QED  BY <1>1, <1>2

\* A save is judged, or a job ends, breaks off or reads.
LEMMA QuietJobs ==
    ASSUME SignInIInv, Sgn!Parameters, NEW j \in SettingsJob,
           \/ Sgn!Check(j) \/ Sgn!TestFails(j) \/ Sgn!Query(j)
           \/ Sgn!Install(j) \/ Sgn!Finish(j) \/ Sgn!BreakOff(j)
    PROVE  SignInIInv'
<1>0. /\ Sgn!NoJob \in JobType /\ Sgn!NoJob.step = "idle" /\ used \in UsedType /\ Sgn!TypeOK
      /\ cache \in [Replica -> Sgn!Settings] /\ task[j] \in JobType /\ secret \in Sgn!Settings
      /\ task[j].step # "idle" => task[j].at \in Replica
      /\ task[j].read \in Sgn!Settings
  BY RestTypes DEF SignInIInv, Sgn!TypeOK, UsedType, JobType, SignInJobFits
<1>l. /\ lapse \in SUBSET {"overlap", "broken", "astray", "mapped", "left"}
  BY <1>0, LapseTypes
<1>1. CASE Sgn!Check(j)
  <2>1. /\ UNCHANGED <<secret, cache, shown, accepts, inFlight, alive, used, lapse>>
        /\ task[j].step = "check"
    BY <1>1 DEF Sgn!Check, Sgn!JobAt, Sgn!people
  <2>2. CASE task' = [task EXCEPT ![j] = Sgn!NoJob]
    BY <1>0, <1>l, <2>1, <2>2, JobStep
  <2>3. CASE task' # [task EXCEPT ![j] = Sgn!NoJob]
    <3> DEFINE q == [task[j] EXCEPT !.step = "rows"]
    <3>1. task' = [task EXCEPT ![j] = q] /\ (task[j].patch.local = FALSE => SubjectIn)
      BY <1>1, <2>3 DEF Sgn!Check, Sgn!JobDone, Sgn!JobGoes, SubjectIn
    <3>2. q \in JobType /\ q.step = "rows" /\ q.at = task[j].at /\ q.patch = task[j].patch
      BY <1>0 DEF JobType
    <3> HIDE DEF q
    <3> QED  BY <1>0, <1>l, <2>1, <3>1, <3>2, JobStep
  <2> QED  BY <2>2, <2>3
<1>2. CASE Sgn!TestFails(j)
  <2>1. /\ UNCHANGED <<secret, cache, shown, accepts, inFlight, alive, lapse>> /\ Sgn!Mishap
        /\ task[j].step = "check" /\ task' = [task EXCEPT ![j] = Sgn!NoJob]
    BY <1>2 DEF Sgn!TestFails, Sgn!JobAt, Sgn!people, Sgn!JobDone
  <2> QED  BY <1>0, <1>l, <2>1, UseTypes, JobStep
<1>3. CASE Sgn!Query(j)
  <2> DEFINE r == [secret EXCEPT !.secret = Null]
             q == [task[j] EXCEPT !.step = "install", !.read = r]
  <2>1. /\ UNCHANGED <<secret, cache, shown, accepts, inFlight, alive, used, lapse>>
        /\ task[j].step = "query" /\ task' = [task EXCEPT ![j] = q]
    BY <1>3 DEF Sgn!Query, Sgn!JobAt, Sgn!people, SignInIInv, Sgn!TypeOK
  <2>2. r \in Sgn!Settings
    BY <1>0 DEF Sgn!Settings
  <2> HIDE DEF r
  <2>3. q \in JobType /\ q.step = "install" /\ q.at = task[j].at
    BY <1>0, <2>2 DEF JobType
  <2> HIDE DEF q
  <2> QED  BY <1>0, <1>l, <2>1, <2>3, JobStep
<1>4. CASE Sgn!Install(j)
  <2> DEFINE r == [task[j].read EXCEPT !.secret = secret.secret]
             q == [task[j] EXCEPT !.step = "finish", !.read = r]
  <2>1. /\ UNCHANGED <<secret, shown, accepts, inFlight, alive, used, lapse>>
        /\ task[j].step = "install"
        /\ cache' = [cache EXCEPT ![task[j].at] = Sgn!Merged(@, task[j].read, Sgn!RowFields)]
        /\ task' = [task EXCEPT ![j].step = "finish", ![j].read.secret = secret.secret]
    BY <1>4 DEF Sgn!Install, Sgn!JobAt, Sgn!people
  <2>2. r \in Sgn!Settings
    BY <1>0 DEF Sgn!Settings
  <2>3. task' = [task EXCEPT ![j] = q]
    BY <1>0, <2>1 DEF JobType, Sgn!Settings, SignInIInv, Sgn!TypeOK
  <2> HIDE DEF r
  <2>4. q \in JobType /\ q.step = "finish" /\ q.at = task[j].at
    BY <1>0, <2>2 DEF JobType
  <2>5. task[j].at \in Replica
        /\ Sgn!Merged(cache[task[j].at], task[j].read, Sgn!RowFields) \in Sgn!Settings
    BY <1>0, <2>1, MergedType, SettingsPatch
  <2>6. cache' \in [Replica -> Sgn!Settings]
    BY <1>0, <2>1, <2>5
  <2> HIDE DEF q
  <2> QED  BY <1>0, <1>l, <2>1, <2>3, <2>4, <2>6, JobStep
<1>5. CASE Sgn!Finish(j)
  <2>1. /\ UNCHANGED <<secret, shown, accepts, inFlight, alive, used, lapse>>
        /\ task[j].step = "finish" /\ task' = [task EXCEPT ![j] = Sgn!NoJob]
        /\ cache' = [cache EXCEPT ![task[j].at].secret = task[j].read.secret]
    BY <1>5 DEF Sgn!Finish, Sgn!JobAt, Sgn!people, Sgn!JobDone
  <2>2. task[j].at \in Replica
        /\ [cache[task[j].at] EXCEPT !.secret = task[j].read.secret] \in Sgn!Settings
    BY <1>0, <2>1 DEF Sgn!Settings
  <2>3. cache' \in [Replica -> Sgn!Settings]
    BY <1>0, <2>1, <2>2
  <2> QED  BY <1>0, <1>l, <2>1, <2>3, JobStep
<1>6. CASE Sgn!BreakOff(j)
  <2>1. /\ UNCHANGED <<secret, cache, shown, accepts, inFlight, alive>> /\ Sgn!Mishap
        /\ task' = [task EXCEPT ![j] = Sgn!NoJob] /\ lapse' = lapse \cup {"broken"}
    BY <1>6 DEF Sgn!BreakOff, Sgn!people, Sgn!JobDone
  <2> QED  BY <1>0, <1>l, <2>1, UseTypes, JobStep
<1> QED  BY <1>1, <1>2, <1>3, <1>4, <1>5, <1>6

\* A save writes the rows.
LEMMA SaveRowsStep ==
    ASSUME SignInIInv, Sgn!Parameters, NEW j \in SettingsJob, Sgn!SaveRows(j) PROVE SignInIInv'
<1> DEFINE to == IF task[j].patch.secret = Null THEN "query" ELSE "secret"
           q == [task[j] EXCEPT !.step = to]
<1>0. /\ task[j] \in JobType /\ task[j].patch \in PatchType /\ secret \in Sgn!Settings
      /\ task[j].patch.issuer = task[j].patch.secret /\ task[j].step = "rows"
      /\ task[j].at \in Replica
  BY PatchFits DEF SignInIInv, Sgn!TypeOK, JobType, SignInJobFits, Sgn!SaveRows, Sgn!JobAt
<1>1. /\ UNCHANGED <<cache, shown, accepts, inFlight, alive, used, lapse>>
      /\ secret' = Sgn!Merged(secret, task[j].patch, Sgn!RowFields)
      /\ task' = [task EXCEPT ![j] = q]
  BY <1>0 DEF Sgn!SaveRows, Sgn!people, Sgn!JobGoes, JobType, SignInIInv, Sgn!TypeOK
<1>2. to \in {"query", "secret"} /\ (to = "query" <=> task[j].patch.secret = Null)
  OBVIOUS
<1> HIDE DEF to
<1>3. q \in JobType /\ q.step = to /\ q.at = task[j].at /\ q.patch = task[j].patch
  BY <1>0, <1>2 DEF JobType
<1> HIDE DEF q
<1>4. task' \in [SettingsJob -> JobType] /\ task'[j] = q
      /\ \A i \in SettingsJob \ {j} : task'[i] = task[i]
  BY <1>1, <1>3 DEF SignInIInv, Sgn!TypeOK, JobType
<1>5. secret' \in Sgn!Settings
  BY <1>0, <1>1, MergedType
<1>6. /\ secret'.issuer = IF task[j].patch.issuer # Null THEN task[j].patch.issuer ELSE secret.issuer
      /\ secret'.secret = secret.secret
      /\ secret'.local = IF task[j].patch.local # Null THEN task[j].patch.local ELSE secret.local
  BY <1>1 DEF Sgn!Merged, Sgn!RowFields, Sgn!AllFields
<1>7. Sgn!TypeOK'
  BY <1>1, <1>4, <1>5 DEF SignInIInv, Sgn!TypeOK, JobType
<1>8. SignInJobFits' /\ LoginFits' /\ Sgn!AdminIsKept'
  BY <1>0, <1>1, <1>3, <1>4 DEF SignInIInv, SignInJobFits, LoginFits, Sgn!AdminIsKept, Somebody,
     Sgn!Admins, Sgn!IsActive
<1>9. DoorFits'
  <2> SUFFICES ASSUME "left" \notin lapse PROVE DoorFits'
    BY <1>1 DEF DoorFits
  <2>1. SubjectIn' <=> SubjectIn
    BY <1>1 DEF SubjectIn, Sgn!IsActive
  <2>2. ~secret'.local => SubjectIn
    <3>1. CASE task[j].patch.local = Null
      BY <1>6, <3>1 DEF SignInIInv, DoorFits
    <3>2. CASE task[j].patch.local # Null
      <4>1. task[j].patch.local \in BOOLEAN /\ secret'.local = task[j].patch.local
        BY <1>0, <1>6, <3>2 DEF PatchType
      <4> QED  BY <1>0, <4>1 DEF SignInIInv, DoorFits
    <3> QED  BY <3>1, <3>2
  <2>3. \A i \in SettingsJob : task'[i].step = "rows" => task'[i] = task[i]
    BY <1>2, <1>3, <1>4
  <2> QED  BY <2>1, <2>2, <2>3 DEF SignInIInv, DoorFits
<1>10. SecretFits'
  <2> SUFFICES ASSUME {"overlap", "broken"} \cap lapse = {} PROVE SecretFits'
    BY <1>1 DEF SecretFits
  <2>1. \A i \in SettingsJob \ {j} : task[i].step = "idle" /\ task'[i].step = "idle"
    BY <1>0, <1>4 DEF SignInIInv, SecretFits
  <2>2. secret.secret = secret.issuer
    BY <1>0, <2>1 DEF SignInIInv, SecretFits
  <2>3. CASE task[j].patch.secret = Null
    <3>1. secret'.secret = secret'.issuer /\ \A i \in SettingsJob : task'[i].step # "secret"
      BY <1>0, <1>2, <1>3, <1>4, <1>6, <2>1, <2>2, <2>3
    <3> QED  BY <2>1, <3>1 DEF SecretFits
  <2>4. CASE task[j].patch.secret # Null
    <3>1. /\ task'[j].step = "secret" /\ task'[j].patch = task[j].patch
          /\ secret'.issuer = task[j].patch.secret /\ secret'.issuer # Null
      BY <1>0, <1>2, <1>3, <1>4, <1>6, <2>4
    <3> QED  BY <2>1, <3>1 DEF SecretFits
  <2> QED  BY <2>3, <2>4
<1> QED  BY <1>7, <1>8, <1>9, <1>10 DEF SignInIInv

\* A save writes the secret.
LEMMA SaveSecretStep ==
    ASSUME SignInIInv, Sgn!Parameters, NEW j \in SettingsJob, Sgn!SaveSecret(j) PROVE SignInIInv'
<1> DEFINE q == [task[j] EXCEPT !.step = "query"]
<1>0. /\ task[j] \in JobType /\ task[j].patch \in PatchType /\ secret \in Sgn!Settings
      /\ task[j].step = "secret" /\ task[j].at \in Replica
  BY PatchFits DEF SignInIInv, Sgn!TypeOK, JobType, SignInJobFits, Sgn!SaveSecret, Sgn!JobAt
<1>1. /\ UNCHANGED <<cache, shown, accepts, inFlight, alive, used, lapse>>
      /\ secret' = Sgn!Merged(secret, task[j].patch, {"secret"})
      /\ task' = [task EXCEPT ![j] = q]
  BY <1>0 DEF Sgn!SaveSecret, Sgn!people, Sgn!JobGoes, JobType, SignInIInv, Sgn!TypeOK
<1>3. q \in JobType /\ q.step = "query" /\ q.at = task[j].at
  BY <1>0 DEF JobType
<1> HIDE DEF q
<1>4. task' \in [SettingsJob -> JobType] /\ task'[j] = q
      /\ \A i \in SettingsJob \ {j} : task'[i] = task[i]
  BY <1>1, <1>3 DEF SignInIInv, Sgn!TypeOK, JobType
<1>5. secret' \in Sgn!Settings
  BY <1>0, <1>1, MergedType
<1>6. /\ secret'.issuer = secret.issuer /\ secret'.local = secret.local
      /\ secret'.secret = IF task[j].patch.secret # Null THEN task[j].patch.secret ELSE secret.secret
  BY <1>1 DEF Sgn!Merged
<1>7. Sgn!TypeOK'
  BY <1>1, <1>4, <1>5 DEF SignInIInv, Sgn!TypeOK, JobType
<1>8. SignInJobFits' /\ LoginFits' /\ Sgn!AdminIsKept'
  BY <1>0, <1>1, <1>3, <1>4 DEF SignInIInv, SignInJobFits, LoginFits, Sgn!AdminIsKept, Somebody,
     Sgn!Admins, Sgn!IsActive
<1>9. DoorFits'
  <2>1. SubjectIn' <=> SubjectIn
    BY <1>1 DEF SubjectIn, Sgn!IsActive
  <2>2. \A i \in SettingsJob : task'[i].step = "rows" => task'[i] = task[i]
    BY <1>3, <1>4
  <2> QED  BY <1>1, <1>6, <2>1, <2>2 DEF SignInIInv, DoorFits
<1>10. SecretFits'
  <2> SUFFICES ASSUME {"overlap", "broken"} \cap lapse = {} PROVE SecretFits'
    BY <1>1 DEF SecretFits
  <2>1. \A i \in SettingsJob \ {j} : task[i].step = "idle" /\ task'[i].step = "idle"
    BY <1>0, <1>4 DEF SignInIInv, SecretFits
  <2>2. secret.issuer = task[j].patch.secret /\ secret.issuer # Null
    BY <1>0 DEF SignInIInv, SecretFits
  <2>3. secret'.secret = secret'.issuer /\ \A i \in SettingsJob : task'[i].step # "secret"
    BY <1>3, <1>4, <1>6, <2>1, <2>2
  <2> QED  BY <2>1, <2>3 DEF SecretFits
<1> QED  BY <1>7, <1>8, <1>9, <1>10 DEF SignInIInv

\* A step of a sign-in that writes no account.
LEMMA LoginStep ==
    ASSUME SignInIInv, Sgn!Parameters,
           UNCHANGED <<secret, cache, shown, task, alive>>,
           accepts' \in [Replica -> Issuer \cup {Null}], used' \in UsedType,
           inFlight' \in [Browser -> LoginType], LoginFits',
           lapse' \in SUBSET {"overlap", "broken", "astray", "mapped", "left"},
               lapse \subseteq lapse',
           "mapped" \in lapse' => "mapped" \in lapse
    PROVE  SignInIInv'
<1>1. Sgn!TypeOK'
  BY DEF SignInIInv, Sgn!TypeOK, UsedType, LoginType
<1>2. SignInJobFits' /\ Sgn!AdminIsKept' /\ DoorFits'
  BY DEF SignInIInv, SignInJobFits, Sgn!AdminIsKept, DoorFits, SubjectIn, Sgn!Admins, Sgn!IsActive
<1>3. SecretFits'
  BY DEF SignInIInv, SecretFits
<1> QED  BY <1>1, <1>2, <1>3 DEF SignInIInv

LEMMA SignIns ==
    ASSUME SignInIInv, Sgn!Parameters, NEW b \in Browser,
           (\E p \in Replica : Sgn!Start(b, p) \/ Sgn!Return(b, p) \/ Sgn!Resolve(b,
                 p)) \/ Sgn!Abandon(b)
    PROVE  SignInIInv'
<1>0. /\ Sgn!NoLogin \in LoginType /\ Sgn!NoLogin.step = "idle" /\ used \in UsedType /\ Sgn!TypeOK
             /\ LoginFits
      /\ accepts \in [Replica -> Issuer \cup {Null}] /\ inFlight \in [Browser -> LoginType]
      /\ lapse \in SUBSET {"overlap", "broken", "astray", "mapped", "left"}
      /\ inFlight[b] \in LoginType /\ cache \in [Replica -> Sgn!Settings]
  BY RestTypes DEF SignInIInv, Sgn!TypeOK, UsedType, LoginType
<1>d. \A p \in Replica : Sgn!Discovered(p) \in Issuer \cup {Null}
  BY <1>0 DEF Sgn!Discovered, Sgn!Settings
<1>f. ASSUME NEW l \in LoginType, inFlight' = [inFlight EXCEPT ![b] = l], alive' = alive,
             l.step \in {"resolve", "write"} => l.subject \in Person,
             l.step = "resolve" => l.role \in Sgn!Role,
             l.step = "write" /\ l.found = Null =>
                 l.role \in Sgn!Role /\ (l.role = "admin" \/ Somebody)
      PROVE  inFlight' \in [Browser -> LoginType] /\ LoginFits'
  <2>1. inFlight' \in [Browser -> LoginType] /\ inFlight'[b] = l
        /\ \A c \in Browser \ {b} : inFlight'[c] = inFlight[c]
    BY <1>0, <1>f
  <2>2. Somebody' <=> Somebody
    BY <1>f DEF Somebody
  <2> QED  BY <1>0, <1>f, <2>1, <2>2 DEF LoginFits
<1>1. ASSUME NEW p \in Replica, Sgn!Start(b, p) PROVE SignInIInv'
  <2> DEFINE l == [Sgn!NoLogin EXCEPT !.step = "away", !.issuer = Sgn!Discovered(p)]
  <2>1. /\ used.logins < MaxLogins /\ used' = [used EXCEPT !.logins = @ + 1]
        /\ accepts' = [accepts EXCEPT ![p] = Sgn!Discovered(p)]
        /\ \/ inFlight' = [inFlight EXCEPT ![b] = l] /\ lapse' = lapse
           \/ inFlight' = inFlight /\ lapse' = lapse \cup {"astray"}
        /\ UNCHANGED <<secret, cache, shown, task, alive>>
    BY <1>1 DEF Sgn!Start, Sgn!settings
  <2>2. l \in LoginType /\ l.step = "away"
    BY <1>0, <1>d DEF LoginType
  <2> HIDE DEF l
  <2>3. accepts' \in [Replica -> Issuer \cup {Null}] /\ used' \in UsedType
    BY <1>0, <1>d, <2>1, UseTypes
  <2>4. inFlight' \in [Browser -> LoginType] /\ LoginFits'
    <3>1. CASE inFlight' = [inFlight EXCEPT ![b] = l]
      BY <1>f, <2>1, <2>2, <3>1
    <3>2. CASE inFlight' = inFlight
      BY <1>0, <2>1, <3>2 DEF LoginFits, Somebody
    <3> QED  BY <2>1, <3>1, <3>2
  <2> QED  BY <1>0, <2>1, <2>3, <2>4, LoginStep
<1>2. ASSUME NEW p \in Replica, Sgn!Return(b, p) PROVE SignInIInv'
  <2>1. PICK s \in Person, r \in Sgn!Role :
          inFlight' = [inFlight EXCEPT ![b] =
             IF /\ Sgn!Enabled(p) /\ Sgn!Discovered(p) = @.issuer
                /\ cache[p].issuer = @.issuer /\ cache[p].secret = @.issuer
             THEN [@ EXCEPT !.step = "resolve", !.subject = s, !.role = r]
             ELSE Sgn!NoLogin]
    BY <1>2 DEF Sgn!Return
  <2> DEFINE l == [inFlight[b] EXCEPT !.step = "resolve", !.subject = s, !.role = r]
  <2>2. inFlight' = [inFlight EXCEPT ![b] = l] \/ inFlight' = [inFlight EXCEPT ![b] = Sgn!NoLogin]
    BY <1>0, <2>1
  <2>3. l \in LoginType /\ l.step = "resolve" /\ l.subject = s /\ l.role = r
    BY <1>0 DEF LoginType
  <2> HIDE DEF l
  <2>4. /\ accepts' = IF Sgn!Enabled(p) THEN [accepts EXCEPT ![p] = Sgn!Discovered(p)] ELSE accepts
        /\ UNCHANGED <<secret, cache, shown, task, alive, used, lapse>>
    BY <1>2 DEF Sgn!Return, Sgn!settings
  <2>5. accepts' \in [Replica -> Issuer \cup {Null}]
    BY <1>0, <1>d, <2>4
  <2>6. inFlight' \in [Browser -> LoginType] /\ LoginFits'
    BY <1>0, <1>f, <2>2, <2>3, <2>4
  <2> QED  BY <1>0, <2>4, <2>5, <2>6, LoginStep
<1>3. ASSUME NEW p \in Replica, Sgn!Resolve(b, p) PROVE SignInIInv'
  <2> DEFINE found == alive[inFlight[b].subject]
             renewed == IF cache[p].claim THEN inFlight[b].role ELSE Null
             role == IF found # Null THEN renewed
                     ELSE IF \A w \in Sgn!Who : alive[w] = Null THEN "admin"
                     ELSE IF renewed = Null THEN "viewer" ELSE renewed
             l == [inFlight[b] EXCEPT !.step = "write", !.role = role, !.found = found]
  <2>1. inFlight[b].step = "resolve" /\ inFlight[b].subject \in Person
        /\ inFlight[b].role \in Sgn!Role
    BY <1>0, <1>3 DEF Sgn!Resolve, LoginFits
  <2>2. inFlight' = [inFlight EXCEPT ![b] = l] \/ inFlight' = [inFlight EXCEPT ![b] = Sgn!NoLogin]
    BY <1>0, <1>3 DEF Sgn!Resolve
  <2>3. /\ found \in Sgn!Account \cup {Null} /\ role \in Sgn!Role \cup {Null}
        /\ found = Null => role \in Sgn!Role /\ (role = "admin" \/ Somebody)
    <3>1. found \in Sgn!Account \cup {Null}
      BY <1>0, <2>1 DEF Sgn!TypeOK, Sgn!Who
    <3>2. renewed \in Sgn!Role \cup {Null}
      BY <2>1
    <3> HIDE DEF renewed
    <3> QED  BY <3>1, <3>2 DEF Sgn!Role, Somebody
  <2> HIDE DEF found, renewed, role
  <2>4. l \in LoginType /\ l.step = "write" /\ l.subject = inFlight[b].subject /\ l.role = role
        /\ l.found = found
    BY <1>0, <2>3 DEF LoginType
  <2> HIDE DEF l
  <2>5. UNCHANGED <<secret, cache, shown, task, alive, accepts, used, lapse>>
    BY <1>3 DEF Sgn!Resolve, Sgn!settings
  <2>6. inFlight' \in [Browser -> LoginType] /\ LoginFits'
    BY <1>0, <1>f, <2>1, <2>2, <2>3, <2>4, <2>5
  <2> QED  BY <1>0, <2>5, <2>6, LoginStep
<1>4. CASE Sgn!Abandon(b)
  <2>1. /\ UNCHANGED <<secret, cache, shown, task, alive, accepts, used, lapse>>
        /\ inFlight' = [inFlight EXCEPT ![b] = Sgn!NoLogin]
    BY <1>4 DEF Sgn!Abandon, Sgn!settings
  <2>2. inFlight' \in [Browser -> LoginType] /\ LoginFits'
    BY <1>0, <1>f, <2>1
  <2> QED  BY <1>0, <2>1, <2>2, LoginStep
<1> QED  BY <1>1, <1>2, <1>3, <1>4

\* A step that changes an account: whoever was there is, and the invariant of the settings
\* needs no more than that active people stay.
LEMMA AccountStep ==
    ASSUME SignInIInv, Sgn!Parameters,
           UNCHANGED <<secret, cache, shown, task, accepts>>,
           alive' \in [Sgn!Who -> Sgn!Account \cup {Null}], inFlight' \in [Browser -> LoginType],
           used' \in UsedType, Somebody => Somebody',
           \A b \in Browser : inFlight'[b] = inFlight[b] \/ inFlight'[b] = Sgn!NoLogin,
           Sgn!AdminIsKept',
           lapse' \in SUBSET {"overlap", "broken", "astray", "mapped", "left"},
               lapse \subseteq lapse',
           "left" \notin lapse' => (SubjectIn => SubjectIn')
    PROVE  SignInIInv'
<1>1. Sgn!TypeOK'
  BY DEF SignInIInv, Sgn!TypeOK, UsedType, LoginType
<1>2. SignInJobFits' /\ DoorFits' /\ SecretFits'
  BY DEF SignInIInv, SignInJobFits, DoorFits, SecretFits
<1>3. LoginFits'
  BY RestTypes DEF SignInIInv, LoginFits
<1> QED  BY <1>1, <1>2, <1>3 DEF SignInIInv

LEMMA WriteStep ==
    ASSUME SignInIInv, Sgn!Parameters, NEW b \in Browser, Sgn!Write(b) PROVE SignInIInv'
<1> DEFINE s == inFlight[b].subject
           role == inFlight[b].role
<1>0. /\ inFlight[b].step = "write" /\ s \in Person /\ inFlight[b] \in LoginType
      /\ role \in Sgn!Role \cup {Null} /\ s \in Sgn!Who
      /\ alive \in [Sgn!Who -> Sgn!Account \cup {Null}] /\ inFlight \in [Browser -> LoginType]
      /\ used \in UsedType
      /\ lapse \in SUBSET {"overlap", "broken", "astray", "mapped", "left"}
      /\ inFlight[b].found = Null => role \in Sgn!Role /\ (role = "admin" \/ Somebody)
      /\ Sgn!AdminIsKept
  BY DEF Sgn!Write, SignInIInv, Sgn!TypeOK, LoginFits, LoginType, Sgn!Who, UsedType
<1>1. /\ IF (inFlight[b].found = Null) = (alive[s] = Null)
         THEN alive' = [alive EXCEPT ![s] = IF @ = Null THEN Sgn!NewAccount(role)
                                            ELSE IF role = Null THEN @
                                            ELSE [@ EXCEPT !.role = role]]
         ELSE UNCHANGED alive
      /\ lapse' = lapse \cup {l \in {"mapped"} : role # Null /\ inFlight[b].found # Null}
      /\ inFlight' = [inFlight EXCEPT ![b] = Sgn!NoLogin]
      /\ UNCHANGED <<secret, cache, shown, task, accepts, used>>
  BY DEF Sgn!Write, Sgn!settings
<1>2. /\ inFlight' \in [Browser -> LoginType]
      /\ \A c \in Browser : inFlight'[c] = inFlight[c] \/ inFlight'[c] = Sgn!NoLogin
  BY <1>0, <1>1, RestTypes
<1>3. /\ lapse' \in SUBSET {"overlap", "broken", "astray", "mapped", "left"} /\ lapse \subseteq lapse'
      /\ role # Null /\ inFlight[b].found # Null => "mapped" \in lapse'
  BY <1>0, <1>1
<1> HIDE DEF s, role
<1>4. CASE alive' = alive
  <2>1. Sgn!AdminIsKept'
    BY <1>0, <1>3, <1>4 DEF Sgn!AdminIsKept, Sgn!Admins, Sgn!IsActive
  <2>2. (Somebody <=> Somebody') /\ (SubjectIn <=> SubjectIn')
    BY <1>4 DEF Somebody, SubjectIn, Sgn!IsActive
  <2> QED  BY <1>0, <1>1, <1>2, <1>3, <1>4, <2>1, <2>2, AccountStep
<1>5. CASE alive[s] = Null /\ inFlight[b].found = Null
  <2> DEFINE a == Sgn!NewAccount(role)
  <2>1. a \in Sgn!Account /\ a.active = TRUE /\ a.role = role /\ a # Null
    <3>1. role \in Sgn!Role
      BY <1>0, <1>5
    <3>2. a \in Sgn!Account /\ a.active = TRUE /\ a.role = role
      BY <3>1 DEF Sgn!NewAccount, Sgn!Account
    <3>3. Null \notin Sgn!Account
      BY DEF Sgn!Parameters, Sgn!Account, Sgn!Role
    <3> QED  BY <3>2, <3>3
  <2> HIDE DEF a
  <2>2. alive' = [alive EXCEPT ![s] = a]
    BY <1>1, <1>5 DEF a
  <2>3. /\ alive' \in [Sgn!Who -> Sgn!Account \cup {Null}] /\ alive'[s] = a
        /\ \A w \in Sgn!Who : alive[w] # Null => alive'[w] = alive[w]
    BY <1>0, <1>5, <2>1, <2>2
  <2>4. Somebody => Somebody'
    BY <2>3 DEF Somebody
  <2>5. SubjectIn => SubjectIn'
    BY <2>3 DEF SubjectIn, Sgn!IsActive, Sgn!Who
  <2>6. Sgn!AdminIsKept'
    <3> SUFFICES ASSUME "mapped" \notin lapse PROVE Sgn!Admins(alive') # {}
      BY <1>3 DEF Sgn!AdminIsKept
    <3>1. CASE role = "admin"
      <4>1. s \in Sgn!Admins(alive')
        BY <1>0, <2>1, <2>3, <3>1 DEF Sgn!Admins, Sgn!IsActive
      <4> QED  BY <4>1
    <3>2. CASE Somebody
      <4>1. PICK w \in Sgn!Who : w \in Sgn!Admins(alive)
        BY <1>0, <3>2 DEF Sgn!AdminIsKept, Somebody, Sgn!Admins
      <4>2. w \in Sgn!Admins(alive')
        BY <2>3, <4>1 DEF Sgn!Admins, Sgn!IsActive
      <4> QED  BY <4>2
    <3> QED  BY <1>0, <1>5, <3>1, <3>2
  <2> QED  BY <1>0, <1>1, <1>2, <1>3, <2>3, <2>4, <2>5, <2>6, AccountStep
<1>6. CASE alive[s] # Null /\ inFlight[b].found # Null /\ role # Null
  <2> DEFINE a == [alive[s] EXCEPT !.role = role]
  <2>1. a \in Sgn!Account /\ a.active = alive[s].active /\ a # Null
    BY <1>0, <1>6 DEF Sgn!Account, Sgn!Parameters, Sgn!Role
  <2>2. alive' = [alive EXCEPT ![s] = a]
    BY <1>0, <1>1, <1>6
  <2> HIDE DEF a
  <2>3. /\ alive' \in [Sgn!Who -> Sgn!Account \cup {Null}] /\ alive'[s] = a
        /\ \A w \in Sgn!Who \ {s} : alive'[w] = alive[w]
    BY <1>0, <1>6, <2>1, <2>2
  <2>4. Somebody => Somebody'
    BY <1>0, <2>1, <2>3 DEF Somebody
  <2>5. SubjectIn => SubjectIn'
    BY <1>0, <2>1, <2>3 DEF SubjectIn, Sgn!IsActive, Sgn!Who
  <2>6. Sgn!AdminIsKept'
    BY <1>3, <1>6 DEF Sgn!AdminIsKept
  <2> QED  BY <1>0, <1>1, <1>2, <1>3, <2>3, <2>4, <2>5, <2>6, AccountStep
<1>7. alive[s] # Null /\ inFlight[b].found # Null /\ role = Null => alive' = alive
  BY <1>0, <1>1
<1>8. (inFlight[b].found = Null) # (alive[s] = Null) => alive' = alive
  BY <1>1
<1> QED  BY <1>4, <1>5, <1>6, <1>7, <1>8

LEMMA ChangeAccountStep ==
    ASSUME SignInIInv, Sgn!Parameters, NEW w \in Sgn!Who, Sgn!ChangeAccount(w) PROVE SignInIInv'
<1>0. /\ alive[w] \in Sgn!Account /\ alive \in [Sgn!Who -> Sgn!Account \cup {Null}]
      /\ inFlight \in [Browser -> LoginType] /\ Sgn!TypeOK
      /\ lapse \in SUBSET {"overlap", "broken", "astray", "mapped", "left"}
      /\ Sgn!Admins(alive) \ {w} # {} /\ Sgn!Mishap
      /\ UNCHANGED <<secret, cache, shown, task, accepts, inFlight>>
  BY DEF Sgn!ChangeAccount, SignInIInv, Sgn!TypeOK, LoginType, Sgn!settings
<1>1. PICK account \in {Null, [alive[w] EXCEPT !.active = FALSE]}
                        \cup {[alive[w] EXCEPT !.role = r] : r \in Sgn!Role} :
          /\ alive' = [alive EXCEPT ![w] = account]
          /\ lapse' = lapse \cup {l \in {"left"} : ~Sgn!IsActive(alive', w)}
  BY DEF Sgn!ChangeAccount
<1>2. account \in Sgn!Account \cup {Null}
  <2>1. [alive[w] EXCEPT !.active = FALSE] \in Sgn!Account
    BY <1>0 DEF Sgn!Account
  <2>2. \A r \in Sgn!Role : [alive[w] EXCEPT !.role = r] \in Sgn!Account
    BY <1>0 DEF Sgn!Account
  <2> QED  BY <2>1, <2>2
<1>3. alive' \in [Sgn!Who -> Sgn!Account \cup {Null}] /\ \A v \in Sgn!Who \ {w} : alive'[v] = alive[v]
  BY <1>0, <1>1, <1>2
<1>4. PICK v \in Sgn!Who \ {w} : v \in Sgn!Admins(alive)
  BY <1>0 DEF Sgn!Admins
<1>5. v \in Sgn!Admins(alive') /\ alive'[v] # Null
  BY <1>3, <1>4 DEF Sgn!Admins, Sgn!IsActive
<1>6. Sgn!AdminIsKept' /\ Somebody'
  BY <1>5 DEF Sgn!AdminIsKept, Somebody
<1>7. /\ lapse' \in SUBSET {"overlap", "broken", "astray", "mapped", "left"} /\ lapse \subseteq lapse'
      /\ "left" \notin lapse' => Sgn!IsActive(alive', w)
  BY <1>0, <1>1
<1>8. "left" \notin lapse' => (SubjectIn => SubjectIn')
  BY <1>3, <1>7 DEF SubjectIn, Sgn!IsActive, Sgn!Who
<1>9. used' \in UsedType
  BY <1>0, UseTypes
<1> QED  BY <1>0, <1>3, <1>6, <1>7, <1>8, <1>9, AccountStep

LEMMA ExpireStep ==
    ASSUME SignInIInv, Sgn!Parameters, NEW p \in Replica, Sgn!Expire(p) PROVE SignInIInv'
<1>1. /\ accepts' = [accepts EXCEPT ![p] = Null]
      /\ UNCHANGED <<secret, cache, shown, task, inFlight, alive, used, lapse>>
  BY DEF Sgn!Expire, Sgn!settings
<1>2. /\ accepts' \in [Replica -> Issuer \cup {Null}] /\ used \in UsedType
      /\ inFlight \in [Browser -> LoginType]
      /\ lapse \in SUBSET {"overlap", "broken", "astray", "mapped", "left"}
  BY <1>1 DEF SignInIInv, Sgn!TypeOK, UsedType, LoginType
<1>3. LoginFits'
  BY <1>1 DEF SignInIInv, LoginFits, Somebody
<1> QED  BY <1>1, <1>2, <1>3, LoginStep

LEMMA SignInNext ==
    ASSUME SignInIInv, Sgn!Parameters, [Sgn!Next]_(Sgn!vars) PROVE SignInIInv'
<1>1. CASE UNCHANGED Sgn!vars
  <2>1. UNCHANGED <<secret, cache, accepts, shown, task, inFlight, alive, used, lapse>>
    BY <1>1 DEF Sgn!vars
  <2>2. /\ accepts \in [Replica -> Issuer \cup {Null}] /\ used \in UsedType
        /\ inFlight \in [Browser -> LoginType]
        /\ lapse \in SUBSET {"overlap", "broken", "astray", "mapped", "left"}
    BY DEF SignInIInv, Sgn!TypeOK, UsedType, LoginType
  <2>3. LoginFits'
    BY <2>1 DEF SignInIInv, LoginFits, Somebody
  <2> QED  BY <2>1, <2>2, <2>3, LoginStep
<1>2. CASE Sgn!Next
  BY <1>2, StartJobs, QuietJobs, SaveRowsStep, SaveSecretStep, SignIns, WriteStep,
     ChangeAccountStep, ExpireStep DEF Sgn!Next
<1> QED  BY <1>1, <1>2

LEMMA SignInInvariantSays == ASSUME SignInIInv, Sgn!Parameters PROVE Sgn!TypeOK /\ Sgn!SignInHolds
<1>1. Sgn!DoorClosesBehindSomeone
  BY DEF SignInIInv, DoorFits, Sgn!DoorClosesBehindSomeone, SubjectIn
<1>2. Sgn!SecretFitsIssuer
  BY DEF SignInIInv, SecretFits, Sgn!SecretFitsIssuer, Sgn!JobAt
<1> QED  BY <1>1, <1>2 DEF SignInIInv, Sgn!SignInHolds

\* For any providers, people, replicas and bounds: an administrator is left, the password door
\* is closed only behind somebody who came in by the other, and a secret is sent to the
\* provider it is of (oidc.service.ts, auth.service.ts).
THEOREM SignInIsSound == ASSUME Sgn!Parameters PROVE Sgn!Spec => [](Sgn!TypeOK /\ Sgn!SignInHolds)
<1>1. Sgn!Init => SignInIInv
  BY SignInInit
<1>2. SignInIInv /\ [Sgn!Next]_(Sgn!vars) => SignInIInv'
  BY SignInNext
<1>3. SignInIInv => Sgn!TypeOK /\ Sgn!SignInHolds
  BY SignInInvariantSays
<1> QED  BY <1>1, <1>2, <1>3, PTL DEF Sgn!Spec

-------------------------------------------------------------------------------
(***************************************************************************)
(* The settings mail and lines go out by.                                  *)
(***************************************************************************)

NoticePatchType == [enabled: BOOLEAN \cup {Null}, host: Host
      \cup {Not!Unset, Null}, level: Not!Level \cup {Null}]
Kind == {"save", "notice"}
TaskType ==
    [step: {"idle", "decide", "query", "install", "secret", "write", "store", "adopt", "send"},
     service: Not!Service \cup {Null}, kind: Kind \cup {Null}, patch: NoticePatchType,
     secret: Host \cup {Null}, severity: Not!Level \cup {Null}, read: Not!Settings, next: 0..Not!Rows]
NoticeUsedType == [saves: 0..MaxSaves, notices: 0..MaxNotices, mishaps: 0..MaxMishaps]
Causes == {"saves", "read", "broken"}

Typed ==
    /\ secret \in [Not!Service -> Not!Settings] /\ cache \in [Not!Service -> Not!Settings]
    /\ inFlight \in [Not!Service -> Not!Settings]
    /\ accepts \in Host \cup {Null} /\ alive \in Host \cup {Null}
    /\ task \in [NoticeTask -> TaskType]
    /\ used \in NoticeUsedType
    /\ lapse \in [Not!Service -> SUBSET Causes]

\* What a step says of a task.
TaskFits ==
    \A t \in NoticeTask : LET q == task[t] IN
        /\ IF q.step = "idle" THEN q.service = Null ELSE q.service \in Not!Service /\ q.kind \in Kind
        /\ q.step \in {"write", "store", "adopt"} => q.kind = "save"
        /\ q.step = "decide" => q.kind = "notice"
        /\ q.step \in {"secret", "send"} => q.service = "email"
        /\ q.step = "write" => q.next \in 1..Not!Rows
        /\ q.step = "store" => q.secret # Null
        /\ q.secret # Null => q.service = "email"

Saving(t, v) == task[t].service = v /\ task[t].kind = "save"
Past(t) == task[t].step \in {"store", "adopt"}

\* The first n rows are those of the settings s.
Agree(n, r, s) ==
    /\ n >= 1 => r.enabled = s.enabled
    /\ n >= 2 => r.host = s.host
    /\ n >= 3 => r.level = s.level

\* Without an overlap of saves and without one that broke off, one save at most is at work;
\* what it writes is complete, and what it has written is stored.
SaveFits(v) ==
    lapse[v] \cap {"saves", "broken"} = {} =>
        /\ \A t, u \in NoticeTask : Saving(t, v) /\ Saving(u, v) => t = u
        /\ \A t \in NoticeTask : Saving(t, v) =>
              /\ task[t].step = "install" => task[t].read = secret[v]
              /\ task[t].step = "write" =>
                    Not!Complete(task[t].read) /\ Agree(task[t].next - 1, secret[v], task[t].read)
              /\ Past(t) => Not!Complete(task[t].read) /\ secret[v] = task[t].read
        /\ Not!Complete(secret[v]) \/ Not!Writing(v)

\* Without an overlap, a save has its service to itself.
Alone(v) ==
    lapse[v] \cap {"saves", "read"} = {} =>
        \A t, u \in NoticeTask : Saving(t, v) /\ task[u].service = v => t = u

\* What a save writes is what earlier ones set and what its form says.
GivenFits(v) ==
    lapse[v] \cap {"saves", "broken"} = {} /\ (v = "email" => "read" \notin lapse[v]) =>
        /\ secret[v] = inFlight[v] \/ Not!Writing(v)
        /\ \A t \in NoticeTask : Saving(t, v) =>
              /\ task[t].step = "secret" => cache[v] = secret[v]
              /\ task[t].step = "write" /\ task[t].next = 1 =>
                    task[t].read = Not!Merged(inFlight[v], task[t].patch)
              /\ task[t].step = "write" /\ task[t].next > 1 => task[t].read = inFlight[v]
              /\ Past(t) => task[t].read = inFlight[v]

\* Where nothing overlapped and nothing broke off, what a process works from is stored.
NoticeFits(v) ==
    lapse[v] = {} =>
        /\ \A t \in NoticeTask : task[t].service = v /\ task[t].step = "install"
               => task[t].read = secret[v]
        /\ cache[v] = secret[v] \/ Not!Writing(v)
        /\ v = "email" =>
              /\ \/ alive = accepts
                 \/ \E t \in NoticeTask : /\ task[t].service = v /\ task[t].step = "adopt"
                                    /\ task[t].secret # Null
              /\ \A t \in NoticeTask : task[t].service = v /\ task[t].step = "adopt"
                     /\ task[t].secret # Null
                                    => accepts = task[t].secret

Fits(v) == SaveFits(v) /\ Alone(v) /\ GivenFits(v) /\ NoticeFits(v)

SentFits == told = Null \/ (told.service \in Not!Service /\ (told.stored \/ lapse[told.service] # {}))

NoticeIInv == Typed /\ TaskFits /\ (\A v \in Not!Service : Fits(v)) /\ SentFits

LEMMA NoticePatchFits ==
    ASSUME NEW v \in Not!Service, NEW p \in Not!Patch(v) PROVE p \in NoticePatchType
<1>1. Not!NoPatch \in NoticePatchType
  BY DEF Not!NoPatch, NoticePatchType
<1> DEFINE Servers == {[Not!NoPatch EXCEPT !.host = h] : h \in Host \cup {Not!Unset}}
           Switches == {[Not!NoPatch EXCEPT !.enabled = e] : e \in BOOLEAN}
           Levels == {[Not!NoPatch EXCEPT !.level = l] : l \in IF v = "email" THEN Not!Level ELSE {}}
<1>2. p \in Servers \cup Switches \cup Levels
  BY Zenon DEF Not!Patch
<1>3. CASE p \in Servers
  BY <1>1, <1>3 DEF NoticePatchType
<1>4. CASE p \in Switches
  BY <1>1, <1>4 DEF NoticePatchType
<1>5. CASE p \in Levels
  BY <1>1, <1>5 DEF NoticePatchType
<1> QED  BY <1>2, <1>3, <1>4, <1>5

LEMMA NoticeMergedType ==
    ASSUME Not!Parameters, NEW from \in Not!Settings, NEW p \in NoticePatchType
    PROVE  Not!Merged(from, p) \in Not!Settings
  BY DEF Not!Merged, NoticePatchType, Not!Settings, Not!Level, Not!Unset

LEMMA NoticeRestTypes ==
    ASSUME Not!Parameters
    PROVE  /\ Not!Off \in Not!Settings /\ Not!Complete(Not!Off) /\ Not!Idle \in TaskType
           /\ Not!Idle.step = "idle" /\ Not!Idle.service = Null /\ Not!Idle.kind = Null
                  /\ Not!Idle.secret = Null
           /\ Null \notin Not!Service
<1>1. Not!Off \in Not!Settings /\ Not!Complete(Not!Off)
  BY DEF Not!Off, Not!Settings, Not!Level, Not!Complete
<1>2. Not!NoPatch \in NoticePatchType
  BY DEF Not!NoPatch, NoticePatchType
<1>3. Not!Idle \in TaskType /\ Not!Idle.step = "idle" /\ Not!Idle.service = Null
      /\ Not!Idle.kind = Null /\ Not!Idle.secret = Null
  BY <1>1, <1>2 DEF Not!Idle, TaskType, Not!Rows
<1>4. Null \notin Not!Service
  BY DEF Not!Parameters, Not!Service
<1> QED  BY <1>1, <1>3, <1>4

LEMMA NoticeInit == ASSUME Not!Parameters, Not!Init PROVE NoticeIInv
<1>1. /\ secret = [v \in Not!Service |-> Not!Off] /\ cache = secret /\ inFlight = secret
      /\ task = [t \in NoticeTask |-> Not!Idle] /\ lapse = [v \in Not!Service |-> {}]
      /\ accepts = Null /\ alive = Null /\ told = Null
  BY DEF Not!Init
<1>2. used \in NoticeUsedType
  <2>1. used = [saves |-> 0, notices |-> 0, mishaps |-> 0]
    BY DEF Not!Init
  <2> QED  BY <2>1 DEF NoticeUsedType, Not!Parameters
<1>3. Typed
  BY <1>1, <1>2, NoticeRestTypes DEF Typed
<1>4. TaskFits
  BY <1>1, NoticeRestTypes DEF TaskFits
<1>5. ASSUME NEW v \in Not!Service PROVE Fits(v)
  BY <1>1, NoticeRestTypes DEF Fits, SaveFits, Alone, GivenFits, NoticeFits, Saving
<1>6. SentFits
  BY <1>1 DEF SentFits
<1> QED  BY <1>3, <1>4, <1>5, <1>6 DEF NoticeIInv

\* A task that works for another service leaves what holds of this one.
LEMMA OtherService ==
    ASSUME NoticeIInv, NEW v \in Not!Service, NEW t \in NoticeTask, NEW q \in TaskType,
           task' = [task EXCEPT ![t] = q], task[t].service # v, q.service # v,
           secret'[v] = secret[v], cache'[v] = cache[v], inFlight'[v] = inFlight[v],
           lapse'[v] = lapse[v], v = "email" => UNCHANGED <<accepts, alive>>
    PROVE  Fits(v)'
<1>1. task'[t] = q /\ \A u \in NoticeTask \ {t} : task'[u] = task[u]
  BY DEF NoticeIInv, Typed
<1>2. \A u \in NoticeTask : (task'[u].service = v <=> task[u].service = v)
                       /\ (task[u].service = v => task'[u] = task[u])
  BY <1>1
<1>3. Not!Writing(v)' <=> Not!Writing(v)
  BY <1>2 DEF Not!Writing
<1>4. SaveFits(v)'
  BY <1>2, <1>3 DEF NoticeIInv, Fits, SaveFits, Saving, Past
<1>5. Alone(v)'
  BY <1>2 DEF NoticeIInv, Fits, Alone, Saving
<1>6. GivenFits(v)'
  BY <1>2, <1>3 DEF NoticeIInv, Fits, GivenFits, Saving, Past
<1>7. NoticeFits(v)'
  <2> SUFFICES ASSUME lapse[v] = {} PROVE NoticeFits(v)'
    BY DEF NoticeFits
  <2>1. NoticeFits(v)
    BY DEF NoticeIInv, Fits
  <2>2. /\ \A u \in NoticeTask : task'[u].service = v /\ task'[u].step = "install"
               => task'[u].read = secret'[v]
        /\ cache'[v] = secret'[v] \/ Not!Writing(v)'
    BY <1>2, <1>3, <2>1 DEF NoticeFits
  <2>3. ASSUME v = "email"
        PROVE  /\ \/ alive' = accepts'
                  \/ \E u \in NoticeTask : /\ task'[u].service = v /\ task'[u].step = "adopt"
                                     /\ task'[u].secret # Null
               /\ \A u \in NoticeTask : task'[u].service = v /\ task'[u].step = "adopt"
                                     /\ task'[u].secret # Null => accepts' = task'[u].secret
    <3>1. UNCHANGED <<accepts, alive>>
      BY <2>3
    <3>2. /\ \/ alive = accepts
             \/ \E u \in NoticeTask : task[u].service = v /\ task[u].step = "adopt"
                 /\ task[u].secret # Null
          /\ \A u \in NoticeTask : task[u].service = v /\ task[u].step = "adopt"
                 /\ task[u].secret # Null
                                => accepts = task[u].secret
      BY <2>1, <2>3 DEF NoticeFits
    <3> QED  BY <1>2, <3>1, <3>2
  <2> QED  BY <2>2, <2>3 DEF NoticeFits
<1> QED  BY <1>4, <1>5, <1>6, <1>7 DEF Fits

\* A task of the service v takes a step that stores nothing: it starts, reads, decides,
\* leaves, or has merged a form into what is stored.
LEMMA TaskStep ==
    ASSUME NoticeIInv, Not!Parameters, NEW v \in Not!Service, NEW t \in NoticeTask,
           NEW q \in TaskType,
           task' = [task EXCEPT ![t] = q],
           task[t].service = v \/ (task[t].step = "idle" /\ q.service = v),
           UNCHANGED <<secret, inFlight, accepts>>,
           cache' \in [Not!Service -> Not!Settings],
               \A w \in Not!Service \ {v} : cache'[w] = cache[w],
           cache'[v] = cache[v] \/ (lapse[v] = {} => cache'[v] = secret[v]),
           cache'[v] = cache[v] \/ task[t].step = "install",
           alive' = alive \/ (v = "email" /\ alive' = accepts),
           used' \in NoticeUsedType,
           lapse' \in [Not!Service -> SUBSET Causes], lapse[v] \subseteq lapse'[v],
           \A w \in Not!Service \ {v} : lapse'[w] = lapse[w],
           SentFits',
           \* what the task says
           IF q.step = "idle" THEN q.service = Null ELSE q.service = v /\ q.kind \in Kind,
           q.step \notin {"store", "adopt"},
           q.step = "decide" => q.kind = "notice", q.step \in {"secret", "send"} => v = "email",
           q.secret # Null => q.service = "email",
           q.step = "install" => q.read = secret[v],
           q.step = "secret" /\ q.kind = "save" /\ v = "email" /\ "read" \notin lapse[v]
              /\ lapse[v] \cap {"saves", "broken"} = {} => cache'[v] = secret[v],
           q.step = "write" =>
              /\ task[t].step # "idle" /\ q.kind = "save" /\ q.next = 1 /\ Not!Complete(q.read)
              /\ (lapse[v] \cap {"saves", "broken"} = {} /\ (v = "email" => "read" \notin lapse[v])
                    => q.read = Not!Merged(secret[v], q.patch)),
           \* what it was
           task[t].step \in {"write", "store", "adopt"} => "broken" \in lapse'[v],
           task[t].step # "idle" => q.step = "idle" \/ q.kind = task[t].kind,
           task[t].step = "idle" /\ q.kind = "save" =>
              /\ ("saves" \notin lapse'[v] => \A u \in NoticeTask : ~Saving(u, v))
              /\ (lapse'[v] \cap {"saves", "read"} = {} => \A u \in NoticeTask : task[u].service # v),
           task[t].step = "idle" /\ q.kind = "notice" =>
              (lapse'[v] \cap {"saves", "read"} = {} => \A u \in NoticeTask : ~Saving(u, v))
    PROVE  NoticeIInv'
<1>1. task' \in [NoticeTask -> TaskType] /\ task'[t] = q
      /\ \A u \in NoticeTask \ {t} : task'[u] = task[u]
  BY DEF NoticeIInv, Typed
<1>2. Typed'
  BY <1>1 DEF NoticeIInv, Typed
<1>3. TaskFits'
  BY <1>1, NoticeRestTypes DEF NoticeIInv, TaskFits, Not!Rows
<1>4. ASSUME NEW w \in Not!Service \ {v} PROVE Fits(w)'
  <2>1. task[t].service # w /\ q.service # w /\ w \in Not!Service
    BY NoticeRestTypes DEF NoticeIInv, TaskFits
  <2>2. w = "email" => UNCHANGED <<accepts, alive>>
    OBVIOUS
  <2> QED  BY <2>1, <2>2, OtherService
<1>5. Fits(v) /\ TaskFits
  BY DEF NoticeIInv
<1>k. q.step # "idle" => q.service = v
  OBVIOUS
<1>m. /\ \A u \in NoticeTask : Saving(u, v) => task[u].step # "idle"
      /\ \A u \in NoticeTask : task'[u].service = v => task'[u].step # "idle"
  BY <1>1, <1>3, <1>5, NoticeRestTypes DEF TaskFits, Saving
<1>6. Alone(v)'
  <2> SUFFICES ASSUME lapse'[v] \cap {"saves", "read"} = {}, NEW a \in NoticeTask,
                      NEW u \in NoticeTask,
                      Saving(a, v)', task'[u].service = v, a # u
               PROVE  FALSE
    BY DEF Alone
  <2>1. \A b, c \in NoticeTask : Saving(b, v) /\ task[c].service = v => b = c
    BY <1>5 DEF Fits, Alone
  <2>2. CASE task[t].step # "idle"
    <3>1. task[t].service = v
      BY <2>2
    <3>2. Saving(a, v) /\ task[u].service = v
      BY <1>1, <1>m, <2>2, <3>1 DEF Saving
    <3> QED  BY <2>1, <3>2
  <2>3. CASE task[t].step = "idle"
    <3>1. CASE a = t
      <4>1. q.kind = "save" /\ task[u].service = v
        BY <1>1, <3>1 DEF Saving
      <4> QED  BY <2>3, <4>1
    <3>2. CASE u = t
      <4>1. Saving(a, v) /\ q.kind \in Kind
        BY <1>1, <1>m, <3>2 DEF Saving
      <4> QED  BY <2>3, <4>1 DEF Kind, Saving
    <3>3. CASE a # t /\ u # t
      BY <1>1, <2>1, <3>3 DEF Saving
    <3> QED  BY <3>1, <3>2, <3>3
  <2> QED  BY <2>2, <2>3
<1>7. \A u \in NoticeTask \ {t} : (Saving(u, v)' <=> Saving(u, v)) /\ (Past(u)' <=> Past(u))
  BY <1>1 DEF Saving, Past
<1>8. task[t].step \notin {"write", "store", "adopt"} => (Not!Writing(v) => Not!Writing(v)')
  BY <1>1 DEF Not!Writing
<1>9. SaveFits(v)'
  <2> SUFFICES ASSUME lapse'[v] \cap {"saves", "broken"} = {} PROVE SaveFits(v)'
    BY DEF SaveFits
  <2>0. lapse[v] \cap {"saves", "broken"} = {} /\ task[t].step \notin {"write", "store", "adopt"}
    OBVIOUS
  <2>1. \A a, u \in NoticeTask : Saving(a, v)' /\ Saving(u, v)' => a = u
    <3> SUFFICES ASSUME NEW a \in NoticeTask, NEW u \in NoticeTask, Saving(a, v)', Saving(u, v)',
                        a # u
                 PROVE  FALSE
      OBVIOUS
    <3>1. \A b, c \in NoticeTask : Saving(b, v) /\ Saving(c, v) => b = c
      BY <1>5, <2>0 DEF Fits, SaveFits
    <3>2. CASE task[t].step # "idle"
      <4>1. Saving(a, v) /\ Saving(u, v)
        BY <1>1, <1>m, <3>2 DEF Saving
      <4> QED  BY <3>1, <4>1
    <3>3. CASE task[t].step = "idle" /\ t \in {a, u}
      <4>1. q.kind = "save" /\ \E b \in NoticeTask : Saving(b, v)
        BY <1>1, <3>3 DEF Saving
      <4> QED  BY <2>0, <3>3, <4>1
    <3>4. CASE t \notin {a, u}
      BY <1>7, <3>1, <3>4
    <3> QED  BY <3>2, <3>3, <3>4
  <2>2. \A a \in NoticeTask : Saving(a, v)' =>
              /\ task'[a].step = "install" => task'[a].read = secret'[v]
              /\ task'[a].step = "write" =>
                    Not!Complete(task'[a].read) /\ Agree(task'[a].next - 1, secret'[v], task'[a].read)
              /\ Past(a)' => Not!Complete(task'[a].read) /\ secret'[v] = task'[a].read
    <3> SUFFICES ASSUME NEW a \in NoticeTask, Saving(a, v)'
                 PROVE  /\ task'[a].step = "install" => task'[a].read = secret'[v]
                        /\ task'[a].step = "write" =>
                              Not!Complete(task'[a].read)
                                  /\ Agree(task'[a].next - 1, secret'[v], task'[a].read)
                        /\ Past(a)' => Not!Complete(task'[a].read) /\ secret'[v] = task'[a].read
      OBVIOUS
    <3>1. CASE a = t
      BY <1>1, <3>1 DEF Past, Agree
    <3>2. CASE a # t
      <4>1. task'[a] = task[a] /\ Saving(a, v)
        BY <1>1, <1>7, <3>2
      <4> QED  BY <1>5, <2>0, <4>1 DEF Fits, SaveFits, Past
    <3> QED  BY <3>1, <3>2
  <2>3. Not!Complete(secret'[v]) \/ Not!Writing(v)'
    BY <1>5, <1>8, <2>0 DEF Fits, SaveFits
  <2> QED  BY <2>1, <2>2, <2>3 DEF SaveFits
<1>10. GivenFits(v)'
  <2> SUFFICES ASSUME lapse'[v] \cap {"saves", "broken"} = {}, v = "email" => "read" \notin lapse'[v]
               PROVE  GivenFits(v)'
    BY DEF GivenFits
  <2>0. /\ lapse[v] \cap {"saves", "broken"} = {} /\ task[t].step \notin {"write", "store", "adopt"}
        /\ v = "email" => "read" \notin lapse[v]
    OBVIOUS
  <2>1. secret'[v] = inFlight'[v] \/ Not!Writing(v)'
    BY <1>5, <1>8, <2>0 DEF Fits, GivenFits
  <2>2. ASSUME NEW a \in NoticeTask, Saving(a, v)'
        PROVE  /\ task'[a].step = "secret" => cache'[v] = secret'[v]
               /\ task'[a].step = "write" /\ task'[a].next = 1 =>
                     task'[a].read = Not!Merged(inFlight'[v], task'[a].patch)
               /\ task'[a].step = "write" /\ task'[a].next > 1 => task'[a].read = inFlight'[v]
               /\ Past(a)' => task'[a].read = inFlight'[v]
    <3>1. CASE a = t
      <4>1. q.step = "secret" => cache'[v] = secret'[v]
        <5>1. q.kind = "save"
          BY <1>1, <2>2, <3>1 DEF Saving
        <5> QED  BY <2>0, <5>1
      <4>2. q.step = "write" => q.next = 1 /\ q.read = Not!Merged(inFlight[v], q.patch)
        <5> SUFFICES ASSUME q.step = "write"
                     PROVE  q.next = 1 /\ q.read = Not!Merged(inFlight[v], q.patch)
          OBVIOUS
        <5>1. ~Not!Writing(v)
          <6>1. task[t].service = v /\ task[t].kind = "save"
            BY <1>5, <2>0 DEF Kind
          <6>2. \A u \in NoticeTask : Saving(u, v) => u = t
            BY <1>5, <2>0, <6>1 DEF Fits, SaveFits, Saving
          <6> QED  BY <1>5, <2>0, <6>2 DEF Not!Writing, TaskFits, Saving
        <5>2. secret[v] = inFlight[v]
          BY <1>5, <2>0, <5>1 DEF Fits, GivenFits
        <5> QED  BY <2>0, <5>2
      <4> QED  BY <1>1, <3>1, <4>1, <4>2 DEF Past
    <3>2. CASE a # t
      <4>1. task'[a] = task[a] /\ Saving(a, v)
        BY <1>1, <1>7, <2>2, <3>2
      <4>2. /\ task[a].step = "secret" => cache[v] = secret[v]
            /\ task[a].step = "write" /\ task[a].next = 1 =>
                     task[a].read = Not!Merged(inFlight[v], task[a].patch)
            /\ task[a].step = "write" /\ task[a].next > 1 => task[a].read = inFlight[v]
            /\ Past(a) => task[a].read = inFlight[v]
        BY <1>5, <2>0, <4>1 DEF Fits, GivenFits
      <4>3. task[a].step = "secret" => cache'[v] = cache[v]
        <5> SUFFICES ASSUME task[a].step = "secret", task[t].step = "install" PROVE FALSE
          OBVIOUS
        <5>1. v = "email" /\ task[t].service = v
          BY <1>5, <4>1 DEF TaskFits, Saving
        <5> QED  BY <1>5, <2>0, <3>2, <4>1, <5>1 DEF Fits, Alone
      <4> QED  BY <1>7, <3>2, <4>1, <4>2, <4>3
    <3> QED  BY <3>1, <3>2
  <2> QED  BY <2>1, <2>2 DEF GivenFits
<1>11. NoticeFits(v)'
  <2> SUFFICES ASSUME lapse'[v] = {} PROVE NoticeFits(v)'
    BY DEF NoticeFits
  <2>0. lapse[v] = {} /\ task[t].step \notin {"write", "store", "adopt"}
    OBVIOUS
  <2>1. NoticeFits(v)
    BY <1>5 DEF Fits
  <2>2. \A u \in NoticeTask : task'[u].service = v /\ task'[u].step = "install"
        => task'[u].read = secret'[v]
    BY <1>1, <2>0, <2>1 DEF NoticeFits
  <2>3. cache'[v] = secret'[v] \/ Not!Writing(v)'
    BY <1>8, <2>0, <2>1 DEF NoticeFits
  <2>4. ASSUME v = "email"
        PROVE  /\ \/ alive' = accepts'
                  \/ \E u \in NoticeTask : /\ task'[u].service = v /\ task'[u].step = "adopt"
                                     /\ task'[u].secret # Null
               /\ \A u \in NoticeTask : task'[u].service = v /\ task'[u].step = "adopt"
                                     /\ task'[u].secret # Null => accepts' = task'[u].secret
    <3>1. /\ \/ alive = accepts
             \/ \E u \in NoticeTask : task[u].service = v /\ task[u].step = "adopt"
                 /\ task[u].secret # Null
          /\ \A u \in NoticeTask : task[u].service = v /\ task[u].step = "adopt"
                 /\ task[u].secret # Null
                                => accepts = task[u].secret
      BY <2>0, <2>1, <2>4 DEF NoticeFits
    <3>2. \A u \in NoticeTask : task[u].step = "adopt" \/ task'[u].step = "adopt"
          => task'[u] = task[u]
      BY <1>1, <2>0
    <3> QED  BY <3>1, <3>2
  <2> QED  BY <2>2, <2>3, <2>4 DEF NoticeFits
<1> QED  BY <1>2, <1>3, <1>4, <1>6, <1>9, <1>10, <1>11 DEF NoticeIInv, Fits

LEMMA NoticeUseTypes ==
    ASSUME Typed, Not!Parameters
    PROVE  /\ Not!Use("saves", MaxSaves) => used' \in NoticeUsedType
           /\ Not!Use("notices", MaxNotices) => used' \in NoticeUsedType
           /\ Not!Use("mishaps", MaxMishaps) => used' \in NoticeUsedType
  BY DEF Typed, Not!Parameters, NoticeUsedType, Not!Use

LEMMA OverlapSays ==
    ASSUME NEW v \in Not!Service
    PROVE  /\ Not!Overlap(v, "save") \subseteq {"saves", "read"}
                  /\ Not!Overlap(v, "notice") \subseteq {"saves", "read"}
           /\ "saves" \notin Not!Overlap(v, "save") => \A u \in NoticeTask : ~Saving(u, v)
           /\ Not!Overlap(v, "save") \cap {"saves", "read"} = {} =>
                 \A u \in NoticeTask : task[u].service = v => task[u].kind \notin Kind
           /\ Not!Overlap(v, "notice") \cap {"saves", "read"} = {}
                  => \A u \in NoticeTask : ~Saving(u, v)
<1> DEFINE others == {task[t].kind : t \in {u \in NoticeTask : task[u].service = v}}
<1>1. \A u \in NoticeTask : task[u].service = v => task[u].kind \in others
  OBVIOUS
<1>2. /\ Not!Overlap(v, "save") = {c \in {"saves"} : "save" \in others}
                                 \cup {c \in {"read"} : "notice" \in others}
      /\ Not!Overlap(v, "notice") = {c \in {"read"} : "save" \in others}
  BY DEF Not!Overlap
<1> HIDE DEF others
<1> QED  BY <1>1, <1>2 DEF Saving, Kind

\* Nothing that is sent is forgotten.
LEMMA SentStays ==
    ASSUME NoticeIInv, told' = told, lapse' \in [Not!Service -> SUBSET Causes],
           \A w \in Not!Service : lapse[w] \subseteq lapse'[w]
    PROVE  SentFits'
  BY DEF NoticeIInv, SentFits

LEMMA NoteMarks ==
    ASSUME NoticeIInv, NEW v \in Not!Service, NEW why, why \subseteq Causes, Not!Note(v, why)
    PROVE  /\ lapse' \in [Not!Service -> SUBSET Causes] /\ lapse'[v] = lapse[v] \cup why
           /\ \A w \in Not!Service \ {v} : lapse'[w] = lapse[w]
           /\ \A w \in Not!Service : lapse[w] \subseteq lapse'[w]
  BY DEF Not!Note, NoticeIInv, Typed

LEMMA AskSaveStep ==
    ASSUME NoticeIInv, Not!Parameters, NEW t \in NoticeTask, NEW v \in Not!Service,
           Not!AskSave(t, v) PROVE NoticeIInv'
<1>1. PICK p \in Not!Patch(v), s \in {Null} \cup Host :
          /\ s # Null => v = "email" /\ p.host = s
          /\ task' = [task EXCEPT ![t] = [Not!Idle EXCEPT !.step = "query", !.service = v,
                                                      !.kind = "save", !.patch = p, !.secret = s]]
  BY DEF Not!AskSave
<1> DEFINE q == [Not!Idle
                 EXCEPT !.step = "query", !.service = v, !.kind = "save", !.patch = p, !.secret = s]
<1>2. /\ task[t].step = "idle" /\ UNCHANGED <<secret, accepts, cache, alive, inFlight, told>>
      /\ Not!Use("saves", MaxSaves) /\ Not!Note(v, Not!Overlap(v, "save")) /\ (s # Null
             => v = "email")
      /\ task' = [task EXCEPT ![t] = q]
  BY <1>1 DEF Not!AskSave, Not!At
<1>3. /\ q \in TaskType /\ q.step = "query" /\ q.service = v /\ q.kind = "save" /\ q.secret = s
  BY NoticePatchFits, NoticeRestTypes DEF TaskType, Kind
<1> HIDE DEF q
<1>4. /\ lapse' \in [Not!Service -> SUBSET Causes] /\ lapse'[v] = lapse[v] \cup Not!Overlap(v, "save")
      /\ \A w \in Not!Service \ {v} : lapse'[w] = lapse[w]
      /\ \A w \in Not!Service : lapse[w] \subseteq lapse'[w]
  <2>1. Not!Overlap(v, "save") \subseteq Causes
    BY OverlapSays DEF Causes
  <2> QED  BY <1>2, <2>1, NoteMarks
<1>5. used' \in NoticeUsedType /\ SentFits' /\ cache' \in [Not!Service -> Not!Settings]
  BY <1>2, <1>4, NoticeUseTypes, SentStays DEF NoticeIInv, Typed
<1>6. /\ ("saves" \notin lapse'[v] => \A u \in NoticeTask : ~Saving(u, v))
      /\ (lapse'[v] \cap {"saves", "read"} = {} => \A u \in NoticeTask : task[u].service # v)
  <2>1. \A u \in NoticeTask : task[u].service = v => task[u].kind \in Kind
    BY NoticeRestTypes DEF NoticeIInv, TaskFits
  <2> QED  BY <1>4, <2>1, OverlapSays
<1> QED  BY <1>2, <1>3, <1>4, <1>5, <1>6, TaskStep DEF Kind

LEMMA AskNoticeStep ==
    ASSUME NoticeIInv, Not!Parameters, NEW t \in NoticeTask, NEW v \in Not!Service,
           Not!AskNotice(t, v) PROVE NoticeIInv'
<1>1. PICK fresh \in BOOLEAN, l \in Not!Level :
          task' = [task EXCEPT ![t] = [Not!Idle EXCEPT !.step = IF fresh THEN "decide" ELSE "query",
                                                   !.service = v, !.kind = "notice",
                                                   !.severity = l]]
  BY DEF Not!AskNotice
<1> DEFINE step == IF fresh THEN "decide" ELSE "query"
           q == [Not!Idle EXCEPT !.step = step, !.service = v, !.kind = "notice", !.severity = l]
<1>2. /\ task[t].step = "idle" /\ UNCHANGED <<secret, accepts, cache, alive, inFlight, told>>
      /\ Not!Use("notices", MaxNotices) /\ Not!Note(v, Not!Overlap(v, "notice"))
      /\ task' = [task EXCEPT ![t] = q]
  BY <1>1 DEF Not!AskNotice, Not!At
<1>s. step \in {"decide", "query"}
  OBVIOUS
<1> HIDE DEF step
<1>3. /\ q \in TaskType /\ q.step = step /\ q.service = v /\ q.kind = "notice" /\ q.secret = Null
  BY <1>s, NoticeRestTypes DEF TaskType, Kind
<1> HIDE DEF q
<1>4. /\ lapse' \in [Not!Service -> SUBSET Causes]
             /\ lapse'[v] = lapse[v] \cup Not!Overlap(v, "notice")
      /\ \A w \in Not!Service \ {v} : lapse'[w] = lapse[w]
      /\ \A w \in Not!Service : lapse[w] \subseteq lapse'[w]
  <2>1. Not!Overlap(v, "notice") \subseteq Causes
    BY OverlapSays DEF Causes
  <2> QED  BY <1>2, <2>1, NoteMarks
<1>5. used' \in NoticeUsedType /\ SentFits' /\ cache' \in [Not!Service -> Not!Settings]
  BY <1>2, <1>4, NoticeUseTypes, SentStays DEF NoticeIInv, Typed
<1>6. lapse'[v] \cap {"saves", "read"} = {} => \A u \in NoticeTask : ~Saving(u, v)
  BY <1>4, OverlapSays
<1> QED  BY <1>2, <1>3, <1>4, <1>5, <1>6, <1>s, TaskStep DEF Kind

\* What a task says before it takes a step of its own.
LEMMA TaskSays ==
    ASSUME NoticeIInv, Not!Parameters, NEW t \in NoticeTask, task[t].step # "idle"
    PROVE  /\ task[t] \in TaskType /\ task[t].service \in Not!Service /\ task[t].kind \in Kind
           /\ task[t].secret # Null => task[t].service = "email"
           /\ Fits(task[t].service) /\ secret[task[t].service] \in Not!Settings
           /\ cache[task[t].service] \in Not!Settings /\ Typed /\ TaskFits
  BY NoticeRestTypes DEF NoticeIInv, Typed, TaskFits

\* While a notice is at work and nothing has overlapped, what the process works from is stored.
LEMMA NoticesReadStored ==
    ASSUME NoticeIInv, Not!Parameters, NEW t \in NoticeTask, task[t].step # "idle",
           task[t].step \notin {"write", "store", "adopt"}, lapse[task[t].service] = {}
    PROVE  /\ cache[task[t].service] = secret[task[t].service]
           /\ task[t].service = "email" => alive = accepts
           /\ task[t].step = "install" => task[t].read = secret[task[t].service]
<1> DEFINE v == task[t].service
<1>1. v \in Not!Service /\ task[t].kind \in Kind /\ Fits(v) /\ TaskFits
  BY TaskSays
<1>2. \A u \in NoticeTask : task[u].service = v => task[u].step \notin {"write", "store", "adopt"}
  BY <1>1 DEF Fits, Alone, TaskFits, Saving
<1>3. ~Not!Writing(v)
  BY <1>2 DEF Not!Writing
<1> HIDE DEF v
<1> QED  BY <1>1, <1>2, <1>3 DEF Fits, NoticeFits, v

\* What a task does once settings are in effect.
LEMMA LoadedFits ==
    ASSUME NoticeIInv, Not!Parameters, NEW t \in NoticeTask, task[t].step # "idle",
           NEW s \in Not!Settings, Not!Loaded(t, s)
    PROVE  \E q \in TaskType :
              /\ task' = [task EXCEPT ![t] = q]
              /\ \/ q = Not!Idle
                 \/ /\ q.step = "write" /\ q.service = task[t].service /\ q.kind = "save"
                    /\ task[t].kind = "save" /\ q.secret = task[t].secret /\ q.next = 1
                    /\ q.read = Not!Merged(s, q.patch) /\ Not!Complete(q.read)
                 \/ /\ q.step = "send" /\ q.service = "email" /\ task[t].service = "email"
                    /\ q.kind = "notice" /\ task[t].kind = "notice" /\ q.secret = task[t].secret
              /\ \/ told' = told
                 \/ task[t].service = "syslog" /\ told' = Not!Notice("syslog", s)
<1>1. task[t] \in TaskType /\ task \in [NoticeTask -> TaskType]
  BY TaskSays DEF Typed
<1>2. CASE task[t].kind = "save" /\ Not!MergeForm(t, s) /\ UNCHANGED told
  <2> DEFINE next == Not!Merged(s, task[t].patch)
             q == [task[t] EXCEPT !.step = "write", !.read = next, !.next = 1]
  <2>1. next \in Not!Settings
    BY <1>1, NoticeMergedType DEF TaskType
  <2>2. CASE Not!Complete(next)
    <3>1. task' = [task EXCEPT ![t] = q]
      BY <1>1, <1>2, <2>2 DEF Not!MergeForm
    <3>2. next = Not!Merged(s, task[t].patch)
      OBVIOUS
    <3> HIDE DEF next
    <3>3. /\ q \in TaskType /\ q.step = "write" /\ q.service = task[t].service
                 /\ q.kind = task[t].kind
          /\ q.secret = task[t].secret /\ q.next = 1 /\ q.read = next /\ q.patch = task[t].patch
      <4>1. 1 \in 0..Not!Rows
        BY DEF Not!Rows
      <4> QED  BY <1>1, <2>1, <4>1 DEF TaskType
    <3> HIDE DEF q
    <3> QED  BY <1>2, <2>2, <3>1, <3>2, <3>3
  <2>3. CASE ~Not!Complete(next)
    <3>1. task' = [task EXCEPT ![t] = Not!Idle]
      BY <1>2, <2>3 DEF Not!MergeForm, Not!Done
    <3> QED  BY <1>2, <3>1, NoticeRestTypes
  <2> QED  BY <2>2, <2>3
<1>3. CASE task[t].kind = "notice" /\ task[t].service = "email" /\ Not!DecideMail(t, s)
      /\ UNCHANGED told
  <2> DEFINE q == [task[t] EXCEPT !.step = "send", !.read = Not!Off]
  <2>1. task' = [task EXCEPT ![t] = q] \/ task' = [task EXCEPT ![t] = Not!Idle]
    BY <1>1, <1>3 DEF Not!DecideMail, Not!Done
  <2>2. /\ q \in TaskType /\ q.step = "send" /\ q.service = task[t].service /\ q.kind = task[t].kind
        /\ q.secret = task[t].secret
    BY <1>1, NoticeRestTypes DEF TaskType
  <2> HIDE DEF q
  <2> QED  BY <1>3, <2>1, <2>2, NoticeRestTypes
<1>4. CASE task[t].kind = "notice" /\ task[t].service = "syslog" /\ Not!Emit(t, s)
  BY <1>4, NoticeRestTypes DEF Not!Emit, Not!Done
<1> QED  BY <1>2, <1>3, <1>4 DEF Not!Loaded

\* A line that is sent by the settings read is sent by the stored ones.
LEMMA EmitFits ==
    ASSUME NoticeIInv, Not!Parameters, NEW t \in NoticeTask, task[t].step # "idle",
           task[t].step \notin {"write", "store", "adopt"}, NEW s,
           s = cache[task[t].service] \/ (task[t].step = "install" /\ s = task[t].read),
           told' = told \/ (task[t].service = "syslog" /\ told' = Not!Notice("syslog", s)),
           UNCHANGED lapse
    PROVE  SentFits'
<1>1. CASE told' = told
  BY <1>1, SentStays DEF NoticeIInv, Typed
<1>2. CASE task[t].service = "syslog" /\ told' = Not!Notice("syslog", s)
  <2>1. lapse["syslog"] = {} => s = secret["syslog"]
    BY <1>2, NoticesReadStored
  <2>2. told'.service = "syslog" /\ (told'.stored <=> s = secret["syslog"])
    BY <1>2 DEF Not!Notice
  <2> QED  BY <2>1, <2>2 DEF SentFits, Not!Service
<1> QED  BY <1>1, <1>2

\* A task goes on once the settings s are in effect.
LEMMA LoadedStep ==
    ASSUME NoticeIInv, Not!Parameters, NEW t \in NoticeTask,
           task[t].step \in {"decide", "install", "secret"},
           NEW s \in Not!Settings, Not!Loaded(t, s),
               UNCHANGED <<secret, accepts, inFlight, used, lapse>>,
           \/ task[t].step = "install" /\ s = task[t].read /\ task[t].service = "syslog"
              /\ cache' = [cache EXCEPT ![task[t].service] = s] /\ alive' = alive
           \/ task[t].step = "decide" /\ s = cache[task[t].service]
              /\ cache' = cache /\ alive' = alive
           \/ task[t].step = "secret" /\ s = cache[task[t].service]
              /\ cache' = cache /\ alive' = accepts
    PROVE  NoticeIInv'
<1> DEFINE v == task[t].service
<1>1. v \in Not!Service /\ Fits(v) /\ TaskFits /\ Typed /\ task[t].step # "idle"
      /\ task[t].kind \in Kind
      /\ (task[t].secret # Null => v = "email") /\ task[t] \in TaskType
      /\ task[t].step \notin {"write", "store", "adopt"}
  BY TaskSays
<1>2. PICK q \in TaskType :
              /\ task' = [task EXCEPT ![t] = q]
              /\ \/ q = Not!Idle
                 \/ /\ q.step = "write" /\ q.service = v /\ q.kind = "save"
                    /\ task[t].kind = "save" /\ q.secret = task[t].secret /\ q.next = 1
                    /\ q.read = Not!Merged(s, q.patch) /\ Not!Complete(q.read)
                 \/ /\ q.step = "send" /\ q.service = "email" /\ v = "email"
                    /\ q.kind = "notice" /\ task[t].kind = "notice" /\ q.secret = task[t].secret
              /\ \/ told' = told
                 \/ v = "syslog" /\ told' = Not!Notice("syslog", s)
  BY <1>1, LoadedFits
<1>3. SentFits'
  BY <1>1, <1>2, EmitFits
<1>4. /\ cache' \in [Not!Service -> Not!Settings] /\ \A w \in Not!Service \ {v} : cache'[w] = cache[w]
      /\ (cache'[v] = cache[v] \/ (task[t].step = "install" /\ cache'[v] = s))
  BY <1>1 DEF Typed
<1>5. lapse[v] = {} /\ task[t].step = "install" => s = secret[v]
  BY <1>1, NoticesReadStored
<1>6. task[t].kind = "save" /\ lapse[v] \cap {"saves", "broken"} = {}
      /\ (v = "email" => "read" \notin lapse[v]) => s = secret[v]
  <2> SUFFICES ASSUME task[t].kind = "save", lapse[v] \cap {"saves", "broken"} = {},
                      v = "email" => "read" \notin lapse[v]
               PROVE  s = secret[v]
    OBVIOUS
  <2>1. task[t].step # "decide" /\ Saving(t, v) /\ (task[t].step = "secret" => v = "email")
    BY <1>1 DEF TaskFits, Saving
  <2>2. CASE task[t].step = "install"
    BY <1>1, <2>1, <2>2 DEF Fits, SaveFits
  <2>3. CASE task[t].step = "secret"
    BY <1>1, <2>1, <2>3 DEF Fits, GivenFits
  <2> QED  BY <2>1, <2>2, <2>3
<1>7. alive' = alive \/ (v = "email" /\ alive' = accepts)
  BY <1>1 DEF TaskFits
<1>8. used' \in NoticeUsedType /\ lapse' \in [Not!Service -> SUBSET Causes]
  BY <1>1 DEF Typed
<1> HIDE DEF v
<1>9. CASE q = Not!Idle
  BY <1>1, <1>2, <1>3, <1>4, <1>5, <1>7, <1>8, <1>9, NoticeRestTypes, TaskStep DEF v
<1>10. CASE q # Not!Idle
  <2>1. q.step \in {"write", "send"} /\ q.service = v /\ q.kind = task[t].kind /\ q.kind \in Kind
        /\ q.secret = task[t].secret
    BY <1>1, <1>2, <1>10
  <2>2. q.step = "write" => task[t].kind = "save" /\ q.next = 1 /\ Not!Complete(q.read)
        /\ q.read = Not!Merged(s, q.patch)
    BY <1>2, <1>10
  <2>3. q.step = "send" => v = "email"
    BY <1>2, <1>10
  <2>4. task[t].service = v
    BY DEF v
  <2>5. cache'[v] = cache[v] \/ (lapse[v] = {} => cache'[v] = secret[v])
    BY <1>4, <1>5
  <2>6. q.step = "write" =>
           (lapse[v] \cap {"saves", "broken"} = {} /\ (v = "email" => "read" \notin lapse[v])
              => q.read = Not!Merged(secret[v], q.patch))
    BY <1>6, <2>2
  <2> QED  BY <1>1, <1>2, <1>3, <1>4, <1>7, <1>8, <2>1, <2>2, <2>3, <2>4, <2>5, <2>6, TaskStep
<1> QED  BY <1>9, <1>10

LEMMA ReadSteps ==
    ASSUME NoticeIInv, Not!Parameters, NEW t \in NoticeTask,
           \/ Not!Decide(t) \/ Not!Query(t)
           \/ Not!InstallLines(t) \/ Not!InstallMail(t) \/ Not!InstallSecret(t)
    PROVE  NoticeIInv'
<1> DEFINE v == task[t].service
<1>0. ASSUME task[t].step # "idle"
      PROVE  /\ v \in Not!Service /\ task[t] \in TaskType /\ task[t].kind \in Kind /\ Fits(v)
             /\ (task[t].secret # Null => v = "email")
             /\ secret[v] \in Not!Settings /\ cache[v] \in Not!Settings /\ Typed /\ TaskFits
             /\ used \in NoticeUsedType /\ lapse \in [Not!Service -> SUBSET Causes]
                    /\ task[t].read \in Not!Settings
             /\ cache \in [Not!Service -> Not!Settings]
  BY <1>0, TaskSays DEF Typed, TaskType
<1>1. CASE Not!Decide(t)
  <2>1. /\ task[t].step = "decide" /\ Not!Loaded(t, cache[v])
        /\ UNCHANGED <<secret, accepts, cache, alive, inFlight, used, lapse>>
    BY <1>1 DEF Not!Decide, Not!At
  <2> QED  BY <1>0, <2>1, LoadedStep
<1>2. CASE Not!Query(t)
  <2> DEFINE q == [task[t] EXCEPT !.step = "install", !.read = secret[v]]
  <2>1. /\ task[t].step = "query" /\ task' = [task EXCEPT ![t] = q]
        /\ UNCHANGED <<secret, accepts, cache, alive, inFlight, told, used, lapse>>
    BY <1>0, <1>2 DEF Not!Query, Not!At, Typed
  <2>2. /\ q \in TaskType /\ q.step = "install" /\ q.service = v /\ q.kind = task[t].kind
        /\ q.secret = task[t].secret /\ q.read = secret[v]
    BY <1>0, <2>1 DEF TaskType
  <2> HIDE DEF q
  <2>3. SentFits'
    BY <1>0, <2>1, SentStays
  <2> QED  BY <1>0, <2>1, <2>2, <2>3, TaskStep
<1>3. CASE Not!InstallLines(t)
  <2>1. /\ task[t].step = "install" /\ v = "syslog" /\ Not!Loaded(t, task[t].read)
        /\ cache' = [cache EXCEPT ![task[t].service] = task[t].read]
        /\ UNCHANGED <<secret, accepts, alive, inFlight, used, lapse>>
    BY <1>3 DEF Not!InstallLines, Not!At
  <2> QED  BY <1>0, <2>1, LoadedStep
<1>4. CASE Not!InstallMail(t)
  <2> DEFINE q == [task[t] EXCEPT !.step = "secret", !.read = Not!Off]
  <2>1. /\ task[t].step = "install" /\ v = "email" /\ task' = [task EXCEPT ![t] = q]
        /\ cache' = [cache EXCEPT ![v] = task[t].read]
        /\ UNCHANGED <<secret, accepts, alive, inFlight, told, used, lapse>>
    BY <1>0, <1>4 DEF Not!InstallMail, Not!At, Typed
  <2>2. /\ q \in TaskType /\ q.step = "secret" /\ q.service = v /\ q.kind = task[t].kind
        /\ q.secret = task[t].secret
    BY <1>0, <2>1, NoticeRestTypes DEF TaskType
  <2> HIDE DEF q
  <2>3. SentFits'
    BY <1>0, <2>1, SentStays
  <2>4. /\ cache' \in [Not!Service -> Not!Settings]
               /\ \A w \in Not!Service \ {v} : cache'[w] = cache[w]
        /\ cache'[v] = task[t].read
    BY <1>0, <2>1
  <2>5. lapse[v] = {} => cache'[v] = secret[v]
    BY <2>1, <2>4, NoticesReadStored
  <2>6. q.kind = "save" /\ "read" \notin lapse[v] /\ lapse[v] \cap {"saves", "broken"} = {}
           => cache'[v] = secret[v]
    BY <1>0, <2>1, <2>2, <2>4 DEF Fits, SaveFits, Saving
  <2>7. task[t].service = v
    OBVIOUS
  <2> HIDE DEF v
  <2> QED  BY <1>0, <2>1, <2>2, <2>3, <2>4, <2>5, <2>6, <2>7, TaskStep
<1>5. CASE Not!InstallSecret(t)
  <2>1. /\ task[t].step = "secret" /\ alive' = accepts /\ Not!Loaded(t, cache["email"])
        /\ UNCHANGED <<secret, accepts, cache, inFlight, used, lapse>>
    BY <1>5 DEF Not!InstallSecret, Not!At
  <2>2. v = "email"
    BY <1>0, <2>1 DEF TaskFits
  <2> QED  BY <1>0, <2>1, <2>2, LoadedStep
<1> QED  BY <1>1, <1>2, <1>3, <1>4, <1>5

LEMMA LeaveSteps ==
    ASSUME NoticeIInv, Not!Parameters, NEW t \in NoticeTask, Not!Send(t) \/ Not!BreakOff(t)
    PROVE  NoticeIInv'
<1> DEFINE v == task[t].service
<1>1. /\ task[t].step # "idle" /\ task' = [task EXCEPT ![t] = Not!Idle]
      /\ UNCHANGED <<secret, accepts, cache, alive, inFlight>>
  BY DEF Not!Send, Not!BreakOff, Not!At, Not!Done
<1>2. /\ v \in Not!Service /\ task[t] \in TaskType /\ task[t].kind \in Kind /\ Typed /\ TaskFits
      /\ used \in NoticeUsedType /\ lapse \in [Not!Service -> SUBSET Causes]
      /\ cache \in [Not!Service -> Not!Settings]
  BY <1>1, TaskSays DEF Typed
<1>3. CASE Not!Send(t)
  <2>1. task[t].step = "send" /\ told' = Not!Notice("email", cache["email"])
        /\ UNCHANGED <<used, lapse>>
    BY <1>3 DEF Not!Send, Not!At
  <2>2. v = "email"
    BY <1>2, <2>1 DEF TaskFits
  <2>3. lapse["email"] = {} => cache["email"] = secret["email"] /\ alive = accepts
    BY <2>1, <2>2, NoticesReadStored
  <2>4. told'.service = "email" /\ (told'.stored <=> cache["email"] = secret["email"]
        /\ alive = accepts)
    BY <2>1 DEF Not!Notice
  <2>5. SentFits'
    BY <2>1, <2>3, <2>4 DEF SentFits, Not!Service
  <2> QED  BY <1>1, <1>2, <2>1, <2>5, NoticeRestTypes, TaskStep
<1>4. CASE Not!BreakOff(t)
  <2>1. Not!Use("mishaps", MaxMishaps) /\ Not!Note(v, {"broken"}) /\ told' = told
    BY <1>4 DEF Not!BreakOff
  <2>2. /\ lapse' \in [Not!Service -> SUBSET Causes] /\ lapse'[v] = lapse[v] \cup {"broken"}
        /\ \A w \in Not!Service \ {v} : lapse'[w] = lapse[w]
        /\ \A w \in Not!Service : lapse[w] \subseteq lapse'[w]
    <3>1. {"broken"} \subseteq Causes
      BY DEF Causes
    <3> QED  BY <1>2, <2>1, <3>1, NoteMarks
  <2>3. SentFits'
    BY <2>1, <2>2, SentStays
  <2>4. used' \in NoticeUsedType
    BY <1>2, <2>1, NoticeUseTypes
  <2> HIDE DEF v
  <2>5. task[t].service = v
    BY DEF v
  <2> QED  BY <1>1, <1>2, <2>2, <2>3, <2>4, <2>5, NoticeRestTypes, TaskStep
<1> QED  BY <1>3, <1>4

\* The task t of the service v writes, and becomes q.
SaverStep(t, v, q) ==
    /\ task[t].step \in {"write", "store", "adopt"} /\ v = task[t].service
    /\ task' = [task EXCEPT ![t] = q]
    /\ \/ q.step = "idle" /\ q.service = Null /\ q.secret = Null
       \/ q.service = v /\ q.kind = "save" /\ q.secret = task[t].secret
          /\ q.step \in {"write", "store", "adopt"}
    /\ (q.step = "write" => q.next \in 1..Not!Rows) /\ (q.step = "store" => q.secret # Null)
    /\ secret' \in [Not!Service -> Not!Settings] /\ cache' \in [Not!Service -> Not!Settings]
    /\ inFlight' \in [Not!Service -> Not!Settings]
    /\ \A w \in Not!Service \ {v} : secret'[w] = secret[w] /\ cache'[w] = cache[w]
           /\ inFlight'[w] = inFlight[w]
    /\ accepts' \in Host \cup {Null} /\ alive' \in Host \cup {Null}
    /\ (v = "email" \/ UNCHANGED <<accepts, alive>>)
    /\ UNCHANGED <<used, lapse, told>>

\* A save that writes: what its step leaves alone.
LEMMA SaverFrame ==
    ASSUME NoticeIInv, Not!Parameters, NEW t \in NoticeTask, NEW v \in Not!Service,
           NEW q \in TaskType,
           SaverStep(t, v, q)
    PROVE  /\ Typed' /\ TaskFits' /\ (\A w \in Not!Service \ {v} : Fits(w)') /\ Alone(v)' /\ SentFits'
           /\ task'[t] = q /\ \A u \in NoticeTask \ {t} : task'[u] = task[u]
           /\ Saving(t, v) /\ Fits(v)
           /\ (lapse[v] \cap {"saves", "broken"} = {} =>
                 \A u \in NoticeTask \ {t} : ~Saving(u, v) /\ ~Saving(u, v)')
           /\ (lapse[v] = {} => \A u \in NoticeTask \ {t} : task[u].service # v
                  /\ task'[u].service # v)
<1>0. /\ task[t].step \in {"write", "store", "adopt"} /\ v = task[t].service
      /\ task' = [task EXCEPT ![t] = q]
      /\ \/ q.step = "idle" /\ q.service = Null /\ q.secret = Null
         \/ q.service = v /\ q.kind = "save" /\ q.secret = task[t].secret
            /\ q.step \in {"write", "store", "adopt"}
      /\ (q.step = "write" => q.next \in 1..Not!Rows) /\ (q.step = "store" => q.secret # Null)
      /\ secret' \in [Not!Service -> Not!Settings] /\ cache' \in [Not!Service -> Not!Settings]
      /\ inFlight' \in [Not!Service -> Not!Settings]
      /\ \A w \in Not!Service \ {v} : secret'[w] = secret[w] /\ cache'[w] = cache[w]
             /\ inFlight'[w] = inFlight[w]
      /\ accepts' \in Host \cup {Null} /\ alive' \in Host \cup {Null}
      /\ (v = "email" \/ UNCHANGED <<accepts, alive>>)
      /\ UNCHANGED <<used, lapse, told>>
  BY DEF SaverStep
<1>1. task' \in [NoticeTask -> TaskType] /\ task'[t] = q
      /\ \A u \in NoticeTask \ {t} : task'[u] = task[u]
  BY <1>0 DEF NoticeIInv, Typed
<1>2. Typed'
  BY <1>0, <1>1 DEF NoticeIInv, Typed
<1>3. Saving(t, v) /\ Fits(v) /\ TaskFits /\ (task[t].secret # Null => v = "email")
  BY <1>0 DEF NoticeIInv, TaskFits, Saving
<1>4. TaskFits'
  BY <1>0, <1>1, <1>3, NoticeRestTypes DEF TaskFits, Kind
<1>5. ASSUME NEW w \in Not!Service \ {v} PROVE Fits(w)'
  <2>1. q.service # w /\ task[t].service # w /\ w \in Not!Service
    BY <1>0, NoticeRestTypes
  <2>2. w = "email" => UNCHANGED <<accepts, alive>>
    BY <1>0
  <2> QED  BY <1>0, <2>1, <2>2, OtherService
<1>6. Alone(v)'
  BY <1>0, <1>1, <1>3, NoticeRestTypes DEF Fits, Alone, Saving
<1>7. SentFits'
  BY <1>0, SentStays DEF NoticeIInv, Typed
<1>8. lapse[v] \cap {"saves", "broken"} = {} =>
         \A u \in NoticeTask \ {t} : ~Saving(u, v) /\ ~Saving(u, v)'
  BY <1>0, <1>1, <1>3 DEF Fits, SaveFits, Saving
<1>9. lapse[v] = {} => \A u \in NoticeTask \ {t} : task[u].service # v /\ task'[u].service # v
  BY <1>0, <1>1, <1>3 DEF Fits, Alone, Saving
<1> QED  BY <1>1, <1>2, <1>3, <1>4, <1>5, <1>6, <1>7, <1>8, <1>9

\* The rows written so far, and one more.
LEMMA RowFits ==
    ASSUME NEW r \in Not!Settings, NEW s \in Not!Settings, NEW n \in 1..Not!Rows, Agree(n - 1, r, s)
    PROVE  /\ Not!WithRow(n, r, s) \in Not!Settings /\ Agree(n, Not!WithRow(n, r, s), s)
           /\ n = Not!Rows => Not!WithRow(n, r, s) = s
<1>1. n \in {1, 2, 3}
  BY DEF Not!Rows
<1> QED  BY <1>1 DEF Not!Settings, Not!WithRow, Agree, Not!Rows

LEMMA WriteRowStep ==
    ASSUME NoticeIInv, Not!Parameters, NEW t \in NoticeTask, Not!WriteRow(t) PROVE NoticeIInv'
<1>a. /\ task[t].step = "write" /\ task[t].service \in Not!Service /\ task[t].kind = "save"
      /\ task[t].next \in 1..Not!Rows /\ task[t].read \in Not!Settings
  BY TaskSays DEF Not!WriteRow, Not!At, TaskFits, TaskType
<1>b. PICK v \in Not!Service : v = task[t].service
  BY <1>a
<1>c. PICK n \in 1..Not!Rows : n = task[t].next
  BY <1>a
<1>d. PICK r \in Not!Settings : r = task[t].read
  BY <1>a
<1> DEFINE more == IF n < Not!Rows THEN n + 1 ELSE 0
           goes == IF n < Not!Rows THEN "write" ELSE IF task[t].secret # Null THEN "store" ELSE "adopt"
           q == [task[t] EXCEPT !.next = more, !.step = goes]
<1>0. /\ task[t].step = "write" /\ v \in Not!Service /\ task[t] \in TaskType /\ task[t].kind = "save"
      /\ n \in 1..Not!Rows /\ r \in Not!Settings /\ secret[v] \in Not!Settings /\ Typed
      /\ v = task[t].service /\ n = task[t].next /\ r = task[t].read
  BY <1>a, <1>b, <1>c, <1>d, TaskSays DEF Typed
<1>1. /\ secret' = [secret EXCEPT ![v] = Not!WithRow(n, secret[v], r)]
      /\ inFlight' = [inFlight
               EXCEPT ![v] = IF n = 1 THEN Not!Merged(inFlight[v], task[t].patch) ELSE inFlight[v]]
      /\ task' = [task EXCEPT ![t] = q]
      /\ UNCHANGED <<accepts, cache, alive, told, used, lapse>>
  BY <1>0 DEF Not!WriteRow, Typed
<1>2. /\ more \in 0..Not!Rows /\ goes \in {"write", "store", "adopt"}
      /\ (goes = "write" => n < Not!Rows /\ more = n + 1 /\ more \in 1..Not!Rows)
      /\ (goes \in {"store", "adopt"} => n = Not!Rows)
      /\ (goes = "store" => task[t].secret # Null) /\ (goes = "adopt" => task[t].secret = Null)
  BY <1>0 DEF Not!Rows
<1> HIDE DEF more, goes
<1>3. /\ q \in TaskType /\ q.step = goes /\ q.service = v /\ q.kind = "save" /\ q.read = r
      /\ q.secret = task[t].secret /\ q.next = more /\ q.patch = task[t].patch
  BY <1>0, <1>2 DEF TaskType
<1> HIDE DEF q
<1>4. Not!WithRow(n, secret[v], r) \in Not!Settings
  BY <1>0 DEF Not!WithRow, Not!Settings
<1>5. Not!Merged(inFlight[v], task[t].patch) \in Not!Settings
  BY <1>0, NoticeMergedType DEF Typed, TaskType
<1>6. /\ secret' \in [Not!Service -> Not!Settings] /\ inFlight' \in [Not!Service -> Not!Settings]
      /\ secret'[v] = Not!WithRow(n, secret[v], r)
      /\ inFlight'[v] = IF n = 1 THEN Not!Merged(inFlight[v], task[t].patch) ELSE inFlight[v]
      /\ \A w \in Not!Service \ {v} : secret'[w] = secret[w] /\ cache'[w] = cache[w]
             /\ inFlight'[w] = inFlight[w]
  BY <1>0, <1>1, <1>4, <1>5 DEF Typed
<1>7. /\ Typed' /\ TaskFits' /\ (\A w \in Not!Service \ {v} : Fits(w)') /\ Alone(v)' /\ SentFits'
      /\ task'[t] = q /\ \A u \in NoticeTask \ {t} : task'[u] = task[u]
      /\ Saving(t, v) /\ Fits(v)
      /\ (lapse[v] \cap {"saves", "broken"} = {} =>
                 \A u \in NoticeTask \ {t} : ~Saving(u, v) /\ ~Saving(u, v)')
      /\ (lapse[v] = {} => \A u \in NoticeTask \ {t} : task[u].service # v /\ task'[u].service # v)
  <2>1. SaverStep(t, v, q)
    BY <1>0, <1>1, <1>2, <1>3, <1>6 DEF Typed, SaverStep
  <2> QED  BY <1>3, <2>1, SaverFrame
<1>8. Not!Writing(v)'
  BY <1>2, <1>3, <1>7 DEF Not!Writing
<1>9. SaveFits(v)'
  <2> SUFFICES ASSUME lapse[v] \cap {"saves", "broken"} = {} PROVE SaveFits(v)'
    BY <1>1 DEF SaveFits
  <2>1. Not!Complete(r) /\ Agree(n - 1, secret[v], r)
    BY <1>0, <1>7 DEF Fits, SaveFits
  <2>2. Agree(n, secret'[v], r) /\ (n = Not!Rows => secret'[v] = r)
    BY <1>0, <1>6, <2>1, RowFits
  <2>3. \A a, u \in NoticeTask : Saving(a, v)' /\ Saving(u, v)' => a = u
    BY <1>7
  <2>4. goes = "write" => more - 1 = n
    BY <1>0, <1>2
  <2>5. /\ task'[t].step = "install" => task'[t].read = secret'[v]
        /\ task'[t].step = "write" =>
              Not!Complete(task'[t].read) /\ Agree(task'[t].next - 1, secret'[v], task'[t].read)
        /\ Past(t)' => Not!Complete(task'[t].read) /\ secret'[v] = task'[t].read
    BY <1>2, <1>3, <1>7, <2>1, <2>2, <2>4 DEF Past
  <2> QED  BY <1>7, <1>8, <2>3, <2>5 DEF SaveFits
<1>10. GivenFits(v)'
  <2> SUFFICES ASSUME lapse[v] \cap {"saves", "broken"} = {}, v = "email" => "read" \notin lapse[v]
               PROVE  GivenFits(v)'
    BY <1>1 DEF GivenFits
  <2>1. inFlight'[v] = r
    <3>1. n = 1 => r = Not!Merged(inFlight[v], task[t].patch)
      BY <1>0, <1>7 DEF Fits, GivenFits
    <3>2. n > 1 => r = inFlight[v]
      BY <1>0, <1>7 DEF Fits, GivenFits
    <3> QED  BY <1>0, <1>6, <3>1, <3>2
  <2>2. q.step = "write" => q.next > 1
    BY <1>0, <1>2, <1>3
  <2> QED  BY <1>2, <1>3, <1>7, <1>8, <2>1, <2>2 DEF GivenFits, Past
<1>11. NoticeFits(v)'
  <2> SUFFICES ASSUME lapse[v] = {} PROVE NoticeFits(v)'
    BY <1>1 DEF NoticeFits
  <2>1. \A u \in NoticeTask : task'[u].service = v => u = t
    BY <1>7
  <2>2. v = "email" => alive' = accepts'
    <3>1. \A u \in NoticeTask : task[u].service = v => u = t
      BY <1>7
    <3> QED  BY <1>0, <1>1, <1>7, <3>1 DEF Fits, NoticeFits
  <2>3. task'[t].step # "install" /\ (task'[t].step = "adopt" => task'[t].secret = Null)
    BY <1>2, <1>3, <1>7
  <2> QED  BY <1>8, <2>1, <2>2, <2>3 DEF NoticeFits
<1>12. \A w \in Not!Service : Fits(w)'
  BY <1>7, <1>9, <1>10, <1>11 DEF Fits
<1> QED  BY <1>7, <1>12 DEF NoticeIInv

LEMMA StoreSecretStep ==
    ASSUME NoticeIInv, Not!Parameters, NEW t \in NoticeTask, Not!StoreSecret(t) PROVE NoticeIInv'
<1>a. /\ task[t].step = "store" /\ task[t].service \in Not!Service /\ task[t].secret # Null
      /\ task[t].secret \in Host \cup {Null} /\ task[t].kind = "save" /\ Typed
  BY TaskSays DEF Not!StoreSecret, Not!At, TaskFits, TaskType
<1>b. PICK v \in Not!Service : v = task[t].service
  BY <1>a
<1> DEFINE q == [task[t] EXCEPT !.step = "adopt"]
<1>0. v = "email" /\ task[t] \in TaskType
  BY <1>a, <1>b, TaskSays DEF TaskFits
<1>1. /\ task' = [task EXCEPT ![t] = q] /\ accepts' = task[t].secret
      /\ UNCHANGED <<secret, cache, alive, inFlight, used, lapse, told>>
  BY DEF Not!StoreSecret, Not!Goto
<1>2. /\ q \in TaskType /\ q.step = "adopt" /\ q.service = v /\ q.kind = "save"
      /\ q.secret = task[t].secret /\ q.read = task[t].read
  BY <1>a, <1>b, <1>0 DEF TaskType
<1> HIDE DEF q
<1>3. /\ Typed' /\ TaskFits' /\ (\A w \in Not!Service \ {v} : Fits(w)') /\ Alone(v)' /\ SentFits'
      /\ task'[t] = q /\ \A u \in NoticeTask \ {t} : task'[u] = task[u]
      /\ Saving(t, v) /\ Fits(v)
      /\ (lapse[v] \cap {"saves", "broken"} = {} =>
                 \A u \in NoticeTask \ {t} : ~Saving(u, v) /\ ~Saving(u, v)')
      /\ (lapse[v] = {} => \A u \in NoticeTask \ {t} : task[u].service # v /\ task'[u].service # v)
  <2>1. SaverStep(t, v, q)
    BY <1>a, <1>b, <1>0, <1>1, <1>2 DEF Typed, SaverStep
  <2> QED  BY <1>2, <2>1, SaverFrame
<1>4. Not!Writing(v)'
  BY <1>2, <1>3 DEF Not!Writing
<1>5. SaveFits(v)'
  <2> SUFFICES ASSUME lapse[v] \cap {"saves", "broken"} = {} PROVE SaveFits(v)'
    BY <1>1 DEF SaveFits
  <2>1. Not!Complete(task[t].read) /\ secret[v] = task[t].read
    BY <1>a, <1>3 DEF Fits, SaveFits, Past
  <2>2. \A a, u \in NoticeTask : Saving(a, v)' /\ Saving(u, v)' => a = u
    BY <1>3
  <2> QED  BY <1>1, <1>2, <1>3, <1>4, <2>1, <2>2 DEF SaveFits, Past
<1>6. GivenFits(v)'
  <2> SUFFICES ASSUME lapse[v] \cap {"saves", "broken"} = {}, v = "email" => "read" \notin lapse[v]
               PROVE  GivenFits(v)'
    BY <1>1 DEF GivenFits
  <2>1. task[t].read = inFlight[v]
    BY <1>a, <1>3 DEF Fits, GivenFits, Past
  <2> QED  BY <1>1, <1>2, <1>3, <1>4, <2>1 DEF GivenFits, Past
<1>7. NoticeFits(v)'
  <2> SUFFICES ASSUME lapse[v] = {} PROVE NoticeFits(v)'
    BY <1>1 DEF NoticeFits
  <2>1. \A u \in NoticeTask : task'[u].service = v => u = t
    BY <1>3
  <2> QED  BY <1>a, <1>1, <1>2, <1>3, <1>4, <2>1 DEF NoticeFits
<1> QED  BY <1>3, <1>5, <1>6, <1>7 DEF NoticeIInv, Fits

LEMMA AdoptStep ==
    ASSUME NoticeIInv, Not!Parameters, NEW t \in NoticeTask, Not!Adopt(t) PROVE NoticeIInv'
<1>a. /\ task[t].step = "adopt" /\ task[t].service \in Not!Service /\ task[t].kind = "save"
      /\ task[t].secret \in Host \cup {Null} /\ task[t].read \in Not!Settings /\ Typed
      /\ (task[t].secret # Null => task[t].service = "email")
  BY TaskSays DEF Not!Adopt, Not!At, TaskFits, TaskType
<1>b. PICK v \in Not!Service : v = task[t].service
  BY <1>a
<1>1. /\ task' = [task EXCEPT ![t] = Not!Idle] /\ cache' = [cache EXCEPT ![v] = task[t].read]
      /\ alive' = (IF task[t].secret # Null THEN task[t].secret ELSE alive)
      /\ UNCHANGED <<secret, accepts, inFlight, used, lapse, told>>
  BY <1>b DEF Not!Adopt, Not!Done
<1>2. /\ cache' \in [Not!Service -> Not!Settings] /\ cache'[v] = task[t].read
      /\ \A w \in Not!Service \ {v} : cache'[w] = cache[w]
      /\ alive' \in Host \cup {Null}
  BY <1>a, <1>b, <1>1 DEF Typed
<1>3. /\ Typed' /\ TaskFits' /\ (\A w \in Not!Service \ {v} : Fits(w)') /\ Alone(v)' /\ SentFits'
      /\ task'[t] = Not!Idle /\ \A u \in NoticeTask \ {t} : task'[u] = task[u]
      /\ Saving(t, v) /\ Fits(v)
      /\ (lapse[v] \cap {"saves", "broken"} = {} =>
                 \A u \in NoticeTask \ {t} : ~Saving(u, v) /\ ~Saving(u, v)')
      /\ (lapse[v] = {} => \A u \in NoticeTask \ {t} : task[u].service # v /\ task'[u].service # v)
  <2>1. SaverStep(t, v, Not!Idle)
    BY <1>a, <1>b, <1>1, <1>2, NoticeRestTypes DEF Typed, SaverStep
  <2> QED  BY <2>1, NoticeRestTypes, SaverFrame
<1>4. ~Saving(t, v)'
  BY <1>3, NoticeRestTypes DEF Saving
<1>5. SaveFits(v)'
  <2> SUFFICES ASSUME lapse[v] \cap {"saves", "broken"} = {} PROVE SaveFits(v)'
    BY <1>1 DEF SaveFits
  <2>1. Not!Complete(secret'[v])
    BY <1>a, <1>1, <1>3 DEF Fits, SaveFits, Past
  <2>2. \A u \in NoticeTask : ~Saving(u, v)'
    BY <1>3, <1>4
  <2> QED  BY <2>1, <2>2 DEF SaveFits
<1>6. GivenFits(v)'
  <2> SUFFICES ASSUME lapse[v] \cap {"saves", "broken"} = {}, v = "email" => "read" \notin lapse[v]
               PROVE  GivenFits(v)'
    BY <1>1 DEF GivenFits
  <2>1. secret'[v] = inFlight'[v]
    BY <1>a, <1>1, <1>3 DEF Fits, GivenFits, SaveFits, Past
  <2>2. \A u \in NoticeTask : ~Saving(u, v)'
    BY <1>3, <1>4
  <2> QED  BY <2>1, <2>2 DEF GivenFits
<1>7. NoticeFits(v)'
  <2> SUFFICES ASSUME lapse[v] = {} PROVE NoticeFits(v)'
    BY <1>1 DEF NoticeFits
  <2>1. \A u \in NoticeTask : task'[u].service # v
    BY <1>3, NoticeRestTypes
  <2>2. cache'[v] = secret'[v]
    BY <1>a, <1>1, <1>2, <1>3 DEF Fits, SaveFits, Past
  <2>3. v = "email" => alive' = accepts'
    <3>1. \A u \in NoticeTask : task[u].service = v => u = t
      BY <1>3
    <3> QED  BY <1>a, <1>b, <1>1, <1>3, <3>1 DEF Fits, NoticeFits
  <2> QED  BY <2>1, <2>2, <2>3 DEF NoticeFits
<1> QED  BY <1>3, <1>5, <1>6, <1>7 DEF NoticeIInv, Fits

LEMMA NoticeNext == ASSUME NoticeIInv, Not!Parameters, [Not!Next]_(Not!vars) PROVE NoticeIInv'
<1>1. CASE UNCHANGED Not!vars
  <2>1. UNCHANGED <<secret, accepts, cache, alive, task, inFlight, told, used, lapse>>
    BY <1>1 DEF Not!vars
  <2>2. Typed' /\ TaskFits' /\ SentFits'
    BY <2>1 DEF NoticeIInv, Typed, TaskFits, SentFits
  <2>3. ASSUME NEW v \in Not!Service PROVE Fits(v)'
    BY <2>1 DEF NoticeIInv, Fits, SaveFits, Alone, GivenFits, NoticeFits, Saving, Past, Not!Writing
  <2> QED  BY <2>2, <2>3 DEF NoticeIInv
<1>2. CASE Not!Next
  BY <1>2, AskSaveStep, AskNoticeStep, ReadSteps, WriteRowStep, StoreSecretStep, AdoptStep,
     LeaveSteps DEF Not!Next
<1> QED  BY <1>1, <1>2

LEMMA NoticeInvariantSays == ASSUME NoticeIInv, Not!Parameters PROVE Not!TypeOK /\ Not!NoticesHold
<1>1. Not!TypeOK
  BY DEF NoticeIInv, Typed, Not!TypeOK, TaskType, NoticeUsedType, Causes
<1>2. Not!EnabledIsComplete
  BY DEF NoticeIInv, Fits, SaveFits, Not!EnabledIsComplete
<1>3. Not!SavesAreKept
  BY DEF NoticeIInv, Fits, GivenFits, Not!SavesAreKept
<1>4. Not!NoticesFollowSettings
  BY DEF NoticeIInv, SentFits, Not!NoticesFollowSettings
<1> QED  BY <1>1, <1>2, <1>3, <1>4 DEF Not!NoticesHold

\* For any servers, saves and notices at once: what is stored can be delivered by, a save
\* undoes no earlier one, and a notice goes out by what is stored, unless two of them
\* overlapped or one broke off (email.service.ts, syslog.service.ts).
THEOREM NoticesAreSound == ASSUME Not!Parameters PROVE Not!Spec => [](Not!TypeOK /\ Not!NoticesHold)
<1>1. Not!Init => NoticeIInv
  BY NoticeInit
<1>2. NoticeIInv /\ [Not!Next]_(Not!vars) => NoticeIInv'
  BY NoticeNext
<1>3. NoticeIInv => Not!TypeOK /\ Not!NoticesHold
  BY NoticeInvariantSays
<1> QED  BY <1>1, <1>2, <1>3, PTL DEF Not!Spec

-------------------------------------------------------------------------------
(***************************************************************************)
(* Allocations in bulk.                                                    *)
(***************************************************************************)

Quoted == [Card -> Nat \cup {None}]

BulkRunType ==
    [step: {"idle", "items", "fetch", "write"}, asked: SUBSET Card, policy: Policy \cup {Null},
     seen: SUBSET Card, stored: SUBSET Card, price: Quoted, todo: SUBSET Card,
     allocated: SUBSET Card, skipped: SUBSET Card, problems: SUBSET Card]

BulkTyped ==
    /\ alive \subseteq Card
    /\ accepts \in [Card -> Blk!Figures] /\ told \in [Card -> Blk!Figures]
    /\ secret \in Policy
    /\ shown \in [Card -> [mode: Blk!Mode, price: Nat] \cup {Null}]
    /\ task \in BulkRunType
    /\ used \in [changes: 0..MaxChanges, runs: 0..MaxBulkRuns, mishaps: 0..MaxMishaps]
    /\ lapse \in [Card -> SUBSET Blk!Cause]

\* The parts of a run: what is left to do and what has been answered.
RunFits ==
    /\ task.step # "idle" => task.policy \in Policy
    /\ task.step \in {"items", "fetch"} =>
          /\ task.allocated = {} /\ task.skipped = {} /\ task.problems = {}
    /\ task.step = "items" => task.todo = {}
    /\ task.step = "fetch" => task.seen \cup task.stored \subseteq task.todo
    /\ task.step \in {"fetch", "write", "idle"} =>
          /\ Blk!Answered \subseteq task.asked /\ task.asked \ Blk!Answered \subseteq Card \ alive
          /\ task.todo \cap (task.allocated \cup task.skipped \cup task.problems) = {}
          /\ task.allocated \cap (task.skipped \cup task.problems) = {}
          /\ task.skipped \cap task.problems = {}

\* What was on the channel already has no price in the plan.
SeenIsLeft ==
    /\ task.step \in {"fetch", "write"} => \A i \in task.seen : task.price[i] = None
    /\ task.step = "items" => task.seen = {}
    /\ task.step \in {"items", "fetch"} => task.allocated = {}

\* The policy read is the one there is, or every item is marked.
PolicyStands ==
    task.step # "idle" => task.policy = secret \/ \A i \in Card : "policy" \in lapse[i]

\* A price of the plan is the one a sweep would ask for now, or its item is marked.
Agrees(i, amount) ==
    \/ lapse[i] # {}
    \/ /\ Blk!Preferred(accepts[i]) # None
       /\ amount = Blk!TargetPrice(secret, accepts[i][Blk!Preferred(accepts[i])])

PlanAgrees ==
    /\ task.step = "fetch" => \A i \in task.stored \ task.seen : task.price[i] # None
           => Agrees(i, task.price[i])
    /\ task.step = "write" =>
          \A i \in task.todo : task.price[i] # None => Agrees(i, task.price[i])

WrittenAgrees ==
    \A i \in task.allocated : lapse[i] # {} \/ (shown[i] # Null /\ Agrees(i, shown[i].price))

BulkIInv ==
    BulkTyped /\ RunFits /\ SeenIsLeft /\ Blk!DecisionsStand /\ PolicyStands /\ PlanAgrees
        /\ WrittenAgrees

LEMMA LowestIsFigure ==
    ASSUME Blk!Parameters PROVE Blk!Lowest \in Figure
BY DEF Blk!Parameters, Blk!Lowest

LEMMA TargetPriceIsAmount ==
    ASSUME Blk!Parameters, NEW given \in Policy, NEW figure \in Nat
    PROVE  Blk!TargetPrice(given, figure) \in Nat \cup {None}
<1> DEFINE cents == Blk!PercentOf(given.percent, figure)
           rounded == IF given.rounding = "99" THEN Blk!RoundTo99(cents) ELSE cents
           target == IF given.floor # None /\ rounded < given.floor
                     THEN given.floor ELSE rounded
<1>1. CASE given.percent = None
  BY <1>1 DEF Blk!TargetPrice
<1>2. CASE given.percent # None
  <2>1. given.percent \in 1..500 /\ given.floor \in Nat \cup {None}
    BY <1>2 DEF Blk!PolicyType, Blk!Parameters
  <2>2. figure * given.percent \in Nat
    BY <2>1
  <2>3. cents \in Nat
    BY <2>2 DEF Blk!PercentOf
  <2>4. Blk!RoundTo99(cents) \in Nat
    BY <2>3 DEF Blk!RoundTo99
  <2>5. figure # None
    BY DEF Blk!Parameters
  <2>6. Blk!TargetPrice(given, figure) = IF figure > 0 /\ target > 0 THEN target ELSE None
    BY <1>2, <2>5 DEF Blk!TargetPrice
  <2>7. target \in Nat
    BY <2>1, <2>3, <2>4
  <2> HIDE DEF target
  <2> QED  BY <2>6, <2>7
<1> QED  BY <1>1, <1>2

\* The figure of the preferred source is a figure.
LEMMA PreferredHasFigure ==
    ASSUME Blk!Parameters, NEW figures \in Blk!Figures
    PROVE  /\ Blk!Preferred(figures) \in Blk!Source \cup {None}
           /\ Blk!Preferred(figures) # None => figures[Blk!Preferred(figures)] \in Nat
BY DEF Blk!Figures, Blk!Preferred, Blk!Source, Blk!Parameters

\* Two sets of figures of which the same is quoted have the same preferred source, with the
\* same figure.
LEMMA QuoteTells ==
    ASSUME Blk!Parameters, NEW f \in Blk!Figures, NEW g \in Blk!Figures,
           Blk!Preferred(f) # None, Blk!Quote(f) = Blk!Quote(g)
    PROVE  Blk!Preferred(g) = Blk!Preferred(f) /\ g[Blk!Preferred(g)] = f[Blk!Preferred(f)]
<1>1. Blk!Preferred(f) \in Blk!Source /\ f[Blk!Preferred(f)] \in Nat
  BY PreferredHasFigure
<1>2. Blk!Quote(f) = <<Blk!Preferred(f), f[Blk!Preferred(f)]>>
  BY DEF Blk!Quote
<1>3. Blk!Quote(f) # None
  BY <1>1, <1>2 DEF Blk!Parameters
<1>4. Blk!Preferred(g) # None /\ Blk!Quote(g) = <<Blk!Preferred(g), g[Blk!Preferred(g)]>>
  BY <1>2, <1>3 DEF Blk!Quote
<1>5. <<Blk!Preferred(f), f[Blk!Preferred(f)]>> = <<Blk!Preferred(g), g[Blk!Preferred(g)]>>
  BY <1>2, <1>4
<1> QED  BY <1>5

LEMMA PriceOfType ==
    ASSUME Blk!Parameters, NEW figures \in Blk!Figures, task.policy \in Policy
    PROVE  Blk!PriceOf(figures) \in Nat \cup {None}
BY PreferredHasFigure, TargetPriceIsAmount DEF Blk!PriceOf

LEMMA BulkInit ==
    ASSUME Blk!Parameters, Blk!Init PROVE BulkIInv
<1>1. Blk!Lowest \in Nat /\ Blk!Lowest \in Figure
  BY LowestIsFigure DEF Blk!Parameters
<1>2. BulkTyped
  BY <1>1 DEF Blk!Init, BulkTyped, Blk!Resting, BulkRunType, Quoted, Blk!ByHand, Blk!Mode, Blk!Figures,
     Blk!Cause, Blk!Parameters
<1> QED  BY <1>2 DEF Blk!Init, BulkIInv, Blk!Resting, RunFits, Blk!Answered, SeenIsLeft, Blk!DecisionsStand,
            PolicyStands,
                     PlanAgrees, WrittenAgrees

-------------------------------------------------------------------------------
LEMMA UseType ==
    ASSUME BulkTyped, Blk!Parameters, NEW what \in {"changes", "runs", "mishaps"}, NEW most \in Nat,
           Blk!Use(what, most),
           what = "changes" => most = MaxChanges, what = "runs" => most = MaxBulkRuns,
           what = "mishaps" => most = MaxMishaps
    PROVE  used' \in [changes: 0..MaxChanges, runs: 0..MaxBulkRuns, mishaps: 0..MaxMishaps]
BY DEF BulkTyped, Blk!Parameters, Blk!Use

\* Marks only come, while a run goes on or for what it has written.
LEMMA BulkNoteMarks ==
    ASSUME BulkTyped, NEW is \in SUBSET Card, NEW why \in Blk!Cause, Blk!Note(is, why)
    PROVE  /\ lapse' \in [Card -> SUBSET Blk!Cause]
           /\ \A i \in Card : lapse[i] \subseteq lapse'[i]
           /\ \A i \in is : task.step # "idle" \/ i \in task.allocated => why \in lapse'[i]
BY DEF BulkTyped, Blk!Note

\* What changes outside of a run.
LEMMA OutsideSteps ==
    ASSUME BulkIInv, Blk!Parameters,
           Blk!MoveMarket \/ Blk!SavePolicy \/ Blk!EditAllocation \/ \E i \in Card : Blk!Vanish(i)
    PROVE  BulkIInv'
<1>1. CASE Blk!MoveMarket
  <2>1. used' \in [changes: 0..MaxChanges, runs: 0..MaxBulkRuns, mishaps: 0..MaxMishaps]
    BY <1>1, UseType DEF Blk!MoveMarket, BulkIInv, Blk!Parameters
  <2>2. PICK i \in Card, s \in Blk!Source, f \in Figure \cup {None} :
            accepts' = [accepts EXCEPT ![i][s] = f] /\ Blk!Note({i}, "moved")
    BY <1>1 DEF Blk!MoveMarket
  <2>3. /\ lapse' \in [Card -> SUBSET Blk!Cause]
        /\ \A j \in Card : lapse[j] \subseteq lapse'[j]
        /\ task.step # "idle" \/ i \in task.allocated => "moved" \in lapse'[i]
    BY <2>2, BulkNoteMarks DEF BulkIInv, Blk!Cause
  <2>4. accepts' \in [Card -> Blk!Figures] /\ \A j \in Card \ {i} : accepts'[j] = accepts[j]
    BY <2>2 DEF BulkIInv, BulkTyped, Blk!Figures
  <2>5. UNCHANGED <<alive, told, secret, shown, task>>
    BY <1>1 DEF Blk!MoveMarket
  <2>6. \A j \in Card : \A p : (task.step # "idle" \/ j \in task.allocated) /\ Agrees(j, p)
        => Agrees(j, p)'
    BY <2>3, <2>4, <2>5 DEF Agrees
  <2>7. BulkTyped'
    BY <2>1, <2>3, <2>4, <2>5 DEF BulkIInv, BulkTyped
  <2>8. PlanAgrees'
    BY <2>5, <2>6 DEF BulkIInv, PlanAgrees, BulkTyped, BulkRunType
  <2>9. WrittenAgrees'
    BY <2>3, <2>5, <2>6 DEF BulkIInv, WrittenAgrees, BulkTyped, BulkRunType
  <2> QED  BY <2>3, <2>5, <2>7, <2>8, <2>9
           DEF BulkIInv, RunFits, Blk!Answered, SeenIsLeft, Blk!DecisionsStand, PolicyStands
<1>2. CASE Blk!SavePolicy
  <2>1. used' \in [changes: 0..MaxChanges, runs: 0..MaxBulkRuns, mishaps: 0..MaxMishaps]
    BY <1>2, UseType DEF Blk!SavePolicy, BulkIInv, Blk!Parameters
  <2>2. UNCHANGED <<alive, accepts, told, shown, task>> /\ secret' \in Policy
    BY <1>2 DEF Blk!SavePolicy
  <2>3. /\ lapse' \in [Card -> SUBSET Blk!Cause]
        /\ \A j \in Card : lapse[j] \subseteq lapse'[j]
        /\ \A j \in Card : task.step # "idle" \/ j \in task.allocated => "policy" \in lapse'[j]
    BY <1>2, BulkNoteMarks DEF Blk!SavePolicy, BulkIInv, Blk!Cause
  <2>4. BulkTyped'
    BY <2>1, <2>2, <2>3 DEF BulkIInv, BulkTyped
  <2>5. PlanAgrees'
    BY <2>2, <2>3 DEF BulkIInv, PlanAgrees, Agrees, BulkTyped, BulkRunType
  <2>6. WrittenAgrees'
    <3>1. \A j \in task'.allocated : j \in Card /\ "policy" \in lapse'[j]
      BY <2>2, <2>3 DEF BulkIInv, BulkTyped, BulkRunType
    <3>2. \A j \in task'.allocated : lapse'[j] # {}
      BY <3>1
    <3> QED  BY <3>2 DEF WrittenAgrees
  <2> QED  BY <2>2, <2>3, <2>4, <2>5, <2>6
           DEF BulkIInv, RunFits, Blk!Answered, SeenIsLeft, Blk!DecisionsStand, PolicyStands
<1>3. CASE Blk!EditAllocation \/ \E i \in Card : Blk!Vanish(i)
  <2>1. used' \in [changes: 0..MaxChanges, runs: 0..MaxBulkRuns, mishaps: 0..MaxMishaps]
    <3>1. CASE Blk!EditAllocation
      BY <3>1, UseType DEF Blk!EditAllocation, BulkIInv, Blk!Parameters
    <3>2. CASE \E i \in Card : Blk!Vanish(i)
      BY <3>2 DEF Blk!Vanish, BulkIInv, BulkTyped
    <3> QED  BY <1>3, <3>1, <3>2
  <2>2. PICK i \in Card, a \in {Null} \cup {Blk!ByHand(m) : m \in Blk!Mode},
             why \in {"edited", "gone"} :
            shown' = [shown EXCEPT ![i] = a] /\ Blk!Note({i}, why)
    <3>1. CASE Blk!EditAllocation
      <4>1. PICK i \in alive, a \in {Null} \cup {Blk!ByHand(m) : m \in Blk!Mode} :
                shown' = [shown EXCEPT ![i] = a] /\ Blk!Note({i}, "edited")
        BY <3>1 DEF Blk!EditAllocation
      <4> QED  BY <4>1 DEF BulkIInv, BulkTyped
    <3>2. CASE \E i \in Card : Blk!Vanish(i)
      BY <3>2 DEF Blk!Vanish
    <3> QED  BY <1>3, <3>1, <3>2
  <2>3. /\ lapse' \in [Card -> SUBSET Blk!Cause]
        /\ \A j \in Card : lapse[j] \subseteq lapse'[j]
        /\ task.step # "idle" \/ i \in task.allocated => why \in lapse'[i]
    BY <2>2, BulkNoteMarks DEF BulkIInv, Blk!Cause
  <2>4. a \in [mode: Blk!Mode, price: Nat] \cup {Null}
    <3>1. Blk!Lowest \in Nat
      BY LowestIsFigure DEF Blk!Parameters
    <3>2. \A m \in Blk!Mode : Blk!ByHand(m) \in [mode: Blk!Mode, price: Nat]
      BY <3>1 DEF Blk!ByHand
    <3> QED  BY <3>2
  <2>5. /\ shown' \in [Card -> [mode: Blk!Mode, price: Nat] \cup {Null}]
        /\ \A j \in Card \ {i} : shown'[j] = shown[j]
    BY <2>2, <2>4 DEF BulkIInv, BulkTyped
  <2>6. UNCHANGED <<accepts, told, secret, task>> /\ alive' \subseteq alive
    BY <1>3 DEF Blk!EditAllocation, Blk!Vanish
  <2>7. BulkTyped'
    BY <2>1, <2>3, <2>5, <2>6 DEF BulkIInv, BulkTyped
  <2>8. \A j \in Card : \A p : Agrees(j, p) => Agrees(j, p)'
    BY <2>3, <2>6 DEF Agrees
  <2>9. PlanAgrees'
    BY <2>6, <2>8 DEF BulkIInv, PlanAgrees, BulkTyped, BulkRunType
  <2>10. WrittenAgrees'
    <3> SUFFICES ASSUME NEW j \in task'.allocated
                 PROVE  lapse'[j] # {} \/ (shown'[j] # Null /\ Agrees(j, shown[j].price)')
      BY DEF WrittenAgrees
    <3>1. j \in Card /\ j \in task.allocated
      BY <2>6 DEF BulkIInv, BulkTyped, BulkRunType
    <3>2. CASE j = i
      BY <2>3, <3>1, <3>2
    <3>3. CASE j # i
      <4>1. lapse[j] # {} \/ (shown[j] # Null /\ Agrees(j, shown[j].price))
        BY <3>1 DEF BulkIInv, WrittenAgrees
      <4>2. shown'[j] = shown[j]
        BY <2>5, <3>1, <3>3
      <4>3. lapse[j] # {} => lapse'[j] # {}
        BY <2>3, <3>1
      <4>4. Agrees(j, shown[j].price) => Agrees(j, shown[j].price)'
        BY <2>6, <3>1, <4>2, <4>3 DEF Agrees
      <4> QED  BY <4>1, <4>2, <4>3, <4>4
    <3> QED  BY <3>2, <3>3
  <2>11. RunFits'
    BY <2>6 DEF BulkIInv, RunFits, Blk!Answered
  <2> QED  BY <2>3, <2>6, <2>7, <2>9, <2>10, <2>11
           DEF BulkIInv, SeenIsLeft, Blk!DecisionsStand, PolicyStands
<1> QED  BY <1>1, <1>2, <1>3

\* The sweep records what a source publishes.
LEMMA SweepStep ==
    ASSUME BulkIInv, Blk!Parameters, Blk!Sweep PROVE BulkIInv'
<1>1. UNCHANGED <<alive, accepts, secret, shown, task, used, lapse>>
  BY DEF Blk!Sweep
<1>2. told' \in [Card -> Blk!Figures]
  BY PreferredHasFigure DEF Blk!Sweep, BulkIInv, BulkTyped, Blk!Figures, Blk!Parameters
<1> QED  BY <1>1, <1>2 DEF BulkIInv, BulkTyped, RunFits, Blk!Answered, SeenIsLeft, Blk!DecisionsStand, PolicyStands,
                           PlanAgrees, WrittenAgrees, Agrees

-------------------------------------------------------------------------------
LEMMA AskStep ==
    ASSUME BulkIInv, Blk!Parameters, Blk!Ask PROVE BulkIInv'
<1>1. used' \in [changes: 0..MaxChanges, runs: 0..MaxBulkRuns, mishaps: 0..MaxMishaps]
  BY UseType DEF Blk!Ask, BulkIInv, Blk!Parameters
<1>2. PICK is \in SUBSET Card \ {{}} :
          task' = [Blk!Resting EXCEPT !.step = "items", !.asked = is, !.policy = secret]
  BY DEF Blk!Ask
<1>3. lapse' \in [Card -> SUBSET Blk!Cause] /\ UNCHANGED <<alive, accepts, told, secret, shown>>
  BY DEF Blk!Ask
<1>4. task' \in BulkRunType
  BY <1>2 DEF Blk!Resting, BulkRunType, Quoted, BulkIInv, BulkTyped
<1>5. /\ task'.step = "items" /\ task'.asked = is /\ task'.policy = secret
      /\ task'.allocated = {} /\ task'.skipped = {} /\ task'.problems = {} /\ task'.todo = {}
      /\ task'.seen = {}
  BY <1>2 DEF Blk!Resting
<1> QED  BY <1>1, <1>3, <1>4, <1>5 DEF BulkIInv, BulkTyped, RunFits, Blk!Answered, SeenIsLeft, Blk!DecisionsStand,
            PolicyStands, PlanAgrees, WrittenAgrees

LEMMA ReadItemsStep ==
    ASSUME BulkIInv, Blk!Parameters, Blk!ReadItems PROVE BulkIInv'
<1> DEFINE has(i) == Blk!Preferred(told[i]) # None
           found == task.asked \cap alive
           is == {i \in found : shown[i] # Null}
           rest == found \ is
           plan == [i \in Card |-> IF i \in rest /\ has(i) THEN Blk!PriceOf(told[i]) ELSE None]
<1>1. task.policy \in Policy
  BY DEF Blk!ReadItems, BulkIInv, RunFits, Blk!Answered
<1>2. plan \in Quoted
  BY <1>1, PriceOfType DEF Quoted, BulkIInv, BulkTyped
<1>3. task' = [task EXCEPT !.step = "fetch", !.todo = found, !.seen = is,
                         !.stored = {i \in rest : has(i)}, !.price = plan]
  BY DEF Blk!ReadItems
<1>4. task.step = "items" /\ UNCHANGED <<alive, accepts, told, secret, shown, used>>
  BY DEF Blk!ReadItems
<1>5. /\ lapse' \in [Card -> SUBSET Blk!Cause]
      /\ \A i \in Card : lapse[i] \subseteq lapse'[i]
      /\ \A i \in Card : has(i) /\ Blk!Quote(told[i]) # Blk!Quote(accepts[i]) => lapse'[i] # {}
  BY DEF Blk!ReadItems, BulkIInv, BulkTyped, Blk!Cause
<1>6. task' \in BulkRunType
  BY <1>2, <1>3 DEF BulkRunType, BulkIInv, BulkTyped
<1>7. /\ task'.step = "fetch" /\ task'.seen = is /\ task'.stored = {i \in rest : has(i)}
      /\ task'.price = plan /\ task'.policy = task.policy /\ task'.allocated = task.allocated
      /\ task'.todo = found /\ task'.skipped = task.skipped /\ task'.problems = task.problems
      /\ task'.asked = task.asked
  BY <1>3 DEF BulkRunType, BulkIInv, BulkTyped
<1>8. PolicyStands'
  BY <1>4, <1>5, <1>7 DEF BulkIInv, PolicyStands
<1>9. ASSUME NEW i \in task'.stored \ task'.seen, task'.price[i] # None
      PROVE  Agrees(i, task.price[i])'
  <2>1. i \in Card /\ i \in rest /\ has(i) /\ task'.price[i] = Blk!PriceOf(told[i])
    BY <1>7, <1>9 DEF BulkIInv, BulkTyped, BulkRunType
  <2>2. CASE lapse'[i] # {}
    BY <2>2 DEF Agrees
  <2>3. CASE lapse'[i] = {}
    <3>1. Blk!Quote(told[i]) = Blk!Quote(accepts[i]) /\ "policy" \notin lapse[i]
      BY <1>5, <2>1, <2>3
    <3>2. task.policy = secret
      BY <1>4, <2>1, <3>1 DEF BulkIInv, PolicyStands
    <3>3. told[i] \in Blk!Figures /\ accepts[i] \in Blk!Figures
      BY <2>1 DEF BulkIInv, BulkTyped
    <3>4. /\ Blk!Preferred(accepts[i]) = Blk!Preferred(told[i])
          /\ accepts[i][Blk!Preferred(accepts[i])] = told[i][Blk!Preferred(told[i])]
      BY <2>1, <3>1, <3>3, QuoteTells
    <3> QED  BY <1>4, <2>1, <3>2, <3>4 DEF Agrees, Blk!PriceOf
  <2> QED  BY <2>2, <2>3
<1>10. PlanAgrees'
  BY <1>7, <1>9 DEF PlanAgrees
<1>11. SeenIsLeft'
  <2>1. \A i \in task'.seen : i \in Card /\ i \notin rest
    BY <1>7 DEF BulkIInv, BulkTyped, BulkRunType
  <2> QED  BY <1>4, <1>7, <2>1 DEF SeenIsLeft, BulkIInv
<1>12. RunFits'
  <2>1. task.allocated = {} /\ task.skipped = {} /\ task.problems = {}
    BY <1>4 DEF BulkIInv, RunFits
  <2>2. Blk!Answered' = found
    BY <1>7, <2>1 DEF Blk!Answered
  <2>3. task'.seen \cup task'.stored \subseteq task'.todo
    BY <1>7
  <2>4. found \subseteq task.asked /\ task.asked \ found \subseteq Card \ alive
    BY DEF BulkIInv, BulkTyped, BulkRunType
  <2> HIDE DEF found, is, rest, plan
  <2> QED  BY <1>1, <1>4, <1>7, <2>1, <2>2, <2>3, <2>4 DEF RunFits
<1> HIDE DEF found, is, rest, plan
<1>13. BulkTyped'
  BY <1>4, <1>5, <1>6 DEF BulkIInv, BulkTyped
<1>14. WrittenAgrees' /\ Blk!DecisionsStand'
  BY <1>4, <1>7 DEF BulkIInv, RunFits, WrittenAgrees, Blk!DecisionsStand
<1> QED  BY <1>8, <1>10, <1>11, <1>12, <1>13, <1>14 DEF BulkIInv

LEMMA FetchStep ==
    ASSUME BulkIInv, Blk!Parameters, Blk!Fetch PROVE BulkIInv'
<1> DEFINE asking == task.todo \ (task.seen \cup task.stored)
           plan == [i \in Card |-> IF i \in asking THEN Blk!PriceOf(accepts[i]) ELSE task.price[i]]
<1>1. task.policy \in Policy
  BY DEF Blk!Fetch, BulkIInv, RunFits, Blk!Answered
<1>2. plan \in Quoted
  BY <1>1, PriceOfType DEF Quoted, BulkIInv, BulkTyped, BulkRunType
<1>3. task' = [task EXCEPT !.step = "write", !.price = plan]
  BY DEF Blk!Fetch
<1>4. task.step = "fetch" /\ UNCHANGED <<alive, accepts, told, secret, shown, used>>
  BY DEF Blk!Fetch
<1>5. /\ lapse' \in [Card -> SUBSET Blk!Cause]
      /\ \A i \in Card : lapse'[i] \subseteq lapse[i]
      /\ \A i \in Card : "policy" \in lapse[i] => "policy" \in lapse'[i]
      /\ \A i \in task.stored : lapse'[i] = lapse[i]
  BY DEF Blk!Fetch, BulkIInv, BulkTyped, Blk!Cause, BulkRunType
<1>6. task' \in BulkRunType
  BY <1>2, <1>3 DEF BulkRunType, BulkIInv, BulkTyped
<1>7. /\ task'.step = "write" /\ task'.seen = task.seen /\ task'.stored = task.stored
      /\ task'.price = plan /\ task'.policy = task.policy /\ task'.allocated = task.allocated
      /\ task'.todo = task.todo /\ task'.skipped = task.skipped /\ task'.problems = task.problems
      /\ task'.asked = task.asked
  BY <1>3 DEF BulkRunType, BulkIInv, BulkTyped
<1>8. PolicyStands'
  BY <1>4, <1>5, <1>7 DEF BulkIInv, PolicyStands
<1>9. ASSUME NEW i \in task'.todo, task'.price[i] # None PROVE Agrees(i, task.price[i])'
  <2>1. i \in Card /\ i \in task.todo /\ task'.price[i] = plan[i]
    BY <1>7 DEF BulkIInv, BulkTyped, BulkRunType
  <2>2. CASE i \in asking
    <3>1. task'.price[i] = Blk!PriceOf(accepts[i])
      BY <2>1, <2>2
    <3>2. task.policy = secret \/ lapse'[i] # {}
      BY <1>4, <1>5, <2>1 DEF BulkIInv, PolicyStands
    <3>3. Blk!Preferred(accepts[i]) # None
      BY <1>9, <3>1 DEF Blk!PriceOf
    <3> QED  BY <1>4, <3>1, <3>2, <3>3 DEF Agrees, Blk!PriceOf
  <2>3. CASE i \in task.seen
    <3>1. task'.price[i] = None
      BY <1>4, <2>1, <2>3 DEF BulkIInv, SeenIsLeft
    <3> QED  BY <1>9, <3>1
  <2>4. CASE i \in task.stored \ task.seen
    <3>1. task'.price[i] = task.price[i] /\ Agrees(i, task.price[i])
      BY <1>4, <1>9, <2>1, <2>4 DEF BulkIInv, PlanAgrees
    <3> QED  BY <1>4, <1>5, <2>4, <3>1 DEF Agrees
  <2> QED  BY <2>1, <2>2, <2>3, <2>4
<1>10. PlanAgrees'
  BY <1>7, <1>9 DEF PlanAgrees
<1>11. SeenIsLeft'
  <2>1. \A i \in task.seen : i \in Card /\ i \notin asking /\ task.price[i] = None
    BY <1>4 DEF BulkIInv, BulkTyped, BulkRunType, SeenIsLeft
  <2> QED  BY <1>7, <2>1 DEF SeenIsLeft
<1> QED  BY <1>1, <1>4, <1>5, <1>6, <1>7, <1>8, <1>10, <1>11
         DEF BulkIInv, BulkTyped, RunFits, Blk!Answered, Blk!DecisionsStand, WrittenAgrees

LEMMA AnswerOneStep ==
    ASSUME BulkIInv, Blk!Parameters, NEW i \in Card, Blk!Skip(i) \/ Blk!Write(i) \/ Blk!Fail(i)
    PROVE  BulkIInv'
<1>0. task.step = "write" /\ i \in task.todo /\ UNCHANGED <<alive, accepts, told, secret, lapse>>
  BY DEF Blk!Skip, Blk!Write, Blk!Fail
<1>1. CASE Blk!Skip(i)
  <2>1. task' = [task EXCEPT !.todo = @ \ {i}, !.skipped = @ \cup {i}]
    BY <1>1 DEF Blk!Skip
  <2>2. UNCHANGED <<shown, used>>
    BY <1>1 DEF Blk!Skip
  <2>3. task' \in BulkRunType
    BY <2>1 DEF BulkIInv, BulkTyped, BulkRunType
  <2> QED  BY <1>0, <2>1, <2>2, <2>3 DEF BulkIInv, BulkTyped, BulkRunType, RunFits, Blk!Answered, SeenIsLeft,
              Blk!DecisionsStand, PolicyStands, PlanAgrees, WrittenAgrees, Agrees
<1>2. CASE Blk!Fail(i)
  <2>1. task' = [task EXCEPT !.todo = @ \ {i}, !.problems = @ \cup {i}]
    BY <1>2 DEF Blk!Fail
  <2>2. UNCHANGED shown
    BY <1>2 DEF Blk!Fail
  <2>3. task' \in BulkRunType
    BY <2>1 DEF BulkIInv, BulkTyped, BulkRunType
  <2>4. used' \in [changes: 0..MaxChanges, runs: 0..MaxBulkRuns, mishaps: 0..MaxMishaps]
    <3>1. CASE Blk!Use("mishaps", MaxMishaps)
      BY <3>1, UseType DEF BulkIInv, Blk!Parameters
    <3>2. CASE UNCHANGED used
      BY <3>2 DEF BulkIInv, BulkTyped
    <3> QED  BY <1>2, <3>1, <3>2 DEF Blk!Fail
  <2> QED  BY <1>0, <2>1, <2>2, <2>3, <2>4 DEF BulkIInv, BulkTyped, BulkRunType, RunFits, Blk!Answered, SeenIsLeft,
              Blk!DecisionsStand, PolicyStands, PlanAgrees, WrittenAgrees, Agrees
<1>3. CASE Blk!Write(i)
  <2>1. task' = [task EXCEPT !.todo = @ \ {i}, !.allocated = @ \cup {i}]
    BY <1>3 DEF Blk!Write
  <2>2. task.price[i] # None /\ task.price[i] \in Nat
    BY <1>3 DEF Blk!Write, BulkIInv, BulkTyped, BulkRunType, Quoted
  <2>3. shown' = [shown EXCEPT ![i] = [mode |-> "pooled", price |-> task.price[i]]]
    BY <1>3 DEF Blk!Write
  <2>4. task' \in BulkRunType
    BY <2>1 DEF BulkIInv, BulkTyped, BulkRunType
  <2>5. /\ shown' \in [Card -> [mode: Blk!Mode, price: Nat] \cup {Null}]
        /\ \A j \in Card \ {i} : shown'[j] = shown[j]
        /\ shown'[i] # Null /\ shown'[i].price = task.price[i]
    <3>1. [mode |-> "pooled", price |-> task.price[i]] \in [mode: Blk!Mode, price: Nat]
      BY <2>2 DEF Blk!Mode
    <3> QED  BY <2>3, <3>1 DEF BulkIInv, BulkTyped, Blk!Parameters
  <2>6. UNCHANGED used
    BY <1>3 DEF Blk!Write
  <2>7. BulkTyped'
    BY <1>0, <2>4, <2>5, <2>6 DEF BulkIInv, BulkTyped
  <2>8. /\ task'.step = "write" /\ task'.asked = task.asked /\ task'.todo = task.todo \ {i}
        /\ task'.allocated = task.allocated \cup {i} /\ task'.skipped = task.skipped
        /\ task'.problems = task.problems /\ task'.seen = task.seen /\ task'.price = task.price
        /\ task'.policy = task.policy
    BY <1>0, <2>1 DEF BulkIInv, BulkTyped, BulkRunType
  <2>9. i \notin task.seen
    BY <1>0, <2>2 DEF BulkIInv, SeenIsLeft
  <2>10. Agrees(i, task.price[i])
    BY <1>0, <2>2 DEF BulkIInv, PlanAgrees
  <2>11. \A j \in Card : \A p : Agrees(j, p) => Agrees(j, p)'
    BY <1>0 DEF Agrees
  <2>12. WrittenAgrees'
    BY <1>0, <2>5, <2>8, <2>10, <2>11 DEF BulkIInv, WrittenAgrees, BulkTyped, BulkRunType
  <2>13. PlanAgrees'
    BY <1>0, <2>8, <2>11 DEF BulkIInv, PlanAgrees, BulkTyped, BulkRunType
  <2>14. RunFits'
    BY <1>0, <2>8 DEF BulkIInv, RunFits, Blk!Answered
  <2> QED  BY <1>0, <2>7, <2>8, <2>9, <2>12, <2>13, <2>14
           DEF BulkIInv, SeenIsLeft, Blk!DecisionsStand, PolicyStands
<1> QED  BY <1>1, <1>2, <1>3

LEMMA EndSteps ==
    ASSUME BulkIInv, Blk!Parameters, Blk!Answer \/ Blk!Die PROVE BulkIInv'
<1>1. CASE Blk!Answer
  <2>1. task' = [task EXCEPT !.step = "idle"] /\ task.step = "write" /\ task.todo = {}
    BY <1>1 DEF Blk!Answer
  <2>2. UNCHANGED <<alive, accepts, told, secret, shown, used, lapse>>
    BY <1>1 DEF Blk!Answer
  <2>3. task' \in BulkRunType
    BY <2>1 DEF BulkIInv, BulkTyped, BulkRunType
  <2> QED  BY <2>1, <2>2, <2>3 DEF BulkIInv, BulkTyped, BulkRunType, RunFits, Blk!Answered, SeenIsLeft,
              Blk!DecisionsStand, PolicyStands, PlanAgrees, WrittenAgrees, Agrees
<1>2. CASE Blk!Die
  <2>1. task' = Blk!Resting /\ UNCHANGED <<alive, accepts, told, secret, shown, lapse>>
    BY <1>2 DEF Blk!Die
  <2>2. task' \in BulkRunType
    BY <2>1 DEF Blk!Resting, BulkRunType, Quoted
  <2>3. used' \in [changes: 0..MaxChanges, runs: 0..MaxBulkRuns, mishaps: 0..MaxMishaps]
    BY <1>2, UseType DEF Blk!Die, BulkIInv, Blk!Parameters
  <2> QED  BY <2>1, <2>2, <2>3 DEF BulkIInv, Blk!Resting, BulkTyped, RunFits, Blk!Answered, SeenIsLeft,
              Blk!DecisionsStand, PolicyStands, PlanAgrees, WrittenAgrees
<1> QED  BY <1>1, <1>2

LEMMA BulkNext ==
    ASSUME BulkIInv, Blk!Parameters, [Blk!Next]_(Blk!vars) PROVE BulkIInv'
<1>1. CASE UNCHANGED Blk!vars
  BY <1>1 DEF Blk!vars, BulkIInv, BulkTyped, RunFits, Blk!Answered, SeenIsLeft, Blk!DecisionsStand, PolicyStands,
              PlanAgrees, WrittenAgrees, Agrees
<1>2. CASE Blk!Next
  BY <1>2, OutsideSteps, SweepStep, AskStep, ReadItemsStep, FetchStep, AnswerOneStep, EndSteps
     DEF Blk!Next
<1> QED  BY <1>1, <1>2

\* Parts of a finite set that do not meet add up.
LEMMA PartsAddUp ==
    ASSUME NEW S, IsFiniteSet(S), NEW a, NEW b, NEW c, NEW d, S = a \cup b \cup c \cup d,
           a \cap (b \cup c \cup d) = {}, b \cap (c \cup d) = {}, c \cap d = {}
    PROVE  Cardinality(a) + Cardinality(b) + Cardinality(c) + Cardinality(d) = Cardinality(S)
<1>1. IsFiniteSet(a) /\ IsFiniteSet(b) /\ IsFiniteSet(c) /\ IsFiniteSet(d)
  BY FS_Subset
<1>2. IsFiniteSet(c \cup d) /\ IsFiniteSet(b \cup (c \cup d))
  BY <1>1, FS_Union
<1>3. Cardinality({}) = 0
  BY FS_EmptySet
<1>4. Cardinality(c \cup d) = Cardinality(c) + Cardinality(d)
  <2>1. Cardinality(c \cup d) = Cardinality(c) + Cardinality(d) - Cardinality(c \cap d)
    BY <1>1, FS_Union
  <2>2. Cardinality(c \cap d) = Cardinality({})
    <3>1. c \cap d = {}
      OBVIOUS
    <3> QED  BY <3>1, Zenon
  <2>3. Cardinality(c) \in Nat /\ Cardinality(d) \in Nat
    BY <1>1, FS_CardinalityType
  <2> QED  BY <1>3, <2>1, <2>2, <2>3
<1>5. Cardinality(b \cup (c \cup d)) = Cardinality(b) + Cardinality(c \cup d)
  <2>1. Cardinality(b \cup (c \cup d)) =
           Cardinality(b) + Cardinality(c \cup d) - Cardinality(b \cap (c \cup d))
    BY <1>1, <1>2, FS_Union
  <2>2. Cardinality(b \cap (c \cup d)) = Cardinality({})
    <3>1. b \cap (c \cup d) = {}
      OBVIOUS
    <3> QED  BY <3>1, Zenon
  <2>3. Cardinality(b) \in Nat /\ Cardinality(c \cup d) \in Nat
    BY <1>1, <1>2, FS_CardinalityType
  <2> QED  BY <1>3, <2>1, <2>2, <2>3
<1>6. Cardinality(S) = Cardinality(a) + Cardinality(b \cup (c \cup d))
  <2>1. Cardinality(a \cup (b \cup (c \cup d))) =
           Cardinality(a) + Cardinality(b \cup (c \cup d)) - Cardinality(a \cap (b \cup (c \cup d)))
    BY <1>1, <1>2, FS_Union
  <2>2. Cardinality(a \cap (b \cup (c \cup d))) = Cardinality({})
    <3>1. a \cap (b \cup (c \cup d)) = {}
      OBVIOUS
    <3> QED  BY <3>1, Zenon
  <2>4. Cardinality(S) = Cardinality(a \cup (b \cup (c \cup d)))
    <3>1. S = a \cup (b \cup (c \cup d))
      OBVIOUS
    <3> QED  BY <3>1, Zenon
  <2>3. Cardinality(a) \in Nat /\ Cardinality(b \cup (c \cup d)) \in Nat
    BY <1>1, <1>2, FS_CardinalityType
  <2> QED  BY <1>3, <2>1, <2>2, <2>3, <2>4
<1>7. /\ Cardinality(a) \in Nat /\ Cardinality(b) \in Nat /\ Cardinality(c) \in Nat
      /\ Cardinality(d) \in Nat
  BY <1>1, FS_CardinalityType
<1> QED  BY <1>4, <1>5, <1>6, <1>7

LEMMA BulkInvariantSays ==
    ASSUME BulkIInv, Blk!Parameters PROVE Blk!TypeOK /\ Blk!BulkHolds
<1>1. Blk!TypeOK
  BY DEF BulkIInv, BulkTyped, BulkRunType, Blk!TypeOK, Blk!Parameters
<1>2. Blk!EachAnsweredOnce
  <2>1. IsFiniteSet(Blk!Answered)
    BY FS_Subset, SameSets DEF BulkIInv, BulkTyped, BulkRunType, Blk!Parameters, Blk!Answered
  <2>2. /\ task.todo \cap (task.allocated \cup task.skipped \cup task.problems) = {}
        /\ task.allocated \cap (task.skipped \cup task.problems) = {}
        /\ task.skipped \cap task.problems = {}
        => Cardinality(task.todo) + Cardinality(task.allocated) + Cardinality(task.skipped)
               + Cardinality(task.problems) = Cardinality(Blk!Answered)
    BY <2>1, PartsAddUp DEF Blk!Answered
  <2> QED  BY <2>2, SameSets DEF BulkIInv, RunFits, Blk!EachAnsweredOnce
<1>3. Blk!SweepAgrees
  BY DEF BulkIInv, WrittenAgrees, Agrees, Blk!SweepAgrees
<1> QED  BY <1>1, <1>2, <1>3 DEF BulkIInv, Blk!BulkHolds

\* For any items, figures, policies and bounds: each item a run finds is answered once and only
\* those that are gone get no answer, a price that was allocated is what a sweep would ask for,
\* and a decision made by hand stands (bulk-allocate.service.ts).
THEOREM BulkIsSound ==
    ASSUME Blk!Parameters PROVE Blk!Spec => [](Blk!TypeOK /\ Blk!BulkHolds)
<1>1. Blk!Init => BulkIInv
  BY BulkInit
<1>2. BulkIInv /\ [Blk!Next]_(Blk!vars) => BulkIInv'
  BY BulkNext
<1>3. BulkIInv => Blk!TypeOK /\ Blk!BulkHolds
  BY BulkInvariantSays
<1> QED  BY <1>1, <1>2, <1>3, PTL DEF Blk!Spec

-------------------------------------------------------------------------------
(***************************************************************************)
(* Pictures and attributes of listings.                                    *)
(***************************************************************************)

ContentRunType ==
    [step: {"idle", "pending", "next", "read", "add", "delete", "write"},
     kind: {Null, "images", "attributes"}, ids: SUBSET Variant, todo: SUBSET Variant,
     eligible: SUBSET Variant, item: Variant \cup {Null}, rules: Con!Content,
         url: Picture \cup {Null},
     old: SUBSET Nat, seen: Con!Content, updated: SUBSET Variant, unchanged: SUBSET Variant,
     problems: SUBSET Variant]

Ids == {m.id : m \in cache}
Busy == {"read", "add", "delete", "write"}

ContentTyped ==
    /\ accepts \subseteq Variant /\ alive \in Picture \cup {Null}
    /\ secret \in Con!Content /\ shown \in Con!Content
    /\ cache \subseteq [id: Nat, url: Picture \cup {Con!Hand}]
    /\ task \in [Batch -> ContentRunType]
    /\ inFlight \in [tags: SUBSET Con!Tag, shows: Picture \cup {Null}]
    /\ used \in [runs: 0..MaxRuns, edits: 0..MaxContentEdits, mishaps: 0..MaxMishaps, added: Nat]

\* A number a picture has, or had when a run read it, was given out.
Numbered ==
    /\ \A x \in Ids : x <= used.added
    /\ \A r \in Batch : \A x \in task[r].old : x <= used.added

\* What a step of a run says of its kind and of the item in hand.
StepFits ==
    \A r \in Batch :
        /\ task[r].step \in {"add", "delete"} => task[r].kind = "images"
        /\ task[r].step = "write" => task[r].kind = "attributes"
        /\ task[r].step \in Busy <=> task[r].item # Null

\* A listing is in one place of a run.
Accounted ==
    \A r \in Batch : LET q == task[r] IN
        /\ q.ids = q.todo \cup q.updated \cup q.unchanged \cup q.problems \cup ({q.item} \ {Null})
        /\ q.updated \cap q.problems = {}
        /\ q.unchanged \cap (q.updated \cup q.problems) = {}
        /\ q.todo \cap (q.updated \cup q.unchanged \cup q.problems) = {}
        /\ q.item \notin q.todo \cup q.updated \cup q.unchanged \cup q.problems

\* One picture stays when a run takes away what it has read: what it added came later.
OneStays ==
    "hidden" \notin lapse =>
        /\ cache # {}
        /\ \A r \in Batch : task[r].step = "delete" =>
              \E x \in Ids : \A y \in task[r].old : y < x

\* An image run overlapped something, or a read left pictures out.
Marked == {"images", "beyond"} \cap lapse # {}

\* Unmarked, one image run at most is between its read and its last write, and nothing has
\* changed but by it.
ImagesAlone ==
    ~Marked =>
        /\ \A r, s \in Batch :
              task[r].step \in {"add", "delete"} /\ task[s].step \in {"add", "delete"} => r = s
        /\ \A r \in Batch : task[r].step = "add" => task[r].old = Ids
        /\ \A r \in Batch : task[r].step = "delete" =>
              /\ task[r].old \subseteq Ids
              /\ {m.url : m \in {n \in cache : n.id \notin task[r].old}} = {task[r].url}
        /\ \/ inFlight.shows = Null
           \/ \E r \in Batch : task[r].step = "delete"
           \/ {m.url : m \in cache} = {inFlight.shows}

\* A run that puts a picture up has one.
Pictured ==
    \A r \in Batch : task[r].step \in {"add", "delete"} => task[r].url # Null

PageAlone ==
    "attributes" \notin lapse =>
        /\ \A r, s \in Batch : task[r].step = "write" /\ task[s].step = "write" => r = s
        /\ \A r \in Batch : task[r].step = "write" => task[r].seen = shown

ContentIInv == ContentTyped /\ Numbered /\ StepFits /\ Accounted /\ OneStays /\ ImagesAlone
            /\ Pictured /\ PageAlone /\ Con!TagsSurvive /\ Con!HandsOff

LEMMA IdleType == Con!Parameters => Con!Idle \in ContentRunType
  BY DEF Con!Idle, ContentRunType, Con!Content, Con!Parameters

LEMMA ContentInit == ASSUME Con!Parameters, Con!Init PROVE ContentIInv
<1>0. task = [r \in Batch |-> Con!Idle] /\ Con!Idle \in ContentRunType
  BY IdleType DEF Con!Init
<1>1. ContentTyped
  BY <1>0 DEF Con!Init, ContentTyped, Con!Parameters, Con!Content, Con!Rules, Con!Hand, Con!Tag
<1>2. Numbered
  BY <1>0 DEF Con!Init, Numbered, Ids, Con!Idle
<1>3. StepFits /\ Accounted
  BY <1>0 DEF Con!Init, StepFits, Accounted, Con!Idle, Busy
<1>4. OneStays /\ ImagesAlone /\ PageAlone /\ Pictured
  BY <1>0 DEF Con!Init, OneStays, ImagesAlone, PageAlone, Pictured, Con!Idle
<1>5. Con!TagsSurvive /\ Con!HandsOff
  BY DEF Con!Init, Con!TagsSurvive, Con!HandsOff, Con!Hand
<1> QED  BY <1>1, <1>2, <1>3, <1>4, <1>5 DEF ContentIInv

\* One more of what a bound allows.
LEMMA ContentUseType ==
    ASSUME ContentTyped, Con!Parameters
    PROVE  /\ Con!Use("runs", MaxRuns) => used' \in [runs: 0..MaxRuns, edits: 0..MaxContentEdits,
                                                 mishaps: 0..MaxMishaps, added: Nat]
           /\ Con!Use("edits", MaxContentEdits)
                  => used' \in [runs: 0..MaxRuns, edits: 0..MaxContentEdits,
                                                 mishaps: 0..MaxMishaps, added: Nat]
           /\ Con!Use("mishaps", MaxMishaps)
                  => used' \in [runs: 0..MaxRuns, edits: 0..MaxContentEdits,
                                                 mishaps: 0..MaxMishaps, added: Nat]
           /\ \A w \in {"runs", "edits", "mishaps"} : \A n : Con!Use(w, n) => used'.added = used.added
  BY DEF ContentTyped, Con!Parameters, Con!Use

\* A step of one run that touches no product, and leaves its own step outside add, delete
\* and write: what the invariant says of the product stays.
LEMMA QuietStep ==
    ASSUME ContentIInv, Con!Parameters, NEW r \in Batch, NEW q \in ContentRunType,
           task' = [task EXCEPT ![r] = q],
           q.step \notin {"add", "delete", "write"},
           task[r].step = "delete" => inFlight'.shows = Null \/ Marked,
           UNCHANGED <<accepts, alive, secret, cache, shown, lapse>>,
           inFlight' = inFlight \/ inFlight' = [inFlight EXCEPT !.shows = Null],
           used' \in [runs: 0..MaxRuns, edits: 0..MaxContentEdits, mishaps: 0..MaxMishaps, added: Nat],
           used'.added = used.added, q.old = {} \/ q.old = task[r].old,
           q.step \in Busy <=> q.item # Null,
           q.ids = q.todo \cup q.updated \cup q.unchanged \cup q.problems \cup ({q.item} \ {Null}),
           q.updated \cap q.problems = {},
           q.unchanged \cap (q.updated \cup q.problems) = {},
           q.todo \cap (q.updated \cup q.unchanged \cup q.problems) = {},
           q.item \notin q.todo \cup q.updated \cup q.unchanged \cup q.problems
    PROVE  ContentIInv'
<1>1. task' \in [Batch -> ContentRunType] /\ task'[r] = q /\ \A s \in Batch \ {r} : task'[s] = task[s]
  BY DEF ContentIInv, ContentTyped
<1>2. ContentTyped'
  BY <1>1 DEF ContentIInv, ContentTyped
<1>3. Numbered'
  BY <1>1 DEF ContentIInv, Numbered, Ids
<1>4. StepFits'
  BY <1>1 DEF ContentIInv, StepFits
<1>5. Accounted'
  BY <1>1 DEF ContentIInv, Accounted
<1>6. OneStays'
  BY <1>1 DEF ContentIInv, OneStays, Ids
<1>7. ImagesAlone'
  <2> SUFFICES ASSUME ~Marked, ~Marked' PROVE ImagesAlone'
    BY DEF ImagesAlone, Marked
  <2>1. \A a \in Batch : task'[a].step \in {"add", "delete"} => a # r /\ task'[a] = task[a]
    BY <1>1
  <2>2. /\ inFlight'.shows = Null
        \/ \E a \in Batch : task'[a].step = "delete"
        \/ {m.url : m \in cache'} = {inFlight'.shows}
    BY <1>1 DEF ContentIInv, ImagesAlone, ContentTyped
  <2>3. \A a, b \in Batch :
            task'[a].step \in {"add", "delete"} /\ task'[b].step \in {"add", "delete"} => a = b
    BY <2>1 DEF ContentIInv, ImagesAlone
  <2>4. \A a \in Batch : task'[a].step = "add" => task'[a].old = Ids'
    BY <2>1 DEF ContentIInv, ImagesAlone, Ids
  <2>5. \A a \in Batch : task'[a].step = "delete" =>
            /\ task'[a].old \subseteq Ids'
            /\ {m.url : m \in {n \in cache' : n.id \notin task'[a].old}} = {task'[a].url}
    <3>1. Ids' = Ids /\ cache' = cache
      BY DEF Ids
    <3>2. \A a \in Batch : task[a].step = "delete" =>
            /\ task[a].old \subseteq Ids
            /\ {m.url : m \in {n \in cache : n.id \notin task[a].old}} = {task[a].url}
      BY DEF ContentIInv, ImagesAlone
    <3> SUFFICES ASSUME NEW a \in Batch, task'[a].step = "delete"
                 PROVE  /\ task'[a].old \subseteq Ids'
                        /\ {m.url : m \in {n \in cache' : n.id \notin task'[a].old}} = {task'[a].url}
      OBVIOUS
    <3>3. task'[a] = task[a]
      BY <2>1
    <3> QED  BY <3>1, <3>2, <3>3
  <2> QED  BY <2>2, <2>3, <2>4, <2>5 DEF ImagesAlone
<1>8. PageAlone' /\ Pictured'
  BY <1>1 DEF ContentIInv, PageAlone, Pictured
<1>9. Con!TagsSurvive' /\ Con!HandsOff'
  BY DEF ContentIInv, Con!TagsSurvive, Con!HandsOff, ContentTyped
<1> QED  BY <1>2, <1>3, <1>4, <1>5, <1>6, <1>7, <1>8, <1>9 DEF ContentIInv

LEMMA RunSteps ==
    ASSUME ContentIInv, Con!Parameters, NEW r \in Batch,
           \/ \E kind \in {"images", "attributes"} : Con!Ask(r, kind)
           \/ Con!Pending(r) \/ (\E i \in Variant : Con!Take(r, i)) \/ Con!Finish(r)
    PROVE  ContentIInv'
<1>0. task[r] \in ContentRunType /\ Con!Idle \in ContentRunType /\ Con!Idle.step = "idle"
      /\ Con!Idle.old = {} /\ Con!Idle.item = Null
  BY IdleType DEF ContentIInv, ContentTyped, Con!Idle
<1>u. /\ used \in [runs: 0..MaxRuns, edits: 0..MaxContentEdits, mishaps: 0..MaxMishaps, added: Nat]
      /\ secret \in Con!Content /\ accepts \in SUBSET Variant /\ task \in [Batch -> ContentRunType]
  BY DEF ContentIInv, ContentTyped
<1>1. ASSUME NEW kind \in {"images", "attributes"}, Con!Ask(r, kind) PROVE ContentIInv'
  <2>1. PICK ids \in SUBSET Variant \ {{}} :
            task' = [task EXCEPT ![r] = [Con!Idle EXCEPT !.step = "pending", !.kind = kind, !.ids = ids,
                     !.todo = ids, !.rules.category = secret.category]]
    BY <1>1 DEF Con!Ask
  <2> DEFINE q == [Con!Idle EXCEPT !.step = "pending", !.kind = kind, !.ids = ids,
                     !.todo = ids, !.rules.category = secret.category]
  <2>2. /\ q \in ContentRunType /\ q.step = "pending" /\ q.old = {} /\ q.item = Null /\ q.ids = ids
        /\ q.todo = ids /\ q.updated = {} /\ q.unchanged = {} /\ q.problems = {}
    BY <1>u DEF Con!Idle, ContentRunType, Con!Content
  <2>3. /\ used' \in [runs: 0..MaxRuns, edits: 0..MaxContentEdits, mishaps: 0..MaxMishaps, added: Nat]
        /\ used'.added = used.added
    BY <1>1, ContentUseType DEF Con!Ask, ContentIInv
  <2>4. task[r].step = "idle" /\ UNCHANGED <<accepts, alive, secret, cache, shown, lapse, inFlight>>
    BY <1>1 DEF Con!Ask, Con!At, Con!ledger, Con!product
  <2>5. task' = [task EXCEPT ![r] = q]
    BY <2>1
  <2> HIDE DEF q
  <2> QED  BY <2>2, <2>3, <2>4, <2>5, QuietStep DEF Busy, Con!Parameters
<1>2. CASE Con!Pending(r)
  <2>1. PICK q \in ContentRunType :
           /\ task' = [task EXCEPT ![r] = q]
           /\ \/ q = Con!Idle
              \/ /\ q.step = "next" /\ q.old = task[r].old /\ q.item = task[r].item
                  /\ q.ids = task[r].ids
                 /\ q.todo = task[r].todo /\ q.updated = task[r].updated
                 /\ q.unchanged = task[r].unchanged /\ q.problems = task[r].problems
    <3>1. CASE task[r].kind = "images"
      <4> DEFINE some == IF alive = Null THEN {} ELSE accepts
                 after == [task[r] EXCEPT !.step = "next", !.eligible = some]
      <4>1. some \in SUBSET Variant
        BY <1>u
      <4>2. task' = [task EXCEPT ![r] = after]
        BY <1>2, <1>u, <3>1 DEF Con!Pending
      <4> HIDE DEF some
      <4>3. after \in ContentRunType
        BY <1>0, <4>1 DEF ContentRunType
      <4>4. /\ after.step = "next" /\ after.old = task[r].old /\ after.item = task[r].item
            /\ after.ids = task[r].ids /\ after.todo = task[r].todo /\ after.updated = task[r].updated
            /\ after.unchanged = task[r].unchanged /\ after.problems = task[r].problems
        BY <1>0 DEF ContentRunType
      <4> QED  BY <4>2, <4>3, <4>4
    <3>2. CASE task[r].kind # "images" /\ secret.tags = {} /\ secret.field = Null
      <4>1. task' = [task EXCEPT ![r] = Con!Idle]
        BY <1>2, <1>u, <3>2 DEF Con!Pending
      <4> QED  BY <1>0, <4>1
    <3>3. CASE task[r].kind # "images" /\ ~(secret.tags = {} /\ secret.field = Null)
      <4> DEFINE named == [task[r].rules EXCEPT !.tags = secret.tags, !.field = secret.field]
                 after == [task[r] EXCEPT !.step = "next", !.eligible = accepts, !.rules = named]
      <4>1. named \in Con!Content
        BY <1>0, <1>u DEF Con!Content, ContentRunType
      <4>2. after = [task[r] EXCEPT !.step = "next", !.eligible = accepts, !.rules.tags = secret.tags,
                         !.rules.field = secret.field]
        BY <1>0, <1>u DEF Con!Content, ContentRunType
      <4>3. task' = [task EXCEPT ![r] = after]
        BY <1>2, <1>u, <3>3, <4>2 DEF Con!Pending
      <4> HIDE DEF named
      <4>4. after \in ContentRunType
        BY <1>0, <1>u, <4>1 DEF ContentRunType
      <4>5. /\ after.step = "next" /\ after.old = task[r].old /\ after.item = task[r].item
            /\ after.ids = task[r].ids /\ after.todo = task[r].todo /\ after.updated = task[r].updated
            /\ after.unchanged = task[r].unchanged /\ after.problems = task[r].problems
        BY <1>0 DEF ContentRunType
      <4> QED  BY <4>3, <4>4, <4>5
    <3> QED  BY <3>1, <3>2, <3>3
  <2>2. task[r].step = "pending"
        /\ UNCHANGED <<accepts, alive, secret, cache, shown, lapse, inFlight, used>>
    BY <1>2 DEF Con!Pending, Con!At, Con!ledger, Con!product
  <2>3. task[r].item = Null
    BY <2>2 DEF ContentIInv, StepFits, Busy
  <2>4. CASE q = Con!Idle
    BY <2>1, <2>2, <2>4, <1>0, <1>u, QuietStep DEF Busy, Con!Idle
  <2>5. CASE q # Con!Idle
    <3>1. /\ q.ids = q.todo \cup q.updated \cup q.unchanged \cup q.problems \cup ({q.item} \ {Null})
          /\ q.updated \cap q.problems = {}
          /\ q.unchanged \cap (q.updated \cup q.problems) = {}
          /\ q.todo \cap (q.updated \cup q.unchanged \cup q.problems) = {}
          /\ q.item \notin q.todo \cup q.updated \cup q.unchanged \cup q.problems
      BY <2>1, <2>5 DEF ContentIInv, Accounted
    <3> QED  BY <2>1, <2>2, <2>3, <2>5, <3>1, <1>u, QuietStep DEF Busy
  <2> QED  BY <2>4, <2>5
<1>3. ASSUME NEW i \in Variant, Con!Take(r, i) PROVE ContentIInv'
  <2>1. /\ task[r].step = "next" /\ i \in task[r].todo
        /\ UNCHANGED <<accepts, alive, secret, cache, shown, lapse, inFlight, used>>
    BY <1>3 DEF Con!Take, Con!At, Con!ledger, Con!product
  <2>2. task[r].item = Null /\ i # Null
    BY <2>1 DEF ContentIInv, StepFits, Busy, Con!Parameters
  <2>a. /\ task[r].ids = task[r].todo \cup task[r].updated \cup task[r].unchanged
              \cup task[r].problems
        /\ task[r].updated \cap task[r].problems = {}
        /\ task[r].unchanged \cap (task[r].updated \cup task[r].problems) = {}
        /\ task[r].todo \cap (task[r].updated \cup task[r].unchanged \cup task[r].problems) = {}
    BY <2>2 DEF ContentIInv, Accounted
  <2>b. Null \notin task[r].todo \cup task[r].updated \cup task[r].unchanged \cup task[r].problems
    BY <1>0 DEF ContentRunType, Con!Parameters
  <2>3. CASE i \in task[r].eligible
    <3> DEFINE q == [task[r] EXCEPT !.step = "read", !.item = i, !.todo = task[r].todo \ {i}]
    <3>1. task' = [task EXCEPT ![r] = q]
      BY <1>3, <2>3 DEF Con!Take
    <3>2. /\ q \in ContentRunType /\ q.step = "read" /\ q.old = task[r].old /\ q.item = i
                 /\ q.ids = task[r].ids
          /\ q.todo = task[r].todo \ {i} /\ q.updated = task[r].updated
          /\ q.unchanged = task[r].unchanged /\ q.problems = task[r].problems
      BY <1>0 DEF ContentRunType
    <3> HIDE DEF q
    <3>3. /\ q.ids = q.todo \cup q.updated \cup q.unchanged \cup q.problems \cup ({q.item} \ {Null})
          /\ q.updated \cap q.problems = {}
          /\ q.unchanged \cap (q.updated \cup q.problems) = {}
          /\ q.todo \cap (q.updated \cup q.unchanged \cup q.problems) = {}
          /\ q.item \notin q.todo \cup q.updated \cup q.unchanged \cup q.problems
      BY <2>1, <2>2, <2>a, <3>2
    <3> QED  BY <2>1, <2>2, <3>1, <3>2, <3>3, <1>u, QuietStep DEF Busy
  <2>4. CASE i \notin task[r].eligible
    <3> DEFINE q == [task[r] EXCEPT !.todo = task[r].todo \ {i}, !.problems = task[r].problems \cup {i}]
    <3>1. task' = [task EXCEPT ![r] = q]
      BY <1>3, <2>4 DEF Con!Take
    <3>2. /\ q \in ContentRunType /\ q.step = "next" /\ q.old = task[r].old /\ q.item = Null
                 /\ q.ids = task[r].ids
          /\ q.todo = task[r].todo \ {i} /\ q.updated = task[r].updated
          /\ q.unchanged = task[r].unchanged /\ q.problems = task[r].problems \cup {i}
      BY <1>0, <2>1, <2>2 DEF ContentRunType
    <3> HIDE DEF q
    <3>3. /\ q.ids = q.todo \cup q.updated \cup q.unchanged \cup q.problems \cup ({q.item} \ {Null})
          /\ q.updated \cap q.problems = {}
          /\ q.unchanged \cap (q.updated \cup q.problems) = {}
          /\ q.todo \cap (q.updated \cup q.unchanged \cup q.problems) = {}
          /\ q.item \notin q.todo \cup q.updated \cup q.unchanged \cup q.problems
      BY <2>1, <2>2, <2>a, <2>b, <3>2
    <3> QED  BY <2>1, <2>2, <3>1, <3>2, <3>3, <1>u, QuietStep DEF Busy
  <2> QED  BY <2>3, <2>4
<1>4. CASE Con!Finish(r)
  <2>1. /\ task' = [task EXCEPT ![r] = Con!Idle] /\ task[r].step = "next"
        /\ UNCHANGED <<accepts, alive, secret, cache, shown, lapse, inFlight, used>>
    BY <1>4 DEF Con!Finish, Con!At, Con!ledger, Con!product
  <2> QED  BY <2>1, <1>0, <1>u, QuietStep DEF Busy, Con!Idle
<1> QED  BY <1>1, <1>2, <1>3, <1>4

\* What a run reports of the item in hand it reports once.
LEMMA ReportFits ==
    ASSUME ContentIInv, Con!Parameters, NEW r \in Batch, task[r].step \in Busy,
           NEW where \in {"updated", "unchanged", "problems"}, Con!Reported(r, where)
    PROVE  \E q \in ContentRunType :
              /\ task' = [task EXCEPT ![r] = q]
              /\ q.step = "next" /\ q.old = {} /\ q.item = Null
              /\ q.ids = q.todo \cup q.updated \cup q.unchanged \cup q.problems \cup ({q.item} \ {Null})
              /\ q.updated \cap q.problems = {}
              /\ q.unchanged \cap (q.updated \cup q.problems) = {}
              /\ q.todo \cap (q.updated \cup q.unchanged \cup q.problems) = {}
              /\ q.item \notin q.todo \cup q.updated \cup q.unchanged \cup q.problems
<1>1. task[r] \in ContentRunType /\ task[r].item \in Variant /\ Null \notin Variant
  BY DEF ContentIInv, ContentTyped, ContentRunType, StepFits, Con!Parameters
<1>2. /\ task[r].ids = task[r].todo \cup task[r].updated \cup task[r].unchanged \cup task[r].problems
                        \cup {task[r].item}
      /\ task[r].updated \cap task[r].problems = {}
      /\ task[r].unchanged \cap (task[r].updated \cup task[r].problems) = {}
      /\ task[r].todo \cap (task[r].updated \cup task[r].unchanged \cup task[r].problems) = {}
      /\ task[r].item \notin task[r].todo \cup task[r].updated \cup task[r].unchanged
               \cup task[r].problems
  BY <1>1 DEF ContentIInv, Accounted
<1> DEFINE Also(items, list) == IF where = list THEN items \cup {task[r].item} ELSE items
           u == Also(task[r].updated, "updated")
           n == Also(task[r].unchanged, "unchanged")
           p == Also(task[r].problems, "problems")
           q == [task[r] EXCEPT !.step = "next", !.item = Null, !.url = Null,
                   !.old = {}, !.seen = Con!Idle.seen, !.updated = u, !.unchanged = n, !.problems = p]
<1>3. u \in SUBSET Variant /\ n \in SUBSET Variant /\ p \in SUBSET Variant
  BY <1>1 DEF ContentRunType
<1>4. /\ u \cap p = {} /\ n \cap (u \cup p) = {} /\ task[r].todo \cap (u \cup n \cup p) = {}
      /\ task[r].ids = task[r].todo \cup u \cup n \cup p
  BY <1>2
<1>5. Con!Idle.seen \in Con!Content
  BY DEF Con!Idle, Con!Content
<1>6. task' = [task EXCEPT ![r] = q]
  BY DEF Con!Reported
<1> HIDE DEF u, n, p
<1>7. /\ q \in ContentRunType /\ q.step = "next" /\ q.old = {} /\ q.item = Null /\ q.ids = task[r].ids
      /\ q.todo = task[r].todo /\ q.updated = u /\ q.unchanged = n /\ q.problems = p
  BY <1>1, <1>3, <1>5 DEF ContentRunType
<1> HIDE DEF q
<1>8. /\ q.ids = q.todo \cup q.updated \cup q.unchanged \cup q.problems \cup ({q.item} \ {Null})
      /\ q.updated \cap q.problems = {}
      /\ q.unchanged \cap (q.updated \cup q.problems) = {}
      /\ q.todo \cap (q.updated \cup q.unchanged \cup q.problems) = {}
  BY <1>4, <1>7
<1>9. q.item \notin q.todo \cup q.updated \cup q.unchanged \cup q.problems
  BY <1>1, <1>3, <1>7 DEF ContentRunType
<1> QED  BY <1>6, <1>7, <1>8, <1>9

\* A run that only reports.
LEMMA ReportStep ==
    ASSUME ContentIInv, Con!Parameters, NEW r \in Batch, task[r].step \in Busy,
           NEW where \in {"updated", "unchanged", "problems"}, Con!Reported(r, where),
           task[r].step = "delete" => inFlight'.shows = Null \/ Marked,
           UNCHANGED <<accepts, alive, secret, cache, shown, lapse>>,
           inFlight' = inFlight \/ inFlight' = [inFlight EXCEPT !.shows = Null],
           used' \in [runs: 0..MaxRuns, edits: 0..MaxContentEdits, mishaps: 0..MaxMishaps, added: Nat],
           used'.added = used.added
    PROVE  ContentIInv'
<1>1. PICK q \in ContentRunType :
              /\ task' = [task EXCEPT ![r] = q]
              /\ q.step = "next" /\ q.old = {} /\ q.item = Null
              /\ q.ids = q.todo \cup q.updated \cup q.unchanged \cup q.problems \cup ({q.item} \ {Null})
              /\ q.updated \cap q.problems = {}
              /\ q.unchanged \cap (q.updated \cup q.problems) = {}
              /\ q.todo \cap (q.updated \cup q.unchanged \cup q.problems) = {}
              /\ q.item \notin q.todo \cup q.updated \cup q.unchanged \cup q.problems
  BY ReportFits
<1> QED  BY <1>1, QuietStep DEF Busy

\* A run takes a step within its item: the item and what is reported stay.
LEMMA WithinItem ==
    ASSUME ContentIInv, Con!Parameters, NEW r \in Batch, NEW q \in ContentRunType,
           task[r].step \in Busy,
           task' = [task EXCEPT ![r] = q],
           q.step \in {"add", "delete", "write"},
           q.step \in {"add", "delete"} => task[r].kind = "images",
           q.step = "write" => task[r].kind = "attributes",
           q.kind = task[r].kind, q.item = task[r].item, q.ids = task[r].ids, q.todo = task[r].todo,
           q.updated = task[r].updated, q.unchanged = task[r].unchanged,
           q.problems = task[r].problems
    PROVE  StepFits' /\ Accounted' /\ task' \in [Batch -> ContentRunType]
              /\ task'[r] = q /\ \A s \in Batch \ {r} : task'[s] = task[s]
<1>1. task' \in [Batch -> ContentRunType] /\ task'[r] = q /\ \A s \in Batch \ {r} : task'[s] = task[s]
  BY DEF ContentIInv, ContentTyped
<1>2. StepFits'
  BY <1>1 DEF ContentIInv, StepFits, Busy
<1>3. Accounted'
  BY <1>1 DEF ContentIInv, Accounted
<1> QED  BY <1>1, <1>2, <1>3

LEMMA RacingSays ==
    ASSUME NEW k
    PROVE  /\ Con!Racing(k) \subseteq {k}
           /\ k \notin Con!Racing(k) =>
                 \A r \in Batch : ~(task[r].kind = k /\ task[r].step \in {"add", "delete", "write"})
  BY DEF Con!Racing, Con!Amid

LEMMA ReadMediaStep ==
    ASSUME ContentIInv, Con!Parameters, NEW r \in Batch, Con!ReadMedia(r) PROVE ContentIInv'
<1>0. task[r].step = "read" /\ task[r].kind = "images" /\ task[r].step \in Busy
      /\ task[r] \in ContentRunType
  BY DEF Con!ReadMedia, Con!At, Busy, ContentIInv, ContentTyped
<1>1. CASE alive = Null
  <2>1. /\ Con!Reported(r, "problems")
               /\ UNCHANGED <<accepts, alive, secret, cache, shown, inFlight, used, lapse>>
        /\ used \in [runs: 0..MaxRuns, edits: 0..MaxContentEdits, mishaps: 0..MaxMishaps, added: Nat]
    BY <1>1 DEF Con!ReadMedia, Con!ledger, Con!product, ContentIInv, ContentTyped
  <2> QED  BY <1>0, <2>1, ReportStep
<1>2. CASE alive # Null
  <2>0. PICK old \in SUBSET Ids :
          /\ task' = [task EXCEPT ![r].step = "add", ![r].url = alive, ![r].old = old]
          /\ lapse' = lapse \cup Con!Racing("images") \cup {c \in {"beyond"} : old # Ids}
    BY <1>2 DEF Con!ReadMedia, Con!Ids, Ids
  <2> DEFINE q == [task[r] EXCEPT !.step = "add", !.url = alive, !.old = old]
  <2>1. Ids \in SUBSET Nat /\ alive \in Picture \cup {Null}
    BY DEF ContentIInv, ContentTyped, Ids
  <2>2. /\ task' = [task EXCEPT ![r] = q]
        /\ UNCHANGED <<accepts, alive, secret, cache, shown, inFlight, used>>
    BY <1>2, <2>0 DEF Con!ReadMedia, Con!ledger, Con!product, ContentIInv, ContentTyped
  <2>3. /\ q \in ContentRunType /\ q.step = "add" /\ q.old = old /\ q.kind = task[r].kind
        /\ q.item = task[r].item /\ q.ids = task[r].ids /\ q.todo = task[r].todo
        /\ q.updated = task[r].updated /\ q.unchanged = task[r].unchanged
        /\ q.problems = task[r].problems
    BY <1>0, <2>1 DEF ContentRunType
  <2> HIDE DEF q
  <2>4. /\ StepFits' /\ Accounted' /\ task' \in [Batch -> ContentRunType]
        /\ task'[r] = q /\ \A s \in Batch \ {r} : task'[s] = task[s]
    BY <1>0, <2>2, <2>3, WithinItem
  <2>5. ContentTyped'
    BY <2>2, <2>4 DEF ContentIInv, ContentTyped
  <2>6. Numbered'
    BY <2>0, <2>2, <2>3, <2>4 DEF ContentIInv, Numbered, Ids
  <2>7. \A x \in {"hidden", "attributes", "untagged", "filled"} : x \in lapse' <=> x \in lapse
    BY <2>0, RacingSays
  <2>8. OneStays'
    BY <2>2, <2>3, <2>4, <2>7 DEF ContentIInv, OneStays, Ids
  <2>9. ImagesAlone'
    <3> SUFFICES ASSUME ~Marked' PROVE ImagesAlone'
      BY DEF ImagesAlone
    <3>1. ~Marked /\ old = Ids /\ \A a \in Batch : task[a].step \notin {"add", "delete"}
      BY <2>0, RacingSays DEF ContentIInv, StepFits, Marked
    <3> QED  BY <2>2, <2>3, <2>4, <3>1 DEF ContentIInv, ImagesAlone, Ids
  <2>10. PageAlone' /\ Pictured'
    <3>1. q.url = alive
      BY <1>0 DEF q, ContentRunType
    <3> QED  BY <1>2, <2>2, <2>3, <2>4, <2>7, <3>1 DEF ContentIInv, PageAlone, Pictured
  <2>11. Con!TagsSurvive'
    BY <2>2, <2>7 DEF ContentIInv, Con!TagsSurvive
  <2>12. Con!HandsOff'
    BY <2>2, <2>7 DEF ContentIInv, Con!HandsOff
  <2> QED  BY <2>4, <2>5, <2>6, <2>8, <2>9, <2>10, <2>11, <2>12 DEF ContentIInv
<1> QED  BY <1>1, <1>2

LEMMA AddMediaStep ==
    ASSUME ContentIInv, Con!Parameters, NEW r \in Batch, Con!AddMedia(r) PROVE ContentIInv'
<1>0. task[r].step = "add" /\ task[r].step \in Busy /\ task[r] \in ContentRunType
      /\ task[r].kind = "images"
  BY DEF Con!AddMedia, Con!At, Busy, ContentIInv, ContentTyped, StepFits
<1> DEFINE q == [task[r] EXCEPT !.step = "delete"]
           new == [id |-> used.added + 1, url |-> task[r].url]
<1>1. /\ task' = [task EXCEPT ![r] = q]
             /\ UNCHANGED <<accepts, alive, secret, shown, inFlight, lapse>>
      /\ cache' = cache \cup {new} /\ used' = [used EXCEPT !.added = used.added + 1]
  BY DEF Con!AddMedia, Con!WithNew, Con!ledger, ContentIInv, ContentTyped
<1>2. /\ q \in ContentRunType /\ q.step = "delete" /\ q.old = task[r].old /\ q.kind = task[r].kind
      /\ q.item = task[r].item /\ q.ids = task[r].ids /\ q.todo = task[r].todo
      /\ q.updated = task[r].updated /\ q.unchanged = task[r].unchanged
      /\ q.problems = task[r].problems /\ q.url = task[r].url
  BY <1>0 DEF ContentRunType
<1> HIDE DEF q
<1>3. /\ StepFits' /\ Accounted' /\ task' \in [Batch -> ContentRunType]
      /\ task'[r] = q /\ \A s \in Batch \ {r} : task'[s] = task[s]
  BY <1>0, <1>1, <1>2, WithinItem
<1>4. /\ used' \in [runs: 0..MaxRuns, edits: 0..MaxContentEdits, mishaps: 0..MaxMishaps, added: Nat]
      /\ used'.added = used.added + 1 /\ used.added \in Nat
  BY <1>1 DEF ContentIInv, ContentTyped
<1>5. new \in [id: Nat, url: Picture \cup {Con!Hand}]
  <2>1. task[r].url \in Picture
    BY <1>0 DEF ContentIInv, Pictured, ContentRunType
  <2> QED  BY <2>1, <1>4
<1>6. ContentTyped'
  BY <1>1, <1>3, <1>4, <1>5 DEF ContentIInv, ContentTyped
<1>7. Ids' = Ids \cup {used.added + 1} /\ Ids \subseteq Nat
  <2>1. new.id = used.added + 1
    OBVIOUS
  <2> HIDE DEF new
  <2>2. Ids' = Ids \cup {new.id}
    BY <1>1 DEF Ids
  <2> QED  BY <2>1, <2>2 DEF ContentIInv, ContentTyped, Ids
<1>8. \A s \in Batch : task[s].old \subseteq Nat
  BY DEF ContentIInv, ContentTyped, ContentRunType
<1>9. used.added + 1 \notin Ids /\ \A s \in Batch : used.added + 1 \notin task[s].old
  BY <1>4, <1>7, <1>8 DEF ContentIInv, Numbered
<1>10. Numbered'
  BY <1>2, <1>3, <1>4, <1>7, <1>8 DEF ContentIInv, Numbered
<1>12. new \in cache' /\ new.id = used.added + 1 /\ new.url = task[r].url
  BY <1>1
<1> HIDE DEF new
<1>13. OneStays'
  <2>1. \A s \in Batch : \A y \in task'[s].old : y < used.added + 1
    <3>1. \A s \in Batch : task'[s].old = task[s].old
      BY <1>2, <1>3
    <3> QED  BY <1>4, <1>8, <3>1 DEF ContentIInv, Numbered
  <2> QED  BY <1>7, <1>12, <2>1 DEF OneStays
<1>14. ImagesAlone'
  <2> SUFFICES ASSUME ~Marked, ~Marked' PROVE ImagesAlone'
    BY <1>1 DEF ImagesAlone, Marked
  <2>1. \A s \in Batch \ {r} : task'[s].step \notin {"add", "delete"}
    BY <1>0, <1>3 DEF ContentIInv, ImagesAlone
  <2>2. task'[r].step = "delete" /\ task'[r].old = Ids /\ task'[r].url = task[r].url
    BY <1>0, <1>2, <1>3 DEF ContentIInv, ImagesAlone
  <2>3. {n \in cache' : n.id \notin task'[r].old} = {new}
    <3>1. \A n \in cache : n.id \in Ids
      BY DEF Ids
    <3> QED  BY <1>1, <1>9, <1>12, <2>2, <3>1
  <2>4. {m.url : m \in {n \in cache' : n.id \notin task'[r].old}} = {task'[r].url}
    BY <1>12, <2>2, <2>3
  <2> QED  BY <1>7, <2>1, <2>2, <2>4 DEF ImagesAlone
<1>15. PageAlone'
  BY <1>1, <1>2, <1>3 DEF ContentIInv, PageAlone
<1>16. Con!TagsSurvive' /\ Con!HandsOff' /\ Pictured'
  BY <1>0, <1>1, <1>2, <1>3 DEF ContentIInv, Con!TagsSurvive, Con!HandsOff, Pictured
<1> QED  BY <1>3, <1>6, <1>10, <1>13, <1>14, <1>15, <1>16 DEF ContentIInv

\* Where a run takes away what it has read, what any run has added stays, or what came later.
LEMMA RemovalLeaves ==
    ASSUME ContentIInv, "hidden" \notin lapse, NEW r \in Batch, task[r].step = "delete"
    PROVE  /\ Ids \ task[r].old # {}
           /\ \A s \in Batch : task[s].step = "delete" =>
                 \E x \in Ids \ task[r].old : \A y \in task[s].old : y < x
<1>1. /\ Ids \subseteq Nat /\ \A s \in Batch : task[s].old \subseteq Nat
      /\ \A s \in Batch : task[s].step = "delete" => \E x \in Ids : \A y \in task[s].old : y < x
  <2>1. Ids \subseteq Nat
    BY DEF ContentIInv, ContentTyped, Ids
  <2>2. \A s \in Batch : task[s].old \subseteq Nat
    BY DEF ContentIInv, ContentTyped, ContentRunType
  <2> QED  BY <2>1, <2>2 DEF ContentIInv, OneStays
<1>2. PICK top \in Ids : \A y \in task[r].old : y < top
  BY <1>1
<1>3. top \in Ids \ task[r].old
  BY <1>1, <1>2
<1>4. ASSUME NEW s \in Batch, task[s].step = "delete"
      PROVE  \E x \in Ids \ task[r].old : \A y \in task[s].old : y < x
  <2>1. PICK x \in Ids : \A y \in task[s].old : y < x
    BY <1>1, <1>4
  <2>2. CASE x \in task[r].old
    <3>1. \A y \in task[s].old : y < top
      <4>1. x < top
        BY <1>2, <2>2
      <4> QED  BY <1>1, <2>1, <4>1
    <3> QED  BY <1>3, <3>1
  <2>3. CASE x \notin task[r].old
    BY <2>1, <2>3
  <2> QED  BY <2>2, <2>3
<1> QED  BY <1>3, <1>4

LEMMA DeleteMediaStep ==
    ASSUME ContentIInv, Con!Parameters, NEW r \in Batch, Con!DeleteMedia(r) PROVE ContentIInv'
<1>0. task[r].step = "delete" /\ task[r].step \in Busy /\ task[r] \in ContentRunType
  BY DEF Con!DeleteMedia, Con!At, Busy, ContentIInv, ContentTyped
<1>u. used \in [runs: 0..MaxRuns, edits: 0..MaxContentEdits, mishaps: 0..MaxMishaps, added: Nat]
  BY DEF ContentIInv, ContentTyped
<1>1. CASE ~(task[r].old \subseteq Ids)
  <2>1. /\ Con!Reported(r, "problems")
               /\ UNCHANGED <<accepts, alive, secret, cache, shown, inFlight, used, lapse>>
    BY <1>1 DEF Con!DeleteMedia, Con!Removes, Con!WithoutOld, Con!Ids, Con!ledger, Con!product, Ids
  <2>2. Marked
    BY <1>0, <1>1 DEF ContentIInv, ImagesAlone
  <2> QED  BY <1>0, <1>u, <2>1, <2>2, ReportStep
<1>2. CASE task[r].old \subseteq Ids
  <2>1. /\ cache' = {m \in cache : m.id \notin task[r].old}
        /\ inFlight' = [inFlight EXCEPT !.shows = task[r].url]
        /\ Con!Reported(r, "updated") /\ UNCHANGED <<accepts, alive, secret, shown, used, lapse>>
    BY <1>2 DEF Con!DeleteMedia, Con!Removes, Con!WithoutOld, Con!Ids, Con!ledger, Con!product, Ids
  <2>2. PICK q \in ContentRunType :
              /\ task' = [task EXCEPT ![r] = q]
              /\ q.step = "next" /\ q.old = {} /\ q.item = Null
              /\ q.ids = q.todo \cup q.updated \cup q.unchanged \cup q.problems \cup ({q.item} \ {Null})
              /\ q.updated \cap q.problems = {}
              /\ q.unchanged \cap (q.updated \cup q.problems) = {}
              /\ q.todo \cap (q.updated \cup q.unchanged \cup q.problems) = {}
              /\ q.item \notin q.todo \cup q.updated \cup q.unchanged \cup q.problems
    BY <1>0, <2>1, ReportFits
  <2>3. task' \in [Batch -> ContentRunType] /\ task'[r] = q
        /\ \A s \in Batch \ {r} : task'[s] = task[s]
    BY <2>2 DEF ContentIInv, ContentTyped
  <2>4. /\ inFlight' \in [tags: SUBSET Con!Tag, shows: Picture \cup {Null}]
        /\ inFlight'.tags = inFlight.tags /\ inFlight'.shows = task[r].url
    BY <1>0, <2>1 DEF ContentIInv, ContentTyped, ContentRunType
  <2>5. ContentTyped'
    BY <2>1, <2>3, <2>4 DEF ContentIInv, ContentTyped
  <2>6. Ids' = Ids \ task[r].old
    BY <2>1 DEF Ids
  <2>7. Numbered' /\ Pictured'
    BY <2>1, <2>2, <2>3, <2>6 DEF ContentIInv, Numbered, Pictured
  <2>8. StepFits'
    BY <2>2, <2>3 DEF ContentIInv, StepFits, Busy
  <2>9. Accounted'
    BY <2>2, <2>3 DEF ContentIInv, Accounted
  <2>10. OneStays'
    <3> SUFFICES ASSUME "hidden" \notin lapse PROVE OneStays'
      BY <2>1 DEF OneStays
    <3>1. Ids' # {} /\ \A s \in Batch : task[s].step = "delete" =>
                \E x \in Ids' : \A y \in task[s].old : y < x
      BY <1>0, <2>1, <2>6, RemovalLeaves
    <3>2. cache' # {}
      BY <3>1 DEF Ids
    <3> QED  BY <2>2, <2>3, <3>1, <3>2 DEF OneStays
  <2>11. ImagesAlone'
    <3> SUFFICES ASSUME ~Marked, ~Marked' PROVE ImagesAlone'
      BY <2>1 DEF ImagesAlone, Marked
    <3>1. \A s \in Batch : task'[s].step \notin {"add", "delete"}
      BY <1>0, <2>2, <2>3 DEF ContentIInv, ImagesAlone
    <3>2. {m.url : m \in cache'} = {inFlight'.shows}
      BY <1>0, <2>1, <2>4 DEF ContentIInv, ImagesAlone
    <3> QED  BY <3>1, <3>2 DEF ImagesAlone
  <2>12. PageAlone'
    BY <2>1, <2>2, <2>3 DEF ContentIInv, PageAlone
  <2>13. Con!TagsSurvive' /\ Con!HandsOff'
    BY <2>1, <2>4 DEF ContentIInv, Con!TagsSurvive, Con!HandsOff
  <2> QED  BY <2>5, <2>7, <2>8, <2>9, <2>10, <2>11, <2>12, <2>13 DEF ContentIInv
<1> QED  BY <1>1, <1>2

\* What the invariant says of image runs survives a step that is none of theirs.
LEMMA ImagesStay ==
    ASSUME ContentIInv, cache' = cache, inFlight'.shows = inFlight.shows,
           ~Marked' => ~Marked,
           \A s \in Batch : task[s].step \in {"add", "delete"} \/ task'[s].step \in {"add", "delete"}
                             => task'[s] = task[s]
    PROVE  ImagesAlone'
<1> SUFFICES ASSUME ~Marked, ~Marked' PROVE ImagesAlone'
  BY DEF ImagesAlone, Marked
<1>1. Ids' = Ids
  BY DEF Ids
<1>2. \A a, b \in Batch :
          task'[a].step \in {"add", "delete"} /\ task'[b].step \in {"add", "delete"} => a = b
  BY DEF ContentIInv, ImagesAlone
<1>3. \A a \in Batch : task'[a].step = "add" => task'[a].old = Ids'
  BY <1>1 DEF ContentIInv, ImagesAlone
<1>4. \A a \in Batch : task'[a].step = "delete" =>
          /\ task'[a].old \subseteq Ids'
          /\ {m.url : m \in {n \in cache' : n.id \notin task'[a].old}} = {task'[a].url}
  BY <1>1 DEF ContentIInv, ImagesAlone
<1>5. \/ inFlight'.shows = Null
      \/ \E a \in Batch : task'[a].step = "delete"
      \/ {m.url : m \in cache'} = {inFlight'.shows}
  BY DEF ContentIInv, ImagesAlone
<1> QED  BY <1>2, <1>3, <1>4, <1>5 DEF ImagesAlone

LEMMA ReadPageStep ==
    ASSUME ContentIInv, Con!Parameters, NEW r \in Batch, Con!ReadPage(r) PROVE ContentIInv'
<1>0. /\ task[r].step = "read" /\ task[r].kind = "attributes" /\ task[r].step \in Busy
      /\ task[r] \in ContentRunType /\ shown \in Con!Content
  BY DEF Con!ReadPage, Con!At, Busy, ContentIInv, ContentTyped
<1> DEFINE q == [task[r] EXCEPT !.step = "write", !.seen = shown]
<1>1. /\ task' = [task EXCEPT ![r] = q]
             /\ UNCHANGED <<accepts, alive, secret, cache, shown, inFlight, used>>
      /\ lapse' = lapse \cup Con!Racing("attributes")
  BY DEF Con!ReadPage, Con!ledger, Con!product, ContentIInv, ContentTyped
<1>2. /\ q \in ContentRunType /\ q.step = "write" /\ q.old = task[r].old /\ q.kind = task[r].kind
      /\ q.item = task[r].item /\ q.ids = task[r].ids /\ q.todo = task[r].todo
      /\ q.updated = task[r].updated /\ q.unchanged = task[r].unchanged
      /\ q.problems = task[r].problems /\ q.seen = shown
  BY <1>0 DEF ContentRunType
<1> HIDE DEF q
<1>3. /\ StepFits' /\ Accounted' /\ task' \in [Batch -> ContentRunType]
      /\ task'[r] = q /\ \A s \in Batch \ {r} : task'[s] = task[s]
  BY <1>0, <1>1, <1>2, WithinItem
<1>4. ContentTyped'
  BY <1>1, <1>3 DEF ContentIInv, ContentTyped
<1>5. \A x \in {"hidden", "images", "untagged", "filled"} : x \in lapse' <=> x \in lapse
  BY <1>1, RacingSays
<1>6. Numbered' /\ Pictured'
  BY <1>1, <1>2, <1>3 DEF ContentIInv, Numbered, Ids, Pictured
<1>7. OneStays'
  BY <1>1, <1>2, <1>3, <1>5 DEF ContentIInv, OneStays, Ids
<1>8. ImagesAlone'
  <2>1. ~Marked' => ~Marked
    BY <1>1 DEF Marked
  <2> QED  BY <1>0, <1>1, <1>2, <1>3, <2>1, ImagesStay
<1>9. PageAlone'
  <2> SUFFICES ASSUME "attributes" \notin lapse' PROVE PageAlone'
    BY DEF PageAlone
  <2>1. \A a \in Batch : task[a].step # "write"
    BY <1>1, RacingSays DEF ContentIInv, StepFits
  <2> QED  BY <1>1, <1>2, <1>3, <2>1 DEF PageAlone
<1>10. Con!TagsSurvive'
  BY <1>1, <1>5 DEF ContentIInv, Con!TagsSurvive
<1>11. Con!HandsOff'
  BY <1>1, <1>5 DEF ContentIInv, Con!HandsOff
<1> QED  BY <1>3, <1>4, <1>6, <1>7, <1>8, <1>9, <1>10, <1>11 DEF ContentIInv

\* What a run writes on the page: it strips no tag and overwrites no field, unless it raced.
LEMMA WrittenKeeps ==
    ASSUME ContentIInv, Con!Parameters, NEW r \in Batch, task[r].step = "write",
           shown' = Con!Written(r), lapse' = lapse
    PROVE  /\ Con!Lacking(r) \subseteq Con!Tag /\ shown' \in Con!Content
           /\ "attributes" \notin lapse => shown'.tags = shown.tags \cup Con!Lacking(r)
           /\ Con!HandsOff'
<1>1. task[r].seen \in Con!Content /\ task[r].rules \in Con!Content /\ shown \in Con!Content
  BY DEF ContentIInv, ContentTyped, ContentRunType
<1>2. Con!Lacking(r) \subseteq Con!Tag
  BY <1>1 DEF Con!Lacking, Con!Content
<1>3. shown' \in Con!Content
  BY <1>1, <1>2 DEF Con!Written, Con!Content
<1>4. "attributes" \notin lapse => task[r].seen = shown
  BY DEF ContentIInv, PageAlone
<1>5. "attributes" \notin lapse => shown'.tags = shown.tags \cup Con!Lacking(r)
  BY <1>4 DEF Con!Written
<1>6. Con!HandsOff'
  <2> SUFFICES ASSUME {"attributes", "filled"} \cap lapse = {"filled"} PROVE Con!HandsOff'
    BY DEF Con!HandsOff
  <2>1. shown.field = Con!Hand /\ shown.category = Con!Hand /\ task[r].seen = shown
    BY <1>4 DEF ContentIInv, Con!HandsOff
  <2>2. ~Con!Fills(r) /\ ~Con!Classifies(r)
    BY <2>1 DEF Con!Fills, Con!Classifies, Con!Hand, Con!Parameters
  <2> QED  BY <2>1, <2>2 DEF Con!HandsOff, Con!Written
<1> QED  BY <1>2, <1>3, <1>5, <1>6

LEMMA WritePageStep ==
    ASSUME ContentIInv, Con!Parameters, NEW r \in Batch, Con!WritePage(r) PROVE ContentIInv'
<1>0. task[r].step = "write" /\ task[r].step \in Busy /\ task[r] \in ContentRunType
  BY DEF Con!WritePage, Con!At, Busy, ContentIInv, ContentTyped
<1>u. used \in [runs: 0..MaxRuns, edits: 0..MaxContentEdits, mishaps: 0..MaxMishaps, added: Nat]
  BY DEF ContentIInv, ContentTyped
<1>1. CASE ~Con!Writes(r)
  <2>1. Con!Reported(r, "unchanged")
        /\ UNCHANGED <<accepts, alive, secret, cache, shown, inFlight, used, lapse>>
    BY <1>1 DEF Con!WritePage, Con!ledger, Con!product
  <2> QED  BY <1>0, <1>u, <2>1, ReportStep
<1>2. CASE Con!Writes(r)
  <2>1. /\ shown' = Con!Written(r)
        /\ inFlight' = [inFlight EXCEPT !.tags = inFlight.tags \cup Con!Lacking(r)]
        /\ Con!Reported(r, "updated")
        /\ UNCHANGED <<accepts, alive, secret, cache, used, lapse>>
    BY <1>2 DEF Con!WritePage, Con!ledger, ContentIInv, ContentTyped
  <2>2. PICK q \in ContentRunType :
              /\ task' = [task EXCEPT ![r] = q]
              /\ q.step = "next" /\ q.old = {} /\ q.item = Null
              /\ q.ids = q.todo \cup q.updated \cup q.unchanged \cup q.problems \cup ({q.item} \ {Null})
              /\ q.updated \cap q.problems = {}
              /\ q.unchanged \cap (q.updated \cup q.problems) = {}
              /\ q.todo \cap (q.updated \cup q.unchanged \cup q.problems) = {}
              /\ q.item \notin q.todo \cup q.updated \cup q.unchanged \cup q.problems
    BY <1>0, <2>1, ReportFits
  <2>3. task' \in [Batch -> ContentRunType] /\ task'[r] = q
        /\ \A s \in Batch \ {r} : task'[s] = task[s]
    BY <2>2 DEF ContentIInv, ContentTyped
  <2>4. Con!Lacking(r) \subseteq Con!Tag /\ shown' \in Con!Content
    BY <1>0, <2>1, WrittenKeeps
  <2>6. /\ inFlight' \in [tags: SUBSET Con!Tag, shows: Picture \cup {Null}]
        /\ inFlight'.tags = inFlight.tags \cup Con!Lacking(r) /\ inFlight'.shows = inFlight.shows
    BY <2>1, <2>4 DEF ContentIInv, ContentTyped
  <2>7. ContentTyped'
    BY <2>1, <2>3, <2>4, <2>6 DEF ContentIInv, ContentTyped
  <2>8. Numbered' /\ Pictured'
    BY <2>1, <2>2, <2>3 DEF ContentIInv, Numbered, Ids, Pictured
  <2>9. StepFits'
    BY <2>2, <2>3 DEF ContentIInv, StepFits, Busy
  <2>10. Accounted'
    BY <2>2, <2>3 DEF ContentIInv, Accounted
  <2>11. OneStays'
    BY <2>1, <2>2, <2>3 DEF ContentIInv, OneStays, Ids
  <2>12. ImagesAlone'
    <3>1. ~Marked' => ~Marked
      BY <2>1 DEF Marked
    <3> QED  BY <1>0, <2>1, <2>2, <2>3, <2>6, <3>1, ImagesStay
  <2>13. "attributes" \notin lapse =>
            task[r].seen = shown /\ \A s \in Batch : task'[s].step # "write"
    BY <1>0, <2>2, <2>3 DEF ContentIInv, PageAlone
  <2>14. PageAlone'
    BY <2>1, <2>13 DEF PageAlone
  <2>15. Con!TagsSurvive'
    <3> SUFFICES ASSUME "attributes" \notin lapse PROVE Con!TagsSurvive'
      BY <2>1 DEF Con!TagsSurvive
    <3>1. shown'.tags = shown.tags \cup Con!Lacking(r)
      BY <1>0, <2>1, WrittenKeeps
    <3> QED  BY <2>1, <2>6, <3>1 DEF ContentIInv, Con!TagsSurvive
  <2>16. Con!HandsOff'
    BY <1>0, <2>1, WrittenKeeps
  <2> QED  BY <2>7, <2>8, <2>9, <2>10, <2>11, <2>12, <2>14, <2>15, <2>16 DEF ContentIInv
<1> QED  BY <1>1, <1>2

\* A call whose answer is lost, or the process: what the run did may have landed.
LEMMA BreakStep ==
    ASSUME ContentIInv, Con!Parameters, NEW r \in Batch, NEW q \in ContentRunType,
           task' = [task EXCEPT ![r] = q], Con!BreaksOff(r),
           q.step \notin Busy, q.old = {}, q.item = Null,
           q.ids = q.todo \cup q.updated \cup q.unchanged \cup q.problems \cup ({q.item} \ {Null}),
           q.updated \cap q.problems = {},
           q.unchanged \cap (q.updated \cup q.problems) = {},
           q.todo \cap (q.updated \cup q.unchanged \cup q.problems) = {},
           q.item \notin q.todo \cup q.updated \cup q.unchanged \cup q.problems
    PROVE  ContentIInv'
<1> DEFINE new == [id |-> used.added + 1, url |-> task[r].url]
<1>1. task' \in [Batch -> ContentRunType] /\ task'[r] = q /\ \A s \in Batch \ {r} : task'[s] = task[s]
  BY DEF ContentIInv, ContentTyped
<1>2. /\ used' \in [runs: 0..MaxRuns, edits: 0..MaxContentEdits, mishaps: 0..MaxMishaps, added: Nat]
      /\ used'.added = used.added + 1 /\ used.added \in Nat
  <2>1. used \in [runs: 0..MaxRuns, edits: 0..MaxContentEdits, mishaps: 0..MaxMishaps, added: Nat]
        /\ MaxMishaps \in Nat
    BY DEF ContentIInv, ContentTyped, Con!Parameters
  <2>2. /\ used' = [used EXCEPT !.mishaps = used.mishaps + 1, !.added = used.added + 1]
        /\ used.mishaps < MaxMishaps
    BY DEF Con!BreaksOff
  <2>3. used.mishaps + 1 \in 0..MaxMishaps /\ used.added + 1 \in Nat /\ used.added \in Nat
    BY <2>1, <2>2
  <2> QED  BY <2>1, <2>2, <2>3
<1>3. /\ inFlight' \in [tags: SUBSET Con!Tag, shows: Picture \cup {Null}]
      /\ inFlight'.tags = inFlight.tags
      /\ task[r].step \in {"add", "delete"} => inFlight'.shows = Null
      /\ task[r].step \notin {"add", "delete"} => inFlight' = inFlight
  BY DEF Con!BreaksOff, ContentIInv, ContentTyped
<1>4. UNCHANGED <<accepts, alive, secret, lapse>> /\ Con!Lands(r)
  BY DEF Con!BreaksOff, Con!ledger
<1>5. \/ UNCHANGED <<cache, shown>>
      \/ task[r].step = "add" /\ cache' = cache \cup {new} /\ shown' = shown
      \/ task[r].step = "delete" /\ cache' = {m \in cache : m.id \notin task[r].old} /\ shown' = shown
      \/ task[r].step = "write" /\ shown' = Con!Written(r) /\ cache' = cache
  BY <1>4 DEF Con!Lands, Con!At, Con!product, Con!WithNew, Con!WithoutOld
<1>6. task[r].step = "add" => new \in [id: Nat, url: Picture \cup {Con!Hand}]
  <2>1. task[r].step = "add" => task[r].url \in Picture
    BY DEF ContentIInv, ContentTyped, ContentRunType, Pictured
  <2> QED  BY <1>2, <2>1
<1>7. shown' \in Con!Content
  <2>1. CASE shown' = shown
    BY <2>1 DEF ContentIInv, ContentTyped
  <2>2. CASE task[r].step = "write" /\ shown' = Con!Written(r)
    BY <1>4, <2>2, WrittenKeeps
  <2> QED  BY <1>5, <2>1, <2>2
<1>8. cache' \subseteq [id: Nat, url: Picture \cup {Con!Hand}]
  BY <1>5, <1>6 DEF ContentIInv, ContentTyped
<1>9. ContentTyped'
  BY <1>1, <1>2, <1>3, <1>4, <1>7, <1>8 DEF ContentIInv, ContentTyped
<1>10. new.id = used.added + 1
  OBVIOUS
<1> HIDE DEF new
<1>11. \/ Ids' = Ids
       \/ Ids' = Ids \cup {used.added + 1}
       \/ task[r].step = "delete" /\ Ids' = Ids \ task[r].old
  BY <1>5, <1>10 DEF Ids
<1>12. Ids \subseteq Nat /\ \A s \in Batch : task[s].old \subseteq Nat
  BY DEF ContentIInv, ContentTyped, ContentRunType, Ids
<1>13. Numbered'
  <2>1. \A x \in Ids : x <= used.added
    BY DEF ContentIInv, Numbered
  <2>2. \A s \in Batch : \A x \in task[s].old : x <= used.added
    BY DEF ContentIInv, Numbered
  <2>3. \A s \in Batch : task'[s].old \subseteq task[s].old
    BY <1>1
  <2>4. ASSUME NEW x \in Ids' PROVE x <= used'.added
    <3>1. CASE x \in Ids
      <4>1. x <= used.added /\ x \in Nat
        BY <1>12, <2>1, <3>1
      <4> QED  BY <1>2, <4>1
    <3>2. CASE x = used.added + 1
      BY <1>2, <3>2
    <3> QED  BY <1>11, <2>4, <3>1, <3>2
  <2>5. \A s \in Batch : \A x \in task'[s].old : x <= used'.added
    BY <1>2, <1>12, <2>2, <2>3
  <2> QED  BY <2>4, <2>5 DEF Numbered
<1>14. StepFits' /\ Accounted' /\ Pictured'
  BY <1>1, <1>4 DEF ContentIInv, StepFits, Accounted, Pictured, Busy
<1>15. OneStays'
  <2> SUFFICES ASSUME "hidden" \notin lapse PROVE OneStays'
    BY <1>4 DEF OneStays
  <2>1. Ids # {} /\ \A s \in Batch : task[s].step = "delete" =>
                        \E x \in Ids : \A y \in task[s].old : y < x
    BY DEF ContentIInv, OneStays, Ids
  <2>2. Ids' # {} /\ \A s \in Batch : task[s].step = "delete" =>
                        \E x \in Ids' : \A y \in task[s].old : y < x
    <3>1. CASE Ids \subseteq Ids'
      BY <2>1, <3>1
    <3>2. CASE task[r].step = "delete" /\ Ids' = Ids \ task[r].old
      BY <3>2, RemovalLeaves
    <3> QED  BY <1>11, <3>1, <3>2
  <2>3. cache' # {}
    BY <2>2 DEF Ids
  <2> QED  BY <1>1, <2>2, <2>3 DEF OneStays, Busy
<1>16. ImagesAlone'
  <2>1. CASE task[r].step \in {"add", "delete"}
    <3>1. ~Marked => \A s \in Batch : task'[s].step \notin {"add", "delete"}
      BY <1>1, <2>1 DEF ContentIInv, ImagesAlone, Busy
    <3> QED  BY <1>3, <1>4, <2>1, <3>1 DEF ImagesAlone, Marked
  <2>2. CASE task[r].step \notin {"add", "delete"}
    <3>1. cache' = cache /\ inFlight'.shows = inFlight.shows /\ (~Marked' => ~Marked)
      BY <1>3, <1>4, <1>5, <2>2 DEF Marked
    <3> QED  BY <1>1, <2>2, <3>1, ImagesStay DEF Busy
  <2> QED  BY <2>1, <2>2
<1>17. PageAlone'
  <2> SUFFICES ASSUME "attributes" \notin lapse PROVE PageAlone'
    BY <1>4 DEF PageAlone
  <2>1. CASE task[r].step = "write"
    <3>1. \A s \in Batch : task'[s].step # "write"
      BY <1>1, <2>1 DEF ContentIInv, PageAlone, Busy
    <3> QED  BY <3>1 DEF PageAlone
  <2>2. CASE task[r].step # "write"
    BY <1>1, <1>5, <2>2 DEF ContentIInv, PageAlone, Busy
  <2> QED  BY <2>1, <2>2
<1>18. Con!TagsSurvive' /\ Con!HandsOff'
  <2>1. CASE shown' = shown
    BY <1>3, <1>4, <2>1 DEF ContentIInv, Con!TagsSurvive, Con!HandsOff
  <2>2. CASE task[r].step = "write" /\ shown' = Con!Written(r)
    <3>1. "attributes" \notin lapse => shown'.tags = shown.tags \cup Con!Lacking(r)
      BY <1>4, <2>2, WrittenKeeps
    <3>2. Con!HandsOff'
      BY <1>4, <2>2, WrittenKeeps
    <3> QED  BY <1>3, <1>4, <3>1, <3>2 DEF ContentIInv, Con!TagsSurvive
  <2> QED  BY <1>5, <2>1, <2>2
<1> QED  BY <1>9, <1>13, <1>14, <1>15, <1>16, <1>17, <1>18 DEF ContentIInv

LEMMA FailStep ==
    ASSUME ContentIInv, Con!Parameters, NEW r \in Batch, Con!CallFails(r) \/ Con!Crash(r)
    PROVE  ContentIInv'
<1>1. CASE Con!CallFails(r)
  <2>1. task[r].step \in Busy /\ Con!Reported(r, "problems") /\ Con!BreaksOff(r)
    BY <1>1 DEF Con!CallFails, Con!At, Busy
  <2>2. PICK q \in ContentRunType :
              /\ task' = [task EXCEPT ![r] = q]
              /\ q.step = "next" /\ q.old = {} /\ q.item = Null
              /\ q.ids = q.todo \cup q.updated \cup q.unchanged \cup q.problems \cup ({q.item} \ {Null})
              /\ q.updated \cap q.problems = {}
              /\ q.unchanged \cap (q.updated \cup q.problems) = {}
              /\ q.todo \cap (q.updated \cup q.unchanged \cup q.problems) = {}
              /\ q.item \notin q.todo \cup q.updated \cup q.unchanged \cup q.problems
    BY <2>1, ReportFits
  <2> QED  BY <2>1, <2>2, BreakStep DEF Busy
<1>2. CASE Con!Crash(r)
  <2>1. /\ Con!Idle \in ContentRunType /\ Con!Idle.step = "idle" /\ Con!Idle.old = {}
        /\ Con!Idle.item = Null /\ Con!Idle.ids = {} /\ Con!Idle.todo = {} /\ Con!Idle.updated = {}
        /\ Con!Idle.unchanged = {} /\ Con!Idle.problems = {}
    BY IdleType DEF Con!Idle
  <2>2. task' = [task EXCEPT ![r] = Con!Idle] /\ Con!BreaksOff(r)
    BY <1>2 DEF Con!Crash
  <2> QED  BY <2>1, <2>2, BreakStep DEF Busy
<1> QED  BY <1>1, <1>2

LEMMA SellerShowsStep ==
    ASSUME ContentIInv, Con!Parameters, Con!SellerShows PROVE ContentIInv'
<1> DEFINE new == [id |-> used.added + 1, url |-> Con!Hand]
<1>1. /\ used' = [used EXCEPT !.edits = used.edits + 1, !.added = used.added + 1]
      /\ cache' = cache \cup {new} /\ inFlight' = [inFlight EXCEPT !.shows = Null]
      /\ lapse' = lapse \cup Con!Racing("images") /\ used.edits < MaxContentEdits
      /\ UNCHANGED <<accepts, alive, secret, shown, task>>
  BY DEF Con!SellerShows, Con!ledger, ContentIInv, ContentTyped
<1>2. /\ used' \in [runs: 0..MaxRuns, edits: 0..MaxContentEdits, mishaps: 0..MaxMishaps, added: Nat]
      /\ used'.added = used.added + 1 /\ used.added \in Nat
  <2>1. /\ used \in [runs: 0..MaxRuns, edits: 0..MaxContentEdits, mishaps: 0..MaxMishaps, added: Nat]
        /\ MaxContentEdits \in Nat
    BY DEF ContentIInv, ContentTyped, Con!Parameters
  <2>2. used.edits + 1 \in 0..MaxContentEdits /\ used.added + 1 \in Nat /\ used.added \in Nat
    BY <1>1, <2>1
  <2> QED  BY <1>1, <2>1, <2>2
<1>3. new \in [id: Nat, url: Picture \cup {Con!Hand}] /\ new.id = used.added + 1
  BY <1>2
<1>4. new \in cache'
  BY <1>1
<1> HIDE DEF new
<1>5. /\ inFlight' \in [tags: SUBSET Con!Tag, shows: Picture \cup {Null}]
      /\ inFlight'.tags = inFlight.tags /\ inFlight'.shows = Null
  BY <1>1 DEF ContentIInv, ContentTyped
<1>6. ContentTyped'
  BY <1>1, <1>2, <1>3, <1>5 DEF ContentIInv, ContentTyped
<1>7. Ids' = Ids \cup {used.added + 1} /\ Ids \subseteq Nat
  <2>1. Ids' = Ids \cup {new.id}
    BY <1>1 DEF Ids
  <2> QED  BY <1>3, <2>1 DEF ContentIInv, ContentTyped, Ids
<1>8. \A s \in Batch : task[s].old \subseteq Nat
  BY DEF ContentIInv, ContentTyped, ContentRunType
<1>9. \A s \in Batch : used.added + 1 \notin task[s].old
  BY <1>2, <1>8 DEF ContentIInv, Numbered
<1>10. Numbered'
  BY <1>1, <1>2, <1>7, <1>8 DEF ContentIInv, Numbered
<1>12. StepFits' /\ Accounted' /\ Pictured'
  BY <1>1 DEF ContentIInv, StepFits, Accounted, Pictured
<1>13. OneStays'
  <2>1. \A s \in Batch : \A y \in task'[s].old : y < used.added + 1
    BY <1>1, <1>2, <1>8 DEF ContentIInv, Numbered
  <2> QED  BY <1>4, <1>7, <2>1 DEF OneStays
<1>14. ImagesAlone'
  <2> SUFFICES ASSUME ~Marked' PROVE ImagesAlone'
    BY DEF ImagesAlone
  <2>1. \A a \in Batch : task[a].step \notin {"add", "delete"}
    BY <1>1, RacingSays DEF ContentIInv, StepFits, Marked
  <2> QED  BY <1>1, <1>5, <2>1 DEF ImagesAlone
<1>15. \A x \in {"attributes", "untagged", "filled"} : x \in lapse' <=> x \in lapse
  BY <1>1, RacingSays
<1>16. PageAlone' /\ Con!TagsSurvive' /\ Con!HandsOff'
  BY <1>1, <1>5, <1>15 DEF ContentIInv, PageAlone, Con!TagsSurvive, Con!HandsOff
<1> QED  BY <1>6, <1>10, <1>12, <1>13, <1>14, <1>16 DEF ContentIInv

LEMMA SellerHidesStep ==
    ASSUME ContentIInv, Con!Parameters, NEW m \in cache, Con!SellerHides(m) PROVE ContentIInv'
<1>1. /\ cache' = cache \ {m} /\ inFlight' = [inFlight EXCEPT !.shows = Null]
      /\ lapse' = lapse \cup Con!Racing("images") \cup {"hidden"}
      /\ UNCHANGED <<accepts, alive, secret, shown, task>>
  BY DEF Con!SellerHides, Con!ledger
<1>2. /\ used' \in [runs: 0..MaxRuns, edits: 0..MaxContentEdits, mishaps: 0..MaxMishaps, added: Nat]
      /\ used'.added = used.added
  BY ContentUseType DEF Con!SellerHides, ContentIInv
<1>3. /\ inFlight' \in [tags: SUBSET Con!Tag, shows: Picture \cup {Null}]
      /\ inFlight'.tags = inFlight.tags /\ inFlight'.shows = Null
  BY <1>1 DEF ContentIInv, ContentTyped
<1>4. ContentTyped'
  BY <1>1, <1>2, <1>3 DEF ContentIInv, ContentTyped
<1>5. Ids' \subseteq Ids
  BY <1>1 DEF Ids
<1>6. Numbered' /\ StepFits' /\ Accounted' /\ Pictured'
  BY <1>1, <1>2, <1>5 DEF ContentIInv, Numbered, StepFits, Accounted, Pictured
<1>7. OneStays'
  BY <1>1 DEF OneStays
<1>8. ImagesAlone'
  <2> SUFFICES ASSUME ~Marked' PROVE ImagesAlone'
    BY DEF ImagesAlone
  <2>1. \A a \in Batch : task[a].step \notin {"add", "delete"}
    BY <1>1, RacingSays DEF ContentIInv, StepFits, Marked
  <2> QED  BY <1>1, <1>3, <2>1 DEF ImagesAlone
<1>9. \A x \in {"attributes", "untagged", "filled"} : x \in lapse' <=> x \in lapse
  BY <1>1, RacingSays
<1>10. PageAlone' /\ Con!TagsSurvive' /\ Con!HandsOff'
  BY <1>1, <1>3, <1>9 DEF ContentIInv, PageAlone, Con!TagsSurvive, Con!HandsOff
<1> QED  BY <1>4, <1>6, <1>7, <1>8, <1>10 DEF ContentIInv

\* The seller writes tags, the field or the category.
LEMMA SellerWritesStep ==
    ASSUME ContentIInv, Con!Parameters, (\E t \in Con!Tag : Con!SellerTags(t)) \/ Con!SellerFills
    PROVE  ContentIInv'
<1>1. /\ UNCHANGED <<accepts, alive, secret, cache, task>>
      /\ inFlight'.shows = inFlight.shows
      /\ inFlight' \in [tags: SUBSET Con!Tag, shows: Picture \cup {Null}]
      /\ shown' \in Con!Content
      /\ used' \in [runs: 0..MaxRuns, edits: 0..MaxContentEdits, mishaps: 0..MaxMishaps, added: Nat]
      /\ used'.added = used.added
      /\ Con!Racing("attributes") \subseteq lapse'
      /\ \A x \in {"hidden", "images"} : x \in lapse' <=> x \in lapse
      /\ lapse \subseteq lapse'
  <2>1. CASE \E t \in Con!Tag : Con!SellerTags(t)
    <3>1. PICK t \in Con!Tag : Con!SellerTags(t)
      BY <2>1
    <3>2. /\ shown' = [shown EXCEPT !.tags = IF t \in shown.tags THEN shown.tags \ {t}
                                                ELSE shown.tags \cup {t}]
          /\ inFlight' = [inFlight EXCEPT !.tags = inFlight.tags \ {t}]
          /\ lapse' = lapse \cup Con!Racing("attributes") \cup {u \in {"untagged"} : t = Con!Hand}
          /\ UNCHANGED <<accepts, alive, secret, cache, task>> /\ Con!Use("edits", MaxContentEdits)
      BY <3>1 DEF Con!SellerTags, Con!ledger, ContentIInv, ContentTyped, Con!Content
    <3>3. shown' \in Con!Content
      BY <3>2 DEF ContentIInv, ContentTyped, Con!Content
    <3>4. inFlight' \in [tags: SUBSET Con!Tag, shows: Picture \cup {Null}]
          /\ inFlight'.shows = inFlight.shows
      BY <3>2 DEF ContentIInv, ContentTyped
    <3>5. /\ used' \in [runs: 0..MaxRuns, edits: 0..MaxContentEdits,
                mishaps: 0..MaxMishaps, added: Nat]
          /\ used'.added = used.added
      BY <3>2, ContentUseType DEF ContentIInv
    <3> QED  BY <3>2, <3>3, <3>4, <3>5, RacingSays
  <2>2. CASE Con!SellerFills
    <3>1. /\ shown' = [shown EXCEPT !.field = Con!Hand, !.category = Con!Hand]
          /\ lapse' = lapse \cup Con!Racing("attributes") \cup {"filled"}
          /\ UNCHANGED <<accepts, alive, secret, cache, task, inFlight>>
                 /\ Con!Use("edits", MaxContentEdits)
      BY <2>2 DEF Con!SellerFills, Con!ledger
    <3>2. shown' \in Con!Content
      BY <3>1 DEF ContentIInv, ContentTyped, Con!Content
    <3>3. /\ used' \in [runs: 0..MaxRuns, edits: 0..MaxContentEdits,
                mishaps: 0..MaxMishaps, added: Nat]
          /\ used'.added = used.added
      BY <3>1, ContentUseType DEF ContentIInv
    <3>4. inFlight' \in [tags: SUBSET Con!Tag, shows: Picture \cup {Null}]
          /\ inFlight'.shows = inFlight.shows
      BY <3>1 DEF ContentIInv, ContentTyped
    <3> QED  BY <3>1, <3>2, <3>3, <3>4, RacingSays
  <2> QED  BY <2>1, <2>2
<1>2. ContentTyped'
  BY <1>1 DEF ContentIInv, ContentTyped
<1>3. Numbered' /\ StepFits' /\ Accounted' /\ Pictured' /\ OneStays'
  BY <1>1 DEF ContentIInv, Numbered, StepFits, Accounted, Pictured, OneStays, Ids
<1>4. ImagesAlone'
  <2>1. ~Marked' => ~Marked
    BY <1>1 DEF Marked
  <2> QED  BY <1>1, <2>1, ImagesStay
<1>5. PageAlone'
  <2> SUFFICES ASSUME "attributes" \notin lapse' PROVE PageAlone'
    BY DEF PageAlone
  <2>1. \A a \in Batch : task[a].step # "write"
    BY <1>1, RacingSays DEF ContentIInv, StepFits
  <2> QED  BY <1>1, <2>1 DEF PageAlone
<1>6. Con!TagsSurvive' /\ Con!HandsOff'
  <2>1. CASE \E t \in Con!Tag : Con!SellerTags(t)
    <3>1. PICK t \in Con!Tag : Con!SellerTags(t)
      BY <2>1
    <3>2. /\ shown' = [shown EXCEPT !.tags = IF t \in shown.tags THEN shown.tags \ {t}
                                                ELSE shown.tags \cup {t}]
          /\ inFlight' = [inFlight EXCEPT !.tags = inFlight.tags \ {t}]
          /\ lapse' = lapse \cup Con!Racing("attributes") \cup {u \in {"untagged"} : t = Con!Hand}
      BY <3>1 DEF Con!SellerTags, ContentIInv, ContentTyped, Con!Content
    <3>3. /\ shown'.tags = IF t \in shown.tags THEN shown.tags \ {t} ELSE shown.tags \cup {t}
          /\ shown'.field = shown.field /\ shown'.category = shown.category
          /\ inFlight'.tags = inFlight.tags \ {t}
      BY <3>2 DEF ContentIInv, ContentTyped, Con!Content
    <3>4. "untagged" \in lapse' <=> "untagged" \in lapse \/ t = Con!Hand
      BY <3>2, RacingSays
    <3>5. "filled" \in lapse' <=> "filled" \in lapse
      BY <3>2, RacingSays
    <3>6. Con!TagsSurvive'
      <4> SUFFICES ASSUME "attributes" \notin lapse' PROVE Con!TagsSurvive'
        BY DEF Con!TagsSurvive
      <4>1. inFlight.tags \cup {x \in {Con!Hand} : "untagged" \notin lapse} \subseteq shown.tags
        BY <1>1 DEF ContentIInv, Con!TagsSurvive
      <4>2. inFlight'.tags \cup {x \in {Con!Hand} : "untagged" \notin lapse'} \subseteq shown'.tags
        BY <3>3, <3>4, <4>1
      <4> QED  BY <4>2 DEF Con!TagsSurvive
    <3>7. Con!HandsOff'
      BY <1>1, <3>3, <3>5 DEF ContentIInv, Con!HandsOff
    <3> QED  BY <3>6, <3>7
  <2>2. CASE Con!SellerFills
    <3>1. /\ shown' = [shown EXCEPT !.field = Con!Hand, !.category = Con!Hand]
          /\ lapse' = lapse \cup Con!Racing("attributes") \cup {"filled"} /\ inFlight' = inFlight
      BY <2>2 DEF Con!SellerFills
    <3>2. shown'.tags = shown.tags /\ shown'.field = Con!Hand /\ shown'.category = Con!Hand
      BY <3>1 DEF ContentIInv, ContentTyped, Con!Content
    <3>3. "untagged" \in lapse' <=> "untagged" \in lapse
      BY <3>1, RacingSays
    <3> QED  BY <1>1, <3>1, <3>2, <3>3 DEF ContentIInv, Con!TagsSurvive, Con!HandsOff
  <2> QED  BY <2>1, <2>2
<1> QED  BY <1>2, <1>3, <1>4, <1>5, <1>6 DEF ContentIInv

\* Nothing of the product and of the runs changes.
LEMMA Unmoved ==
    ASSUME ContentIInv, ContentTyped', UNCHANGED <<cache, shown, task, inFlight, lapse>>,
           used'.added = used.added
    PROVE  ContentIInv'
<1>1. Numbered' /\ StepFits' /\ Accounted' /\ OneStays' /\ Pictured'
  BY DEF ContentIInv, Numbered, StepFits, Accounted, OneStays, Ids, Pictured
<1>2. ImagesAlone'
  BY ImagesStay DEF Marked
<1>3. PageAlone' /\ Con!TagsSurvive' /\ Con!HandsOff'
  BY DEF ContentIInv, PageAlone, Con!TagsSurvive, Con!HandsOff
<1> QED  BY <1>1, <1>2, <1>3 DEF ContentIInv

LEMMA EditHubStep ==
    ASSUME ContentIInv, Con!Parameters, Con!EditHub PROVE ContentIInv'
<1>1. /\ UNCHANGED <<cache, shown, task, inFlight, lapse>>
      /\ accepts' \subseteq Variant /\ alive' \in Picture \cup {Null} /\ secret' \in Con!Content
  <2>1. Con!Rules \subseteq Con!Content
    BY DEF Con!Rules, Con!Content, Con!Tag, Con!Hand
  <2> QED  BY <2>1 DEF Con!EditHub, Con!product, ContentIInv, ContentTyped
<1>2. /\ used' \in [runs: 0..MaxRuns, edits: 0..MaxContentEdits, mishaps: 0..MaxMishaps, added: Nat]
      /\ used'.added = used.added
  BY ContentUseType DEF Con!EditHub, ContentIInv
<1>3. ContentTyped'
  BY <1>1, <1>2 DEF ContentIInv, ContentTyped
<1> QED  BY <1>1, <1>2, <1>3, Unmoved

LEMMA ContentNext ==
    ASSUME ContentIInv, Con!Parameters, [Con!Next]_(Con!vars) PROVE ContentIInv'
<1>1. CASE UNCHANGED Con!vars
  <2>1. ContentTyped'
    BY <1>1 DEF Con!vars, ContentIInv, ContentTyped
  <2>2. UNCHANGED <<cache, shown, task, inFlight, lapse, used>>
    BY <1>1 DEF Con!vars
  <2> QED  BY <2>1, <2>2, Unmoved
<1>2. CASE Con!Next
  BY <1>2, RunSteps, ReadMediaStep, AddMediaStep, DeleteMediaStep, ReadPageStep, WritePageStep,
     FailStep, SellerShowsStep, SellerHidesStep, SellerWritesStep, EditHubStep DEF Con!Next
<1> QED  BY <1>1, <1>2

LEMMA ContentInvariantSays ==
    ASSUME ContentIInv, Con!Parameters PROVE Con!TypeOK /\ Con!ContentHolds
<1>1. Con!TypeOK
  <2>1. \A m \in cache : m.id \in 0..used.added /\ m.url \in Picture \cup {Con!Hand}
    BY DEF ContentIInv, ContentTyped, Numbered, Ids
  <2>2. \A r \in Batch : task[r].old \subseteq 0..used.added
    BY DEF ContentIInv, ContentTyped, ContentRunType, Numbered
  <2> QED  BY <2>1, <2>2 DEF ContentIInv, ContentTyped, ContentRunType, Con!TypeOK, Con!Parameters
<1>2. Con!NeverBare
  BY DEF ContentIInv, OneStays, Con!NeverBare
<1>3. Con!ShowsWhatIsReported
  BY DEF ContentIInv, ImagesAlone, StepFits, Marked, Con!ShowsWhatIsReported, Con!Amid
<1>4. Con!EachReportedOnce
  BY DEF ContentIInv, Accounted, Con!EachReportedOnce
<1> QED  BY <1>1, <1>2, <1>3, <1>4 DEF ContentIInv, Con!ContentHolds

\* For any items, pictures, runs at once and bounds: a page is never left without a picture,
\* shows what was reported, and keeps the tags and the category set by hand
\* (listing-images.service.ts, listing-attributes.service.ts).
THEOREM ContentIsSound == ASSUME Con!Parameters PROVE Con!Spec => [](Con!TypeOK /\ Con!ContentHolds)
<1>1. Con!Init => ContentIInv
  BY ContentInit
<1>2. ContentIInv /\ [Con!Next]_(Con!vars) => ContentIInv'
  BY ContentNext
<1>3. ContentIInv => Con!TypeOK /\ Con!ContentHolds
  BY ContentInvariantSays
<1> QED  BY <1>1, <1>2, <1>3, PTL DEF Con!Spec

-------------------------------------------------------------------------------
(***************************************************************************)
(* What a behaviour of MC_Operations runs.                                 *)
(***************************************************************************)

\* The invariant of whichever of the three runs.
PlatformIInv ==
    /\ subject = "requests" => RequestIInv
    /\ subject = "repairs" => RepairIInv
    /\ subject = "files" => FileIInv

LEMMA PlatformInit ==
    ASSUME AllInit, Req!Parameters, Fix!Parameters, Fil!Parameters PROVE PlatformIInv
<1>1. CASE subject = "requests"
  BY <1>1, RequestsInit DEF AllInit, PlatformIInv
<1>2. CASE subject = "repairs"
  BY <1>2, RepairsInit DEF AllInit, PlatformIInv
<1>3. CASE subject = "files"
  BY <1>3, FilesInit DEF AllInit, PlatformIInv
<1> QED  BY <1>1, <1>2, <1>3 DEF PlatformIInv

\* A step is of what runs, and of nothing else.
LEMMA PlatformNext ==
    ASSUME PlatformIInv, [AllNext]_allVars, Req!Parameters, Fix!Parameters, Fil!Parameters
    PROVE  PlatformIInv'
<1>1. subject' = subject
  BY DEF AllNext, allVars
<1>2. CASE subject = "requests"
  <2>1. [Req!Next]_(Req!vars)
    BY <1>2 DEF AllNext, RequestNext, allVars, common, requestVars, Req!vars
  <2> QED  BY <1>1, <1>2, <2>1, RequestsNext DEF PlatformIInv
<1>3. CASE subject = "repairs"
  <2>1. [Fix!Next]_(Fix!vars)
    BY <1>3 DEF AllNext, RequestNext, allVars, common, stockVars, repairVars, Fix!vars
  <2> QED  BY <1>1, <1>3, <2>1, RepairsNext DEF PlatformIInv
<1>4. CASE subject = "files"
  <2>1. UNCHANGED allVars => UNCHANGED Fil!vars
    BY DEF allVars, common, stockVars, fileVars, Fil!vars, Fil!platform, Fil!hand, Fil!ledger,
           Fil!inbound, Fil!history, Fil!bounds
  <2>2. [Fil!Next]_(Fil!vars)
    BY <1>4, <2>1 DEF AllNext, RequestNext
  <2> QED  BY <1>1, <1>4, <2>2, FilesNext DEF PlatformIInv
<1> QED  BY <1>1, <1>2, <1>3, <1>4 DEF PlatformIInv

\* The three under the specification the run checks, for any channels, orders, files and
\* bounds.
THEOREM PlatformsAreSound ==
    ASSUME Req!Parameters, Fix!Parameters, Fil!Parameters PROVE AllSpec => []PlatformHolds
<1>1. AllInit => PlatformIInv
  BY PlatformInit
<1>2. PlatformIInv /\ [AllNext]_allVars => PlatformIInv'
  BY PlatformNext
<1>3. PlatformIInv => PlatformHolds
  BY RequestsInvariantSays, RepairsInvariantSays, FilesInvariantSays
     DEF PlatformIInv, PlatformHolds
<1> QED  BY <1>1, <1>2, <1>3, PTL DEF AllSpec

\* The invariant of the settings that run.
SettingsIInv ==
    /\ subject = "settings" => SignInIInv
    /\ subject = "notices" => NoticeIInv

LEMMA SettingsInit ==
    ASSUME AllInit, Sgn!Parameters, Not!Parameters PROVE SettingsIInv
<1>1. CASE subject = "settings"
  BY <1>1, SignInInit DEF AllInit, SettingsIInv
<1>2. CASE subject = "notices"
  BY <1>2, NoticeInit DEF AllInit, SettingsIInv
<1> QED  BY <1>1, <1>2 DEF SettingsIInv

LEMMA SettingsNext ==
    ASSUME SettingsIInv, [AllNext]_allVars, Sgn!Parameters, Not!Parameters PROVE SettingsIInv'
<1>1. subject' = subject
  BY DEF AllNext, allVars
<1>2. CASE subject = "settings"
  <2>1. [Sgn!Next]_(Sgn!vars)
    BY <1>2 DEF AllNext, RequestNext, allVars, common, requestVars, Sgn!vars
  <2> QED  BY <1>1, <1>2, <2>1, SignInNext DEF SettingsIInv
<1>3. CASE subject = "notices"
  <2>1. [Not!Next]_(Not!vars)
    BY <1>3 DEF AllNext, RequestNext, allVars, common, requestVars, Not!vars
  <2> QED  BY <1>1, <1>3, <2>1, NoticeNext DEF SettingsIInv
<1> QED  BY <1>1, <1>2, <1>3 DEF SettingsIInv

\* The settings of the provider and of the notices, for any providers, people, servers, saves
\* and replicas: nobody is locked out or let in by a save, a secret goes to the provider it
\* is of, and what is stored is complete, is what the saves set, and is what is sent by.
THEOREM SettingsAreSound ==
    ASSUME Sgn!Parameters, Not!Parameters PROVE AllSpec => []SettingsHold
<1>1. AllInit => SettingsIInv
  BY SettingsInit
<1>2. SettingsIInv /\ [AllNext]_allVars => SettingsIInv'
  BY SettingsNext
<1>3. SettingsIInv => SettingsHold
  BY SignInInvariantSays, NoticeInvariantSays DEF SettingsIInv, SettingsHold
<1> QED  BY <1>1, <1>2, <1>3, PTL DEF AllSpec

\* The invariant of the work on listings that runs.
WorkIInv ==
    /\ subject = "bulk" => BulkIInv
    /\ subject = "content" => ContentIInv

LEMMA WorkInit ==
    ASSUME AllInit, Blk!Parameters, Con!Parameters PROVE WorkIInv
<1>1. CASE subject = "bulk"
  BY <1>1, BulkInit DEF AllInit, WorkIInv
<1>2. CASE subject = "content"
  BY <1>2, ContentInit DEF AllInit, WorkIInv
<1> QED  BY <1>1, <1>2 DEF WorkIInv

LEMMA WorkNext ==
    ASSUME WorkIInv, [AllNext]_allVars, Blk!Parameters, Con!Parameters PROVE WorkIInv'
<1>1. subject' = subject
  BY DEF AllNext, allVars
<1>2. CASE subject = "bulk"
  <2>1. [Blk!Next]_(Blk!vars)
    BY <1>2 DEF AllNext, RequestNext, allVars, common, requestVars, Blk!vars
  <2> QED  BY <1>1, <1>2, <2>1, BulkNext DEF WorkIInv
<1>3. CASE subject = "content"
  <2>1. [Con!Next]_(Con!vars)
    BY <1>3 DEF AllNext, RequestNext, allVars, common, requestVars, Con!vars
  <2> QED  BY <1>1, <1>3, <2>1, ContentNext DEF WorkIInv
<1> QED  BY <1>1, <1>2, <1>3 DEF WorkIInv

\* The work on listings, for any items, figures, policies, pictures and runs: a price that was
\* allocated in bulk is the policy's, a decision of the operator stands, and what a run on the
\* pages reported done is there.
THEOREM ListingWorkIsSound ==
    ASSUME Blk!Parameters, Con!Parameters PROVE AllSpec => []ListingWorkHolds
<1>1. AllInit => WorkIInv
  BY WorkInit
<1>2. WorkIInv /\ [AllNext]_allVars => WorkIInv'
  BY WorkNext
<1>3. WorkIInv => ListingWorkHolds
  BY BulkInvariantSays, ContentInvariantSays DEF WorkIInv, ListingWorkHolds
<1> QED  BY <1>1, <1>2, <1>3, PTL DEF AllSpec

\* Whatever else a behaviour runs, the queue keeps its types and a channel that is behind
\* has a cause.
THEOREM QueueStaysSound ==
    ASSUME Parameters PROVE AllSpec => []TypeOK /\ []StaleExplained
<1>1. AllInit => IInv
  BY InitEstablishes DEF AllInit
<1>2. [AllNext]_allVars => [Next]_vars
  BY DEF AllNext, RequestNext, allVars
<1>3. IInv /\ [AllNext]_allVars => IInv'
  BY <1>2, NextKeeps
<1>4. IInv => TypeOK /\ StaleExplained
  BY DEF IInv, OpInv, Explained, Owes, StaleExplained
<1> QED  BY <1>1, <1>3, <1>4, PTL DEF AllSpec

-------------------------------------------------------------------------------
(***************************************************************************)
(* The types of what runs.                                                 *)
(***************************************************************************)

\* What bounds the requests: tokens are of those that were asked for, and what is on its way
\* was asked for; troubles and pushes stay within their bounds.
RequestBounds ==
    /\ alive \subseteq Req!Token
    /\ accepts \in [Channel -> 1..2] /\ secret \in [Channel -> 1..2]
    /\ \A c \in Channel :
          /\ cache[c].token \in Req!Token \cup {Null}
          /\ inFlight[c] # Null => /\ inFlight[c].token \in Req!Token \cup {Null}
                                   /\ mints[c].made >= 1
    /\ \A o \in Caller : task[o].token \in Req!Token \cup {Null} /\ task[o].attempt \in 1..2
    /\ used \in [pushes: 0..MaxPushes, troubles: 0..MaxTroubles]

\* Tokens are numbered as they are asked for, and stay tokens.
LEMMA TokensStay ==
    ASSUME mints \in [Channel -> [made: Nat, grounds: Nat]],
           mints' \in [Channel -> [made: Nat, grounds: Nat]],
           \A c \in Channel : mints[c].made <= mints'[c].made
    PROVE  Req!Token \subseteq Req!Token'
<1> SUFFICES ASSUME NEW t \in Req!Token PROVE t \in Req!Token'
  OBVIOUS
<1>1. PICK c \in Channel : t \in {c} \X (1..mints[c].made)
  BY DEF Req!Token
<1>2. mints[c].made \in Nat /\ mints'[c].made \in Nat /\ mints[c].made <= mints'[c].made
  OBVIOUS
<1>3. 1..mints[c].made \subseteq 1..mints'[c].made
  BY <1>2
<1>4. t \in {c} \X (1..mints'[c].made)
  BY <1>1, <1>3
<1> QED  BY <1>4 DEF Req!Token

LEMMA RequestBoundsInit ==
    ASSUME Req!Parameters, Req!Init PROVE RequestBounds
BY DEF Req!Init, Req!Parameters, RequestBounds, Req!Empty, Req!Idle

\* A figure that counts up to a bound.
LEMMA RequestUse ==
    ASSUME Req!Parameters, used \in [pushes: 0..MaxPushes, troubles: 0..MaxTroubles],
           \/ Req!Use("pushes", MaxPushes) \/ Req!Use("troubles", MaxTroubles)
    PROVE  used' \in [pushes: 0..MaxPushes, troubles: 0..MaxTroubles]
<1>1. CASE Req!Use("pushes", MaxPushes)
  BY <1>1 DEF Req!Use, Req!Parameters
<1>2. CASE Req!Use("troubles", MaxTroubles)
  BY <1>2 DEF Req!Use, Req!Parameters
<1> QED  BY <1>1, <1>2

\* What one push does changes a token of its own only.
LEMMA PushBounds ==
    ASSUME RequestIInv, RequestIInv', RequestBounds, NEW p \in Caller, NEW next,
           task' = [task EXCEPT ![p] = next],
           next.token \in Req!Token \cup {Null}, next.attempt \in 1..2,
           UNCHANGED <<alive, accepts, secret>>,
           \A c \in Channel : cache'[c].token \in {cache[c].token, Null},
           \A c \in Channel : inFlight'[c] # Null =>
              \/ inFlight'[c] = inFlight[c] /\ mints'[c].made = mints[c].made
              \/ inFlight'[c].token = Null /\ mints'[c].made >= 1,
           \A c \in Channel : mints[c].made <= mints'[c].made,
           used' \in [pushes: 0..MaxPushes, troubles: 0..MaxTroubles]
    PROVE  RequestBounds'
<1>1. Req!Token \subseteq Req!Token'
  BY TokensStay DEF RequestIInv, RequestTyped
<1>2. task'[p] = next /\ \A o \in Caller : o # p => task'[o] = task[o]
  BY DEF RequestIInv, RequestTyped
<1>3. \A o \in Caller : task'[o].token \in Req!Token' \cup {Null} /\ task'[o].attempt \in 1..2
  BY <1>1, <1>2 DEF RequestBounds
<1>4. ASSUME NEW c \in Channel
      PROVE  /\ cache'[c].token \in Req!Token' \cup {Null}
             /\ inFlight'[c] # Null => /\ inFlight'[c].token \in Req!Token' \cup {Null}
                                       /\ mints'[c].made >= 1
  BY <1>1 DEF RequestBounds
<1> QED  BY <1>1, <1>3, <1>4 DEF RequestBounds

LEMMA PushesBounded ==
    ASSUME Req!Parameters, RequestIInv, RequestIInv', RequestBounds, NEW p \in Caller,
           \/ \E c \in Channel : Req!Begin(p, c)
           \/ Req!GetToken(p) \/ Req!Send(p) \/ Req!Unauthorised(p) \/ Req!HaveRead(p)
           \/ Req!Written(p) \/ Req!ReplyLost(p)
    PROVE  RequestBounds'
<1>1. /\ task[p] \in Pushing /\ mints \in [Channel -> [made: Nat, grounds: Nat]]
      /\ task \in [Caller -> Pushing] /\ inFlight \in [Channel -> Minting \cup {Null}]
      /\ cache \in [Channel -> [token: AnyToken \cup {Null}, usable: BOOLEAN]]
  BY DEF RequestIInv, RequestTyped
<1>2. /\ task[p].token \in Req!Token \cup {Null} /\ task[p].attempt \in 1..2
      /\ used \in [pushes: 0..MaxPushes, troubles: 0..MaxTroubles]
  BY DEF RequestBounds
<1>3. Req!Idle.token = Null /\ Req!Idle.attempt = 1
  BY DEF Req!Idle
<1>4. ASSUME NEW next, task' = [task EXCEPT ![p] = next],
             next.token \in Req!Token \cup {Null}, next.attempt \in 1..2,
             UNCHANGED <<alive, accepts, secret, cache, inFlight, mints>>,
             used' \in [pushes: 0..MaxPushes, troubles: 0..MaxTroubles]
      PROVE  RequestBounds'
  <2>1. \A c \in Channel : mints[c].made <= mints'[c].made
    BY <1>1, <1>4
  <2> QED  BY <1>4, <2>1, PushBounds
<1>5. ASSUME NEW d \in Channel, Req!Begin(p, d) PROVE RequestBounds'
  <2>1. PICK q \in Req!Quantity :
          task' = [task EXCEPT ![p] = [Req!Idle EXCEPT !.step = "token", !.channel = d,
                                               !.secret = secret[d], !.want = q]]
    BY <1>5 DEF Req!Begin
  <2> DEFINE next == [Req!Idle EXCEPT !.step = "token", !.channel = d, !.secret = secret[d],
                                     !.want = q]
  <2>2. next.token = Null /\ next.attempt = 1
    BY DEF Req!Idle
  <2> HIDE DEF next
  <2>3. task' = [task EXCEPT ![p] = next]
    BY <2>1 DEF next
  <2>4. used' \in [pushes: 0..MaxPushes, troubles: 0..MaxTroubles]
    BY <1>2, <1>5, RequestUse DEF Req!Begin
  <2>5. UNCHANGED <<alive, accepts, secret, cache, inFlight, mints>>
    BY <1>5 DEF Req!Begin, Req!platform
  <2>6. next.token \in Req!Token \cup {Null} /\ next.attempt \in 1..2
    BY <2>2
  <2> QED  BY <1>4, <2>3, <2>4, <2>5, <2>6
<1>6. CASE Req!GetToken(p)
  <2> DEFINE d == task[p].channel
  <2>1. d \in Channel /\ UNCHANGED <<alive, accepts, secret, cache, used>>
    BY <1>6 DEF Req!GetToken, Req!platform, RequestIInv, OpFits, Req!At
  <2>2. CASE cache[d].usable
    <3> DEFINE next == [task[p] EXCEPT !.step = "send", !.token = cache[d].token]
    <3>1. task' = [task EXCEPT ![p] = next] /\ UNCHANGED <<inFlight, mints>>
      BY <1>1, <1>6, <2>2 DEF Req!GetToken, Pushing
    <3>2. next.token = cache[d].token /\ next.attempt = task[p].attempt
      BY <1>1 DEF Pushing
    <3>3. cache[d].token \in Req!Token \cup {Null}
      BY <2>1 DEF RequestBounds
    <3> QED  BY <1>2, <1>4, <2>1, <3>1, <3>2, <3>3
  <2>3. CASE ~cache[d].usable
    <3> DEFINE next == [task[p] EXCEPT !.step = "wait"]
               request == [secret |-> task[p].secret, token |-> Null]
    <3>1. task' = [task EXCEPT ![p] = next]
      BY <1>1, <1>6, <2>3 DEF Req!GetToken, Pushing
    <3>2. next.token = task[p].token /\ next.attempt = task[p].attempt
      BY <1>1 DEF Pushing
    <3> HIDE DEF next
    <3>3. CASE UNCHANGED <<inFlight, mints>>
      BY <1>2, <1>4, <2>1, <3>1, <3>2, <3>3
    <3>4. CASE /\ inFlight' = [inFlight EXCEPT ![d] = request]
               /\ mints' = [mints EXCEPT ![d].made = @ + 1]
      <4>1. mints'[d].made = mints[d].made + 1 /\ mints[d].made \in Nat
            /\ inFlight'[d].token = Null
        BY <1>1, <2>1, <3>4
      <4> HIDE DEF d
      <4>2. \A c \in Channel : c # d => mints'[c] = mints[c] /\ inFlight'[c] = inFlight[c]
        BY <1>1, <3>4
      <4>3. \A c \in Channel : mints[c].made <= mints'[c].made
        BY <1>1, <4>1, <4>2
      <4>4. \A c \in Channel : inFlight'[c] # Null =>
              \/ inFlight'[c] = inFlight[c] /\ mints'[c].made = mints[c].made
              \/ inFlight'[c].token = Null /\ mints'[c].made >= 1
        BY <4>1, <4>2
      <4> QED  BY <1>2, <2>1, <3>1, <3>2, <4>3, <4>4, PushBounds
    <3> QED  BY <1>6, <2>3, <3>3, <3>4 DEF Req!GetToken
  <2> QED  BY <2>2, <2>3
<1>7. CASE Req!Send(p)
  <2> DEFINE d == task[p].channel
             now == [o \in Caller |-> IF Req!Answer(p) = "set" THEN Req!Moved(task[o], d)
                                      ELSE task[o]]
             next == [now[p] EXCEPT !.step = "reply", !.reply = Req!Answer(p), !.stands = TRUE,
                         !.seen = IF Req!Answer(p) = "read" THEN shown[d] ELSE @]
  <2>1. /\ UNCHANGED <<alive, accepts, secret, cache, inFlight, mints, used>>
        /\ task' \in [Caller -> Pushing]
    BY <1>7 DEF Req!Send, RequestIInv, RequestTyped
  <2>2. ASSUME NEW o \in Caller
        PROVE  task'[o].token = task[o].token /\ task'[o].attempt = task[o].attempt
    <3>1. \A x \in Caller : /\ now[x] \in Pushing /\ now[x].token = task[x].token
                            /\ now[x].attempt = task[x].attempt
      BY <1>1 DEF Req!Moved, Pushing
    <3>2. task'[o] = now[o] \/ (o = p /\ task'[o] = next)
      BY <1>7 DEF Req!Send
    <3> DEFINE number == IF Req!Answer(p) = "read" THEN shown[d] ELSE now[p].seen
    <3>3. next = [now[p] EXCEPT !.step = "reply", !.reply = Req!Answer(p), !.stands = TRUE,
                                !.seen = number]
      OBVIOUS
    <3> HIDE DEF now, number, next
    <3>4. next.token = now[p].token /\ next.attempt = now[p].attempt
      BY <3>1, <3>3 DEF Pushing
    <3> QED  BY <3>1, <3>2, <3>4
  <2> QED  BY <2>1, <2>2 DEF RequestBounds, Req!Token
<1>8. CASE Req!Unauthorised(p)
  <2> DEFINE d == task[p].channel
  <2>1. d \in Channel /\ UNCHANGED <<alive, accepts, secret, inFlight, used>>
    BY <1>8 DEF Req!Unauthorised, Req!platform, RequestIInv, OpFits, Req!At
  <2>2. CASE task[p].again
    <3>1. task' = [task EXCEPT ![p] = Req!Idle] /\ UNCHANGED <<cache, mints>>
      BY <1>8, <2>2 DEF Req!Unauthorised
    <3>2. Req!Idle.token \in Req!Token \cup {Null} /\ Req!Idle.attempt \in 1..2
      BY <1>3
    <3> QED  BY <1>2, <1>4, <2>1, <3>1, <3>2
  <2>3. CASE ~task[p].again
    <3> DEFINE next == [task[p] EXCEPT !.step = "token", !.again = TRUE, !.reply = Null,
                                       !.token = Null]
    <3>1. /\ task' = [task EXCEPT ![p] = next] /\ cache' = [cache EXCEPT ![d] = Req!Empty]
          /\ mints' = [mints EXCEPT ![d].grounds = @ + 1]
      BY <1>1, <1>8, <2>3 DEF Req!Unauthorised, Req!Ground, Pushing
    <3>2. next.token = Null /\ next.attempt = task[p].attempt
      BY <1>1 DEF Pushing
    <3>3. \A c \in Channel : mints'[c].made = mints[c].made /\ mints[c].made \in Nat
      BY <1>1, <3>1
    <3>4. \A c \in Channel : cache'[c].token \in {cache[c].token, Null}
      BY <1>1, <3>1 DEF Req!Empty
    <3>5. \A c \in Channel : mints[c].made <= mints'[c].made
      BY <3>3
    <3> HIDE DEF next
    <3> QED  BY <1>2, <2>1, <3>1, <3>2, <3>3, <3>4, <3>5, PushBounds
  <2> QED  BY <2>2, <2>3
<1>9. ASSUME NEW side, NEW attempt \in 1..2, NEW number, Req!Then(p, side, attempt, number),
             UNCHANGED <<alive, accepts, secret, cache, inFlight, mints, used>>
      PROVE  RequestBounds'
  <2> DEFINE next == [task[p] EXCEPT !.step = "token", !.phase = side, !.again = FALSE,
                         !.attempt = attempt, !.seen = number, !.reply = Null, !.token = Null]
  <2>1. task' = [task EXCEPT ![p] = next]
    BY <1>9 DEF Req!Then
  <2>2. next.token = Null /\ next.attempt = attempt
    BY <1>1 DEF Pushing
  <2> HIDE DEF next
  <2> QED  BY <1>2, <1>4, <1>9, <2>1, <2>2
<1>10. ASSUME task' = [task EXCEPT ![p] = Req!Idle],
              UNCHANGED <<alive, accepts, secret, cache, inFlight, mints>>,
              used' \in [pushes: 0..MaxPushes, troubles: 0..MaxTroubles]
       PROVE  RequestBounds'
  <2>1. Req!Idle.token \in Req!Token \cup {Null} /\ Req!Idle.attempt \in 1..2
    BY <1>3
  <2> QED  BY <1>4, <1>10, <2>1
<1>11. CASE Req!HaveRead(p)
  <2>1. UNCHANGED <<alive, accepts, secret, cache, inFlight, mints, used>>
    BY <1>11 DEF Req!HaveRead, Req!platform
  <2>2. \/ task' = [task EXCEPT ![p] = Req!Idle]
        \/ Req!Then(p, "write", task[p].attempt, task[p].seen)
    BY <1>11 DEF Req!HaveRead, Req!Succeed
  <2> QED  BY <1>2, <1>9, <1>10, <2>1, <2>2
<1>12. CASE Req!Written(p)
  <2>1. UNCHANGED <<alive, accepts, secret, cache, inFlight, mints, used>>
    BY <1>12 DEF Req!Written, Req!platform
  <2>2. task' = [task EXCEPT ![p] = Req!Idle] \/ Req!Then(p, "read", 2, 0)
    BY <1>12 DEF Req!Written, Req!Succeed
  <2> QED  BY <1>2, <1>9, <1>10, <2>1, <2>2
<1>13. CASE Req!ReplyLost(p)
  BY <1>2, <1>10, <1>13, RequestUse DEF Req!ReplyLost, Req!platform
<1> QED  BY <1>5, <1>6, <1>7, <1>8, <1>11, <1>12, <1>13

\* Mint gives a token of those asked for; the rest leaves the tokens alone or forgets some.
LEMMA TokensBounded ==
    ASSUME Req!Parameters, RequestIInv, RequestIInv', RequestBounds, NEW d \in Channel,
           \/ Req!Mint(d) \/ Req!Minted(d) \/ Req!MintFails(d) \/ Req!Purchase(d)
           \/ Req!Lapse(d) \/ Req!StoreSecret(d) \/ \E next \in {1, 2} : Req!Revoke(d, next)
    PROVE  RequestBounds'
<1>1. /\ RequestTyped /\ RequestTyped' /\ mints \in [Channel -> [made: Nat, grounds: Nat]]
      /\ used \in [pushes: 0..MaxPushes, troubles: 0..MaxTroubles]
  BY DEF RequestIInv, RequestTyped, RequestBounds
<1>2. \A o \in Caller : /\ task[o] \in Pushing /\ task[o].token \in Req!Token \cup {Null}
                        /\ task[o].attempt \in 1..2
  BY <1>1 DEF RequestTyped, RequestBounds
<1>3. CASE Req!Mint(d)
  <2> DEFINE t == <<d, mints[d].made>>
  <2>1. /\ inFlight[d] # Null /\ alive' = alive \cup {t}
        /\ inFlight' = [inFlight EXCEPT ![d].token = t]
        /\ UNCHANGED <<accepts, secret, cache, task, mints, used>>
    BY <1>3 DEF Req!Mint
  <2>2. t \in Req!Token
    <3>1. mints[d].made \in Nat /\ mints[d].made >= 1
      BY <1>1, <2>1 DEF RequestBounds
    <3>2. mints[d].made \in 1..mints[d].made
      BY <3>1
    <3> QED  BY <3>2 DEF Req!Token
  <2> HIDE DEF t
  <2>3. /\ inFlight'[d].token = t
        /\ \A c \in Channel : c # d => inFlight'[c] = inFlight[c]
    BY <1>1, <2>1 DEF RequestTyped, Minting
  <2>4. Req!Token' = Req!Token
    BY <2>1 DEF Req!Token
  <2>5. \A c \in Channel :
          inFlight'[c] # Null => /\ inFlight'[c].token \in Req!Token' \cup {Null}
                                 /\ mints'[c].made >= 1
    BY <2>1, <2>2, <2>3, <2>4 DEF RequestBounds
  <2> QED  BY <2>1, <2>2, <2>4, <2>5 DEF RequestBounds
<1>4. CASE Req!Minted(d)
  <2>1. /\ inFlight[d] # Null /\ inFlight[d].token # Null
        /\ cache' = [cache EXCEPT ![d] = [token |-> inFlight[d].token, usable |-> TRUE]]
        /\ task' = [o \in Caller |->
                      IF o \in Req!Waiting(d)
                      THEN [task[o] EXCEPT !.step = "send", !.token = inFlight[d].token]
                      ELSE task[o]]
        /\ inFlight' = [inFlight EXCEPT ![d] = Null]
        /\ UNCHANGED <<alive, accepts, secret, mints, used>>
    BY <1>4 DEF Req!Minted, Req!platform
  <2>2. inFlight[d].token \in Req!Token /\ Req!Token' = Req!Token
    BY <2>1 DEF RequestBounds, Req!Token
  <2>3. \A c \in Channel : /\ cache'[c].token \in Req!Token \cup {Null}
                           /\ inFlight'[c] # Null => inFlight'[c] = inFlight[c]
    BY <1>1, <2>1, <2>2 DEF RequestTyped, RequestBounds
  <2>4. ASSUME NEW o \in Caller
        PROVE  task'[o].token \in Req!Token \cup {Null} /\ task'[o].attempt \in 1..2
    <3> DEFINE sent == [task[o] EXCEPT !.step = "send", !.token = inFlight[d].token]
    <3>1. sent.token = inFlight[d].token /\ sent.attempt = task[o].attempt
      BY <1>2 DEF Pushing
    <3>2. task'[o] = sent \/ task'[o] = task[o]
      BY <2>1
    <3> HIDE DEF sent
    <3> QED  BY <1>2, <2>2, <3>1, <3>2
  <2> QED  BY <2>1, <2>2, <2>3, <2>4 DEF RequestBounds
<1>5. CASE Req!MintFails(d)
  <2>1. /\ task' = [o \in Caller |-> IF o \in Req!Waiting(d) THEN Req!Idle ELSE task[o]]
        /\ inFlight' = [inFlight EXCEPT ![d] = Null]
        /\ mints' = [mints EXCEPT ![d].grounds = @ + 1]
        /\ UNCHANGED <<alive, accepts, secret, cache>>
    BY <1>5 DEF Req!MintFails, Req!Ground, Req!platform
  <2>2. used' \in [pushes: 0..MaxPushes, troubles: 0..MaxTroubles]
    BY <1>1, <1>5, RequestUse DEF Req!MintFails
  <2>3. \A c \in Channel : mints'[c].made = mints[c].made
    BY <1>1, <2>1
  <2>4. Req!Token' = Req!Token
    BY <2>3 DEF Req!Token
  <2>5. \A c \in Channel : inFlight'[c] # Null => inFlight'[c] = inFlight[c]
    BY <1>1, <2>1 DEF RequestTyped
  <2>6. Req!Idle.token = Null /\ Req!Idle.attempt = 1
    BY DEF Req!Idle
  <2>7. \A o \in Caller : task'[o].token \in Req!Token \cup {Null} /\ task'[o].attempt \in 1..2
    BY <1>2, <2>1, <2>6
  <2> QED  BY <2>1, <2>2, <2>3, <2>4, <2>5, <2>7 DEF RequestBounds
<1>6. CASE Req!Purchase(d)
  <2>1. UNCHANGED <<alive, accepts, secret, cache, inFlight, mints>>
    BY <1>6 DEF Req!Purchase
  <2>2. used' \in [pushes: 0..MaxPushes, troubles: 0..MaxTroubles]
    BY <1>1, <1>6, RequestUse DEF Req!Purchase
  <2>3. ASSUME NEW o \in Caller
        PROVE  task'[o].token = task[o].token /\ task'[o].attempt = task[o].attempt
    <3> DEFINE moved == Req!Moved(task[o], d)
               sold == moved.sold \/ Req!HasRead(task[o])
    <3>1. moved.token = task[o].token /\ moved.attempt = task[o].attempt /\ moved \in Pushing
      BY <1>2 DEF Req!Moved, Pushing
    <3>2. task'[o] = task[o] \/ task'[o] = [moved EXCEPT !.sold = sold]
      BY <1>6 DEF Req!Purchase
    <3> HIDE DEF moved, sold
    <3>3. [moved EXCEPT !.sold = sold].token = moved.token
          /\ [moved EXCEPT !.sold = sold].attempt = moved.attempt
      BY <3>1 DEF Pushing
    <3> QED  BY <3>1, <3>2, <3>3
  <2> QED  BY <2>1, <2>2, <2>3 DEF RequestBounds, Req!Token
<1>7. CASE Req!Lapse(d)
  <2>1. /\ cache' = [cache EXCEPT ![d].usable = FALSE]
        /\ mints' = [mints EXCEPT ![d].grounds = @ + 1]
        /\ UNCHANGED <<alive, accepts, secret, inFlight, task>>
    BY <1>7 DEF Req!Lapse, Req!Ground, Req!platform
  <2>2. used' \in [pushes: 0..MaxPushes, troubles: 0..MaxTroubles]
    BY <1>1, <1>7, RequestUse DEF Req!Lapse
  <2>3. \A c \in Channel : mints'[c].made = mints[c].made /\ cache'[c].token = cache[c].token
    BY <1>1, <2>1 DEF RequestTyped
  <2>4. Req!Token' = Req!Token
    BY <2>3 DEF Req!Token
  <2> QED  BY <2>1, <2>2, <2>3, <2>4 DEF RequestBounds
<1>8. CASE Req!StoreSecret(d)
  <2>1. /\ secret' = [secret EXCEPT ![d] = accepts[d]]
        /\ UNCHANGED <<alive, accepts, cache, inFlight, task, mints, used>>
    BY <1>8 DEF Req!StoreSecret, Req!platform
  <2>2. secret' \in [Channel -> 1..2]
    BY <2>1 DEF RequestBounds
  <2> QED  BY <2>1, <2>2 DEF RequestBounds, Req!Token
<1>9. ASSUME NEW next \in {1, 2}, Req!Revoke(d, next) PROVE RequestBounds'
  <2>1. /\ alive' \subseteq alive /\ accepts' = [accepts EXCEPT ![d] = next]
        /\ UNCHANGED <<secret, cache, inFlight, task, mints>>
    BY <1>9 DEF Req!Revoke
  <2>2. used' \in [pushes: 0..MaxPushes, troubles: 0..MaxTroubles]
    BY <1>1, <1>9, RequestUse DEF Req!Revoke
  <2>3. accepts' \in [Channel -> 1..2]
    BY <2>1 DEF RequestBounds
  <2> QED  BY <2>1, <2>2, <2>3 DEF RequestBounds, Req!Token
<1> QED  BY <1>3, <1>4, <1>5, <1>6, <1>7, <1>8, <1>9

LEMMA RequestBoundsNext ==
    ASSUME Req!Parameters, RequestIInv, RequestIInv', RequestBounds, [Req!Next]_(Req!vars)
    PROVE  RequestBounds'
<1>1. CASE Req!Next
  BY <1>1, PushesBounded, TokensBounded DEF Req!Next
<1>2. CASE UNCHANGED Req!vars
  BY <1>2 DEF Req!vars, RequestBounds, Req!Token
<1> QED  BY <1>1, <1>2

LEMMA RequestsTyped ==
    ASSUME Req!Parameters, RequestIInv, RequestBounds PROVE Req!TypeOK
<1>1. /\ RequestTyped /\ \A o \in Caller : task[o] \in Pushing
  BY DEF RequestIInv, RequestTyped
<1>2. cache \in [Channel -> [token: Req!Token \cup {Null}, usable: BOOLEAN]]
  <2>1. \A c \in Channel : cache[c] \in [token: Req!Token \cup {Null}, usable: BOOLEAN]
    BY <1>1 DEF RequestTyped, RequestBounds
  <2> QED  BY <1>1, <2>1 DEF RequestTyped
<1>3. used.pushes <= MaxPushes /\ used.troubles <= MaxTroubles
  BY DEF RequestBounds, Req!Parameters
<1>4. \A o \in Caller :
        /\ Req!At(o, "idle") \/ Req!At(o, "token") \/ Req!At(o, "wait") \/ Req!At(o, "send")
           \/ Req!At(o, "reply")
        /\ task[o].channel \in Channel \cup {Null} /\ task[o].want \in Req!Quantity
        /\ task[o].seen \in Req!Quantity
  BY <1>1 DEF Pushing, Req!At
<1> QED  BY <1>1, <1>2, <1>3, <1>4 DEF Req!TypeOK, RequestBounds, RequestTyped, Req!At

-------------------------------------------------------------------------------
\* What bounds the reconciliations: no figure anywhere exceeds the first on the ledger, and
\* the shelf has lost what was sold.
RepairFigure == 0..(Stock + 1)

RepairBounds ==
    /\ used.sales <= MaxSales /\ shelf = Stock - used.sales
    /\ onHand \in RepairFigure
    /\ \A c \in Channel :
          /\ advertised[c] \in RepairFigure /\ task[c].theirs \in RepairFigure
          /\ shown[c] # Null => shown[c].quantity \in RepairFigure
    /\ due \subseteq Channel /\ corrects \subseteq Channel /\ touched \subseteq Channel
    /\ notices \subseteq Channel \X (1..MaxSales)

LEMMA RepairBoundsInit ==
    ASSUME Fix!Parameters, Fix!Init PROVE RepairBounds
<1>1. onHand \in RepairFigure /\ 0 \in RepairFigure
  BY DEF Fix!Init, Fix!Parameters, RepairFigure
<1>2. used.sales <= MaxSales /\ shelf = Stock - used.sales
  <2>1. used.sales = 0 /\ shelf = Stock /\ Stock \in Nat /\ MaxSales \in Nat
    BY DEF Fix!Init, Fix!Parameters
  <2> QED  BY <2>1
<1>3. Fix!Blank.theirs = 0
  BY DEF Fix!Blank
<1>4. ASSUME NEW c \in Channel
      PROVE  /\ advertised[c] = onHand /\ task[c] = Fix!Blank /\ shown[c].quantity = onHand
  BY DEF Fix!Init
<1>5. due \subseteq Channel /\ corrects \subseteq Channel /\ touched \subseteq Channel
      /\ notices \subseteq Channel \X (1..MaxSales)
  BY DEF Fix!Init
<1>6. ASSUME NEW c \in Channel
      PROVE  /\ advertised[c] \in RepairFigure /\ task[c].theirs \in RepairFigure
             /\ shown[c].quantity \in RepairFigure
  BY <1>1, <1>3, <1>4
<1> QED  BY <1>1, <1>2, <1>5, <1>6 DEF RepairBounds

LEMMA RepairBoundsNext ==
    ASSUME Fix!Parameters, RepairIInv, RepairBounds, [Fix!Next]_(Fix!vars)
    PROVE  RepairBounds'
<1>1. /\ RepairTyped /\ Stock \in Nat /\ MaxSales \in Nat /\ shelf \in Int
      /\ used \in [sales: Nat, runs: Nat, touches: Nat]
      /\ task \in [Channel -> Reconciling] /\ advertised \in [Channel -> Nat]
      /\ shown \in [Channel -> RepairListing \cup {Null}]
  BY DEF RepairIInv, RepairTyped, Fix!Parameters
<1>2. ASSUME NEW d \in Channel, Fix!Buy(d) PROVE RepairBounds'
  <2>1. /\ used.sales < MaxSales /\ used' = [used EXCEPT !["sales"] = @ + 1]
        /\ shown[d] # Null /\ shown[d].quantity > 0
        /\ shown' = [shown EXCEPT ![d].quantity = @ - 1] /\ shelf' = shelf - 1
        /\ notices' = notices \cup {<<d, used'.sales>>} /\ touched' = touched \cup {d}
        /\ UNCHANGED <<onHand, advertised, due, corrects, task>>
    BY <1>2 DEF Fix!Buy, Fix!Use
  <2>2. used'.sales = used.sales + 1 /\ used.sales \in Nat
    BY <1>1, <2>1
  <2>3. used'.sales <= MaxSales /\ shelf' = Stock - used'.sales
    <3>1. shelf = Stock - used.sales
      BY DEF RepairBounds
    <3> DEFINE n == used.sales
               m == used'.sales
    <3>2. n \in Nat /\ m = n + 1 /\ n < MaxSales /\ shelf = Stock - n /\ shelf' = shelf - 1
      BY <2>1, <2>2, <3>1
    <3> HIDE DEF n, m
    <3>3. m <= MaxSales /\ shelf' = Stock - m
      BY <1>1, <3>2
    <3> QED  BY <3>3 DEF m
  <2>4. used'.sales \in 1..MaxSales
    BY <1>1, <2>2, <2>3
  <2>5. /\ shown'[d].quantity = shown[d].quantity - 1
        /\ \A c \in Channel : c # d => shown'[c] = shown[c]
    BY <1>1, <2>1 DEF RepairListing
  <2>6. shown[d].quantity - 1 \in RepairFigure
    BY <1>1, <2>1 DEF RepairBounds, RepairFigure
  <2>7. \A c \in Channel : shown'[c] # Null => shown'[c].quantity \in RepairFigure
    BY <2>5, <2>6 DEF RepairBounds
  <2> QED  BY <2>1, <2>3, <2>4, <2>7 DEF RepairBounds, RepairFigure
<1>3. ASSUME NEW d \in Channel, Fix!Touch(d) PROVE RepairBounds'
  <2>1. /\ used' = [used EXCEPT !["touches"] = @ + 1] /\ shown[d] # Null
        /\ touched' = touched \cup {d}
        /\ UNCHANGED <<shelf, onHand, advertised, due, notices, corrects, task>>
    BY <1>3 DEF Fix!Touch, Fix!Use
  <2>2. used'.sales = used.sales
    BY <1>1, <2>1
  <2> DEFINE count == IF shelf > 0 THEN shelf ELSE 0
  <2>3. count \in RepairFigure
    BY <1>1 DEF RepairBounds, RepairFigure
  <2>4. shown[d] \in RepairListing /\ shown[d].quantity \in RepairFigure
    BY <1>1, <2>1 DEF RepairBounds
  <2> HIDE DEF count
  <2>5. ASSUME NEW c \in Channel, shown'[c] # Null PROVE shown'[c].quantity \in RepairFigure
    <3>1. CASE shown' = [shown EXCEPT ![d].quantity = count]
      BY <1>1, <2>3, <2>4, <2>5, <3>1 DEF RepairBounds, RepairListing
    <3>2. CASE shown' = [shown EXCEPT ![d].active = FALSE]
      BY <1>1, <2>4, <2>5, <3>2 DEF RepairBounds, RepairListing
    <3>3. CASE shown' = [shown EXCEPT ![d] = Null]
      BY <1>1, <2>5, <3>3 DEF RepairBounds
    <3> QED  BY <1>3, <3>1, <3>2, <3>3 DEF Fix!Touch, count
  <2> QED  BY <2>1, <2>2, <2>5 DEF RepairBounds, RepairFigure
<1>4. ASSUME NEW notice \in notices, Fix!ApplySale(notice) PROVE RepairBounds'
  <2>1. /\ notices' \subseteq notices /\ onHand' = (IF onHand > 0 THEN onHand - 1 ELSE 0)
        /\ due' \in {due, Channel}
        /\ UNCHANGED <<shelf, advertised, shown, corrects, touched, used>>
    BY <1>4 DEF Fix!ApplySale, Fix!SetOnHand
  <2>2. onHand' \in RepairFigure
    BY <1>1, <2>1 DEF RepairBounds, RepairFigure
  <2>3. ASSUME NEW c \in Channel PROVE task'[c].theirs = task[c].theirs
    <3>1. task'[c] = task[c] \/ task'[c] = [task[c] EXCEPT !.clear = FALSE]
      BY <1>4 DEF Fix!ApplySale
    <3> QED  BY <1>1, <3>1 DEF Reconciling
  <2> QED  BY <2>1, <2>2, <2>3 DEF RepairBounds, RepairFigure
<1>5. ASSUME NEW d \in Channel, Fix!Push(d) PROVE RepairBounds'
  <2>1. due' \subseteq due /\ UNCHANGED <<shelf, onHand, notices, corrects, used>>
    BY <1>5 DEF Fix!Push
  <2>2. CASE shown[d] = Null
    BY <1>5, <2>1, <2>2 DEF Fix!Push, RepairBounds, RepairFigure
  <2>3. CASE shown[d] # Null
    <3> DEFINE why == IF task[d].step = "loaded" THEN task[d].why \cup {"landed"}
                      ELSE task[d].why
    <3>1. /\ shown' = [shown EXCEPT ![d].quantity = onHand]
          /\ advertised' = [advertised EXCEPT ![d] = onHand] /\ touched' \subseteq touched
          /\ task' = [task EXCEPT ![d].why = why]
      BY <1>5, <2>3 DEF Fix!Push
    <3> HIDE DEF why
    <3>2. \A c \in Channel : task'[c].theirs = task[c].theirs
      BY <1>1, <3>1 DEF Reconciling
    <3>3. \A c \in Channel : advertised'[c] \in RepairFigure
      BY <1>1, <3>1 DEF RepairBounds
    <3>4. \A c \in Channel : shown'[c] # Null => shown'[c].quantity \in RepairFigure
      BY <1>1, <2>3, <3>1 DEF RepairBounds, RepairListing
    <3> QED  BY <2>1, <3>1, <3>2, <3>3, <3>4 DEF RepairBounds, RepairFigure
  <2> QED  BY <2>2, <2>3
<1>6. ASSUME NEW d \in Channel, Fix!Load(d) PROVE RepairBounds'
  <2> DEFINE next == [Fix!Blank EXCEPT !.step = "loaded", !.listed = advertised[d],
                                      !.desired = onHand]
  <2>1. /\ task' = [task EXCEPT ![d] = next] /\ used' = [used EXCEPT !["runs"] = @ + 1]
        /\ UNCHANGED <<shelf, onHand, advertised, shown, due, notices, corrects, touched>>
    BY <1>6 DEF Fix!Load, Fix!Use
  <2>2. next.theirs = 0 /\ 0 \in RepairFigure
    BY <1>1 DEF Fix!Blank, RepairFigure
  <2> HIDE DEF next
  <2>3. used'.sales = used.sales
    BY <1>1, <2>1
  <2>4. \A c \in Channel : task'[c].theirs \in RepairFigure
    BY <1>1, <2>1, <2>2 DEF RepairBounds
  <2> QED  BY <2>1, <2>3, <2>4 DEF RepairBounds, RepairFigure
<1>7. ASSUME NEW d \in Channel, Fix!Compare(d) PROVE RepairBounds'
  <2>1. /\ due' \subseteq due \cup {d}
        /\ UNCHANGED <<shelf, onHand, advertised, shown, notices, corrects, touched, used>>
    BY <1>7 DEF Fix!Compare
  <2> DEFINE theirs == IF shown[d] = Null THEN 0 ELSE shown[d].quantity
  <2>2. theirs \in RepairFigure
    BY <1>1 DEF RepairBounds, RepairFigure
  <2>3. PICK kinds, right, clear, why :
           task' = [task EXCEPT ![d] =
              [task[d] EXCEPT !.step = "reported", !.kinds = kinds, !.theirs = theirs,
                              !.right = right, !.clear = clear, !.why = why]]
    BY <1>7 DEF Fix!Compare
  <2> DEFINE next == [task[d] EXCEPT !.step = "reported", !.kinds = kinds, !.theirs = theirs,
                              !.right = right, !.clear = clear, !.why = why]
  <2> HIDE DEF theirs
  <2>4. task[d] \in Reconciling
    BY <1>1
  <2>5. next.theirs = theirs
    BY <2>4 DEF Reconciling
  <2>6. task' = [task EXCEPT ![d] = next]
    BY <2>3
  <2> HIDE DEF next
  <2>7. \A c \in Channel : task'[c].theirs \in RepairFigure
    BY <1>1, <2>2, <2>5, <2>6 DEF RepairBounds
  <2> QED  BY <2>1, <2>7 DEF RepairBounds, RepairFigure
<1>8. ASSUME NEW d \in Channel, Fix!SetLedger(d) PROVE RepairBounds'
  <2>1. /\ onHand' = task[d].theirs /\ due' \in {due, Channel}
        /\ task' = [task EXCEPT ![d] = Fix!Blank]
        /\ UNCHANGED <<shelf, advertised, shown, notices, corrects, touched, used>>
    BY <1>8 DEF Fix!SetLedger, Fix!SetOnHand
  <2>2. Fix!Blank.theirs = 0 /\ 0 \in RepairFigure
    BY <1>1 DEF Fix!Blank, RepairFigure
  <2>3. \A c \in Channel : task'[c].theirs \in RepairFigure
    BY <1>1, <2>1, <2>2 DEF RepairBounds
  <2> QED  BY <2>1, <2>3 DEF RepairBounds, RepairFigure
<1>9. CASE UNCHANGED Fix!vars
  BY <1>9 DEF Fix!vars, RepairBounds, RepairFigure
<1> QED  BY <1>2, <1>3, <1>4, <1>5, <1>6, <1>7, <1>8, <1>9 DEF Fix!Next

LEMMA RepairsTyped ==
    ASSUME Fix!Parameters, RepairIInv, RepairBounds PROVE Fix!TypeOK
<1>1. /\ RepairTyped /\ Stock \in Nat /\ MaxSales \in Nat /\ shelf \in Int
      /\ used.sales \in Nat /\ used.sales <= MaxSales /\ shelf = Stock - used.sales
  BY DEF RepairIInv, RepairTyped, Fix!Parameters, RepairBounds
<1>2. shelf \in (0 - MaxSales)..Stock
  BY <1>1
<1>3. advertised \in [Channel -> 0..(Stock + 1)]
  BY <1>1 DEF RepairTyped, RepairBounds, RepairFigure
<1>4. shown \in [Channel -> [quantity: 0..(Stock + 1), active: BOOLEAN] \cup {Null}]
  <2>1. \A c \in Channel : shown[c] \in [quantity: RepairFigure, active: BOOLEAN] \cup {Null}
    BY <1>1 DEF RepairTyped, RepairBounds, RepairListing
  <2> QED  BY <1>1, <2>1 DEF RepairTyped, RepairFigure
<1> QED  BY <1>2, <1>3, <1>4 DEF Fix!TypeOK, RepairBounds, RepairFigure

-------------------------------------------------------------------------------
\* What bounds the files: nothing exceeds what was put up, and a file holds what was there.
FilePrice == Price \cup {Null}

FileBounds ==
    /\ put \in [Sku -> 0..MaxPut]
    /\ onHand \in [Sku -> Nat] /\ \A s \in Sku : onHand[s] <= put[s]
    /\ advertised = [s \in Sku |-> 0] /\ mapped \subseteq Sku
    /\ price \in [Sku -> FilePrice] /\ shownPrice \in [Sku -> FilePrice]
    /\ \A file \in exports : \A s \in DOMAIN file : file[s].price \in FilePrice
    /\ sheets \subseteq SUBSET Fil!Sale /\ pricings \subseteq [Sku -> 0..MaxPut]
    /\ DOMAIN stored \subseteq sheets
    /\ \A sheet \in DOMAIN stored : stored[sheet] \in {"received", "processed"}
    /\ files \in 0..MaxFiles /\ fileEdits \in 0..MaxFileEdits

LEMMA FileBoundsInit ==
    ASSUME Fil!Parameters, Fil!Init PROVE FileBounds
<1>1. MaxPut \in Nat /\ MaxFiles \in Nat /\ MaxFileEdits \in Nat
  BY DEF Fil!Parameters
<1>2. DOMAIN stored = {}
  BY DEF Fil!Init
<1>3. put = [s \in Sku |-> 0] /\ onHand = [s \in Sku |-> 0]
  BY DEF Fil!Init
<1> QED  BY <1>1, <1>2, <1>3 DEF Fil!Init, FileBounds, FilePrice

\* The platform shows no more than was put up there.
LEMMA ShownIsPutUp ==
    ASSUME Fil!Parameters, FileIInv, FileBounds PROVE shown \in [Sku -> 0..MaxPut]
<1>1. shown \in [Sku -> Nat] /\ put \in [Sku -> 0..MaxPut] /\ MaxPut \in Nat
  BY DEF FileIInv, FileTyped, FileBounds, Fil!Parameters
<1>2. ASSUME NEW s \in Sku PROVE shown[s] \in 0..MaxPut
  <2>1. shown[s] + Cardinality(Fil!Bought(s)) = put[s] /\ Cardinality(Fil!Bought(s)) \in Nat
    BY BoughtIsFinite, SameSets DEF FileIInv, Fil!StockIsTheirs
  <2> QED  BY <1>1, <2>1
<1> QED  BY <1>1, <1>2

\* What the platform and its files change.
LEMMA FilePlatformBounded ==
    ASSUME Fil!Parameters, FileIInv, FileBounds,
           \/ \E s \in Sku : Fil!PutUp(s)
           \/ \E l \in Fil!Line, quantity \in 1..MaxPut : Fil!Buy(l, quantity)
           \/ \E l \in Fil!Line : Fil!Ship(l)
           \/ Fil!Download \/ Fil!DownloadPrices
           \/ \E file \in exports : Fil!UploadPrices(file)
    PROVE  FileBounds'
<1>1. /\ put \in [Sku -> 0..MaxPut] /\ onHand \in [Sku -> Nat] /\ MaxPut \in Nat
      /\ \A s \in Sku : onHand[s] <= put[s]
      /\ files \in 0..MaxFiles /\ MaxFiles \in Nat
  BY DEF FileBounds, Fil!Parameters
<1>2. ASSUME NEW d \in Sku, Fil!PutUp(d) PROVE FileBounds'
  <2>1. /\ put[d] < MaxPut /\ put' = [put EXCEPT ![d] = @ + 1]
        /\ onHand' = [onHand EXCEPT ![d] = @ + 1]
        /\ UNCHANGED <<shownPrice, sheets, pricings, exports, mapped, price, advertised, stored,
                       files, fileEdits>>
    BY <1>2 DEF Fil!PutUp, Fil!inbound, Fil!hand, Fil!bounds
  <2>2. put' \in [Sku -> 0..MaxPut] /\ onHand' \in [Sku -> Nat]
    BY <1>1, <2>1
  <2>3. \A s \in Sku : onHand'[s] <= put'[s]
    BY <1>1, <2>1
  <2> QED  BY <2>1, <2>2, <2>3 DEF FileBounds
<1>3. ASSUME NEW l \in Fil!Line, NEW quantity \in 1..MaxPut, Fil!Buy(l, quantity)
      PROVE  FileBounds'
  BY <1>3 DEF Fil!Buy, Fil!hand, Fil!ledger, Fil!inbound, Fil!bounds, FileBounds
<1>4. ASSUME NEW l \in Fil!Line, Fil!Ship(l) PROVE FileBounds'
  BY <1>4 DEF Fil!Ship, Fil!hand, Fil!ledger, Fil!inbound, Fil!history, Fil!bounds, FileBounds
<1>5. CASE Fil!Download
  <2>1. /\ files < MaxFiles /\ files' = files + 1
        /\ sheets' \in {sheets, sheets \cup {Fil!PullSheet}}
        /\ pricings' \in {pricings, pricings \cup {shown}}
        /\ UNCHANGED <<put, onHand, advertised, mapped, price, shownPrice, exports, stored,
                       fileEdits>>
    BY <1>5 DEF Fil!Download, Fil!platform, Fil!ledger, Fil!inbound, Fil!history
  <2>2. files' \in 0..MaxFiles
    BY <1>1, <2>1
  <2>3. Fil!PullSheet \in SUBSET Fil!Sale
    <3>1. ASSUME NEW l \in Fil!Line, awaiting[l] > 0 PROVE awaiting[l] \in 1..MaxPut
      <4>1. awaiting[l] \in Nat /\ ordered[l] \in 0..MaxPut /\ awaiting[l] <= ordered[l]
        BY DEF FileIInv, FileTyped, SalesInv, AwaitsOrdered
      <4> QED  BY <1>1, <3>1, <4>1
    <3> QED  BY <3>1 DEF Fil!PullSheet, Fil!Sale
  <2>4. shown \in [Sku -> 0..MaxPut]
    BY ShownIsPutUp
  <2>5. sheets' \subseteq SUBSET Fil!Sale /\ pricings' \subseteq [Sku -> 0..MaxPut]
        /\ DOMAIN stored \subseteq sheets'
    BY <2>1, <2>3, <2>4 DEF FileBounds
  <2> QED  BY <2>1, <2>2, <2>5 DEF FileBounds, Fil!Sale, Fil!Line
<1>6. CASE Fil!DownloadPrices
  <2>1. /\ files < MaxFiles /\ files' = files + 1
        /\ exports' = exports \cup {Fil!ExportListings}
        /\ UNCHANGED <<put, onHand, advertised, mapped, price, shownPrice, sheets, pricings,
                       stored, fileEdits>>
    BY <1>6 DEF Fil!DownloadPrices, Fil!platform, Fil!ledger, Fil!inbound, Fil!history
  <2>2. files' \in 0..MaxFiles
    BY <1>1, <2>1
  <2>3. \A s \in DOMAIN Fil!ExportListings : Fil!ExportListings[s].price \in FilePrice
    BY DEF Fil!ExportListings, Fil!Exported, FileBounds
  <2>4. \A file \in exports' : \A s \in DOMAIN file : file[s].price \in FilePrice
    BY <2>1, <2>3 DEF FileBounds
  <2> QED  BY <2>1, <2>2, <2>4 DEF FileBounds
<1>7. ASSUME NEW file \in exports, Fil!UploadPrices(file) PROVE FileBounds'
  <2>1. /\ shownPrice' = [s \in Sku |-> IF s \in DOMAIN file THEN file[s].price
                                        ELSE shownPrice[s]]
        /\ UNCHANGED <<put, onHand, advertised, mapped, price, sheets, pricings, exports,
                       stored, files, fileEdits>>
    BY <1>7 DEF Fil!UploadPrices, Fil!hand, Fil!ledger, Fil!inbound, Fil!history, Fil!bounds
  <2>2. shownPrice' \in [Sku -> FilePrice]
    BY <2>1 DEF FileBounds
  <2> QED  BY <2>1, <2>2 DEF FileBounds
<1> QED  BY <1>2, <1>3, <1>4, <1>5, <1>6, <1>7

\* What the hub changes.
LEMMA FileHubBounded ==
    ASSUME Fil!Parameters, FileIInv, FileBounds,
           \/ \E s \in Sku : Fil!MapListing(s) \/ Fil!SellElsewhere(s)
           \/ \E s \in Sku, p \in Price : Fil!EditPrice(s, p)
           \/ \E sheet \in sheets : Fil!UploadSheet(sheet)
           \/ \E sheet \in DOMAIN stored : Fil!Take(sheet)
           \/ \E sale \in Fil!Sale : Fil!ApplySale(sale)
           \/ Fil!Finish
           \/ \E file \in pricings : Fil!ImportInventory(file)
    PROVE  FileBounds'
<1>1. /\ put \in [Sku -> 0..MaxPut] /\ onHand \in [Sku -> Nat] /\ MaxPut \in Nat
      /\ \A s \in Sku : onHand[s] <= put[s] /\ put[s] \in Nat
      /\ fileEdits \in 0..MaxFileEdits /\ MaxFileEdits \in Nat
  BY DEF FileBounds, Fil!Parameters
<1>2. Fil!Edited => fileEdits' \in 0..MaxFileEdits
  BY <1>1 DEF Fil!Edited
<1>3. ASSUME NEW d \in Sku, Fil!MapListing(d) PROVE FileBounds'
  BY <1>2, <1>3 DEF Fil!MapListing, Fil!platform, Fil!hand, Fil!inbound, Fil!history, FileBounds
<1>4. ASSUME NEW d \in Sku, Fil!SellElsewhere(d) PROVE FileBounds'
  <2>1. /\ Fil!Edited /\ onHand[d] > 0 /\ onHand' = [onHand EXCEPT ![d] = @ - 1]
        /\ UNCHANGED <<put, advertised, mapped, price, shownPrice, sheets, pricings, exports,
                       stored, files>>
    BY <1>4 DEF Fil!SellElsewhere, Fil!platform, Fil!hand, Fil!inbound, Fil!history
  <2>2. onHand' \in [Sku -> Nat] /\ \A s \in Sku : onHand'[s] <= put[s]
    BY <1>1, <2>1
  <2> QED  BY <1>2, <2>1, <2>2 DEF FileBounds
<1>5. ASSUME NEW d \in Sku, NEW p \in Price, Fil!EditPrice(d, p) PROVE FileBounds'
  <2>1. /\ Fil!Edited /\ price' = [price EXCEPT ![d] = p]
        /\ UNCHANGED <<put, onHand, advertised, mapped, shownPrice, sheets, pricings, exports,
                       stored, files>>
    BY <1>5 DEF Fil!EditPrice, Fil!platform, Fil!hand, Fil!inbound, Fil!history
  <2>2. price' \in [Sku -> FilePrice]
    BY <2>1 DEF FileBounds, FilePrice
  <2> QED  BY <1>2, <2>1, <2>2 DEF FileBounds
<1>6. ASSUME NEW sheet \in sheets, Fil!UploadSheet(sheet) PROVE FileBounds'
  <2>1. /\ stored' = [x \in DOMAIN stored \cup {sheet} |->
                         IF x = sheet THEN "received" ELSE stored[x]]
        /\ UNCHANGED <<put, onHand, advertised, mapped, price, shownPrice, sheets, pricings,
                       exports, files, fileEdits>>
    BY <1>6 DEF Fil!UploadSheet, Fil!platform, Fil!hand, Fil!ledger, Fil!history, Fil!bounds
  <2>2. /\ DOMAIN stored' \subseteq sheets
        /\ \A x \in DOMAIN stored' : stored'[x] \in {"received", "processed"}
    BY <2>1 DEF FileBounds
  <2> QED  BY <2>1, <2>2 DEF FileBounds
<1>7. ASSUME NEW sheet \in DOMAIN stored, Fil!Take(sheet) PROVE FileBounds'
  BY <1>7 DEF Fil!Take, Fil!platform, Fil!hand, Fil!ledger, Fil!history, Fil!bounds, FileBounds
<1>8. ASSUME NEW sale \in Fil!Sale, Fil!ApplySale(sale) PROVE FileBounds'
  <2> DEFINE s == sale.line[2]
  <2>1. UNCHANGED <<put, advertised, mapped, price, shownPrice, sheets, pricings, exports,
                    stored, files, fileEdits>>
    BY <1>8 DEF Fil!ApplySale, Fil!platform, Fil!hand, Fil!bounds
  <2>2. s \in Sku /\ sale.quantity \in Nat /\ sale.quantity > 0
    BY <1>1 DEF Fil!Sale, Fil!Line
  <2>3. \/ onHand' = onHand
        \/ onHand' = [onHand EXCEPT ![s] = IF onHand[s] < sale.quantity THEN 0
                                           ELSE @ - sale.quantity]
    BY <1>8 DEF Fil!ApplySale
  <2> HIDE DEF s
  <2>4. onHand' \in [Sku -> Nat] /\ \A d \in Sku : onHand'[d] <= put[d]
    BY <1>1, <2>2, <2>3
  <2> QED  BY <2>1, <2>4 DEF FileBounds
<1>9. CASE Fil!Finish
  <2>1. /\ stored' = [stored EXCEPT ![task.sheet] = "processed"]
        /\ UNCHANGED <<put, onHand, advertised, mapped, price, shownPrice, sheets, pricings,
                       exports, files, fileEdits>>
    BY <1>9 DEF Fil!Finish, Fil!platform, Fil!hand, Fil!ledger, Fil!history, Fil!bounds
  <2>2. /\ DOMAIN stored' = DOMAIN stored
        /\ \A x \in DOMAIN stored : stored'[x] \in {"received", "processed"}
    BY <2>1 DEF FileBounds
  <2> QED  BY <2>1, <2>2 DEF FileBounds
<1>10. ASSUME NEW file \in pricings, Fil!ImportInventory(file) PROVE FileBounds'
  BY <1>10 DEF Fil!ImportInventory, Fil!platform, Fil!hand, Fil!ledger, Fil!history,
               Fil!bounds, FileBounds
<1> QED  BY <1>3, <1>4, <1>5, <1>6, <1>7, <1>8, <1>9, <1>10

LEMMA FileBoundsNext ==
    ASSUME Fil!Parameters, FileIInv, FileBounds, [Fil!Next]_(Fil!vars) PROVE FileBounds'
<1>1. CASE Fil!Next
  BY <1>1, FilePlatformBounded, FileHubBounded DEF Fil!Next
<1>2. CASE UNCHANGED Fil!vars
  BY <1>2 DEF Fil!vars, Fil!platform, Fil!hand, Fil!ledger, Fil!inbound, Fil!history,
              Fil!bounds, FileBounds
<1> QED  BY <1>1, <1>2

LEMMA FilesTyped ==
    ASSUME Fil!Parameters, FileIInv, FileBounds PROVE Fil!TypeOK
<1>1. shown \in [Sku -> 0..MaxPut]
  BY ShownIsPutUp
<1>2. MaxPut \in Nat
  BY DEF Fil!Parameters
<1>3. awaiting \in [Fil!Line -> 0..MaxPut]
  <2>1. \A l \in Fil!Line :
          awaiting[l] \in Nat /\ ordered[l] \in 0..MaxPut /\ awaiting[l] <= ordered[l]
    BY DEF FileIInv, FileTyped, SalesInv, AwaitsOrdered
  <2>2. \A l \in Fil!Line : awaiting[l] \in 0..MaxPut
    BY <1>2, <2>1
  <2> QED  BY <2>2 DEF FileIInv, FileTyped
<1>4. onHand \in [Sku -> 0..MaxPut] /\ advertised \in [Sku -> 0..MaxPut]
  BY <1>2 DEF FileBounds
<1>5. stored \in [DOMAIN stored -> {"received", "processed"}]
  BY DEF FileIInv, FileTyped, FileBounds
<1>6. task # Null => task.sheet \in DOMAIN stored /\ task.rest \subseteq task.sheet
  BY DEF FileIInv, SalesInv, JobFits
<1> QED  BY <1>1, <1>3, <1>4, <1>5, <1>6 DEF Fil!TypeOK, FileBounds, FilePrice

-------------------------------------------------------------------------------
\* The invariants of all that may run, and what bounds the three that are not bounded by them.
OperationsIInv ==
    /\ IInv /\ PlatformIInv /\ SettingsIInv /\ WorkIInv
    /\ subject \in {"sync", "settings", "notices", "bulk", "content", "requests", "repairs",
                    "files"}
    /\ subject = "requests" => RequestBounds
    /\ subject = "repairs" => RepairBounds
    /\ subject = "files" => FileBounds

AllParameters ==
    /\ Parameters /\ Sgn!Parameters /\ Not!Parameters /\ Blk!Parameters /\ Con!Parameters
    /\ Req!Parameters /\ Fix!Parameters /\ Fil!Parameters

LEMMA OperationsInit ==
    ASSUME AllParameters, AllInit PROVE OperationsIInv
<1>1. IInv /\ PlatformIInv /\ SettingsIInv /\ WorkIInv
  BY InitEstablishes, PlatformInit, SettingsInit, WorkInit DEF AllInit, AllParameters
<1>2. subject \in {"sync", "settings", "notices", "bulk", "content", "requests", "repairs",
                   "files"}
  BY DEF AllInit
<1>3. ASSUME subject = "requests" PROVE RequestBounds
  BY <1>3, RequestBoundsInit DEF AllInit, AllParameters
<1>4. ASSUME subject = "repairs" PROVE RepairBounds
  BY <1>4, RepairBoundsInit DEF AllInit, AllParameters
<1>5. ASSUME subject = "files" PROVE FileBounds
  BY <1>5, FileBoundsInit DEF AllInit, AllParameters
<1> QED  BY <1>1, <1>2, <1>3, <1>4, <1>5 DEF OperationsIInv

LEMMA OperationsNext ==
    ASSUME AllParameters, OperationsIInv, [AllNext]_allVars PROVE OperationsIInv'
<1>1. /\ IInv /\ PlatformIInv /\ SettingsIInv /\ WorkIInv
      /\ subject \in {"sync", "settings", "notices", "bulk", "content", "requests", "repairs",
                      "files"}
      /\ Parameters /\ Req!Parameters /\ Fix!Parameters /\ Fil!Parameters
  BY DEF OperationsIInv, AllParameters
<1>2. subject' = subject
  BY DEF AllNext, allVars
<1>3. [Next]_vars
  BY DEF AllNext, RequestNext, allVars
<1>4. IInv'
  BY <1>1, <1>3, NextKeeps
<1>5. PlatformIInv' /\ SettingsIInv' /\ WorkIInv'
  BY <1>1, PlatformNext, SettingsNext, WorkNext DEF AllParameters
<1>6. ASSUME subject = "requests" PROVE RequestBounds'
  <2>1. [Req!Next]_(Req!vars)
    BY <1>6 DEF AllNext, RequestNext, allVars, common, requestVars, Req!vars
  <2>2. RequestIInv /\ RequestIInv' /\ RequestBounds
    BY <1>1, <1>2, <1>5, <1>6 DEF PlatformIInv, OperationsIInv
  <2> QED  BY <1>1, <2>1, <2>2, RequestBoundsNext
<1>7. ASSUME subject = "repairs" PROVE RepairBounds'
  <2>1. [Fix!Next]_(Fix!vars)
    BY <1>7 DEF AllNext, RequestNext, allVars, common, stockVars, repairVars, Fix!vars
  <2>2. RepairIInv /\ RepairBounds
    BY <1>1, <1>7 DEF PlatformIInv, OperationsIInv
  <2> QED  BY <1>1, <2>1, <2>2, RepairBoundsNext
<1>8. ASSUME subject = "files" PROVE FileBounds'
  <2>1. UNCHANGED allVars => UNCHANGED Fil!vars
    BY DEF allVars, common, stockVars, fileVars, Fil!vars, Fil!platform, Fil!hand, Fil!ledger,
           Fil!inbound, Fil!history, Fil!bounds
  <2>2. [Fil!Next]_(Fil!vars)
    BY <1>8, <2>1 DEF AllNext, RequestNext
  <2>3. FileIInv /\ FileBounds
    BY <1>1, <1>8 DEF PlatformIInv, OperationsIInv
  <2> QED  BY <1>1, <2>2, <2>3, FileBoundsNext
<1> QED  BY <1>1, <1>2, <1>4, <1>5, <1>6, <1>7, <1>8 DEF OperationsIInv

LEMMA OperationsTyped ==
    ASSUME AllParameters, OperationsIInv PROVE AllTypeOK
<1>1. CASE subject = "sync"
  BY <1>1 DEF OperationsIInv, IInv, AllTypeOK
<1>2. CASE subject = "settings"
  BY <1>2, SignInInvariantSays DEF OperationsIInv, AllParameters, SettingsIInv, AllTypeOK
<1>3. CASE subject = "notices"
  BY <1>3, NoticeInvariantSays DEF OperationsIInv, AllParameters, SettingsIInv, AllTypeOK
<1>4. CASE subject = "bulk"
  BY <1>4, BulkInvariantSays DEF OperationsIInv, AllParameters, WorkIInv, AllTypeOK
<1>5. CASE subject = "content"
  BY <1>5, ContentInvariantSays DEF OperationsIInv, AllParameters, WorkIInv, AllTypeOK
<1>6. CASE subject = "requests"
  BY <1>6, RequestsTyped DEF OperationsIInv, AllParameters, PlatformIInv, AllTypeOK
<1>7. CASE subject = "repairs"
  BY <1>7, RepairsTyped DEF OperationsIInv, AllParameters, PlatformIInv, AllTypeOK
<1>8. CASE subject = "files"
  BY <1>8, FilesTyped DEF OperationsIInv, AllParameters, PlatformIInv, AllTypeOK
<1> QED  BY <1>1, <1>2, <1>3, <1>4, <1>5, <1>6, <1>7, <1>8 DEF OperationsIInv

\* Whatever runs, its variables keep their types and stay within what bounds them: a token is
\* one that was asked for, no figure exceeds the stock there was, no listing shows more than
\* was put up for sale.
THEOREM OperationsStayTyped == ASSUME AllParameters PROVE AllSpec => []AllTypeOK
<1>1. AllInit => OperationsIInv
  BY OperationsInit
<1>2. OperationsIInv /\ [AllNext]_allVars => OperationsIInv'
  BY OperationsNext
<1>3. OperationsIInv => AllTypeOK
  BY OperationsTyped
<1> QED  BY <1>1, <1>2, <1>3, PTL DEF AllSpec
================================================================================
