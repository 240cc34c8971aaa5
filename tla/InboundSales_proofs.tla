-------------------------- MODULE InboundSales_proofs --------------------------
(***************************************************************************)
(* InboundSales for any payloads, sales, attempts and workers: its types,  *)
(* that a sale decremented twice is explained by an application that left  *)
(* no "ok" row or by two that overlapped, and that a processed payload     *)
(* accounts for all of its sales.  The invariant is proved in layers: each *)
(* is preserved by a step from a state where all hold.                     *)
(***************************************************************************)
EXTENDS InboundSales, FiniteSetTheorems, TLAPS

USE DEF queue, run, history, vars

\* The invariant's layer of types and of where jobs and runs are.
Shape ==
    /\ TypeOK
    /\ IsFiniteSet(Active)
    /\ AttemptsLeft
    /\ RunsAreAtASale
    /\ RunsStartAtFirst

LEMMA CurrentIsSale ==
    ASSUME TypeOK, NEW p \in Payload, Selling(p)
    PROVE  /\ at[p] \in DOMAIN SalesIn[p]
           /\ Current(p) \in Sale
<1>1. SalesIn[p] \in Seq(Sale)
  BY PayloadAssumption
<1> QED
  BY <1>1 DEF TypeOK, Selling, Current

LEMMA InitIInv == Init => IInv
<1> SUFFICES ASSUME Init PROVE IInv
  OBVIOUS
<1>1. Active = {}
  BY DEF Init, Active
<1>2. IsFiniteSet(Active) /\ Cardinality(Active) = 0
  BY <1>1, FS_EmptySet
<1>3. TypeOK
  BY <1>2, LimitsAssumption DEF Init, TypeOK, Row, Outcome, JobState, Phase, Slip
<1> QED
  BY <1>2, <1>3
     DEF Init, IInv, AttemptsLeft, RunsAreAtASale, RunsStartAtFirst, TakenOnceWithoutSlip,
         AppliedMeansTaken, RunsAccountInOrder, ProcessedIsAccountedFor

\* As long as no job is picked, no more of them are active than were.
LEMMA FewerActive ==
    ASSUME Shape, Active' \subseteq Active
    PROVE  IsFiniteSet(Active)' /\ Cardinality(Active)' <= Concurrency
<1>1. /\ IsFiniteSet(Active') /\ Cardinality(Active') <= Cardinality(Active)
      /\ Cardinality(Active) \in Nat /\ Cardinality(Active') \in Nat
  BY FS_Subset, FS_CardinalityType DEF Shape
<1> QED
  BY <1>1, LimitsAssumption DEF Shape, TypeOK

LEMMA PickShape ==
    ASSUME Shape, NEW p \in Payload, Pick(p)
    PROVE  Shape'
<1>1. Active' = Active \cup {p} /\ p \notin Active
  BY DEF Pick, Active, Shape, TypeOK, JobState
<1>2. IsFiniteSet(Active') /\ Cardinality(Active') = Cardinality(Active) + 1
  BY <1>1, FS_AddElement DEF Shape
<1>3. Cardinality(Active') <= Concurrency
  BY <1>2, LimitsAssumption, FS_CardinalityType DEF Pick, Shape
<1>4. TypeOK'
  BY <1>3 DEF Pick, Shape, TypeOK, JobState, Phase
<1> QED
  BY <1>2, <1>4
     DEF Pick, Shape, TypeOK, AttemptsLeft, RunsAreAtASale, RunsStartAtFirst, Selling

\* What a step leaves of a run: another attempt, a failed or a completed job.
LEMMA ThrownShape ==
    ASSUME Shape, NEW p \in Payload, phase[p] # "idle", Thrown(p),
           UNCHANGED <<row, mapped, onHand, owed, taken>>,
           outcomes' \in [Sale -> SUBSET Outcome], slips' \in [Sale -> SUBSET Slip],
           troubles' \in 0..MaxTroubles
    PROVE  Shape'
<1>1. job[p] = "active" /\ attempts[p] < MaxAttempts
  BY DEF Shape, TypeOK, AttemptsLeft
<1>2. attempts[p] + 1 \in 0..MaxAttempts
  BY <1>1, LimitsAssumption DEF Shape, TypeOK
<1>3. /\ phase' = [phase EXCEPT ![p] = "idle"]
      /\ at' = [at EXCEPT ![p] = 1]
      /\ conflict' = [conflict EXCEPT ![p] = FALSE]
      /\ attempts' = [attempts EXCEPT ![p] = attempts[p] + 1]
      /\ stalls' = stalls
  BY DEF Thrown, EndRun
<1>4. \/ /\ attempts[p] + 1 >= MaxAttempts
         /\ job' = [job EXCEPT ![p] = "failed"] /\ abandoned' = abandoned \cup {p}
      \/ /\ ~(attempts[p] + 1 >= MaxAttempts)
         /\ job' = [job EXCEPT ![p] = "waiting"] /\ abandoned' = abandoned
  BY DEF Thrown, Fails, IsLastAttempt
<1>5. Active' \subseteq Active
  BY <1>4 DEF Active, Shape, TypeOK
<1>6. IsFiniteSet(Active)' /\ Cardinality(Active)' <= Concurrency
  BY <1>5, FewerActive
<1>7. TypeOK'
  BY <1>2, <1>3, <1>4, <1>6 DEF Shape, TypeOK, JobState, Phase
<1>8. AttemptsLeft'
  BY <1>2, <1>3, <1>4, LimitsAssumption DEF Shape, TypeOK, AttemptsLeft
<1>9. RunsAreAtASale' /\ RunsStartAtFirst'
  BY <1>3 DEF Shape, TypeOK, RunsAreAtASale, RunsStartAtFirst, Selling
<1> QED
  BY <1>6, <1>7, <1>8, <1>9 DEF Shape

LEMMA IngressShape ==
    ASSUME Shape,
           \/ \E w \in Webhook : Receive(w)
           \/ \E f \in File : Upload(f)
           \/ \E s \in Sale : LinkListing(s)
    PROVE  Shape'
<1>1. Active' \subseteq Active
  BY DEF Receive, Upload, LinkListing, Active
<1>2. IsFiniteSet(Active)' /\ Cardinality(Active)' <= Concurrency
  BY <1>1, FewerActive
<1>3. TypeOK'
  BY <1>2 DEF Receive, Upload, LinkListing, Shape, TypeOK, Row, Payload
<1> QED
  BY <1>2, <1>3
     DEF Receive, Upload, LinkListing, Shape, AttemptsLeft, RunsAreAtASale,
         RunsStartAtFirst, Selling

\* The queue's own steps other than a pick.
LEMMA QueueShape ==
    ASSUME Shape, NEW p \in Payload,
           Enqueue(p) \/ EnqueueFails(p) \/ Dies(p) \/ Recover(p) \/ Forget(p)
    PROVE  Shape'
<1>1. CASE Enqueue(p)
  <2>1. Active' \subseteq Active
    BY <1>1 DEF Enqueue, Active, Shape, TypeOK
  <2>2. IsFiniteSet(Active)' /\ Cardinality(Active)' <= Concurrency
    BY <2>1, FewerActive
  <2>3. TypeOK'
    BY <1>1, <2>2, LimitsAssumption DEF Enqueue, Shape, TypeOK, JobState
  <2>4. AttemptsLeft'
    BY <1>1, LimitsAssumption DEF Enqueue, Shape, TypeOK, AttemptsLeft
  <2> QED
    BY <1>1, <2>2, <2>3, <2>4
       DEF Enqueue, Shape, RunsAreAtASale, RunsStartAtFirst, Selling
<1>2. CASE EnqueueFails(p)
  <2>1. Active' \subseteq Active
    BY <1>2 DEF EnqueueFails, Active
  <2>2. IsFiniteSet(Active)' /\ Cardinality(Active)' <= Concurrency
    BY <2>1, FewerActive
  <2>3. TypeOK'
    BY <1>2, <2>2, LimitsAssumption DEF EnqueueFails, Trouble, Shape, TypeOK
  <2> QED
    BY <1>2, <2>2, <2>3
       DEF EnqueueFails, Shape, AttemptsLeft, RunsAreAtASale, RunsStartAtFirst, Selling
<1>3. CASE Dies(p)
  <2>1. Active' \subseteq Active
    BY <1>3 DEF Dies, Active
  <2>2. IsFiniteSet(Active)' /\ Cardinality(Active)' <= Concurrency
    BY <2>1, FewerActive
  <2>3. slips' \in [Sale -> SUBSET Slip]
    <3>1. CASE phase[p] = "sold"
      <4>1. Current(p) \in Sale
        BY <3>1, CurrentIsSale DEF Shape, RunsAreAtASale
      <4>2. slips' = [slips EXCEPT ![Current(p)] = slips[Current(p)] \cup {"killed"}]
        BY <1>3, <3>1 DEF Dies, Current
      <4> QED
        BY <4>1, <4>2 DEF Shape, TypeOK, Slip
    <3>2. CASE phase[p] # "sold"
      BY <1>3, <3>2 DEF Dies, Shape, TypeOK
    <3> QED
      BY <3>1, <3>2
  <2>4. TypeOK'
    BY <1>3, <2>2, <2>3, LimitsAssumption DEF Dies, EndRun, Trouble, Shape, TypeOK, Phase
  <2> QED
    BY <1>3, <2>2, <2>4
       DEF Dies, EndRun, Shape, TypeOK, AttemptsLeft, RunsAreAtASale, RunsStartAtFirst,
           Selling
<1>4. CASE Recover(p)
  <2>1. Active' \subseteq Active
    BY <1>4 DEF Recover, Fails, Active, Shape, TypeOK
  <2>2. IsFiniteSet(Active)' /\ Cardinality(Active)' <= Concurrency
    BY <2>1, FewerActive
  <2>3. TypeOK'
    BY <1>4, <2>2, LimitsAssumption DEF Recover, Fails, Shape, TypeOK, JobState
  <2> QED
    BY <1>4, <2>2, <2>3
       DEF Recover, Fails, Shape, TypeOK, AttemptsLeft, RunsAreAtASale, RunsStartAtFirst,
           Selling
<1>5. CASE Forget(p)
  <2>1. Active' \subseteq Active
    BY <1>5 DEF Forget, Active, Shape, TypeOK
  <2>2. IsFiniteSet(Active)' /\ Cardinality(Active)' <= Concurrency
    BY <2>1, FewerActive
  <2>3. TypeOK'
    BY <1>5, <2>2 DEF Forget, Shape, TypeOK, JobState
  <2> QED
    BY <1>5, <2>2, <2>3
       DEF Forget, Shape, TypeOK, AttemptsLeft, RunsAreAtASale, RunsStartAtFirst, Selling
<1> QED
  BY <1>1, <1>2, <1>3, <1>4, <1>5

\* A job that ends without another attempt owed to it: completed, or refused.
LEMMA CompletedShape ==
    ASSUME Shape, NEW p \in Payload, Completed(p),
           UNCHANGED <<row, outcomes, mapped, onHand, owed, history, troubles>>
    PROVE  Shape'
<1>1. Active' \subseteq Active
  BY DEF Completed, Active, Shape, TypeOK
<1>2. IsFiniteSet(Active)' /\ Cardinality(Active)' <= Concurrency
  BY <1>1, FewerActive
<1>3. TypeOK'
  BY <1>2 DEF Completed, EndRun, Shape, TypeOK, JobState, Phase
<1> QED
  BY <1>2, <1>3
     DEF Completed, EndRun, Shape, TypeOK, AttemptsLeft, RunsAreAtASale, RunsStartAtFirst,
         Selling

LEMMA RefusedShape ==
    ASSUME Shape, NEW p \in Payload, phase[p] # "idle", Refused(p),
           UNCHANGED <<row, outcomes, mapped, onHand, owed, taken, slips, troubles>>
    PROVE  Shape'
<1>1. attempts[p] + 1 \in 0..MaxAttempts
  BY LimitsAssumption DEF Shape, TypeOK, AttemptsLeft
<1>2. Active' \subseteq Active
  BY DEF Refused, Fails, Active, Shape, TypeOK
<1>3. IsFiniteSet(Active)' /\ Cardinality(Active)' <= Concurrency
  BY <1>2, FewerActive
<1>4. TypeOK'
  BY <1>1, <1>3 DEF Refused, EndRun, Fails, Shape, TypeOK, JobState, Phase
<1> QED
  BY <1>3, <1>4
     DEF Refused, EndRun, Fails, Shape, TypeOK, AttemptsLeft, RunsAreAtASale,
         RunsStartAtFirst, Selling

\* The handler's steps that leave its job where it is.
LEMMA WithinRunShape ==
    ASSUME Shape, NEW p \in Payload, phase[p] # "idle",
           phase' \in [Payload -> Phase], at' \in [Payload -> Nat \ {0}],
           \A q \in Payload \ {p} : phase'[q] = phase[q] /\ at'[q] = at[q],
           phase'[p] \notin {"idle", "picked"},
           phase'[p] \in {"begun", "sold"} => Selling(p) /\ at'[p] = at[p],
           conflict' \in [Payload -> BOOLEAN],
           row' \in [Payload -> Row], outcomes' \in [Sale -> SUBSET Outcome],
           onHand' \in 0..InitialOnHand, taken' \in [Sale -> Nat],
           slips' \in [Sale -> SUBSET Slip], troubles' \in 0..MaxTroubles,
           UNCHANGED <<mapped, queue, owed, abandoned>>
    PROVE  Shape'
<1>1. Active' \subseteq Active
  BY DEF Active
<1>2. IsFiniteSet(Active)' /\ Cardinality(Active)' <= Concurrency
  BY <1>1, FewerActive
<1>3. TypeOK'
  <2>1. \A q \in Payload : phase'[q] # "idle" => job'[q] = "active"
    BY DEF Shape, TypeOK
  <2> QED
    BY <1>2, <2>1 DEF Shape, TypeOK
<1>4. RunsAreAtASale' /\ RunsStartAtFirst'
  BY DEF Shape, TypeOK, RunsAreAtASale, RunsStartAtFirst, Selling
<1> QED
  BY <1>2, <1>3, <1>4 DEF Shape, AttemptsLeft

LEMMA HandlerShape ==
    ASSUME IInv, NEW p \in Payload, Step(p) \/ SaleThrows(p) \/ StepThrows(p)
    PROVE  Shape'
<1> Shape /\ TypeOK
  BY DEF IInv, Shape
<1> USE DEF Phase
<1>1. CASE Load(p)
  <2>1. CASE Completed(p) /\ troubles' = troubles
    BY <1>1, <2>1, CompletedShape DEF Load
  <2>2. CASE phase' = [phase EXCEPT ![p] = "next"] /\ UNCHANGED <<queue, at, conflict, troubles>>
    BY <1>1, <2>2, WithinRunShape DEF Load, TypeOK
  <2>3. CASE /\ Trouble
             /\ phase' = [phase EXCEPT ![p] = "unparsed"] /\ UNCHANGED <<queue, at, conflict>>
    <3>1. troubles' \in 0..MaxTroubles
      BY <2>3, LimitsAssumption DEF Trouble, TypeOK
    <3> QED
      BY <1>1, <2>3, <3>1, WithinRunShape DEF Load, TypeOK
  <2> QED
    BY <1>1, <2>1, <2>2, <2>3 DEF Load
<1>2. CASE MarkFailed(p)
  <2>1. CASE row[p] # "failed"
    <3>1. phase' = [phase EXCEPT ![p] = "unparsed"] /\ row' \in [Payload -> Row]
      BY <1>2, <2>1 DEF MarkFailed, TypeOK, Row
    <3> QED
      BY <1>2, <2>1, <3>1, WithinRunShape DEF MarkFailed, TypeOK
  <2>2. CASE ~(row[p] # "failed")
    BY <1>2, <2>2, RefusedShape DEF MarkFailed
  <2> QED
    BY <2>1, <2>2
<1>3. CASE SkipApplied(p)
  <2>1. phase' = [phase EXCEPT ![p] = "next"]
    BY <1>3 DEF SkipApplied, TypeOK
  <2> QED
    BY <1>3, <2>1, WithinRunShape DEF SkipApplied, TypeOK
<1>4. CASE RecordUnmapped(p)
  <2>1. phase' = [phase EXCEPT ![p] = "next"]
    BY <1>4 DEF RecordUnmapped, TypeOK
  <2>2. outcomes' \in [Sale -> SUBSET Outcome]
    BY <1>4, CurrentIsSale DEF RecordUnmapped, TypeOK, Outcome
  <2> QED
    BY <1>4, <2>1, <2>2, WithinRunShape DEF RecordUnmapped, TypeOK
<1>5. CASE Begin(p)
  BY <1>5, WithinRunShape DEF Begin, TypeOK
<1>6. CASE Commit(p)
  <2>1. Selling(p) /\ Current(p) \in Sale
    BY <1>6, CurrentIsSale DEF Commit, IInv, RunsAreAtASale
  <2>2. onHand' \in 0..InitialOnHand /\ taken' \in [Sale -> Nat]
    BY <1>6, <2>1, LimitsAssumption DEF Commit, TypeOK
  <2>3. slips' \in [Sale -> SUBSET Slip]
    BY <1>6, <2>1 DEF Commit, TypeOK, Slip
  <2>4. conflict' \in [Payload -> BOOLEAN]
    BY <1>6 DEF Commit, TypeOK
  <2> QED
    BY <1>6, <2>1, <2>2, <2>3, <2>4, WithinRunShape DEF Commit, TypeOK
<1>7. CASE Finish(p)
  <2>1. Selling(p) /\ Current(p) \in Sale
    BY <1>7, CurrentIsSale DEF Finish, IInv, RunsAreAtASale
  <2>2. outcomes' \in [Sale -> SUBSET Outcome]
    BY <1>7, <2>1 DEF Finish, TypeOK, Outcome
  <2>3. slips' \in [Sale -> SUBSET Slip]
    BY <1>7, <2>1 DEF Finish, TypeOK, Slip
  <2>4. troubles' \in 0..MaxTroubles /\ conflict' \in [Payload -> BOOLEAN]
    BY <1>7, LimitsAssumption DEF Finish, Trouble, TypeOK
  <2> QED
    BY <1>7, <2>1, <2>2, <2>3, <2>4, WithinRunShape DEF Finish, TypeOK
<1>8. CASE SaleThrows(p)
  <2>1. Selling(p) /\ Current(p) \in Sale
    BY <1>8, CurrentIsSale DEF SaleThrows, IInv, RunsAreAtASale
  <2>2. outcomes' \in [Sale -> SUBSET Outcome]
    BY <1>8, <2>1 DEF SaleThrows, TypeOK, Outcome
  <2>3. slips' \in [Sale -> SUBSET Slip]
    BY <1>8, <2>1 DEF SaleThrows, TypeOK, Slip
  <2>4. troubles' \in 0..MaxTroubles
    BY <1>8, LimitsAssumption DEF SaleThrows, Trouble, TypeOK
  <2> QED
    BY <1>8, <2>2, <2>3, <2>4, ThrownShape DEF SaleThrows
<1>9. CASE StepThrows(p)
  <2>1. troubles' \in 0..MaxTroubles
    BY <1>9, LimitsAssumption DEF StepThrows, Trouble, TypeOK
  <2> QED
    BY <1>9, <2>1, ThrownShape DEF StepThrows, TypeOK
<1>10. CASE MarkProcessed(p)
  <2>1. row' \in [Payload -> Row]
    BY <1>10 DEF MarkProcessed, TypeOK, Row
  <2> QED
    BY <1>10, <2>1, WithinRunShape DEF MarkProcessed, TypeOK
<1>11. CASE Complete(p)
  BY <1>11, CompletedShape DEF Complete
<1> QED
  BY <1>1, <1>2, <1>3, <1>4, <1>5, <1>6, <1>7, <1>8, <1>9, <1>10, <1>11 DEF Step

LEMMA NextShape ==
    ASSUME IInv, Next
    PROVE  Shape'
<1> Shape
  BY DEF IInv, Shape
<1>1. CASE Ingress \/ \E s \in Sale : LinkListing(s)
  BY <1>1, IngressShape DEF Ingress
<1>2. ASSUME NEW p \in Payload, Pick(p)
      PROVE  Shape'
  BY <1>2, PickShape
<1>3. ASSUME NEW p \in Payload,
             Enqueue(p) \/ EnqueueFails(p) \/ Dies(p) \/ Recover(p) \/ Forget(p)
      PROVE  Shape'
  BY <1>3, QueueShape
<1>4. ASSUME NEW p \in Payload, Step(p) \/ SaleThrows(p) \/ StepThrows(p)
      PROVE  Shape'
  BY <1>4, HandlerShape
<1> QED
  BY <1>1, <1>2, <1>3, <1>4 DEF Next

-------------------------------------------------------------------------------
(***************************************************************************)
(* How often a sale is taken.                                              *)
(***************************************************************************)

TakenRight == TakenOnceWithoutSlip /\ AppliedMeansTaken

\* A step that takes nothing, writes no "ok" and leaves the runs between a commit and
\* its row alone disturbs nothing.
LEMMA SoldRunsGoOn ==
    ASSUME IInv, UNCHANGED <<taken, slips>>,
           \A s \in Sale : "ok" \in outcomes'[s] <=> "ok" \in outcomes[s],
           \A q \in Payload : phase'[q] = "sold" <=> phase[q] = "sold",
           \A q \in Payload : phase[q] = "sold" => at'[q] = at[q]
    PROVE  TakenRight'
<1>1. \A q \in Payload : phase[q] = "sold" => Current(q)' = Current(q)
  BY DEF Current
<1> QED
  BY <1>1 DEF IInv, TakenRight, TakenOnceWithoutSlip, AppliedMeansTaken

\* A run that leaves the window between a commit and its row without an "ok" leaves a
\* slip at its sale.
LEMMA SoldRunSlips ==
    ASSUME IInv, NEW p \in Payload, phase[p] = "sold", phase'[p] # "sold",
           taken' = taken,
           \A q \in Payload \ {p} : phase'[q] = phase[q] /\ at'[q] = at[q],
           \A s \in Sale : "ok" \in outcomes'[s] <=> "ok" \in outcomes[s],
           \A s \in Sale \ {Current(p)} : slips'[s] = slips[s],
           slips'[Current(p)] # {}
    PROVE  TakenRight'
<1>1. \A q \in Payload \ {p} : Current(q)' = Current(q)
  BY DEF Current
<1>2. ASSUME NEW s \in Sale, slips'[s] = {}, taken'[s] > 0
      PROVE  /\ taken'[s] = 1
             /\ \/ "ok" \in outcomes'[s]
                \/ \E q \in Payload : phase'[q] = "sold" /\ Current(q)' = s
  <2>1. s # Current(p) /\ slips[s] = {} /\ taken[s] > 0
    BY <1>2
  <2> QED
    BY <1>1, <2>1 DEF IInv, TakenOnceWithoutSlip
<1> QED
  BY <1>1, <1>2 DEF IInv, TakenRight, TakenOnceWithoutSlip, AppliedMeansTaken

\* A commit for a sale that was taken already finds, if no slip is on record, either its
\* "ok" row or the run that is about to write it: the check is stale and that is a slip.
LEMMA CommitTaken ==
    ASSUME IInv, NEW p \in Payload, Commit(p)
    PROVE  TakenRight'
<1> DEFINE s == Current(p)
<1>1. s \in Sale /\ phase[p] = "begun"
  BY CurrentIsSale DEF Commit, IInv, RunsAreAtASale
<1>2. \A q \in Payload : Current(q)' = Current(q)
  BY DEF Commit, Current
<1>3. /\ taken' = [taken EXCEPT ![s] = taken[s] + 1]
      /\ slips' = [slips EXCEPT ![s] = IF CheckIsStale(p) THEN slips[s] \cup {"overlap"}
                                                         ELSE slips[s]]
      /\ phase' = [phase EXCEPT ![p] = "sold"]
      /\ outcomes' = outcomes
  BY DEF Commit
<1>4. \A q \in Payload : phase'[q] = "sold" <=> phase[q] = "sold" \/ q = p
  BY <1>1, <1>3 DEF IInv, TypeOK
<1>5. \A t \in Sale : /\ taken[t] \in Nat
                      /\ taken'[t] = IF t = s THEN taken[t] + 1 ELSE taken[t]
  BY <1>1, <1>3 DEF IInv, TypeOK
<1>6. AppliedMeansTaken'
  <2>1. \A t \in Sale : taken[t] > 0 => taken'[t] > 0
    BY <1>5
  <2>2. taken'[s] > 0
    BY <1>1, <1>5
  <2>3. \A q \in Payload : phase[q] = "sold" => Current(q) \in Sale
    BY CurrentIsSale DEF IInv, RunsAreAtASale
  <2> QED
    BY <1>2, <1>3, <1>4, <2>1, <2>2, <2>3 DEF IInv, AppliedMeansTaken
<1>7. ASSUME slips'[s] = {} PROVE taken[s] = 0
  <2>1. ~CheckIsStale(p) /\ slips[s] = {}
    BY <1>1, <1>3, <1>7 DEF IInv, TypeOK
  <2>2. SUFFICES ASSUME taken[s] > 0 PROVE FALSE
    BY <1>1, <1>5
  <2>3. \/ "ok" \in outcomes[s]
        \/ \E q \in Payload : phase[q] = "sold" /\ Current(q) = s
    BY <1>1, <2>1, <2>2 DEF IInv, TakenOnceWithoutSlip
  <2> QED
    BY <1>1, <2>1, <2>3 DEF CheckIsStale, AlreadyApplied
<1>8. ASSUME NEW t \in Sale, slips'[t] = {}, taken'[t] > 0
      PROVE  /\ taken'[t] = 1
             /\ \/ "ok" \in outcomes'[t]
                \/ \E q \in Payload : phase'[q] = "sold" /\ Current(q)' = t
  <2>1. CASE t = s
    BY <1>2, <1>4, <1>5, <1>7, <1>8, <2>1
  <2>2. CASE t # s
    <3>1. slips[t] = {} /\ taken[t] > 0
      BY <1>1, <1>3, <1>5, <1>8, <2>2 DEF IInv, TypeOK
    <3> QED
      BY <1>2, <1>3, <1>4, <1>5, <2>2, <3>1 DEF IInv, TakenOnceWithoutSlip
  <2> QED
    BY <2>1, <2>2
<1> QED
  BY <1>6, <1>8 DEF TakenRight, TakenOnceWithoutSlip

LEMMA FinishTaken ==
    ASSUME IInv, NEW p \in Payload, Finish(p)
    PROVE  TakenRight'
<1> DEFINE s == Current(p)
<1>1. s \in Sale /\ phase[p] = "sold" /\ taken[s] > 0
  BY CurrentIsSale DEF Finish, IInv, RunsAreAtASale, AppliedMeansTaken
<1>2. /\ taken' = taken
      /\ phase'[p] = "next"
      /\ \A q \in Payload \ {p} : phase'[q] = phase[q] /\ at'[q] = at[q]
  BY DEF Finish, IInv, TypeOK
<1>3. CASE conflict[p] = FALSE /\ outcomes' = [outcomes EXCEPT ![s] = outcomes[s] \cup {"ok"}]
           /\ slips' = slips
  <2>1. \A t \in Sale : "ok" \in outcomes'[t] <=> "ok" \in outcomes[t] \/ t = s
    BY <1>1, <1>3 DEF IInv, TypeOK
  <2>2. \A q \in Payload \ {p} : Current(q)' = Current(q)
    BY <1>2 DEF Current
  <2> QED
    BY <1>1, <1>2, <1>3, <2>1, <2>2
       DEF IInv, TakenRight, TakenOnceWithoutSlip, AppliedMeansTaken
<1>4. CASE \E x \in Slip : slips' = [slips EXCEPT ![s] = slips[s] \cup {x}]
                          /\ \/ outcomes' = outcomes
                             \/ outcomes' = [outcomes EXCEPT ![s] = outcomes[s] \cup {"conflict"}]
  <2>1. /\ \A t \in Sale : "ok" \in outcomes'[t] <=> "ok" \in outcomes[t]
        /\ \A t \in Sale \ {s} : slips'[t] = slips[t]
        /\ slips'[s] # {}
    BY <1>1, <1>4 DEF IInv, TypeOK
  <2> QED
    BY <1>1, <1>2, <2>1, SoldRunSlips
<1> QED
  BY <1>1, <1>3, <1>4 DEF Finish, Slip, IInv, TypeOK

LEMMA NextTaken ==
    ASSUME IInv, Next
    PROVE  TakenRight'
<1>1. CASE Ingress \/ \E s \in Sale : LinkListing(s)
  BY <1>1, SoldRunsGoOn DEF Ingress, Receive, Upload, LinkListing
<1>2. ASSUME NEW p \in Payload,
             Enqueue(p) \/ EnqueueFails(p) \/ Pick(p) \/ Recover(p) \/ Forget(p)
      PROVE  TakenRight'
  <2>1. /\ UNCHANGED <<taken, slips, outcomes, at>>
        /\ \A q \in Payload : phase'[q] = "sold" <=> phase[q] = "sold"
    BY <1>2 DEF Enqueue, EnqueueFails, Pick, Recover, Forget, IInv, TypeOK
  <2> QED
    BY <2>1, SoldRunsGoOn
<1>3. ASSUME NEW p \in Payload, Dies(p)
      PROVE  TakenRight'
  <2>1. /\ taken' = taken /\ outcomes' = outcomes /\ phase'[p] = "idle"
        /\ \A q \in Payload \ {p} : phase'[q] = phase[q] /\ at'[q] = at[q]
    BY <1>3 DEF Dies, EndRun, IInv, TypeOK
  <2>2. CASE phase[p] = "sold"
    <3>1. Current(p) \in Sale
      BY <2>2, CurrentIsSale DEF IInv, RunsAreAtASale
    <3>2. slips' = [slips EXCEPT ![Current(p)] = slips[Current(p)] \cup {"killed"}]
      BY <1>3, <2>2 DEF Dies, Current
    <3>3. /\ slips'[Current(p)] # {}
          /\ \A t \in Sale \ {Current(p)} : slips'[t] = slips[t]
      BY <3>1, <3>2 DEF IInv, TypeOK
    <3> QED
      BY <2>1, <2>2, <3>3, SoldRunSlips
  <2>3. CASE phase[p] # "sold"
    BY <1>3, <2>1, <2>3, SoldRunsGoOn DEF Dies
  <2> QED
    BY <2>2, <2>3
<1>4. ASSUME NEW p \in Payload, SaleThrows(p)
      PROVE  TakenRight'
  <2>1. Current(p) \in Sale
    BY <1>4, CurrentIsSale DEF SaleThrows, IInv, RunsAreAtASale
  <2>2. /\ taken' = taken /\ phase'[p] = "idle"
        /\ \A q \in Payload \ {p} : phase'[q] = phase[q] /\ at'[q] = at[q]
        /\ \A t \in Sale : "ok" \in outcomes'[t] <=> "ok" \in outcomes[t]
    BY <1>4, <2>1 DEF SaleThrows, Thrown, EndRun, IInv, TypeOK
  <2>3. CASE phase[p] = "sold"
    <3>1. /\ slips'[Current(p)] # {}
          /\ \A t \in Sale \ {Current(p)} : slips'[t] = slips[t]
      BY <1>4, <2>1, <2>3 DEF SaleThrows, IInv, TypeOK
    <3> QED
      BY <2>2, <2>3, <3>1, SoldRunSlips
  <2>4. CASE phase[p] # "sold"
    <3>1. slips' = slips
      BY <1>4, <2>1, <2>4 DEF SaleThrows, IInv, TypeOK
    <3> QED
      BY <2>2, <2>4, <3>1, SoldRunsGoOn
  <2> QED
    BY <2>3, <2>4
<1>5. ASSUME NEW p \in Payload,
             Load(p) \/ MarkFailed(p) \/ SkipApplied(p) \/ RecordUnmapped(p) \/ Begin(p)
                \/ MarkProcessed(p) \/ Complete(p) \/ StepThrows(p)
      PROVE  TakenRight'
  <2>1. /\ UNCHANGED <<taken, slips>>
        /\ \A q \in Payload : phase'[q] = "sold" <=> phase[q] = "sold"
        /\ \A q \in Payload : phase[q] = "sold" => at'[q] = at[q]
    BY <1>5 DEF Load, Completed, MarkFailed, Refused, SkipApplied, RecordUnmapped, Begin,
                MarkProcessed, Complete, StepThrows, Thrown, EndRun, IInv, TypeOK
  <2>2. \A s \in Sale : "ok" \in outcomes'[s] <=> "ok" \in outcomes[s]
    <3>1. CASE RecordUnmapped(p)
      BY <3>1, CurrentIsSale DEF RecordUnmapped, IInv, TypeOK
    <3>2. CASE ~RecordUnmapped(p)
      BY <1>5, <3>2 DEF Load, MarkFailed, SkipApplied, Begin, MarkProcessed, Complete,
                        StepThrows
    <3> QED
      BY <3>1, <3>2
  <2> QED
    BY <2>1, <2>2, SoldRunsGoOn
<1> QED
  BY <1>1, <1>2, <1>3, <1>4, <1>5, CommitTaken, FinishTaken DEF Next, Step

-------------------------------------------------------------------------------
(***************************************************************************)
(* What a run has accounted for.                                           *)
(***************************************************************************)

AccountsRight == RunsAccountInOrder /\ ProcessedIsAccountedFor

\* What is accounted for stays so: rows of outcomes are added, decrements counted.
LEMMA AccountedStays ==
    ASSUME IInv, Next
    PROVE  \A s \in Sale : Accounted(s) => Accounted(s)'
<1> USE DEF IInv, TypeOK
<1>1. CASE Ingress \/ \E s \in Sale : LinkListing(s)
  BY <1>1 DEF Ingress, Receive, Upload, LinkListing, Accounted
<1>2. ASSUME NEW p \in Payload,
             \/ Enqueue(p) \/ EnqueueFails(p) \/ Pick(p) \/ Dies(p) \/ Recover(p)
             \/ Forget(p) \/ Load(p) \/ MarkFailed(p) \/ SkipApplied(p) \/ Begin(p)
             \/ MarkProcessed(p) \/ Complete(p) \/ StepThrows(p)
      PROVE  UNCHANGED <<outcomes, taken>>
  BY <1>2 DEF Enqueue, EnqueueFails, Pick, Dies, Recover, Forget, Load, MarkFailed,
              SkipApplied, Begin, MarkProcessed, Complete, StepThrows
<1>3. ASSUME NEW p \in Payload,
             RecordUnmapped(p) \/ Commit(p) \/ Finish(p) \/ SaleThrows(p)
      PROVE  \A s \in Sale : taken[s] > 0 => taken'[s] > 0
  BY <1>3 DEF RecordUnmapped, Commit, Finish, SaleThrows
<1>4. ASSUME NEW p \in Payload,
             RecordUnmapped(p) \/ Commit(p) \/ Finish(p) \/ SaleThrows(p)
      PROVE  \A s \in Sale : outcomes[s] \subseteq outcomes'[s]
  BY <1>4 DEF RecordUnmapped, Commit, Finish, SaleThrows
<1> QED
  BY <1>1, <1>2, <1>3, <1>4 DEF Next, Step, Accounted

\* A step leaves a run where it is, or begins it, or brings it past a sale that it
\* accounts for, or ends it past the last.
LEMMA RunsStepInOrder ==
    ASSUME IInv, Next, NEW p \in Payload
    PROVE  /\ phase'[p] \in {"next", "begun", "sold"} =>
               \/ phase[p] = "picked" /\ at'[p] = at[p]
               \/ phase[p] \in {"next", "begun", "sold"} /\ at'[p] = at[p]
               \/ /\ phase[p] \in {"next", "sold"} /\ at'[p] = at[p] + 1
                  /\ Selling(p) /\ \A s \in Sale : s = Current(p) => Accounted(s)'
           /\ phase'[p] = "done" =>
               \/ phase[p] = "done"
               \/ phase[p] = "next" /\ ~Selling(p)
<1> USE DEF IInv, TypeOK
<1>1. CASE Ingress \/ \E s \in Sale : LinkListing(s)
  BY <1>1 DEF Ingress, Receive, Upload, LinkListing
<1>2. ASSUME NEW q \in Payload, q # p,
             \/ Enqueue(q) \/ EnqueueFails(q) \/ Pick(q) \/ Step(q) \/ SaleThrows(q)
             \/ StepThrows(q) \/ Dies(q) \/ Recover(q) \/ Forget(q)
      PROVE  phase'[p] = phase[p] /\ at'[p] = at[p]
  BY <1>2 DEF Enqueue, EnqueueFails, Pick, Dies, Recover, Forget, Step, Load, MarkFailed,
              SkipApplied, RecordUnmapped, Begin, Commit, Finish, MarkProcessed, Complete,
              SaleThrows, StepThrows, Completed, Refused, Thrown, EndRun
<1>3. CASE \/ Enqueue(p) \/ EnqueueFails(p) \/ Recover(p) \/ Forget(p)
  BY <1>3 DEF Enqueue, EnqueueFails, Recover, Forget
<1>4. CASE \/ Pick(p) \/ MarkFailed(p) \/ Complete(p) \/ SaleThrows(p) \/ StepThrows(p)
           \/ Dies(p)
  <2>1. phase'[p] \in {"picked", "idle", "unparsed"}
    BY <1>4 DEF Pick, MarkFailed, Complete, SaleThrows, StepThrows, Dies, Completed, Refused,
                Thrown, EndRun
  <2> QED
    BY <2>1
<1>5. CASE Load(p) \/ Begin(p) \/ Commit(p) \/ MarkProcessed(p)
  BY <1>5 DEF Load, Completed, EndRun, Begin, Commit, MarkProcessed
<1>6. CASE SkipApplied(p) \/ RecordUnmapped(p) \/ Finish(p)
  <2>1. Selling(p) /\ Current(p) \in Sale
    BY <1>6, CurrentIsSale DEF SkipApplied, RecordUnmapped, Finish, RunsAreAtASale
  <2>2. Accounted(Current(p)) \/ "unmapped" \in outcomes'[Current(p)]
    BY <1>6, <2>1
       DEF SkipApplied, AlreadyApplied, RecordUnmapped, Finish, AppliedMeansTaken, Accounted
  <2>3. taken' = taken /\ \A s \in Sale : outcomes[s] \subseteq outcomes'[s]
    BY <1>6 DEF SkipApplied, RecordUnmapped, Finish
  <2>4. /\ phase'[p] = "next" /\ at'[p] = at[p] + 1
        /\ phase[p] \in {"next", "sold"}
    BY <1>6 DEF SkipApplied, RecordUnmapped, Finish
  <2>5. ASSUME NEW s \in Sale, Accounted(s) \/ "unmapped" \in outcomes'[s]
        PROVE  Accounted(s)'
    BY <2>3, <2>5 DEF Accounted
  <2>6. \A s \in Sale : s = Current(p) => Accounted(s)'
    BY <2>2, <2>5
  <2> QED
    BY <2>1, <2>4, <2>6
<1> QED
  BY <1>1, <1>2, <1>3, <1>4, <1>5, <1>6 DEF Next, Step

LEMMA NextAccounts ==
    ASSUME IInv, Next
    PROVE  AccountsRight'
<1>1. \A s \in Sale : Accounted(s) => Accounted(s)'
  BY AccountedStays
<1>2. \A p \in Payload : \A i \in DOMAIN SalesIn[p] :
        i \in 1..Len(SalesIn[p]) /\ SalesIn[p][i] \in Sale
  BY PayloadAssumption
<1>3. ASSUME NEW p \in Payload, NEW i \in DOMAIN SalesIn[p],
             phase'[p] \in {"next", "begun", "sold"}, i < at'[p]
      PROVE  Accounted(SalesIn[p][i])'
  <2> DEFINE s == SalesIn[p][i]
  <2>1. s \in Sale /\ i \in Nat \ {0} /\ at[p] \in Nat \ {0}
    BY <1>2 DEF IInv, TypeOK
  <2>2. CASE phase[p] = "picked" /\ at'[p] = at[p]
    <3>1. at[p] = 1
      BY <2>2 DEF IInv, RunsStartAtFirst
    <3> QED
      BY <1>3, <2>1, <2>2, <3>1
  <2>3. CASE phase[p] \in {"next", "begun", "sold"} /\ at'[p] = at[p]
    <3>1. Accounted(s)
      BY <1>3, <2>3 DEF IInv, RunsAccountInOrder
    <3> QED
      BY <1>1, <2>1, <3>1
  <2>4. CASE /\ phase[p] \in {"next", "sold"} /\ at'[p] = at[p] + 1
             /\ Selling(p) /\ \A t \in Sale : t = Current(p) => Accounted(t)'
    <3>1. CASE i < at[p]
      <4>1. Accounted(s)
        BY <2>4, <3>1 DEF IInv, RunsAccountInOrder
      <4> QED
        BY <1>1, <2>1, <4>1
    <3>2. CASE i = at[p]
      <4>1. s = Current(p)
        BY <3>2 DEF Current
      <4> QED
        BY <2>1, <2>4, <4>1
    <3> QED
      BY <1>3, <2>1, <2>4, <3>1, <3>2
  <2> QED
    BY <1>3, <2>2, <2>3, <2>4, RunsStepInOrder
<1>4. ASSUME NEW p \in Payload, phase[p] = "next", ~Selling(p), NEW i \in DOMAIN SalesIn[p]
      PROVE  Accounted(SalesIn[p][i])'
  <2>1. i < at[p] /\ SalesIn[p][i] \in Sale
    BY <1>2, <1>4, PayloadAssumption DEF Selling, IInv, TypeOK
  <2> QED
    BY <1>1, <1>4, <2>1 DEF IInv, RunsAccountInOrder
<1>5. ASSUME NEW p \in Payload, phase'[p] = "done", NEW i \in DOMAIN SalesIn[p]
      PROVE  Accounted(SalesIn[p][i])'
  <2>1. CASE phase[p] = "done"
    BY <1>1, <1>2, <2>1 DEF IInv, RunsAccountInOrder
  <2> QED
    BY <1>4, <1>5, <2>1, RunsStepInOrder
<1>6. RunsAccountInOrder'
  BY <1>3, <1>5 DEF RunsAccountInOrder
<1>7. ASSUME NEW p \in Payload, row'[p] = "processed"
      PROVE  row[p] = "processed" \/ (phase[p] = "next" /\ ~Selling(p))
  BY <1>7
     DEF Next, Ingress, Receive, Upload, LinkListing, Enqueue, EnqueueFails, Pick, Step, Load,
         MarkFailed, SkipApplied, RecordUnmapped, Begin, Commit, Finish, MarkProcessed,
         Complete, SaleThrows, StepThrows, Dies, Recover, Forget, IInv, TypeOK
<1>8. ProcessedIsAccountedFor'
  <2>1. ASSUME NEW p \in Payload, row'[p] = "processed", NEW i \in DOMAIN SalesIn[p]
        PROVE  Accounted(SalesIn[p][i])'
    <3>1. CASE row[p] = "processed"
      <4>1. Accounted(SalesIn[p][i])
        BY <3>1 DEF IInv, ProcessedIsAccountedFor, Accounted
      <4> QED
        BY <1>1, <1>2, <4>1
    <3> QED
      BY <1>4, <1>7, <2>1, <3>1
  <2> QED
    BY <2>1 DEF ProcessedIsAccountedFor, Accounted
<1> QED
  BY <1>6, <1>8 DEF AccountsRight

-------------------------------------------------------------------------------
(***************************************************************************)
(* The invariant and what follows from it.                                 *)
(***************************************************************************)

LEMMA NextIInv ==
    ASSUME IInv, Next
    PROVE  IInv'
BY NextShape, NextTaken, NextAccounts DEF IInv, Shape, TakenRight, AccountsRight

LEMMA StutterIInv ==
    ASSUME IInv, UNCHANGED vars
    PROVE  IInv'
BY DEF IInv, TypeOK, Active, AttemptsLeft, RunsAreAtASale, RunsStartAtFirst, Selling,
       TakenOnceWithoutSlip, Current, AppliedMeansTaken, RunsAccountInOrder, Accounted,
       ProcessedIsAccountedFor

\* The invariant holds in every reachable state of ingress, queue and worker.
THEOREM IInvInvariant == Spec => []IInv
<1>1. IInv /\ [Next]_vars => IInv'
  BY NextIInv, StutterIInv
<1> QED
  BY <1>1, InitIInv, PTL DEF Spec

\* Rows, outcomes, jobs and runs keep their types, attempts their budget and the worker
\* its concurrency, for every number of payloads and workers.
THEOREM TypeCorrect == Spec => []TypeOK
<1>1. IInv => TypeOK
  BY DEF IInv
<1> QED
  BY <1>1, IInvInvariant, PTL

\* A sale decremented twice has a slip on record: the per-sale check of applySale stops
\* every other redelivery, retry or repeated listing of it.
THEOREM AppliedTwice == Spec => []AppliedTwiceIsExplained
<1>1. IInv => AppliedTwiceIsExplained
  BY DEF IInv, TypeOK, TakenOnceWithoutSlip, AppliedTwiceIsExplained
<1> QED
  BY <1>1, IInvInvariant, PTL

\* A payload is marked processed only when every sale it lists was decremented or
\* recorded as unmapped, whatever failed and was retried on the way.
THEOREM Processed == Spec => []ProcessedIsAccountedFor
<1>1. IInv => ProcessedIsAccountedFor
  BY DEF IInv
<1> QED
  BY <1>1, IInvInvariant, PTL

================================================================================
