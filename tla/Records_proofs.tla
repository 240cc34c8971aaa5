----------------------------- MODULE Records_proofs -----------------------------
(***************************************************************************)
(* Proofs about what MC_Records puts side by side, for any fields,         *)
(* references, people, items and requests.  Channels: however saves and    *)
(* removals interleave, a channel's credentials and allocations come and   *)
(* go with it.  Accounts: an administrator remains, setup happens once and *)
(* an old password is of no use.  Listings: one product to a card, one     *)
(* item to a listing.  Each up to what lapse has on record.                *)
(***************************************************************************)
EXTENDS MC_Records, FiniteSetTheorems, SequenceTheorems, WellFoundedInduction, TLAPS


ChangeType == [secrets: SUBSET Field, config: SUBSET Field,
               autoList: BOOLEAN \cup {Null}, defaults: BOOLEAN \cup {Null}]

Step == {"idle", "store", "insert", "read", "put", "check", "write", "uncredential", "delete"}

Job == [step: Step, change: ChangeType, row: Channel \cup {Null}, stored: SUBSET Field,
        ref: Ref \cup {Null}]

Lapse == {"overlap", "unreadable", "refused", "broken", "halfRemoved", "late"}

Bundle == [secrets: SUBSET Field, config: SUBSET Field]

Used == [requests: 0..MaxRequests, mishaps: 0..MaxMishaps]

Typed ==
    /\ channel \in Channel \cup {Null}
    /\ credentials \in [Ref -> (SUBSET Field) \cup {Null}]
    /\ allocations \in 0..1 /\ cascaded \in Nat
    /\ given \in Bundle /\ used \in Used
    /\ request \in [Request -> Job]
    /\ lapse \subseteq Lapse

-------------------------------------------------------------------------------
(***************************************************************************)
(* The inductive invariant.                                                *)
(***************************************************************************)
Creating(r) == request[r].step \in {"store", "insert"}
Saving(r) == request[r].step \in {"read", "put", "check", "write"}
Settled(r) == request[r].step \in {"check", "write"}

\* The channel's credentials are gone, or are going, with it.
Dropped == "halfRemoved" \in lapse \/ \E r \in Request : At(r, "delete")

\* What a request carries at each of its steps.
JobFits(r) ==
    /\ At(r, "idle") => request[r] = Idle
    /\ request[r].step \in {"store", "put", "uncredential"} => request[r].ref \in Ref
    /\ Saving(r) =>
          /\ request[r].row \in Channel
          /\ request[r].row.ref # Null => request[r].ref = request[r].row.ref
          /\ request[r].change.secrets = {} => request[r].ref = request[r].row.ref
    /\ At(r, "read") =>
          request[r].change.secrets # {} /\ request[r].ref = request[r].row.ref

\* New credentials are stored before anything points at them.
StoredFirst(r) ==
    /\ At(r, "insert") /\ request[r].ref # Null => credentials[request[r].ref] # Null
    /\ Settled(r) /\ request[r].ref # request[r].row.ref =>
          /\ request[r].ref \in Ref
          /\ credentials[request[r].ref] # Null \/ Dropped \/ channel = Null

\* A creation is the first request and on its own; two requests at once are on record.
Alone ==
    /\ used.requests = 0 => channel = Null /\ \A r \in Request : At(r, "idle")
    /\ \A r \in Request : Creating(r) => channel = Null /\ Others(r) = {}
    /\ \A r \in Request : ~At(r, "idle") /\ Others(r) # {} => "overlap" \in lapse

\* Nothing changes under a request that is on its own.
RowIsCurrent(r) ==
    "overlap" \notin lapse =>
        /\ Saving(r) => channel = request[r].row
        /\ At(r, "uncredential") => channel # Null /\ channel.ref = request[r].ref

\* A removal counted no allocations, and has left no credentials when it deletes the row.
RemovalFits(r) ==
    /\ Removing(r) => allocations = 0 \/ "late" \in lapse
    /\ At(r, "delete") /\ lapse \cap {"broken", "refused", "overlap"} = {} =>
          \A c \in Ref : credentials[c] = Null

Fits == \A r \in Request : JobFits(r)
Firsts == \A r \in Request : StoredFirst(r)
Current == \A r \in Request : RowIsCurrent(r)
Removals == \A r \in Request : RemovalFits(r)

IInv == /\ Typed /\ Fits /\ Firsts /\ Alone /\ Current /\ Removals
        /\ RefResolves /\ NoStraySecrets /\ RemovalCostsNothing

\* The type invariant, with names for its sets.
LEMMA TypeIsTyped == TypeOK <=> Typed
BY DEF TypeOK, Typed, Bundle, Used, Job, ChangeType, Lapse, Step

LEMMA IdleIsAJob ==
    ASSUME Parameters PROVE Idle \in Job /\ NoChange \in ChangeType
<1>1. NoChange \in ChangeType
  BY DEF NoChange, ChangeType
<1> QED  BY <1>1 DEF Idle, Job, Step

LEMMA ChangeTyped ==
    ASSUME NEW change \in Change PROVE change \in ChangeType
<1>1. {{f} : f \in Field} \subseteq SUBSET Field
  <2>1. \A f \in Field : {f} \in SUBSET Field
    OBVIOUS
  <2> QED  BY <2>1
<1>2. {TRUE, Null} \subseteq BOOLEAN \cup {Null}
  OBVIOUS
<1> DEFINE one == {{f} : f \in Field}
           switch == BOOLEAN \cup {Null}
<1>3. \/ change \in [secrets: {{}}, config: one, autoList: {Null}, defaults: {Null}]
      \/ change \in [secrets: one, config: {{}}, autoList: {Null, TRUE}, defaults: {Null}]
      \/ change \in [secrets: {{}}, config: {{}}, autoList: switch, defaults: switch]
  BY DEF Change
<1> HIDE DEF one
<1>4. one \subseteq SUBSET Field
  BY <1>1 DEF one
<1> QED  BY <1>3, <1>4 DEF ChangeType

LEMMA InitTyped ==
    ASSUME Parameters, Init PROVE Typed
<1>1. request \in [Request -> Job]
  BY IdleIsAJob DEF Init
<1>2. given \in Bundle
  BY DEF Init, Bundle
<1>3. used \in Used
  BY DEF Init, Used, Parameters
<1>4. credentials \in [Ref -> (SUBSET Field) \cup {Null}]
  BY DEF Init
<1> QED  BY <1>1, <1>2, <1>3, <1>4 DEF Init, Typed

-------------------------------------------------------------------------------
(***************************************************************************)
(* Every step preserves the types.                                         *)
(***************************************************************************)

\* A job goes on, or the request is over.
LEMMA JobsStayTyped ==
    ASSUME Parameters, Typed, NEW r \in Request,
           \/ \E step \in Step : Goto(r, step)
           \/ Done(r)
           \/ \E job \in Job : request' = [request EXCEPT ![r] = job]
    PROVE  request' \in [Request -> Job]
<1>1. request \in [Request -> Job]
  BY DEF Typed
<1>2. ASSUME NEW step \in Step PROVE [request[r] EXCEPT !.step = step] \in Job
  BY <1>1 DEF Job
<1>3. ASSUME NEW step \in Step, Goto(r, step) PROVE request' \in [Request -> Job]
  <2>1. request' = [request EXCEPT ![r] = [request[r] EXCEPT !.step = step]]
    BY <1>1, <1>3 DEF Goto
  <2> QED  BY <1>1, <1>2, <2>1
<1> QED  BY <1>1, <1>3, IdleIsAJob DEF Done

LEMMA BeginTyped ==
    ASSUME Parameters, Typed, NEW r \in Request, NEW job \in Job, Begin(r, job)
    PROVE  used' \in Used /\ request' \in [Request -> Job] /\ lapse' \subseteq Lapse
<1>1. used' \in Used
  BY DEF Begin, Typed, Used, Parameters
<1>2. request' \in [Request -> Job]
  BY JobsStayTyped DEF Begin
<1>3. lapse' \subseteq Lapse
  BY DEF Begin, Typed, Lapse
<1> QED  BY <1>1, <1>2, <1>3

\* The row a save writes.
LEMMA WrittenRow ==
    ASSUME Parameters, Typed, NEW r \in Request, WriteRow(r), channel # Null,
           request[r].row \in Channel
    PROVE  /\ channel' \in Channel /\ given' \in Bundle
           /\ channel'.ref = IF request[r].ref # request[r].row.ref THEN request[r].ref
                             ELSE channel.ref
<1> DEFINE job == request[r]
<1>1. job.change \in ChangeType /\ job.ref \in Ref \cup {Null} /\ given \in Bundle
  BY DEF Typed, Job
<1>2. job.change.config \in SUBSET Field /\ job.change.secrets \in SUBSET Field
  BY <1>1 DEF ChangeType
<1>3. given' \in Bundle
  BY <1>1, <1>2 DEF WriteRow, Bundle
<1>4. channel \in Channel
  BY DEF Typed
<1>5. /\ Resolved(job.change.autoList, channel.autoList) \in BOOLEAN
      /\ Resolved(job.change.defaults, channel.defaults) \in BOOLEAN
  BY <1>1, <1>4 DEF Resolved, ChangeType, Channel
<1>6. (IF job.ref # job.row.ref THEN job.ref ELSE channel.ref) \in Ref \cup {Null}
  BY <1>1, <1>4 DEF Channel
<1>7. (IF job.change.config = {} THEN channel.config
       ELSE job.row.config \cup job.change.config) \in SUBSET Field
  BY <1>2, <1>4 DEF Channel
<1> QED  BY <1>3, <1>5, <1>6, <1>7 DEF WriteRow, Channel

LEMMA TypedPreserved ==
    ASSUME Parameters, Typed, Fits, [Next]_vars PROVE Typed'
<1>t. /\ channel \in Channel \cup {Null} /\ credentials \in [Ref -> (SUBSET Field) \cup {Null}]
      /\ allocations \in 0..1 /\ cascaded \in Nat /\ given \in Bundle /\ used \in Used
      /\ request \in [Request -> Job] /\ lapse \subseteq Lapse
  BY DEF Typed
<1>n. NoChange \in ChangeType /\ Idle \in Job
  BY IdleIsAJob
<1>1. ASSUME NEW r \in Request, AskCreate(r) PROVE Typed'
  <2>1. PICK fields \in SUBSET Field, secrets \in SUBSET Field, c \in Ref \cup {Null} :
           Begin(r, [Idle EXCEPT !.step = IF secrets = {} THEN "insert" ELSE "store",
                       !.change = [NoChange EXCEPT !.config = fields, !.secrets = secrets],
                       !.ref = c])
    BY <1>1 DEF AskCreate
  <2>2. [NoChange EXCEPT !.config = fields, !.secrets = secrets] \in ChangeType
    BY DEF NoChange, ChangeType
  <2>3. [Idle EXCEPT !.step = IF secrets = {} THEN "insert" ELSE "store",
                       !.change = [NoChange EXCEPT !.config = fields, !.secrets = secrets],
                       !.ref = c] \in Job
    BY <2>2, <1>n DEF Job, Step
  <2> QED  BY <1>1, <1>t, <2>1, <2>3, BeginTyped DEF AskCreate, Typed
<1>2. ASSUME NEW r \in Request, Store(r) PROVE Typed'
  <2>1. request[r].change.secrets \in SUBSET Field
    BY <1>t DEF Job, ChangeType
  <2>2. request' \in [Request -> Job]
    BY <1>2, JobsStayTyped DEF Store, Step
  <2> QED  BY <1>2, <1>t, <2>1, <2>2 DEF Store, Typed
<1>3. ASSUME NEW r \in Request, Insert(r) PROVE Typed'
  <2>1. /\ request[r].change.secrets \in SUBSET Field
               /\ request[r].change.config \in SUBSET Field
        /\ request[r].ref \in Ref \cup {Null}
    BY <1>t DEF Job, ChangeType
  <2>2. request' \in [Request -> Job]
    BY <1>3, JobsStayTyped DEF Insert
  <2>3. channel' \in Channel /\ given' \in Bundle
    BY <1>3, <2>1 DEF Insert, Channel, Bundle
  <2> QED  BY <1>3, <1>t, <2>2, <2>3 DEF Insert, Typed
<1>4. ASSUME NEW r \in Request, AskUpdate(r) PROVE Typed'
  <2>1. PICK change \in Change :
           Begin(r, [Idle EXCEPT !.step = IF change.secrets = {} THEN "check" ELSE "read",
                       !.change = change, !.row = channel, !.ref = channel.ref])
    BY <1>4 DEF AskUpdate
  <2>2. change \in ChangeType
    BY ChangeTyped
  <2>3. channel \in Channel /\ channel.ref \in Ref \cup {Null}
    BY <1>4, <1>t DEF AskUpdate, Channel
  <2>4. [Idle EXCEPT !.step = IF change.secrets = {} THEN "check" ELSE "read",
                       !.change = change, !.row = channel, !.ref = channel.ref] \in Job
    BY <2>2, <2>3, <1>n DEF Job, Step
  <2> QED  BY <1>4, <1>t, <2>1, <2>4, BeginTyped DEF AskUpdate, Typed
<1>5. ASSUME NEW r \in Request, ReadSecrets(r) PROVE Typed'
  <2>1. PICK readable \in BOOLEAN, c \in Ref :
          /\ readable \/ used.mishaps < MaxMishaps
          /\ used' = [used EXCEPT !.mishaps = IF readable THEN @ ELSE @ + 1]
          /\ lapse' = lapse \cup {l \in {"unreadable"} : ~readable}
          /\ request' = [request EXCEPT ![r] = [@ EXCEPT !.step = "put", !.ref = c,
                !.stored = IF credentials[c] = Null \/ ~readable THEN {} ELSE credentials[c]]]
    BY <1>5 DEF ReadSecrets
  <2> DEFINE stored == IF credentials[c] = Null \/ ~readable THEN {} ELSE credentials[c]
             job == [request[r] EXCEPT !.step = "put", !.ref = c, !.stored = stored]
  <2>2. used' \in Used
    BY <2>1, <1>t DEF Used, Parameters
  <2>3. lapse' \subseteq Lapse
    BY <2>1, <1>t DEF Lapse
  <2>4. stored \in SUBSET Field
    BY <1>t
  <2>5. request' = [request EXCEPT ![r] = job]
    BY <2>1, <1>t
  <2> HIDE DEF stored
  <2>6. job \in Job
    BY <2>4, <1>t DEF Job, Step
  <2>7. request' \in [Request -> Job]
    BY <2>5, <2>6, JobsStayTyped
  <2> QED  BY <1>5, <1>t, <2>2, <2>3, <2>7 DEF ReadSecrets, Typed
<1>6. ASSUME NEW r \in Request, PutSecrets(r) PROVE Typed'
  <2>1. request[r].stored \cup request[r].change.secrets \in SUBSET Field
    BY <1>t DEF Job, ChangeType
  <2>2. request' \in [Request -> Job]
    BY <1>6, JobsStayTyped DEF PutSecrets, Step
  <2> QED  BY <1>6, <1>t, <2>1, <2>2 DEF PutSecrets, Typed
<1>7. ASSUME NEW r \in Request, CheckAutoList(r) PROVE Typed'
  <2>1. request' \in [Request -> Job]
    BY <1>7, JobsStayTyped DEF CheckAutoList, Step
  <2>2. lapse' \subseteq Lapse
    BY <1>7, <1>t DEF CheckAutoList, Lapse
  <2> QED  BY <1>7, <1>t, <2>1, <2>2 DEF CheckAutoList, Typed
<1>8. ASSUME NEW r \in Request, WriteRow(r) PROVE Typed'
  <2>1. request' \in [Request -> Job]
    BY <1>8, JobsStayTyped DEF WriteRow
  <2>2. channel' \in Channel \cup {Null} /\ given' \in Bundle
    <3>1. request[r].row \in Channel
      BY <1>8 DEF WriteRow, At, Fits, JobFits, Saving
    <3>2. CASE channel = Null
      BY <1>8, <3>2, <1>t DEF WriteRow
    <3>3. CASE channel # Null
      BY <1>8, <3>1, <3>3, WrittenRow
    <3> QED  BY <3>2, <3>3
  <2> QED  BY <1>8, <1>t, <2>1, <2>2 DEF WriteRow, Typed
<1>9. ASSUME NEW r \in Request, AskRemove(r) PROVE Typed'
  <2> DEFINE job == [Idle EXCEPT !.step = IF channel.ref = Null THEN "delete" ELSE "uncredential",
                             !.ref = channel.ref]
  <2>1. channel.ref \in Ref \cup {Null}
    BY <1>9, <1>t DEF AskRemove, Channel
  <2>2. job \in Job
    BY <2>1, <1>n DEF Job, Step
  <2>3. Begin(r, job)
    BY <1>9 DEF AskRemove
  <2> HIDE DEF job
  <2> QED  BY <1>9, <1>t, <2>2, <2>3, BeginTyped DEF AskRemove, Typed
<1>10. ASSUME NEW r \in Request, DropCredentials(r) PROVE Typed'
  <2>1. request' \in [Request -> Job]
    BY <1>10, JobsStayTyped DEF DropCredentials, Step
  <2> QED  BY <1>10, <1>t, <2>1 DEF DropCredentials, Typed
<1>11. ASSUME NEW r \in Request, Delete(r) PROVE Typed'
  <2>1. request' \in [Request -> Job]
    BY <1>11, JobsStayTyped DEF Delete
  <2>2. given' \in Bundle
    BY <1>11 DEF Delete, Bundle
  <2> QED  BY <1>11, <1>t, <2>1, <2>2 DEF Delete, Typed
<1>12. ASSUME NEW r \in Request, BreakOff(r) PROVE Typed'
  <2>1. request' \in [Request -> Job]
    BY <1>12, JobsStayTyped DEF BreakOff
  <2>2. used' \in Used
    BY <1>12, <1>t DEF BreakOff, Used, Parameters
  <2>3. lapse' \subseteq Lapse
    BY <1>12, <1>t DEF BreakOff, Lapse
  <2> QED  BY <1>12, <1>t, <2>1, <2>2, <2>3 DEF BreakOff, Typed
<1>13. CASE Allocate
  <2>1. lapse' \subseteq Lapse
    BY <1>13, <1>t DEF Allocate, Lapse
  <2> QED  BY <1>13, <1>t, <2>1 DEF Allocate, Typed
<1>14. CASE Deallocate
  BY <1>14, <1>t DEF Deallocate, Typed
<1>15. CASE UNCHANGED vars
  BY <1>15, <1>t DEF vars, Typed
<1> QED
  BY <1>1, <1>2, <1>3, <1>4, <1>5, <1>6, <1>7, <1>8, <1>9, <1>10, <1>11, <1>12, <1>13,
     <1>14, <1>15 DEF Next
-------------------------------------------------------------------------------
(***************************************************************************)
(* Every step preserves the inductive invariant.                           *)
(***************************************************************************)

\* What a step of one request does to the requests.
LEMMA GotoFacts ==
    ASSUME Typed, NEW r \in Request, NEW step, Goto(r, step)
    PROVE  /\ \A q \in Request \ {r} : request'[q] = request[q]
           /\ request'[r].step = step /\ request'[r].ref = request[r].ref
           /\ request'[r].row = request[r].row /\ request'[r].change = request[r].change
BY DEF Typed, Job, Goto

LEMMA DoneFacts ==
    ASSUME Typed, NEW r \in Request, Done(r)
    PROVE  /\ \A q \in Request \ {r} : request'[q] = request[q]
           /\ request'[r] = Idle /\ Idle.step = "idle" /\ Idle.ref = Null
BY DEF Typed, Job, Done, Idle

LEMMA IdleShape == Idle.step = "idle" /\ Idle.ref = Null
BY DEF Idle

LEMMA BeginFacts ==
    ASSUME Typed, NEW r \in Request, NEW job \in Job, Begin(r, job)
    PROVE  /\ \A q \in Request \ {r} : request'[q] = request[q]
           /\ request'[r] = job /\ used'.requests # 0 /\ At(r, "idle")
           /\ lapse \subseteq lapse' /\ (Others(r) # {} => "overlap" \in lapse')
           /\ lapse' \subseteq lapse \cup {"overlap"}
BY DEF Typed, Job, Used, Begin

LEMMA StoreKeeps ==
    ASSUME Parameters, IInv, Typed', NEW r \in Request, Store(r)
    PROVE  IInv'
<1>1. /\ \A q \in Request \ {r} : request'[q] = request[q]
      /\ request'[r].step = "insert" /\ request'[r].ref = request[r].ref
      /\ request'[r].row = request[r].row /\ request'[r].change = request[r].change
  BY GotoFacts DEF IInv, Store
<1>2. Typed /\ Typed'
  BY DEF IInv
<1>3. request[r].ref \in Ref /\ channel = Null /\ \A q \in Request \ {r} : At(q, "idle")
  BY <1>2 DEF IInv, Fits, JobFits, Alone, Creating, Others, At, Store
<1>4. /\ credentials'[request[r].ref] # Null
      /\ \A c \in Ref : credentials[c] # Null => credentials'[c] # Null
      /\ \A c \in Ref \ {request[r].ref} : credentials'[c] = credentials[c]
  BY <1>2, <1>3 DEF Store, Typed, Job, ChangeType, Parameters
<1>5. Dropped => Dropped'
  BY <1>1 DEF Dropped, Store, At
<1>6. Fits'
  BY <1>1, <1>2 DEF IInv, Store, Fits, JobFits, Saving, At
<1>7. Firsts'
  BY <1>1, <1>2, <1>3, <1>4, <1>5 DEF IInv, Store, Firsts, StoredFirst, Settled, Dropped,
         At, Idle
<1>8. Alone'
  BY <1>1, <1>2 DEF IInv, Store, Alone, Creating, Others, At
<1>9. Current'
  BY <1>1, <1>2 DEF IInv, Store, Current, RowIsCurrent, Saving, At
<1>10. Removals'
  BY <1>1, <1>2, <1>3 DEF IInv, Store, Removals, RemovalFits, Removing, At
<1>11. RefResolves'
  BY <1>1, <1>2, <1>3 DEF IInv, Store, RefResolves, Dropped, At
<1>12. NoStraySecrets'
  BY <1>1, <1>2, <1>3, <1>4 DEF IInv, Store, NoStraySecrets
<1>13. RemovalCostsNothing'
  BY <1>1, <1>2 DEF IInv, Store, RemovalCostsNothing
<1> QED  BY <1>6, <1>7, <1>8, <1>9, <1>10, <1>11, <1>12, <1>13 DEF IInv

LEMMA InsertKeeps ==
    ASSUME Parameters, IInv, Typed', NEW r \in Request, Insert(r)
    PROVE  IInv'
<1>1. /\ \A q \in Request \ {r} : request'[q] = request[q]
      /\ request'[r] = Idle /\ Idle.step = "idle" /\ Idle.ref = Null
  BY DoneFacts DEF IInv, Insert
<1>2. Typed /\ Typed'
  BY DEF IInv
<1>3. channel = Null /\ \A q \in Request \ {r} : request[q] = Idle
  BY <1>2 DEF IInv, Fits, JobFits, Alone, Creating, Others, At, Insert
<1>4. channel'.ref = request[r].ref /\ channel' # Null
  BY <1>2 DEF Insert, Typed, Channel, Parameters, Job, ChangeType
<1>5. request[r].ref \in Ref \cup {Null}
  BY <1>2 DEF Typed, Job
<1>6. Fits'
  BY <1>1, <1>2, <1>3 DEF IInv, Insert, Fits, JobFits, Saving, At
<1>7. Firsts'
  BY <1>1, <1>2, <1>3 DEF IInv, Insert, Firsts, StoredFirst, Settled, Dropped, At
<1>8. Alone'
  BY <1>1, <1>2 DEF IInv, Insert, Alone, Creating, Others, At
<1>9. Current'
  BY <1>1, <1>2, <1>3 DEF IInv, Insert, Current, RowIsCurrent, Saving, At
<1>10. Removals'
  BY <1>1, <1>2, <1>3 DEF IInv, Insert, Removals, RemovalFits, Removing, At
<1>11. RefResolves'
  BY <1>1, <1>2, <1>3, <1>4, <1>5 DEF IInv, Insert, RefResolves, Dropped, At, Firsts,
         StoredFirst
<1>12. NoStraySecrets'
  BY <1>1, <1>2, <1>3, <1>4, <1>5 DEF IInv, Insert, NoStraySecrets, Parameters
<1>13. RemovalCostsNothing'
  BY <1>1, <1>2 DEF IInv, Insert, RemovalCostsNothing
<1> QED  BY <1>6, <1>7, <1>8, <1>9, <1>10, <1>11, <1>12, <1>13 DEF IInv

LEMMA PutSecretsKeeps ==
    ASSUME Parameters, IInv, Typed', NEW r \in Request, PutSecrets(r)
    PROVE  IInv'
<1>1. /\ \A q \in Request \ {r} : request'[q] = request[q]
      /\ request'[r].step = "check" /\ request'[r].ref = request[r].ref
      /\ request'[r].row = request[r].row /\ request'[r].change = request[r].change
  BY GotoFacts DEF IInv, PutSecrets
<1>2. Typed /\ Typed'
  BY DEF IInv
<1>3. request[r].ref \in Ref
  BY <1>2 DEF IInv, Fits, JobFits, At, PutSecrets
<1>4. /\ credentials'[request[r].ref] # Null
      /\ \A c \in Ref : credentials[c] # Null => credentials'[c] # Null
      /\ \A c \in Ref \ {request[r].ref} : credentials'[c] = credentials[c]
  BY <1>2, <1>3 DEF PutSecrets, Typed, Job, ChangeType, Parameters
<1>5. Dropped => Dropped'
  BY <1>1 DEF Dropped, PutSecrets, At
<1>6. \A q \in Request : At(q, "delete") => Others(q) # {} /\ ~At(q, "idle")
  BY <1>1 DEF PutSecrets, At, Others
<1>7. Fits'
  BY <1>1, <1>2 DEF IInv, PutSecrets, Fits, JobFits, Saving, At
<1>8. Firsts'
  BY <1>1, <1>2, <1>3, <1>4, <1>5 DEF IInv, PutSecrets, Firsts, StoredFirst, Settled,
         Dropped, At
<1>9. Alone'
  BY <1>1, <1>2 DEF IInv, PutSecrets, Alone, Creating, Others, At
<1>10. Current'
  BY <1>1, <1>2 DEF IInv, PutSecrets, Current, RowIsCurrent, Saving, At
<1>11. Removals'
  BY <1>1, <1>2, <1>6 DEF IInv, PutSecrets, Removals, RemovalFits, Removing, At, Alone
<1>12. RefResolves'
  BY <1>1, <1>2, <1>4, <1>5 DEF IInv, PutSecrets, RefResolves, Dropped, At, Typed, Channel
<1>13. NoStraySecrets'
  BY <1>1, <1>2, <1>3, <1>4 DEF IInv, PutSecrets, NoStraySecrets
<1>14. RemovalCostsNothing'
  BY <1>1, <1>2 DEF IInv, PutSecrets, RemovalCostsNothing
<1> QED  BY <1>7, <1>8, <1>9, <1>10, <1>11, <1>12, <1>13, <1>14 DEF IInv

LEMMA DropCredentialsKeeps ==
    ASSUME Parameters, IInv, Typed', NEW r \in Request, DropCredentials(r)
    PROVE  IInv'
<1>1. /\ \A q \in Request \ {r} : request'[q] = request[q]
      /\ request'[r].step = "delete" /\ request'[r].ref = request[r].ref
      /\ request'[r].row = request[r].row /\ request'[r].change = request[r].change
  BY GotoFacts DEF IInv, DropCredentials
<1>2. Typed /\ Typed'
  BY DEF IInv
<1>3. request[r].ref \in Ref
  BY <1>2 DEF IInv, Fits, JobFits, At, DropCredentials
<1>4. /\ credentials'[request[r].ref] = Null
      /\ \A c \in Ref \ {request[r].ref} : credentials'[c] = credentials[c]
  BY <1>2, <1>3 DEF DropCredentials, Typed
<1>5. Dropped'
  BY <1>1 DEF Dropped, At
<1>6. "overlap" \notin lapse => channel # Null /\ channel.ref = request[r].ref
         /\ \A q \in Request \ {r} : request[q] = Idle
  BY <1>2 DEF IInv, Current, RowIsCurrent, Alone, Others, Fits, JobFits, At, DropCredentials
<1>7. \A q \in Request : ~At(q, "insert")
  BY <1>2 DEF IInv, Alone, Creating, Others, At, DropCredentials
<1>8. Fits'
  BY <1>1, <1>2 DEF IInv, DropCredentials, Fits, JobFits, Saving, At
<1>9. Firsts'
  BY <1>1, <1>2, <1>5, <1>7 DEF IInv, DropCredentials, Firsts, StoredFirst, Settled, Dropped, At
<1>10. Alone'
  BY <1>1, <1>2 DEF IInv, DropCredentials, Alone, Creating, Others, At
<1>11. Current'
  BY <1>1, <1>2 DEF IInv, DropCredentials, Current, RowIsCurrent, Saving, At
<1>12. Removals'
  BY <1>1, <1>2, <1>3, <1>4, <1>6, IdleShape DEF IInv, DropCredentials, Removals,
         RemovalFits, Removing, At, NoStraySecrets, Parameters
<1>13. RefResolves'
  BY <1>1, <1>2, <1>5 DEF IInv, DropCredentials, RefResolves, Dropped, At
<1>14. NoStraySecrets'
  BY <1>1, <1>2, <1>3, <1>4 DEF IInv, DropCredentials, NoStraySecrets
<1>15. RemovalCostsNothing'
  BY <1>1, <1>2 DEF IInv, DropCredentials, RemovalCostsNothing
<1> QED  BY <1>8, <1>9, <1>10, <1>11, <1>12, <1>13, <1>14, <1>15 DEF IInv

LEMMA DeleteKeeps ==
    ASSUME Parameters, IInv, Typed', NEW r \in Request, Delete(r)
    PROVE  IInv'
<1>1. /\ \A q \in Request \ {r} : request'[q] = request[q]
      /\ request'[r] = Idle /\ Idle.step = "idle" /\ Idle.ref = Null
  BY DoneFacts DEF IInv, Delete
<1>2. Typed /\ Typed'
  BY DEF IInv
<1>3. "overlap" \notin lapse => \A q \in Request \ {r} : request[q] = Idle
  BY <1>2 DEF IInv, Alone, Others, Fits, JobFits, At, Delete
<1>4. lapse \cap {"broken", "refused", "overlap"} = {} => \A c \in Ref : credentials[c] = Null
  BY DEF IInv, Removals, RemovalFits, Delete, At
<1>5. cascaded' > 0 => "late" \in lapse
  BY <1>2 DEF IInv, Typed, Removals, RemovalFits, Removing, Delete, At, RemovalCostsNothing
<1>6. Fits'
  BY <1>1, <1>2 DEF IInv, Delete, Fits, JobFits, Saving, At
<1>7. Firsts'
  BY <1>1, <1>2 DEF IInv, Delete, Firsts, StoredFirst, Settled, Dropped, At
<1>8. Alone'
  BY <1>1, <1>2 DEF IInv, Delete, Alone, Creating, Others, At
<1>9. Current'
  BY <1>1, <1>2, <1>3 DEF IInv, Delete, Current, RowIsCurrent, Saving, At
<1>10. Removals'
  BY <1>1, <1>2 DEF IInv, Delete, Removals, RemovalFits, Removing, At
<1>11. RefResolves'
  BY <1>1, <1>2 DEF IInv, Delete, RefResolves, Dropped, At
<1>12. NoStraySecrets'
  BY <1>1, <1>2, <1>4 DEF IInv, Delete, NoStraySecrets
<1>13. RemovalCostsNothing'
  BY <1>1, <1>2, <1>5 DEF IInv, Delete, RemovalCostsNothing
<1> QED  BY <1>6, <1>7, <1>8, <1>9, <1>10, <1>11, <1>12, <1>13 DEF IInv

LEMMA BreakOffKeeps ==
    ASSUME Parameters, IInv, Typed', NEW r \in Request, BreakOff(r)
    PROVE  IInv'
<1>1. /\ \A q \in Request \ {r} : request'[q] = request[q]
      /\ request'[r] = Idle /\ Idle.step = "idle" /\ Idle.ref = Null
  BY DoneFacts DEF IInv, BreakOff
<1>2. Typed /\ Typed'
  BY DEF IInv
<1>3. Dropped => Dropped'
  BY <1>1 DEF Dropped, BreakOff, Removing, At
<1>4. Fits'
  BY <1>1, <1>2 DEF IInv, BreakOff, Fits, JobFits, Saving, At
<1>5. Firsts'
  BY <1>1, <1>2, <1>3 DEF IInv, BreakOff, Firsts, StoredFirst, Settled, Dropped, At
<1>6. Alone'
  BY <1>1, <1>2 DEF IInv, BreakOff, Alone, Creating, Others, At
<1>7. Current'
  BY <1>1, <1>2 DEF IInv, BreakOff, Current, RowIsCurrent, Saving, At
<1>8. Removals'
  BY <1>1, <1>2 DEF IInv, BreakOff, Removals, RemovalFits, Removing, At
<1>9. RefResolves'
  BY <1>1, <1>2, <1>3 DEF IInv, BreakOff, RefResolves, Dropped, At
<1>10. NoStraySecrets'
  BY <1>1, <1>2 DEF IInv, BreakOff, NoStraySecrets
<1>11. RemovalCostsNothing'
  BY <1>1, <1>2 DEF IInv, BreakOff, RemovalCostsNothing
<1> QED  BY <1>4, <1>5, <1>6, <1>7, <1>8, <1>9, <1>10, <1>11 DEF IInv

LEMMA WriteRowKeeps ==
    ASSUME Parameters, IInv, Typed', NEW r \in Request, WriteRow(r)
    PROVE  IInv'
<1>1. /\ \A q \in Request \ {r} : request'[q] = request[q]
      /\ request'[r] = Idle /\ Idle.step = "idle" /\ Idle.ref = Null
  BY DoneFacts DEF IInv, WriteRow
<1>2. Typed /\ Typed'
  BY DEF IInv
<1>3. /\ request[r].row \in Channel /\ request[r].ref \in Ref \cup {Null}
      /\ request[r].row.ref # Null => request[r].ref = request[r].row.ref
  BY <1>2 DEF IInv, Fits, JobFits, Saving, At, WriteRow, Typed, Job
<1>4. Dropped => Dropped'
  BY <1>1 DEF Dropped, WriteRow, At
<1>5. channel # Null => /\ channel' # Null
                         /\ channel'.ref = IF request[r].ref # request[r].row.ref THEN request[r].ref
                                           ELSE channel.ref
  BY <1>2, <1>3, WrittenRow DEF Parameters
<1>6. "overlap" \notin lapse => channel = request[r].row
         /\ \A q \in Request \ {r} : request[q] = Idle
  BY <1>2 DEF IInv, Current, RowIsCurrent, Saving, Alone, Others, Fits, JobFits, At, WriteRow
<1>7. channel = Null => channel' = Null
  BY DEF WriteRow
<1>8. Fits'
  BY <1>1, <1>2 DEF IInv, WriteRow, Fits, JobFits, Saving, At
<1>9. Firsts'
  BY <1>1, <1>2, <1>4, <1>5, <1>7 DEF IInv, WriteRow, Firsts, StoredFirst, Settled, Dropped, At
<1>10. Alone'
  BY <1>1, <1>2, <1>7 DEF IInv, WriteRow, Alone, Creating, Others, At
<1>11. Current'
  BY <1>1, <1>2, <1>6 DEF IInv, WriteRow, Current, RowIsCurrent, Saving, At
<1>12. Removals'
  BY <1>1, <1>2 DEF IInv, WriteRow, Removals, RemovalFits, Removing, At
<1>13. RefResolves'
  BY <1>1, <1>2, <1>3, <1>4, <1>5, <1>7 DEF IInv, WriteRow, RefResolves, Dropped, At,
         Firsts, StoredFirst, Settled
<1>14. NoStraySecrets'
  BY <1>1, <1>2, <1>3, <1>5, <1>6 DEF IInv, WriteRow, NoStraySecrets, Parameters
<1>15. RemovalCostsNothing'
  BY <1>1, <1>2 DEF IInv, WriteRow, RemovalCostsNothing
<1> QED  BY <1>8, <1>9, <1>10, <1>11, <1>12, <1>13, <1>14, <1>15 DEF IInv

LEMMA AskCreateKeeps ==
    ASSUME Parameters, IInv, Typed', NEW r \in Request, AskCreate(r)
    PROVE  IInv'
<1>1. Typed /\ Typed'
  BY DEF IInv
<1>2. PICK fields \in SUBSET Field, secrets \in SUBSET Field, c \in Ref \cup {Null} :
         /\ IF secrets = {} THEN c = Null ELSE c # Null /\ Fresh(c)
         /\ Begin(r, [Idle EXCEPT !.step = IF secrets = {} THEN "insert" ELSE "store",
                         !.change = [NoChange EXCEPT !.config = fields, !.secrets = secrets],
                         !.ref = c])
  BY DEF AskCreate
<1> DEFINE job == [Idle EXCEPT !.step = IF secrets = {} THEN "insert" ELSE "store",
                      !.change = [NoChange EXCEPT !.config = fields, !.secrets = secrets],
                      !.ref = c]
<1>3. job \in Job
  <2>1. [NoChange EXCEPT !.config = fields, !.secrets = secrets] \in ChangeType
    BY IdleIsAJob DEF ChangeType
  <2> QED  BY <2>1, IdleIsAJob DEF Job, Step
<1>4. /\ job.step = IF secrets = {} THEN "insert" ELSE "store"
      /\ job.ref = c
  BY IdleIsAJob DEF Job
<1>5. Begin(r, job)
  BY <1>2
<1> HIDE DEF job
<1>6. /\ \A q \in Request \ {r} : request'[q] = request[q]
      /\ used'.requests # 0 /\ At(r, "idle") /\ (Others(r) # {} => "overlap" \in lapse')
      /\ lapse \subseteq lapse' /\ lapse' \subseteq lapse \cup {"overlap"}
      /\ request'[r] = job
  BY <1>1, <1>3, <1>5, BeginFacts
<1>7. channel = Null /\ \A q \in Request : request[q] = Idle
  BY <1>1 DEF IInv, Alone, Fits, JobFits, AskCreate
<1>8. Idle.ref = Null /\ Idle.step = "idle"
  BY IdleShape
<1>9. secrets # {} => c \in Ref
  BY <1>2
<1>10. secrets = {} => job.ref = Null
  BY <1>2, <1>4
<1>11. Fits'
  BY <1>6, <1>1, <1>4, <1>7, <1>8, <1>9, <1>10 DEF IInv, AskCreate, Fits, JobFits, Saving, At
<1>12. Firsts'
  BY <1>6, <1>1, <1>4, <1>7, <1>8, <1>9, <1>10 DEF IInv, AskCreate, Firsts, StoredFirst,
         Settled, Dropped, At
<1>13. Alone'
  BY <1>6, <1>1, <1>4, <1>7, <1>8, <1>9, <1>10 DEF IInv, AskCreate, Alone, Creating, Others, At
<1>14. Current'
  BY <1>6, <1>1, <1>4, <1>7, <1>8, <1>9, <1>10 DEF IInv, AskCreate, Current, RowIsCurrent,
         Saving, At
<1>15. Removals'
  BY <1>6, <1>1, <1>4, <1>7, <1>8, <1>9, <1>10 DEF IInv, AskCreate, Removals, RemovalFits,
         Removing, At
<1>16. RefResolves'
  BY <1>6, <1>1, <1>4, <1>7, <1>8, <1>9, <1>10 DEF IInv, AskCreate, RefResolves, Dropped, At
<1>17. NoStraySecrets'
  BY <1>6, <1>1, <1>4, <1>7, <1>8, <1>9, <1>10 DEF IInv, AskCreate, NoStraySecrets, Parameters
<1>18. RemovalCostsNothing'
  BY <1>6, <1>1, <1>4, <1>7, <1>8, <1>9, <1>10 DEF IInv, AskCreate, RemovalCostsNothing
<1> QED  BY <1>11, <1>12, <1>13, <1>14, <1>15, <1>16, <1>17, <1>18 DEF IInv

LEMMA AskUpdateKeeps ==
    ASSUME Parameters, IInv, Typed', NEW r \in Request, AskUpdate(r)
    PROVE  IInv'
<1>1. Typed /\ Typed'
  BY DEF IInv
<1>2. PICK change \in Change :
         Begin(r, [Idle EXCEPT !.step = IF change.secrets = {} THEN "check" ELSE "read",
                      !.change = change, !.row = channel, !.ref = channel.ref])
  BY DEF AskUpdate
<1> DEFINE job == [Idle EXCEPT !.step = IF change.secrets = {} THEN "check" ELSE "read",
                      !.change = change, !.row = channel, !.ref = channel.ref]
<1>3. channel \in Channel /\ channel.ref \in Ref \cup {Null}
  BY <1>1 DEF Typed, AskUpdate, Channel
<1>4. job \in Job
  BY <1>3, ChangeTyped, IdleIsAJob DEF Job, Step
<1>5. /\ job.step = IF change.secrets = {} THEN "check" ELSE "read"
      /\ job.change = change /\ job.row = channel /\ job.ref = channel.ref
  BY IdleIsAJob DEF Job
<1>6. Begin(r, job)
  BY <1>2
<1> HIDE DEF job
<1>7. /\ \A q \in Request \ {r} : request'[q] = request[q]
      /\ used'.requests # 0 /\ At(r, "idle") /\ (Others(r) # {} => "overlap" \in lapse')
      /\ lapse \subseteq lapse' /\ lapse' \subseteq lapse \cup {"overlap"}
      /\ request'[r] = job
  BY <1>1, <1>4, <1>6, BeginFacts
<1>8. "overlap" \notin lapse' => \A q \in Request \ {r} : request[q] = Idle
  BY <1>7, <1>1 DEF IInv, Others, Fits, JobFits, At
<1>9. request[r] = Idle /\ Idle.ref = Null /\ Idle.step = "idle"
  BY <1>7, IdleShape DEF IInv, Fits, JobFits
<1>10. Dropped => Dropped'
  BY <1>7, <1>9 DEF Dropped, At
<1>11. Fits'
  BY <1>7, <1>1, <1>3, <1>5, <1>8, <1>9, <1>10 DEF IInv, AskUpdate, Fits, JobFits, Saving, At
<1>12. Firsts'
  BY <1>7, <1>1, <1>3, <1>5, <1>8, <1>9, <1>10 DEF IInv, AskUpdate, Firsts, StoredFirst,
         Settled, Dropped, At
<1>13. Alone'
  BY <1>7, <1>1, <1>3, <1>5, <1>8, <1>9, <1>10 DEF IInv, AskUpdate, Alone, Creating, Others, At
<1>14. Current'
  BY <1>7, <1>1, <1>3, <1>5, <1>8, <1>9, <1>10 DEF IInv, AskUpdate, Current, RowIsCurrent,
         Saving, At
<1>15. Removals'
  BY <1>7, <1>1, <1>3, <1>5, <1>8, <1>9, <1>10 DEF IInv, AskUpdate, Removals, RemovalFits,
         Removing, At
<1>16. RefResolves'
  BY <1>7, <1>1, <1>3, <1>5, <1>8, <1>9, <1>10 DEF IInv, AskUpdate, RefResolves, Dropped, At
<1>17. NoStraySecrets'
  BY <1>7, <1>1, <1>3, <1>5, <1>8, <1>9, <1>10 DEF IInv, AskUpdate, NoStraySecrets, Parameters
<1>18. RemovalCostsNothing'
  BY <1>7, <1>1, <1>3, <1>5, <1>8, <1>9, <1>10 DEF IInv, AskUpdate, RemovalCostsNothing
<1> QED  BY <1>11, <1>12, <1>13, <1>14, <1>15, <1>16, <1>17, <1>18 DEF IInv

LEMMA AskRemoveKeeps ==
    ASSUME Parameters, IInv, Typed', NEW r \in Request, AskRemove(r)
    PROVE  IInv'
<1>1. Typed /\ Typed'
  BY DEF IInv
<1> DEFINE job == [Idle EXCEPT !.step = IF channel.ref = Null THEN "delete" ELSE "uncredential",
                      !.ref = channel.ref]
<1>2. channel \in Channel /\ channel.ref \in Ref \cup {Null}
  BY <1>1 DEF Typed, AskRemove, Channel
<1>3. job \in Job
  BY <1>2, IdleIsAJob DEF Job, Step
<1>4. /\ job.step = IF channel.ref = Null THEN "delete" ELSE "uncredential"
      /\ job.ref = channel.ref
  BY IdleIsAJob DEF Job
<1>5. Begin(r, job)
  BY DEF AskRemove
<1> HIDE DEF job
<1>6. /\ \A q \in Request \ {r} : request'[q] = request[q]
      /\ used'.requests # 0 /\ At(r, "idle") /\ (Others(r) # {} => "overlap" \in lapse')
      /\ lapse \subseteq lapse' /\ lapse' \subseteq lapse \cup {"overlap"}
      /\ request'[r] = job
  BY <1>1, <1>3, <1>5, BeginFacts
<1>7. "overlap" \notin lapse' => \A q \in Request \ {r} : request[q] = Idle
  BY <1>6, <1>1 DEF IInv, Others, Fits, JobFits, At
<1>8. request[r] = Idle /\ Idle.ref = Null /\ Idle.step = "idle"
  BY <1>6, IdleShape DEF IInv, Fits, JobFits
<1>9. Dropped => Dropped'
  BY <1>6, <1>8 DEF Dropped, At
<1>10. Fits'
  BY <1>6, <1>1, <1>2, <1>4, <1>7, <1>8, <1>9 DEF IInv, AskRemove, Fits, JobFits, Saving, At
<1>11. Firsts'
  BY <1>6, <1>1, <1>2, <1>4, <1>7, <1>8, <1>9 DEF IInv, AskRemove, Firsts, StoredFirst,
         Settled, Dropped, At
<1>12. Alone'
  BY <1>6, <1>1, <1>2, <1>4, <1>7, <1>8, <1>9 DEF IInv, AskRemove, Alone, Creating, Others, At
<1>13. Current'
  BY <1>6, <1>1, <1>2, <1>4, <1>7, <1>8, <1>9 DEF IInv, AskRemove, Current, RowIsCurrent,
         Saving, At
<1>14. Removals'
  BY <1>6, <1>1, <1>2, <1>4, <1>7, <1>8, <1>9 DEF IInv, AskRemove, Removals, RemovalFits,
         Removing, At, Parameters, NoStraySecrets
<1>15. RefResolves'
  BY <1>6, <1>1, <1>2, <1>4, <1>7, <1>8, <1>9 DEF IInv, AskRemove, RefResolves, Dropped, At
<1>16. NoStraySecrets'
  BY <1>6, <1>1, <1>2, <1>4, <1>7, <1>8, <1>9 DEF IInv, AskRemove, NoStraySecrets, Parameters
<1>17. RemovalCostsNothing'
  BY <1>6, <1>1, <1>2, <1>4, <1>7, <1>8, <1>9 DEF IInv, AskRemove, RemovalCostsNothing
<1> QED  BY <1>10, <1>11, <1>12, <1>13, <1>14, <1>15, <1>16, <1>17 DEF IInv

LEMMA ReadSecretsKeeps ==
    ASSUME Parameters, IInv, Typed', NEW r \in Request, ReadSecrets(r)
    PROVE  IInv'
<1>1. Typed /\ Typed'
  BY DEF IInv
<1>2. PICK readable \in BOOLEAN, c \in Ref :
         /\ IF request[r].ref = Null THEN Fresh(c) ELSE c = request[r].ref
         /\ lapse' = lapse \cup {l \in {"unreadable"} : ~readable}
         /\ used' = [used EXCEPT !.mishaps = IF readable THEN @ ELSE @ + 1]
         /\ request' = [request EXCEPT ![r] = [@ EXCEPT !.step = "put", !.ref = c,
               !.stored = IF credentials[c] = Null \/ ~readable THEN {} ELSE credentials[c]]]
  BY DEF ReadSecrets
<1>3. /\ \A q \in Request \ {r} : request'[q] = request[q]
      /\ request'[r].step = "put" /\ request'[r].ref = c
      /\ request'[r].row = request[r].row /\ request'[r].change = request[r].change
  BY <1>1, <1>2 DEF Typed, Job
<1>4. used'.requests = used.requests /\ lapse \subseteq lapse'
      /\ lapse' \subseteq lapse \cup {"unreadable"}
  BY <1>1, <1>2 DEF Typed, Used
<1>5. Dropped' => Dropped
  BY <1>3, <1>4 DEF Dropped, At
<1>6. Dropped => Dropped'
  BY <1>3, <1>4 DEF Dropped, At, ReadSecrets
<1>7. Fits'
  BY <1>3, <1>1, <1>2, <1>4, <1>6 DEF IInv, ReadSecrets, Fits, JobFits, Saving, At
<1>8. Firsts'
  BY <1>3, <1>1, <1>2, <1>4, <1>6 DEF IInv, ReadSecrets, Firsts, StoredFirst, Settled,
         Dropped, At
<1>9. Alone'
  BY <1>3, <1>1, <1>2, <1>4, <1>6 DEF IInv, ReadSecrets, Alone, Creating, Others, At
<1>10. Current'
  BY <1>3, <1>1, <1>2, <1>4, <1>6 DEF IInv, ReadSecrets, Current, RowIsCurrent, Saving, At
<1>11. Removals'
  BY <1>3, <1>1, <1>2, <1>4, <1>6 DEF IInv, ReadSecrets, Removals, RemovalFits, Removing, At
<1>12. RefResolves'
  BY <1>3, <1>1, <1>2, <1>4, <1>6 DEF IInv, ReadSecrets, RefResolves, Dropped, At
<1>13. NoStraySecrets'
  BY <1>3, <1>1, <1>2, <1>4, <1>6 DEF IInv, ReadSecrets, NoStraySecrets, Parameters
<1>14. RemovalCostsNothing'
  BY <1>3, <1>1, <1>2, <1>4, <1>6 DEF IInv, ReadSecrets, RemovalCostsNothing
<1> QED  BY <1>7, <1>8, <1>9, <1>10, <1>11, <1>12, <1>13, <1>14 DEF IInv

LEMMA CheckAutoListKeeps ==
    ASSUME Parameters, IInv, Typed', NEW r \in Request, CheckAutoList(r)
    PROVE  IInv'
<1>1. Typed /\ Typed'
  BY DEF IInv
<1>2. /\ \A q \in Request \ {r} : request'[q] = request[q]
      /\ \/ /\ request'[r].step = "write" /\ request'[r].ref = request[r].ref
            /\ request'[r].row = request[r].row /\ request'[r].change = request[r].change
            /\ lapse' = lapse
         \/ /\ request'[r] = Idle
            /\ lapse' = lapse \cup {l \in {"refused"} : request[r].change.secrets # {}}
  BY <1>1, GotoFacts, DoneFacts DEF CheckAutoList
<1>3. Idle.step = "idle" /\ Idle.ref = Null
  BY IdleShape
<1>4. /\ lapse \subseteq lapse' /\ lapse' \subseteq lapse \cup {"refused"}
      /\ At(r, "check")
  BY <1>2 DEF CheckAutoList
<1>5. Dropped => Dropped'
  BY <1>2, <1>4 DEF Dropped, At
<1>6. /\ request[r].row \in Channel
      /\ request[r].change.secrets = {} => request[r].ref = request[r].row.ref
  BY <1>4 DEF IInv, Fits, JobFits, Saving, At
<1>7. "overlap" \notin lapse => channel = request[r].row
  BY <1>4 DEF IInv, Current, RowIsCurrent, Saving, At
<1>8. Fits'
  BY <1>2, <1>1, <1>3, <1>4, <1>5 DEF IInv, CheckAutoList, Fits, JobFits, Saving, At
<1>9. Firsts'
  BY <1>2, <1>1, <1>3, <1>4, <1>5 DEF IInv, CheckAutoList, Firsts, StoredFirst, Settled,
         Dropped, At
<1>10. Alone'
  BY <1>2, <1>1, <1>3, <1>4, <1>5 DEF IInv, CheckAutoList, Alone, Creating, Others, At
<1>11. Current'
  BY <1>2, <1>1, <1>3, <1>4, <1>5 DEF IInv, CheckAutoList, Current, RowIsCurrent, Saving, At
<1>12. Removals'
  BY <1>2, <1>1, <1>3, <1>4, <1>5 DEF IInv, CheckAutoList, Removals, RemovalFits, Removing, At
<1>13. RefResolves'
  BY <1>2, <1>1, <1>3, <1>4, <1>5 DEF IInv, CheckAutoList, RefResolves, Dropped, At
<1>14. NoStraySecrets'
  BY <1>2, <1>1, <1>3, <1>4, <1>6, <1>7 DEF IInv, CheckAutoList, NoStraySecrets, Parameters
<1>15. RemovalCostsNothing'
  BY <1>2, <1>1, <1>3, <1>4, <1>5 DEF IInv, CheckAutoList, RemovalCostsNothing
<1> QED  BY <1>8, <1>9, <1>10, <1>11, <1>12, <1>13, <1>14, <1>15 DEF IInv

LEMMA AllocateKeeps ==
    ASSUME Parameters, IInv, Typed', Allocate
    PROVE  IInv'
<1>1. lapse \subseteq lapse' /\ lapse' \subseteq lapse \cup {"late"}
      /\ UNCHANGED <<channel, credentials, request, cascaded, used>>
  BY DEF Allocate
<1>2. Dropped => Dropped'
  BY <1>1 DEF Dropped, At
<1>3. Fits'
  BY <1>1 DEF IInv, Fits, JobFits, Saving, At
<1>4. Firsts'
  BY <1>1, <1>2 DEF IInv, Firsts, StoredFirst, Settled, Dropped, At
<1>5. Alone'
  BY <1>1 DEF IInv, Alone, Creating, Others, At
<1>6. Current'
  BY <1>1 DEF IInv, Current, RowIsCurrent, Saving, At
<1>7. Removals'
  BY <1>1 DEF IInv, Removals, RemovalFits, Removing, At, Allocate
<1>8. RefResolves'
  BY <1>1, <1>2 DEF IInv, RefResolves, Dropped, At
<1>9. NoStraySecrets'
  BY <1>1 DEF IInv, NoStraySecrets
<1>10. RemovalCostsNothing'
  BY <1>1 DEF IInv, RemovalCostsNothing, Allocate
<1> QED  BY <1>3, <1>4, <1>5, <1>6, <1>7, <1>8, <1>9, <1>10 DEF IInv

LEMMA DeallocateKeeps ==
    ASSUME Parameters, IInv, Typed', Deallocate
    PROVE  IInv'
<1>1. lapse \subseteq lapse' /\ lapse' \subseteq lapse \cup {"late"}
      /\ UNCHANGED <<channel, credentials, request, cascaded, used>>
  BY DEF Deallocate
<1>2. Dropped => Dropped'
  BY <1>1 DEF Dropped, At
<1>3. Fits'
  BY <1>1 DEF IInv, Fits, JobFits, Saving, At
<1>4. Firsts'
  BY <1>1, <1>2 DEF IInv, Firsts, StoredFirst, Settled, Dropped, At
<1>5. Alone'
  BY <1>1 DEF IInv, Alone, Creating, Others, At
<1>6. Current'
  BY <1>1 DEF IInv, Current, RowIsCurrent, Saving, At
<1>7. Removals'
  BY <1>1 DEF IInv, Removals, RemovalFits, Removing, At, Deallocate
<1>8. RefResolves'
  BY <1>1, <1>2 DEF IInv, RefResolves, Dropped, At
<1>9. NoStraySecrets'
  BY <1>1 DEF IInv, NoStraySecrets
<1>10. RemovalCostsNothing'
  BY <1>1 DEF IInv, RemovalCostsNothing, Deallocate
<1> QED  BY <1>3, <1>4, <1>5, <1>6, <1>7, <1>8, <1>9, <1>10 DEF IInv

-------------------------------------------------------------------------------
LEMMA InitKeeps ==
    ASSUME Parameters, Init PROVE IInv
<1>1. Typed
  BY InitTyped
<1>2. \A r \in Request : request[r] = Idle /\ Idle.step = "idle" /\ Idle.ref = Null
  BY IdleShape DEF Init
<1>3. Fits
  BY <1>2 DEF Fits, JobFits, Saving, At
<1>4. Firsts
  BY <1>2 DEF Firsts, StoredFirst, Settled, At
<1>5. Alone
  BY <1>2 DEF Alone, Creating, At, Init
<1>6. Current
  BY <1>2 DEF Current, RowIsCurrent, Saving, At
<1>7. Removals
  BY <1>2 DEF Removals, RemovalFits, Removing, At
<1>8. RefResolves /\ NoStraySecrets /\ RemovalCostsNothing
  BY DEF Init, RefResolves, NoStraySecrets, RemovalCostsNothing
<1> QED  BY <1>1, <1>3, <1>4, <1>5, <1>6, <1>7, <1>8 DEF IInv

LEMMA StutterKeeps ==
    ASSUME IInv, UNCHANGED vars PROVE IInv'
BY DEF vars, IInv, Typed, Fits, JobFits, Firsts, StoredFirst, Settled, Dropped, Alone, Creating,
       Others, Current, RowIsCurrent, Saving, Removals, RemovalFits, Removing, RefResolves,
       NoStraySecrets, RemovalCostsNothing, At

LEMMA NextKeeps ==
    ASSUME Parameters, IInv, [Next]_vars PROVE IInv'
<1>t. Typed'
  BY TypedPreserved DEF IInv
<1>1. CASE \E r \in Request : AskCreate(r)
  BY <1>1, <1>t, AskCreateKeeps
<1>2. CASE \E r \in Request : Store(r)
  BY <1>2, <1>t, StoreKeeps
<1>3. CASE \E r \in Request : Insert(r)
  BY <1>3, <1>t, InsertKeeps
<1>4. CASE \E r \in Request : AskUpdate(r)
  BY <1>4, <1>t, AskUpdateKeeps
<1>5. CASE \E r \in Request : ReadSecrets(r)
  BY <1>5, <1>t, ReadSecretsKeeps
<1>6. CASE \E r \in Request : PutSecrets(r)
  BY <1>6, <1>t, PutSecretsKeeps
<1>7. CASE \E r \in Request : CheckAutoList(r)
  BY <1>7, <1>t, CheckAutoListKeeps
<1>8. CASE \E r \in Request : WriteRow(r)
  BY <1>8, <1>t, WriteRowKeeps
<1>9. CASE \E r \in Request : AskRemove(r)
  BY <1>9, <1>t, AskRemoveKeeps
<1>10. CASE \E r \in Request : DropCredentials(r)
  BY <1>10, <1>t, DropCredentialsKeeps
<1>11. CASE \E r \in Request : Delete(r)
  BY <1>11, <1>t, DeleteKeeps
<1>12. CASE \E r \in Request : BreakOff(r)
  BY <1>12, <1>t, BreakOffKeeps
<1>13. CASE Allocate
  BY <1>13, <1>t, AllocateKeeps
<1>14. CASE Deallocate
  BY <1>14, <1>t, DeallocateKeeps
<1>15. CASE UNCHANGED vars
  BY <1>15, StutterKeeps
<1> QED
  BY <1>1, <1>2, <1>3, <1>4, <1>5, <1>6, <1>7, <1>8, <1>9, <1>10, <1>11, <1>12, <1>13,
     <1>14, <1>15 DEF Next

-------------------------------------------------------------------------------
\* IInv is an invariant: what ChannelsService relies on between its statements, whatever else
\* is under way.
THEOREM IInvInvariant ==
    ASSUME Parameters PROVE Spec => []IInv
<1>1. Init => IInv
  BY InitKeeps
<1>2. IInv /\ [Next]_vars => IInv'
  BY NextKeeps
<1> QED  BY <1>1, <1>2, PTL DEF Spec

\* The rows of ChannelInstance and Credential, and every request, have their types.
THEOREM TypeCorrect ==
    ASSUME Parameters PROVE Spec => []TypeOK
<1>1. IInv => TypeOK
  BY TypeIsTyped DEF IInv
<1> QED  BY <1>1, IInvInvariant, PTL

\* A channel never points at credentials that do not exist, no credentials are left that
\* nobody points at, and a removal takes no allocation with it, up to the removals that broke
\* off, the refused saves and the overlaps on record: however creations, saves, removals and
\* crashes interleave, for any number of requests, fields and references.
THEOREM Whole ==
    ASSUME Parameters PROVE Spec => []ChannelIsWhole
<1>1. IInv => ChannelIsWhole
  BY DEF IInv, ChannelIsWhole
<1> QED  BY <1>1, IInvInvariant, PTL

-------------------------------------------------------------------------------
(***************************************************************************)
(* What saves leave set.  A request on its own carries, at each step, what *)
(* it takes for its next write to clear nothing.                           *)
(***************************************************************************)
Calm == lapse \cap {"unreadable", "halfRemoved"} = {}

Holds(c, fields) == c \in Ref /\ credentials[c] # Null /\ fields \subseteq credentials[c]

Carries(r) ==
    LET job == request[r]
    IN  /\ Creating(r) /\ job.change.secrets # {} => job.ref \in Ref
        /\ At(r, "insert") /\ job.change.secrets # {} => Holds(job.ref, job.change.secrets)
        /\ Calm /\ At(r, "put") => given.secrets \subseteq job.stored
        /\ Calm /\ Settled(r) /\ job.change.secrets # {} =>
              Holds(job.ref, given.secrets \cup job.change.secrets)
        /\ At(r, "write") => MayAutoList(job)

Uncleared ==
    channel # Null /\ Calm =>
        /\ given.config \subseteq channel.config
        /\ \/ given.secrets = {}
           \/ Holds(channel.ref, given.secrets)
           \/ \E r \in Request : At(r, "delete")

Declared == channel # Null => (channel.autoList => channel.defaults)

Kept == "overlap" \notin lapse => (\A r \in Request : Carries(r)) /\ Uncleared /\ Declared

\* Without an overlap on record a request in flight is on its own.
LEMMA OnItsOwn ==
    ASSUME IInv, "overlap" \notin lapse, NEW r \in Request, ~At(r, "idle")
    PROVE  \A q \in Request \ {r} : At(q, "idle")
BY DEF IInv, Alone, Others, At

LEMMA IdleCarries ==
    ASSUME NEW r, At(r, "idle") PROVE Carries(r)
BY DEF At, Carries, Creating, Settled

LEMMA AskCreateSaves ==
    ASSUME Parameters, IInv, IInv', Kept, NEW r \in Request, AskCreate(r)
    PROVE  Kept'
<1> SUFFICES ASSUME "overlap" \notin lapse' PROVE Kept'
  BY DEF Kept
<1>1. PICK fields \in SUBSET Field, secrets \in SUBSET Field, c \in Ref \cup {Null} :
          /\ secrets # {} => c \in Ref
          /\ Begin(r, [Idle EXCEPT !.step = IF secrets = {} THEN "insert" ELSE "store",
                         !.change = [NoChange EXCEPT !.config = fields, !.secrets = secrets],
                         !.ref = c])
  BY DEF AskCreate
<1>2. channel = Null /\ channel' = Null /\ \A q \in Request : At(q, "idle")
  BY DEF IInv, Alone, AskCreate
<1>3. /\ request'[r].step = IF secrets = {} THEN "insert" ELSE "store"
      /\ request'[r].change.secrets = secrets /\ request'[r].ref = c
      /\ \A q \in Request \ {r} : request'[q] = request[q]
  BY <1>1 DEF Begin, IInv, Typed, Idle, NoChange
<1>4. Carries(r)'
  BY <1>1, <1>3 DEF Carries, Creating, Settled, At
<1>5. \A q \in Request \ {r} : Carries(q)'
  BY <1>2, <1>3 DEF Carries, Creating, Settled, At
<1> QED  BY <1>2, <1>4, <1>5 DEF Kept, Uncleared, Declared

LEMMA StoreSaves ==
    ASSUME Parameters, IInv, IInv', Kept, NEW r \in Request, Store(r)
    PROVE  Kept'
<1> SUFFICES ASSUME "overlap" \notin lapse' PROVE Kept'
  BY DEF Kept
<1>1. "overlap" \notin lapse /\ Carries(r)
  BY DEF Kept, Store
<1>2. /\ \A q \in Request \ {r} : request'[q] = request[q]
      /\ request'[r].step = "insert" /\ request'[r].ref = request[r].ref
      /\ request'[r].change = request[r].change
  BY GotoFacts DEF IInv, Store
<1>3. \A q \in Request \ {r} : At(q, "idle")
  BY <1>1, OnItsOwn DEF At, Store
<1>4. channel = Null /\ channel' = Null /\ request[r].ref \in Ref
  BY DEF IInv, Alone, Creating, Fits, JobFits, At, Store
<1>5. credentials'[request[r].ref] = request[r].change.secrets
      /\ request[r].change.secrets # Null
  BY <1>4 DEF IInv, Typed, Job, ChangeType, Store, Parameters
<1>6. Carries(r)'
  BY <1>2, <1>4, <1>5 DEF Carries, Creating, Settled, Holds, At
<1>7. \A q \in Request \ {r} : Carries(q)'
  BY <1>2, <1>3 DEF Carries, Creating, Settled, At
<1> QED  BY <1>4, <1>6, <1>7 DEF Kept, Uncleared, Declared

LEMMA InsertSaves ==
    ASSUME Parameters, IInv, IInv', Kept, NEW r \in Request, Insert(r)
    PROVE  Kept'
<1> SUFFICES ASSUME "overlap" \notin lapse' PROVE Kept'
  BY DEF Kept
<1>1. "overlap" \notin lapse /\ Carries(r)
  BY DEF Kept, Insert
<1>2. \A q \in Request : At(q, "idle")'
  BY <1>1, OnItsOwn, DoneFacts DEF IInv, At, Insert
<1>3. \A q \in Request : Carries(q)'
  BY <1>2 DEF Carries, Creating, Settled, At
<1>4. /\ channel' = [config |-> request[r].change.config, ref |-> request[r].ref,
                     autoList |-> FALSE, defaults |-> FALSE]
      /\ given' = [secrets |-> request[r].change.secrets, config |-> request[r].change.config]
      /\ credentials' = credentials
  BY DEF Insert
<1>5. request[r].change.secrets # {} => Holds(request[r].ref, request[r].change.secrets)
  BY <1>1 DEF Carries, Insert
<1> QED  BY <1>3, <1>4, <1>5 DEF Kept, Uncleared, Declared, Holds

LEMMA AskUpdateSaves ==
    ASSUME Parameters, IInv, IInv', Kept, NEW r \in Request, AskUpdate(r)
    PROVE  Kept'
<1> SUFFICES ASSUME "overlap" \notin lapse' PROVE Kept'
  BY DEF Kept
<1>1. PICK change \in Change :
         Begin(r, [Idle EXCEPT !.step = IF change.secrets = {} THEN "check" ELSE "read",
                     !.change = change, !.row = channel, !.ref = channel.ref])
  BY DEF AskUpdate
<1>2. /\ request'[r].step = IF change.secrets = {} THEN "check" ELSE "read"
      /\ request'[r].change.secrets = change.secrets
      /\ \A q \in Request \ {r} : request'[q] = request[q]
      /\ Others(r) = {} /\ lapse' = lapse /\ At(r, "idle")
  BY <1>1 DEF Begin, IInv, Typed, Idle, At
<1>3. Carries(r)'
  BY <1>2 DEF Carries, Creating, Settled, At
<1>4. \A q \in Request \ {r} : At(q, "idle")
  BY <1>2 DEF Others, At
<1>5. \A q \in Request \ {r} : Carries(q)'
  BY <1>2, <1>4 DEF Carries, Creating, Settled, At
<1>6. Uncleared' /\ Declared'
  BY <1>2, <1>4 DEF Kept, Uncleared, Declared, Holds, Calm, At, AskUpdate
<1> QED  BY <1>3, <1>5, <1>6 DEF Kept

LEMMA ReadSecretsSaves ==
    ASSUME Parameters, IInv, IInv', Kept, NEW r \in Request, ReadSecrets(r)
    PROVE  Kept'
<1> SUFFICES ASSUME "overlap" \notin lapse' PROVE Kept'
  BY DEF Kept
<1>1. PICK readable \in BOOLEAN, c \in Ref :
        /\ IF request[r].ref = Null THEN Fresh(c) ELSE c = request[r].ref
        /\ lapse' = lapse \cup {l \in {"unreadable"} : ~readable}
        /\ request' = [request EXCEPT ![r] = [@ EXCEPT !.step = "put", !.ref = c,
              !.stored = IF credentials[c] = Null \/ ~readable THEN {} ELSE credentials[c]]]
  BY DEF ReadSecrets
<1>2. /\ "overlap" \notin lapse /\ Uncleared /\ Declared
      /\ lapse \subseteq lapse' /\ (Calm' => Calm /\ readable)
  BY <1>1 DEF Kept, Calm
<1>3. /\ request'[r].step = "put"
      /\ request'[r].stored = IF credentials[c] = Null \/ ~readable THEN {} ELSE credentials[c]
      /\ \A q \in Request \ {r} : request'[q] = request[q]
  BY <1>1 DEF IInv, Typed, Job
<1>4. \A q \in Request \ {r} : At(q, "idle")
  BY <1>2, OnItsOwn DEF At, ReadSecrets
<1>5. /\ channel # Null /\ channel = request[r].row /\ request[r].ref = channel.ref
      /\ \A q \in Request : ~At(q, "delete")
  BY <1>2, <1>4 DEF IInv, Current, RowIsCurrent, Saving, Fits, JobFits, At, ReadSecrets,
         Parameters
<1>6. Carries(r)'
  <2>1. ASSUME Calm' PROVE given'.secrets \subseteq request'[r].stored
    <3>1. given.secrets = {} \/ Holds(channel.ref, given.secrets)
      BY <1>2, <1>5, <2>1 DEF Uncleared
    <3>2. given.secrets # {} => credentials[c] # Null /\ given.secrets \subseteq credentials[c]
      BY <1>1, <1>5, <3>1 DEF Holds, Parameters
    <3> QED  BY <1>2, <1>3, <2>1, <3>2 DEF ReadSecrets
  <2> QED  BY <1>3, <2>1 DEF Carries, Creating, Settled, At
<1>7. \A q \in Request \ {r} : Carries(q)'
  BY <1>3, <1>4 DEF Carries, Creating, Settled, At
<1>8. Uncleared' /\ Declared'
  BY <1>2, <1>5 DEF Uncleared, Declared, Holds, ReadSecrets
<1> QED  BY <1>6, <1>7, <1>8 DEF Kept

LEMMA PutSecretsSaves ==
    ASSUME Parameters, IInv, IInv', Kept, NEW r \in Request, PutSecrets(r)
    PROVE  Kept'
<1> SUFFICES ASSUME "overlap" \notin lapse' PROVE Kept'
  BY DEF Kept
<1>1. "overlap" \notin lapse /\ Carries(r) /\ Uncleared /\ Declared
  BY DEF Kept, PutSecrets
<1>2. /\ \A q \in Request \ {r} : request'[q] = request[q]
      /\ request'[r].step = "check" /\ request'[r].ref = request[r].ref
      /\ request'[r].change = request[r].change
  BY GotoFacts DEF IInv, PutSecrets
<1>3. \A q \in Request \ {r} : At(q, "idle")
  BY <1>1, OnItsOwn DEF At, PutSecrets
<1>4. request[r].ref \in Ref /\ At(r, "put")
  BY DEF IInv, Fits, JobFits, At, PutSecrets
<1>5. /\ credentials'[request[r].ref] = request[r].stored \cup request[r].change.secrets
      /\ credentials'[request[r].ref] # Null
      /\ \A c \in Ref \ {request[r].ref} : credentials'[c] = credentials[c]
  BY <1>4 DEF IInv, Typed, Job, ChangeType, PutSecrets, Parameters
<1>6. Calm' => Calm /\ given'.secrets \subseteq request[r].stored
  BY <1>1, <1>4 DEF Calm, Carries, PutSecrets
<1>7. Carries(r)'
  BY <1>2, <1>4, <1>5, <1>6 DEF Carries, Creating, Settled, Holds, At, PutSecrets
<1>8. \A q \in Request \ {r} : Carries(q)'
  BY <1>2, <1>3 DEF Carries, Creating, Settled, At
<1>9. \A q \in Request : ~At(q, "delete")
  BY <1>3, <1>4 DEF At
<1>10. Uncleared'
  BY <1>1, <1>4, <1>5, <1>6, <1>9 DEF Uncleared, Holds, PutSecrets
<1>11. Declared'
  BY <1>1 DEF Declared, PutSecrets
<1> QED  BY <1>7, <1>8, <1>10, <1>11 DEF Kept

LEMMA CheckAutoListSaves ==
    ASSUME Parameters, IInv, IInv', Kept, NEW r \in Request, CheckAutoList(r)
    PROVE  Kept'
<1> SUFFICES ASSUME "overlap" \notin lapse' PROVE Kept'
  BY DEF Kept
<1>1. "overlap" \notin lapse /\ Carries(r) /\ Uncleared /\ Declared
  BY DEF Kept, CheckAutoList
<1>2. \A q \in Request \ {r} : At(q, "idle")
  BY <1>1, OnItsOwn DEF At, CheckAutoList
<1>3. /\ \A q \in Request \ {r} : request'[q] = request[q]
      /\ Calm' => Calm
  BY GotoFacts, DoneFacts DEF IInv, CheckAutoList, Calm
<1>4. Carries(r)'
  <2>1. CASE MayAutoList(request[r])
    <3>1. Goto(r, "write")
      BY <2>1 DEF CheckAutoList
    <3>2. /\ request'[r].step = "write" /\ request'[r].ref = request[r].ref
          /\ request'[r].row = request[r].row /\ request'[r].change = request[r].change
      BY <3>1, GotoFacts DEF IInv
    <3>3. MayAutoList(request[r])'
      BY <2>1, <3>2 DEF MayAutoList, Resolved
    <3> QED  BY <1>1, <1>3, <3>2, <3>3 DEF Carries, Creating, Settled, Holds, At, CheckAutoList
  <2>2. CASE ~MayAutoList(request[r])
    <3>1. At(r, "idle")'
      BY <2>2, DoneFacts DEF IInv, CheckAutoList, At
    <3> QED  BY <3>1 DEF Carries, Creating, Settled, At
  <2> QED  BY <2>1, <2>2
<1>5. \A q \in Request \ {r} : Carries(q)'
  BY <1>2, <1>3 DEF Carries, Creating, Settled, At
<1>6. \A q \in Request : ~At(q, "delete")
  BY <1>2 DEF At, CheckAutoList
<1>7. Uncleared' /\ Declared'
  BY <1>1, <1>3, <1>6 DEF Uncleared, Declared, Holds, CheckAutoList
<1> QED  BY <1>4, <1>5, <1>7 DEF Kept

LEMMA WriteRowSaves ==
    ASSUME Parameters, IInv, IInv', Kept, NEW r \in Request, WriteRow(r)
    PROVE  Kept'
<1> SUFFICES ASSUME "overlap" \notin lapse' PROVE Kept'
  BY DEF Kept
<1>1. "overlap" \notin lapse /\ Carries(r) /\ Uncleared /\ Declared
  BY DEF Kept, WriteRow
<1>2. \A q \in Request \ {r} : At(q, "idle")
  BY <1>1, OnItsOwn DEF At, WriteRow
<1>3. \A q \in Request : At(q, "idle")'
  BY <1>2, DoneFacts DEF IInv, At, WriteRow
<1>4. \A q \in Request : Carries(q)'
  BY <1>3 DEF Carries, Creating, Settled, At
<1>5. \A q \in Request : ~At(q, "delete")
  BY <1>2 DEF At, WriteRow
<1> DEFINE job == request[r]
<1>6. /\ channel # Null /\ channel = job.row
      /\ job.change.secrets = {} => job.ref = channel.ref
  BY <1>1 DEF IInv, Current, RowIsCurrent, Saving, Fits, JobFits, At, WriteRow, Parameters
<1>7. /\ channel' = [config |-> IF job.change.config = {} THEN channel.config
                                ELSE job.row.config \cup job.change.config,
                     ref |-> IF job.ref # job.row.ref THEN job.ref ELSE channel.ref,
                     autoList |-> Resolved(job.change.autoList, channel.autoList),
                     defaults |-> Resolved(job.change.defaults, channel.defaults)]
      /\ given' = [secrets |-> given.secrets \cup job.change.secrets,
                   config |-> given.config \cup job.change.config]
      /\ credentials' = credentials /\ lapse' = lapse
  BY <1>6 DEF WriteRow
<1>8. MayAutoList(job) /\ At(r, "write")
  BY <1>1 DEF Carries, WriteRow
<1>9. channel'.ref = job.ref
  BY <1>6, <1>7
<1>10. Declared'
  BY <1>6, <1>7, <1>8 DEF Declared, MayAutoList
<1>11. Uncleared'
  <2> SUFFICES ASSUME Calm
               PROVE  /\ given'.config \subseteq channel'.config
                      /\ given'.secrets = {} \/ Holds(channel.ref, given.secrets)'
    BY <1>7 DEF Uncleared, Calm, Holds
  <2>1. given.config \subseteq channel.config
    BY <1>1, <1>6 DEF Uncleared
  <2>2. given'.config \subseteq channel'.config
    BY <1>6, <1>7, <2>1
  <2>3. CASE job.change.secrets = {}
    <3>1. given.secrets = {} \/ Holds(channel.ref, given.secrets)
      BY <1>1, <1>5, <1>6 DEF Uncleared
    <3>2. given'.secrets = given.secrets /\ channel'.ref = channel.ref
      BY <1>6, <1>7, <1>9, <2>3
    <3> QED  BY <1>7, <2>2, <3>1, <3>2 DEF Holds
  <2>4. CASE job.change.secrets # {}
    <3>1. Holds(job.ref, given.secrets \cup job.change.secrets)
      BY <1>1, <1>8, <2>4 DEF Carries, Settled, At
    <3> QED  BY <1>7, <1>9, <2>2, <3>1 DEF Holds
  <2> QED  BY <2>3, <2>4
<1> QED  BY <1>4, <1>10, <1>11 DEF Kept

LEMMA AskRemoveSaves ==
    ASSUME Parameters, IInv, IInv', Kept, NEW r \in Request, AskRemove(r)
    PROVE  Kept'
<1> SUFFICES ASSUME "overlap" \notin lapse' PROVE Kept'
  BY DEF Kept
<1>1. Begin(r, [Idle EXCEPT !.step = IF channel.ref = Null THEN "delete" ELSE "uncredential",
                            !.ref = channel.ref])
  BY DEF AskRemove
<1>2. /\ request'[r].step \in {"delete", "uncredential"}
      /\ \A q \in Request \ {r} : request'[q] = request[q]
      /\ Others(r) = {} /\ lapse' = lapse /\ At(r, "idle")
  BY <1>1 DEF Begin, IInv, Typed, Idle, At
<1>3. \A q \in Request : At(q, "idle")
  BY <1>2 DEF Others, At
<1>4. \A q \in Request : Carries(q)'
  BY <1>2, <1>3 DEF Carries, Creating, Settled, At
<1>5. Uncleared' /\ Declared'
  BY <1>2, <1>3 DEF Kept, Uncleared, Declared, Holds, Calm, At, AskRemove
<1> QED  BY <1>4, <1>5 DEF Kept

LEMMA DropCredentialsSaves ==
    ASSUME Parameters, IInv, IInv', Kept, NEW r \in Request, DropCredentials(r)
    PROVE  Kept'
<1> SUFFICES ASSUME "overlap" \notin lapse' PROVE Kept'
  BY DEF Kept
<1>1. "overlap" \notin lapse /\ Uncleared /\ Declared
  BY DEF Kept, DropCredentials
<1>2. \A q \in Request \ {r} : At(q, "idle")
  BY <1>1, OnItsOwn DEF At, DropCredentials
<1>3. request'[r].step = "delete" /\ \A q \in Request \ {r} : request'[q] = request[q]
  BY GotoFacts DEF IInv, DropCredentials
<1>4. \A q \in Request : Carries(q)'
  BY <1>2, <1>3 DEF Carries, Creating, Settled, At
<1>5. Uncleared' /\ Declared'
  BY <1>1, <1>3 DEF Uncleared, Declared, Calm, At, DropCredentials
<1> QED  BY <1>4, <1>5 DEF Kept

LEMMA DeleteSaves ==
    ASSUME Parameters, IInv, IInv', Kept, NEW r \in Request, Delete(r)
    PROVE  Kept'
<1> SUFFICES ASSUME "overlap" \notin lapse' PROVE Kept'
  BY DEF Kept
<1>1. \A q \in Request \ {r} : At(q, "idle")
  BY OnItsOwn DEF At, Delete
<1>2. \A q \in Request : At(q, "idle")'
  BY <1>1, DoneFacts DEF IInv, At, Delete
<1>3. \A q \in Request : Carries(q)'
  BY <1>2 DEF Carries, Creating, Settled, At
<1> QED  BY <1>3 DEF Kept, Uncleared, Declared, Delete

\* Giving up half of a removal is on record; of anything else, nothing was pointed at yet.
LEMMA BreakOffSaves ==
    ASSUME Parameters, IInv, IInv', Kept, NEW r \in Request, BreakOff(r)
    PROVE  Kept'
<1> SUFFICES ASSUME "overlap" \notin lapse' PROVE Kept'
  BY DEF Kept
<1>1. "overlap" \notin lapse /\ Uncleared /\ Declared
  BY DEF Kept, BreakOff
<1>2. \A q \in Request \ {r} : At(q, "idle")
  BY <1>1, OnItsOwn DEF At, BreakOff
<1>3. \A q \in Request : At(q, "idle")'
  BY <1>2, DoneFacts DEF IInv, At, BreakOff
<1>4. \A q \in Request : Carries(q)'
  BY <1>3 DEF Carries, Creating, Settled, At
<1>5. Calm' => Calm /\ \A q \in Request : ~At(q, "delete")
  BY <1>2 DEF Calm, Removing, At, BreakOff
<1>6. Uncleared' /\ Declared'
  BY <1>1, <1>5 DEF Uncleared, Declared, Holds, BreakOff
<1> QED  BY <1>4, <1>6 DEF Kept

\* Allocations and a stutter touch neither rows nor requests.
LEMMA OthersSave ==
    ASSUME Kept, Allocate \/ Deallocate \/ UNCHANGED vars
    PROVE  Kept'
<1>1. /\ channel' = channel /\ credentials' = credentials /\ request' = request
      /\ given' = given
      /\ lapse' \ {"late"} = lapse \ {"late"}
  BY DEF Allocate, Deallocate, vars
<1>2. (Calm' <=> Calm) /\ ("overlap" \in lapse' <=> "overlap" \in lapse)
  BY <1>1 DEF Calm
<1>3. ASSUME NEW r \in Request, Carries(r) PROVE Carries(r)'
  BY <1>1, <1>2, <1>3 DEF Carries, Creating, Settled, Holds, At, MayAutoList, Resolved
<1>4. (Uncleared => Uncleared') /\ (Declared => Declared')
  BY <1>1, <1>2 DEF Uncleared, Declared, Holds, At
<1> QED  BY <1>2, <1>3, <1>4 DEF Kept

LEMMA NextSaves ==
    ASSUME Parameters, IInv, IInv', Kept, [Next]_vars
    PROVE  Kept'
BY AskCreateSaves, StoreSaves, InsertSaves, AskUpdateSaves, ReadSecretsSaves, PutSecretsSaves,
   CheckAutoListSaves, WriteRowSaves, AskRemoveSaves, DropCredentialsSaves, DeleteSaves,
   BreakOffSaves, OthersSave DEF Next

LEMMA InitSaves == ASSUME Init PROVE Kept
<1>1. \A r \in Request : Carries(r)
  BY DEF Init, Idle, Carries, Creating, Settled, At
<1> QED  BY <1>1 DEF Init, Kept, Uncleared, Declared

\* Every field of the configuration and every secret that a save ever carried out gave the
\* channel is still set, and a channel that lists by itself has its defaults, unless requests
\* overlapped, secrets could not be read or a removal broke off: for any number of requests.
THEOREM SettingsAreKept ==
    ASSUME Parameters PROVE Spec => []SavesKeepSettings
<1>1. Init => Kept
  BY InitSaves
<1>2. IInv /\ IInv' /\ Kept /\ [Next]_vars => Kept'
  BY NextSaves
<1>3. IInv /\ Kept => SavesKeepSettings
  <2> SUFFICES ASSUME IInv, Kept PROVE SavesKeepSettings
    OBVIOUS
  <2>1. channel # Null => channel.ref \in Ref \cup {Null}
    BY DEF IInv, Typed, Channel
  <2>2. NothingIsCleared
    BY <2>1 DEF Kept, Uncleared, Calm, Holds, NothingIsCleared, Parameters
  <2>3. AutoListHasDefaults
    BY DEF Kept, Declared, AutoListHasDefaults
  <2> QED  BY <2>2, <2>3 DEF SavesKeepSettings
<1> QED  BY <1>1, <1>2, <1>3, IInvInvariant, PTL DEF Spec

-------------------------------------------------------------------------------
(***************************************************************************)
(* Accounts: who administers, and what signs in.                           *)
(***************************************************************************)
AskedType ==
    [step: {"idle", "load", "count", "write", "written"}, task: Acc!Task \cup {Null},
     target: User \cup {Null}, actor: User \cup {Null}, change: Acc!Change \cup {Acc!NoChange},
     seen: Acc!Account \cup {Null}, raced: BOOLEAN]

\* What a request carries at each of its steps.
AskedFits(q) ==
    /\ asked[q].step # "idle" => asked[q].target \in User
    /\ asked[q].step = "count" => asked[q].task \in {"update", "remove"}
    /\ asked[q].step \in {"count", "write"} => asked[q].seen \in Acc!Account

\* While nobody else has changed who administers, a request to change or remove an account
\* knows whether it is an active administrator's, and a check it has passed still holds.
CheckHolds(q) ==
    /\ asked[q].task \in {"update", "remove"} /\ asked[q].step \in {"count", "write"}
    /\ ~asked[q].raced
    => /\ asked[q].target \in Acc!ActiveAdmins(users) <=>
             asked[q].seen.role = "admin" /\ asked[q].seen.active
       /\ asked[q].step = "write" /\ Acc!TakesAnAdmin(asked[q]) /\ asked[q].seen.active =>
             \E u \in Acc!ActiveAdmins(users) : u # asked[q].target

AllAskedFit == \A q \in Request : AskedFits(q) /\ CheckHolds(q)

\* Without a second setup beside it, the one setup there is comes before any account.
OneSetup ==
    accountLapse \cap {"setups", "overlap"} = {} =>
        /\ setups <= 1
        /\ \A p, q \in Request : asked[p].task = "setup" /\ asked[q].task = "setup" => p = q
        /\ \A q \in Request : asked[q].task = "setup" => setups = 0

SessionsAreOwned == \A s \in sessions : users[s.owner] # Null

AccountIInv == Acc!TypeOK /\ AllAskedFit /\ Acc!AdminRemains /\ OneSetup /\ SessionsAreOwned
        /\ Acc!OldPasswordsAreCut

LEMMA AccountTypesUnfolded ==
    Acc!TypeOK <=> /\ users \in [User -> Acc!Account \cup {Null}]
               /\ sessions \subseteq [owner: User, password: 1..MaxPassword]
               /\ keys \subseteq [owner: User \cup {Null}, role: Acc!Role]
               /\ asked \in [Request -> AskedType]
               /\ made \in 0..MaxRequests /\ setups \in Nat
               /\ accountLapse \subseteq {"overlap", "setups", "lateSession", "unrevoked"}
BY DEF Acc!TypeOK, AskedType

LEMMA NewAccountType ==
    ASSUME Acc!Parameters, NEW role \in Acc!Role
    PROVE  Acc!NewAccount(role) \in Acc!Account /\ Acc!NewAccount(role) # Null
<1>1. 1 \in 1..MaxPassword
  BY DEF Acc!Parameters
<1>2. Acc!NewAccount(role) \in Acc!Account
  BY <1>1 DEF Acc!NewAccount, Acc!Account
<1> QED  BY <1>2 DEF Acc!Parameters

LEMMA IdleType == Acc!Idle \in AskedType
BY DEF Acc!Idle, AskedType

LEMMA AccountsInit ==
    ASSUME Acc!Parameters, Acc!Init PROVE AccountIInv
<1>1. \A role \in Acc!Role : Acc!NewAccount(role) \in Acc!Account /\ Acc!NewAccount(role) # Null
  BY NewAccountType
<1>2. \A q \in Request : asked[q] = Acc!Idle
  BY DEF Acc!Init
<1>3. "admin" \in Acc!Role
  BY DEF Acc!Role
<1>4. Acc!TypeOK
  <2>1. users \in [User -> Acc!Account \cup {Null}]
    BY <1>1, <1>3 DEF Acc!Init
  <2>2. sessions \subseteq [owner: User, password: 1..MaxPassword]
    BY DEF Acc!Init, Acc!Parameters
  <2>3. asked \in [Request -> AskedType]
    BY IdleType DEF Acc!Init
  <2>4. made \in 0..MaxRequests /\ setups \in Nat
    BY DEF Acc!Init, Acc!Parameters
  <2> QED  BY <2>1, <2>2, <2>3, <2>4, AccountTypesUnfolded DEF Acc!Init
<1>5. AllAskedFit
  BY <1>2 DEF AllAskedFit, AskedFits, CheckHolds, Acc!Idle
<1>6. Acc!Idle.task = Null /\ Null # "setup"
  BY DEF Acc!Idle, Acc!Parameters, Acc!Task
<1>7. OneSetup
  BY <1>2, <1>6 DEF OneSetup, Acc!Init
<1>8. CASE users = [u \in User |-> Null] /\ sessions = {} /\ setups = 0
  BY <1>4, <1>5, <1>7, <1>8 DEF AccountIInv, Acc!AdminRemains, SessionsAreOwned,
     Acc!OldPasswordsAreCut
<1>9. CASE /\ users = [u \in User |-> Acc!NewAccount("admin")]
           /\ sessions = {[owner |-> u, password |-> 1] : u \in User}
  <2>1. \A u \in User : users[u].password = 1 /\ users[u] # Null
    BY <1>1, <1>3, <1>9 DEF Acc!NewAccount
  <2>2. SessionsAreOwned /\ Acc!OldPasswordsAreCut
    BY <1>9, <2>1 DEF SessionsAreOwned, Acc!OldPasswordsAreCut
  <2>3. Acc!AdminRemains
    <3>1. Acc!ActiveAdmins(users) = User
      BY <1>9, <2>1 DEF Acc!ActiveAdmins, Acc!NewAccount
    <3> QED  BY <3>1 DEF Acc!AdminRemains, Acc!Parameters
  <2> QED  BY <1>4, <1>5, <1>7, <2>2, <2>3 DEF AccountIInv
<1> QED  BY <1>8, <1>9 DEF Acc!Init

-------------------------------------------------------------------------------
\* A request begins, moves on or ends, and no account changes.
LEMMA AskedStepFits ==
    ASSUME AllAskedFit, asked \in [Request -> AskedType], UNCHANGED users,
           NEW r \in Request, NEW job \in AskedType,
           asked' = [asked EXCEPT ![r] = job], AskedFits(r)', CheckHolds(r)'
    PROVE  AllAskedFit' /\ asked' \in [Request -> AskedType]
<1>1. \A q \in Request \ {r} : asked'[q] = asked[q]
  OBVIOUS
<1>2. \A q \in Request \ {r} : AskedFits(q)' /\ CheckHolds(q)'
  BY <1>1 DEF AllAskedFit, AskedFits, CheckHolds
<1> QED  BY <1>2 DEF AllAskedFit

LEMMA AskedDoneFits ==
    ASSUME AllAskedFit, asked \in [Request -> AskedType], UNCHANGED users,
           NEW r \in Request, Acc!Done(r)
    PROVE  AllAskedFit' /\ asked' \in [Request -> AskedType]
<1>1. asked' = [asked EXCEPT ![r] = Acc!Idle] /\ asked'[r] = Acc!Idle
  BY DEF Acc!Done
<1>2. AskedFits(r)' /\ CheckHolds(r)'
  BY <1>1 DEF AskedFits, CheckHolds, Acc!Idle
<1> QED  BY <1>1, <1>2, IdleType, AskedStepFits

LEMMA AskedBeginFits ==
    ASSUME AllAskedFit, asked \in [Request -> AskedType], UNCHANGED users,
           made \in 0..MaxRequests, Acc!Parameters,
           NEW r \in Request, NEW task \in Acc!Task, NEW target \in User,
           NEW actor \in User \cup {Null}, NEW change \in Acc!Change \cup {Acc!NoChange},
           Acc!Begin(r, task, "load", target, actor, change)
    PROVE  /\ AllAskedFit' /\ asked' \in [Request -> AskedType]
           /\ made' \in 0..MaxRequests /\ asked[r].step = "idle"
           /\ asked'[r].task = task /\ asked'[r].step = "load"
           /\ \A q \in Request \ {r} : asked'[q] = asked[q]
<1> DEFINE job == [Acc!Idle EXCEPT !.task = task, !.step = "load", !.target = target,
                               !.actor = actor, !.change = change]
<1>1. job \in AskedType /\ job.step = "load" /\ job.task = task /\ job.target = target
  BY DEF AskedType, Acc!Idle
<1>2. asked' = [asked EXCEPT ![r] = job] /\ asked[r].step = "idle"
  BY DEF Acc!Begin
<1> HIDE DEF job
<1>3. AskedFits(r)' /\ CheckHolds(r)'
  BY <1>1, <1>2 DEF AskedFits, CheckHolds
<1>4. made' \in 0..MaxRequests
  BY DEF Acc!Begin, Acc!Parameters
<1> QED  BY <1>1, <1>2, <1>3, <1>4, AskedStepFits

\* Accounts are written: whoever has a check behind it keeps it, or is marked as raced.
LEMMA AccountWriteFits ==
    ASSUME AllAskedFit, asked \in [Request -> AskedType],
           accountLapse \subseteq {"overlap", "setups", "lateSession", "unrevoked"},
           NEW r \in Request, asked[r].step # "idle", NEW us, Acc!Write(r, us)
    PROVE  /\ AllAskedFit' /\ asked' \in [Request -> AskedType]
           /\ accountLapse' \subseteq {"overlap", "setups", "lateSession", "unrevoked"}
           /\ accountLapse \subseteq accountLapse'
                  /\ accountLapse' \subseteq accountLapse \cup {"overlap"}
           /\ users' = us
           /\ \A q \in Request \ {r} : /\ asked'[q].step = asked[q].step
                                       /\ asked'[q].task = asked[q].task
                                       /\ asked'[q].target = asked[q].target
           /\ asked'[r] = Acc!Written(r)
           /\ asked[r].raced /\ Acc!ActiveAdmins(users) \ Acc!ActiveAdmins(us) # {} =>
                 "overlap" \in accountLapse'
<1> DEFINE moved == Acc!ActiveAdmins(us) # Acc!ActiveAdmins(users)
           raced(q) == IF asked[q].step # "idle" /\ moved
                       THEN [asked[q] EXCEPT !.raced = TRUE] ELSE asked[q]
<1>1. asked' = [q \in Request |-> IF q = r THEN Acc!Written(r) ELSE raced(q)]
  BY DEF Acc!Write
<1>2. Acc!Written(r) \in AskedType
  BY IdleType DEF Acc!Written, AskedType
<1>3. ASSUME NEW q \in Request \ {r}
      PROVE  /\ asked'[q] \in AskedType /\ AskedFits(q)' /\ CheckHolds(q)'
             /\ asked'[q].step = asked[q].step /\ asked'[q].task = asked[q].task
             /\ asked'[q].target = asked[q].target
  <2>1. asked'[q] = raced(q) /\ asked[q] \in AskedType /\ AskedFits(q) /\ CheckHolds(q)
    BY <1>1 DEF AllAskedFit
  <2>2. CASE asked[q].step # "idle" /\ moved
    <3>1. /\ asked'[q] = [asked[q] EXCEPT !.raced = TRUE]
          /\ asked'[q].raced
      BY <2>1, <2>2 DEF AskedType
    <3> QED  BY <2>1, <3>1 DEF AskedType, AskedFits, CheckHolds
  <2>3. CASE ~(asked[q].step # "idle" /\ moved)
    <3>1. asked'[q] = asked[q]
      BY <2>1, <2>3
    <3>2. asked[q].step \in {"count", "write"}
          => Acc!ActiveAdmins(users') = Acc!ActiveAdmins(users)
      BY <2>3 DEF Acc!Write
    <3>3. AskedFits(q)'
      BY <2>1, <3>1 DEF AskedFits
    <3>4. CheckHolds(q)'
      BY <2>1, <3>1, <3>2 DEF CheckHolds
    <3> QED  BY <2>1, <3>1, <3>3, <3>4
  <2> QED  BY <2>2, <2>3
<1>4. AskedFits(r)' /\ CheckHolds(r)'
  <2>1. asked'[r] = Acc!Written(r) /\ AskedFits(r) /\ asked[r] \in AskedType
    BY <1>1 DEF AllAskedFit
  <2>2. \/ asked'[r] = Acc!Idle
        \/ asked'[r].step = "written" /\ asked'[r].target = asked[r].target
    BY <2>1 DEF Acc!Written, AskedType
  <2> QED  BY <2>1, <2>2 DEF AskedFits, CheckHolds, Acc!Idle
<1>5. AllAskedFit' /\ asked' \in [Request -> AskedType]
  BY <1>1, <1>2, <1>3, <1>4 DEF AllAskedFit
<1>6. /\ accountLapse \subseteq accountLapse'
             /\ accountLapse' \subseteq accountLapse \cup {"overlap"} /\ users' = us
      /\ asked[r].raced /\ Acc!ActiveAdmins(users) \ Acc!ActiveAdmins(us) # {}
             => "overlap" \in accountLapse'
  BY DEF Acc!Write
<1>7. asked'[r] = Acc!Written(r)
  BY <1>1
<1> QED  BY <1>3, <1>5, <1>6, <1>7

\* Whoever is no longer an administrator was not the last, or another request interfered.
LEMMA WriteKeepsAdmins ==
    ASSUME Acc!Parameters, AccountIInv, NEW r \in Request, asked[r].step # "idle", NEW us,
           Acc!Write(r, us),
           setups' = setups,
           ~asked[r].raced /\ Acc!ActiveAdmins(users) \ Acc!ActiveAdmins(us) # {} =>
              Acc!ActiveAdmins(us) # {}
    PROVE  Acc!AdminRemains'
<1>1. /\ accountLapse \subseteq accountLapse' /\ users' = us
      /\ asked[r].raced /\ Acc!ActiveAdmins(users) \ Acc!ActiveAdmins(us) # {}
             => "overlap" \in accountLapse'
  BY AccountTypesUnfolded, AccountWriteFits DEF AccountIInv
<1>2. SUFFICES ASSUME setups > 0, "overlap" \notin accountLapse' PROVE Acc!ActiveAdmins(us) # {}
  BY <1>1 DEF Acc!AdminRemains
<1>3. Acc!ActiveAdmins(users) # {}
  BY <1>1, <1>2 DEF AccountIInv, Acc!AdminRemains
<1> QED  BY <1>1, <1>2, <1>3

\* A written account is no setup.
LEMMA WriteKeepsSetups ==
    ASSUME Acc!Parameters, AccountIInv, NEW r \in Request, asked[r].step # "idle", NEW us,
           Acc!Write(r, us),
           setups' = setups
    PROVE  OneSetup'
<1>1. /\ accountLapse \subseteq accountLapse' /\ asked'[r] = Acc!Written(r)
      /\ \A q \in Request \ {r} : asked'[q].task = asked[q].task
  BY AccountTypesUnfolded, AccountWriteFits DEF AccountIInv
<1>2. asked'[r].task # "setup"
  BY <1>1, AccountTypesUnfolded DEF AccountIInv, Acc!Written, Acc!Idle, AskedType,
     Acc!Parameters, Acc!Task
<1> QED  BY <1>1, <1>2 DEF AccountIInv, OneSetup

\* Where no session is written, sessions keep their accounts and, but for the passwords that
\* are being changed, their passwords.
LEMMA WriteKeepsSessions ==
    ASSUME AccountIInv, NEW r \in Request, asked[r].step \notin {"idle", "written"},
           NEW us \in [User -> Acc!Account \cup {Null}], Acc!Write(r, us), sessions' = sessions,
           \A u \in User : users[u] # Null =>
              /\ us[u] # Null
              /\ \/ us[u].password = users[u].password
                 \/ Acc!Written(r).step = "written" /\ Acc!Written(r).target = u
    PROVE  SessionsAreOwned' /\ Acc!OldPasswordsAreCut'
<1>1. /\ accountLapse \subseteq accountLapse' /\ users' = us /\ asked'[r] = Acc!Written(r)
      /\ \A q \in Request \ {r} : /\ asked'[q].step = asked[q].step
                                  /\ asked'[q].target = asked[q].target
  BY AccountTypesUnfolded, AccountWriteFits DEF AccountIInv
<1>2. \A s \in sessions : s.owner \in User /\ users[s.owner] # Null
  BY AccountTypesUnfolded DEF AccountIInv, SessionsAreOwned
<1>3. SessionsAreOwned'
  BY <1>1, <1>2 DEF SessionsAreOwned
<1>4. ASSUME NEW s \in sessions
      PROVE  \/ s.password = us[s.owner].password
             \/ accountLapse' \cap {"lateSession", "unrevoked"} # {}
             \/ \E q \in Request : asked'[q].step = "written" /\ asked'[q].target = s.owner
  <2>1. CASE s.password = users[s.owner].password
    BY <2>1, <1>1, <1>2
  <2>2. CASE accountLapse \cap {"lateSession", "unrevoked"} # {}
    BY <2>2, <1>1
  <2>3. CASE \E q \in Request : asked[q].step = "written" /\ asked[q].target = s.owner
    BY <2>3, <1>1
  <2> QED  BY <2>1, <2>2, <2>3 DEF AccountIInv, Acc!OldPasswordsAreCut
<1>5. Acc!OldPasswordsAreCut'
  BY <1>1, <1>4 DEF Acc!OldPasswordsAreCut
<1> QED  BY <1>3, <1>5

LEMMA WriteKeepsTypes ==
    ASSUME AccountIInv, NEW r \in Request, asked[r].step # "idle",
           NEW us \in [User -> Acc!Account \cup {Null}], Acc!Write(r, us),
           sessions' \subseteq sessions,
               keys' \subseteq [owner: User \cup {Null}, role: Acc!Role],
           made' = made, setups' \in Nat
    PROVE  Acc!TypeOK' /\ AllAskedFit'
<1>1. /\ users' = us /\ AllAskedFit' /\ asked' \in [Request -> AskedType]
      /\ accountLapse' \subseteq {"overlap", "setups", "lateSession", "unrevoked"}
  BY AccountTypesUnfolded, AccountWriteFits DEF AccountIInv
<1>2. sessions' \subseteq [owner: User, password: 1..MaxPassword] /\ made' \in 0..MaxRequests
  BY AccountTypesUnfolded DEF AccountIInv
<1> QED  BY <1>1, <1>2 DEF Acc!TypeOK, AskedType
\* A step that writes no account and opens no session.
LEMMA QuietStep ==
    ASSUME AccountIInv, Acc!TypeOK', AllAskedFit', UNCHANGED <<users, setups>>,
           accountLapse \subseteq accountLapse',
           sessions' \subseteq sessions,
           \A q \in Request : asked'[q].task = "setup" => asked[q].task = "setup",
           \A q \in Request, s \in sessions' :
              asked[q].step = "written" /\ asked[q].target = s.owner =>
                 \/ "unrevoked" \in accountLapse'
                 \/ asked'[q].step = "written" /\ asked'[q].target = s.owner
    PROVE  AccountIInv'
<1>1. Acc!AdminRemains' /\ OneSetup' /\ SessionsAreOwned'
  BY DEF AccountIInv, Acc!AdminRemains, OneSetup, SessionsAreOwned
<1>2. Acc!OldPasswordsAreCut'
  BY DEF AccountIInv, Acc!OldPasswordsAreCut
<1> QED  BY <1>1, <1>2 DEF AccountIInv

\* The same where a request moves on or ends.
LEMMA QuietRequest ==
    ASSUME Acc!Parameters, AccountIInv, NEW r \in Request, asked[r].step # "written",
           NEW job \in AskedType, asked' = [asked EXCEPT ![r] = job],
           job.task \in {asked[r].task, Null},
           AskedFits(r)', CheckHolds(r)',
               UNCHANGED <<users, sessions, keys, made, setups, accountLapse>>
    PROVE  AccountIInv'
<1>1. asked \in [Request -> AskedType] /\ AllAskedFit
  BY AccountTypesUnfolded DEF AccountIInv
<1>2. AllAskedFit' /\ asked' \in [Request -> AskedType]
  BY <1>1, AskedStepFits
<1>3. Acc!TypeOK'
  BY <1>2, AccountTypesUnfolded DEF AccountIInv, Acc!TypeOK, AskedType
<1>4. \A q \in Request \ {r} : asked'[q] = asked[q]
  BY <1>1
<1>5. asked'[r] = job /\ Null # "setup"
  BY <1>1 DEF Acc!Parameters, Acc!Task
<1> QED  BY <1>2, <1>3, <1>4, <1>5, QuietStep

LEMMA QuietEnd ==
    ASSUME Acc!Parameters, AccountIInv, NEW r \in Request, asked[r].step # "written",
           Acc!Done(r),
           UNCHANGED <<users, sessions, keys, made, setups, accountLapse>>
    PROVE  AccountIInv'
<1>1. asked' = [asked EXCEPT ![r] = Acc!Idle] /\ asked'[r] = Acc!Idle /\ Acc!Idle.task = Null
  BY AccountTypesUnfolded DEF AccountIInv, Acc!Done, Acc!Idle
<1>2. AskedFits(r)' /\ CheckHolds(r)'
  BY <1>1 DEF AskedFits, CheckHolds, Acc!Idle
<1> QED  BY <1>1, <1>2, IdleType, QuietRequest

LEMMA QuietBegin ==
    ASSUME Acc!Parameters, AccountIInv, NEW r \in Request, NEW task \in Acc!Task,
           NEW target \in User,
           NEW actor \in User \cup {Null}, NEW change \in Acc!Change \cup {Acc!NoChange},
           Acc!Begin(r, task, "load", target, actor, change), task # "setup",
           UNCHANGED <<users, sessions, keys, setups, accountLapse>>
    PROVE  AccountIInv'
<1>1. /\ AllAskedFit' /\ asked' \in [Request -> AskedType] /\ made' \in 0..MaxRequests
      /\ asked[r].step = "idle" /\ asked'[r].task = task
      /\ \A q \in Request \ {r} : asked'[q] = asked[q]
  BY AccountTypesUnfolded, AskedBeginFits DEF AccountIInv
<1>2. Acc!TypeOK'
  BY <1>1, AccountTypesUnfolded DEF AccountIInv, Acc!TypeOK, AskedType
<1> QED  BY <1>1, <1>2, QuietStep

-------------------------------------------------------------------------------
\* Which requests there are.
LEMMA AskAdminKeeps ==
    ASSUME Acc!Parameters, AccountIInv, NEW r \in Request, Acc!AskAdmin(r) PROVE AccountIInv'
<1>1. PICK actor \in Acc!Administrators, target \in User :
         \/ Acc!Begin(r, "create", "load", target, actor, Acc!NoChange)
         \/ \E change \in Acc!Change : Acc!Begin(r, "update", "load", target, actor, change)
         \/ Acc!Begin(r, "remove", "load", target, actor, Acc!NoChange)
         \/ Acc!Begin(r, "setPassword", "load", target, actor, Acc!NoChange)
  BY DEF Acc!AskAdmin
<1>2. actor \in User \cup {Null}
  BY AccountTypesUnfolded DEF AccountIInv, Acc!Administrators, Acc!Accounts
<1>3. {"create", "update", "remove", "setPassword"} \subseteq Acc!Task
  BY DEF Acc!Task
<1>4. UNCHANGED <<users, sessions, keys, setups, accountLapse>>
  BY DEF Acc!AskAdmin
<1> QED  BY <1>1, <1>2, <1>3, <1>4, QuietBegin

LEMMA AskSetupKeeps ==
    ASSUME Acc!Parameters, AccountIInv, NEW r \in Request, Acc!AskSetup(r) PROVE AccountIInv'
<1>1. PICK u \in User : Acc!Begin(r, "setup", "load", u, Null, Acc!NoChange)
  BY DEF Acc!AskSetup
<1>2. /\ AllAskedFit' /\ asked' \in [Request -> AskedType] /\ made' \in 0..MaxRequests
      /\ asked[r].step = "idle" /\ asked'[r].task = "setup"
      /\ \A q \in Request \ {r} : asked'[q] = asked[q]
  BY <1>1, AccountTypesUnfolded, AskedBeginFits DEF AccountIInv, Acc!Task, Acc!AskSetup
<1>3. /\ UNCHANGED <<users, sessions, keys, setups>> /\ Acc!Accounts = {}
      /\ accountLapse' = accountLapse \cup {l \in {"setups"} : \E q \in Request : asked[q].task = "setup"}
  BY DEF Acc!AskSetup
<1>4. Acc!TypeOK'
  BY <1>2, <1>3, AccountTypesUnfolded DEF AccountIInv, Acc!TypeOK, AskedType
<1>5. Acc!ActiveAdmins(users) \subseteq Acc!Accounts
  BY DEF Acc!ActiveAdmins, Acc!Accounts
<1>6. setups \in Nat /\ (setups > 0 => "overlap" \in accountLapse)
  BY <1>3, <1>5, AccountTypesUnfolded DEF AccountIInv, Acc!AdminRemains
<1>7. OneSetup'
  <2>1. SUFFICES ASSUME accountLapse' \cap {"setups", "overlap"} = {}
                 PROVE  /\ setups <= 1
                        /\ \A p, q \in Request :
                              asked'[p].task = "setup" /\ asked'[q].task = "setup" => p = q
                        /\ setups = 0
    BY <1>3 DEF OneSetup
  <2>2. setups = 0
    BY <1>3, <1>6, <2>1
  <2>3. \A q \in Request : asked[q].task # "setup"
    BY <1>3, <2>1
  <2> QED  BY <1>2, <2>2, <2>3
<1>8. Acc!AdminRemains' /\ SessionsAreOwned' /\ Acc!OldPasswordsAreCut'
  BY <1>2, <1>3 DEF AccountIInv, Acc!AdminRemains, SessionsAreOwned, Acc!OldPasswordsAreCut
<1> QED  BY <1>2, <1>4, <1>7, <1>8 DEF AccountIInv

LEMMA AskLoginKeeps ==
    ASSUME Acc!Parameters, AccountIInv, NEW r \in Request, Acc!AskLogin(r) PROVE AccountIInv'
<1>1. PICK u \in User : Acc!Begin(r, "login", "load", u, Null, Acc!NoChange)
  BY DEF Acc!AskLogin, Acc!Accounts
<1>2. UNCHANGED <<users, sessions, keys, setups, accountLapse>> /\ "login" \in Acc!Task
  BY DEF Acc!AskLogin, Acc!Task
<1> QED  BY <1>1, <1>2, QuietBegin

LEMMA AskChangePasswordKeeps ==
    ASSUME Acc!Parameters, AccountIInv, NEW r \in Request, Acc!AskChangePassword(r)
    PROVE  AccountIInv'
<1>1. PICK u \in User : Acc!Begin(r, "changePassword", "load", u, u, Acc!NoChange)
  BY AccountTypesUnfolded DEF AccountIInv, Acc!AskChangePassword
<1>2. UNCHANGED <<users, sessions, keys, setups, accountLapse>> /\ "changePassword" \in Acc!Task
  BY DEF Acc!AskChangePassword, Acc!Task
<1> QED  BY <1>1, <1>2, QuietBegin
-------------------------------------------------------------------------------
\* Reading, counting and verifying.
LEMMA LoadKeeps ==
    ASSUME Acc!Parameters, AccountIInv, NEW r \in Request, Acc!Load(r) PROVE AccountIInv'
<1> DEFINE job == [asked[r] EXCEPT !.seen = users[asked[r].target], !.raced = FALSE]
           next == [job EXCEPT !.step = IF Acc!TakesAnAdmin(job) THEN "count" ELSE "write"]
<1>1. /\ asked \in [Request -> AskedType] /\ asked[r] \in AskedType
      /\ users \in [User -> Acc!Account \cup {Null}]
      /\ asked[r].step = "load" /\ asked[r].task \in {"update", "remove"}
      /\ asked[r].target \in User
  BY AccountTypesUnfolded DEF AccountIInv, AllAskedFit, AskedFits, Acc!Load
<1>2. UNCHANGED <<users, sessions, keys, made, setups, accountLapse>>
  BY DEF Acc!Load
<1>3. CASE Acc!Done(r)
  BY <1>1, <1>2, <1>3, QuietEnd
<1>4. CASE ~Acc!Done(r)
  <2>1. job.seen # Null /\ asked' = [asked EXCEPT ![r] = next]
    BY <1>4 DEF Acc!Load
  <2>2. job \in AskedType /\ job.seen = users[job.target] /\ ~job.raced
        /\ job.target = asked[r].target /\ job.task = asked[r].task
    BY <1>1 DEF AskedType
  <2>3. job.seen \in Acc!Account
    BY <1>1, <2>1, <2>2
  <2> HIDE DEF job
  <2>4. /\ next \in AskedType /\ next.seen = job.seen /\ next.target = job.target
        /\ next.task = job.task /\ next.change = job.change
        /\ next.step = IF Acc!TakesAnAdmin(job) THEN "count" ELSE "write"
    BY <2>2 DEF AskedType
  <2> HIDE DEF next
  <2>5. asked'[r] = next
    BY <1>1, <2>1
  <2>6. AskedFits(r)'
    BY <1>1, <2>2, <2>3, <2>4, <2>5 DEF AskedFits
  <2>7. Acc!TakesAnAdmin(next) <=> Acc!TakesAnAdmin(job)
    BY <2>4 DEF Acc!TakesAnAdmin
  <2>8. job.target \in Acc!ActiveAdmins(users) <=> job.seen.role = "admin" /\ job.seen.active
    BY <1>1, <2>1, <2>2 DEF Acc!ActiveAdmins
  <2>9. CheckHolds(r)'
    BY <1>2, <2>4, <2>5, <2>7, <2>8 DEF CheckHolds
  <2> QED  BY <1>1, <1>2, <2>1, <2>2, <2>4, <2>6, <2>9, QuietRequest
<1> QED  BY <1>3, <1>4

\* More than one is one besides any.
LEMMA AnotherOne ==
    ASSUME NEW S, IsFiniteSet(S), ~(Cardinality(S) <= 1), NEW x
    PROVE  \E y \in S : y # x
<1>1. SUFFICES ASSUME S \subseteq {x} PROVE FALSE
  OBVIOUS
<1>2. IsFiniteSet({x}) /\ Cardinality({x}) = 1
  BY FS_Singleton
<1> QED  BY <1>1, <1>2, FS_Subset

LEMMA CountKeeps ==
    ASSUME Acc!Parameters, AccountIInv, NEW r \in Request, Acc!Count(r) PROVE AccountIInv'
<1> DEFINE next == [asked[r] EXCEPT !.step = "write"]
<1>1. /\ asked \in [Request -> AskedType] /\ asked[r] \in AskedType
      /\ asked[r].step = "count" /\ AskedFits(r) /\ CheckHolds(r)
  BY AccountTypesUnfolded DEF AccountIInv, AllAskedFit, Acc!Count
<1>2. UNCHANGED <<users, sessions, keys, made, setups, accountLapse>>
  BY DEF Acc!Count
<1>3. CASE Acc!Done(r)
  BY <1>1, <1>2, <1>3, QuietEnd
<1>4. CASE ~Acc!Done(r)
  <2>1. /\ ~(Cardinality(Acc!ActiveAdmins(users)) <= 1 /\ asked[r].seen.active)
        /\ asked' = [asked EXCEPT ![r] = next]
    BY <1>4 DEF Acc!Count, Acc!Goto, Acc!Cardinality, Cardinality
  <2>2. /\ next \in AskedType /\ next.seen = asked[r].seen /\ next.step = "write"
        /\ next.target = asked[r].target /\ next.task = asked[r].task
        /\ next.change = asked[r].change /\ next.raced = asked[r].raced
    BY <1>1 DEF AskedType
  <2> HIDE DEF next
  <2>3. asked'[r] = next
    BY <1>1, <2>1
  <2>4. AskedFits(r)'
    BY <1>1, <2>2, <2>3 DEF AskedFits
  <2>5. ASSUME asked[r].seen.active
        PROVE  \E u \in Acc!ActiveAdmins(users) : u # asked[r].target
    <3>1. ~(Cardinality(Acc!ActiveAdmins(users)) <= 1)
      BY <2>1, <2>5, Zenon
    <3>2. IsFiniteSet(User) /\ Acc!ActiveAdmins(users) \subseteq User
      BY DEF Acc!Parameters, Acc!ActiveAdmins, Acc!IsFiniteSet, IsFiniteSet
    <3>3. IsFiniteSet(Acc!ActiveAdmins(users))
      BY <3>2, FS_Subset
    <3> QED  BY <3>1, <3>3, AnotherOne
  <2>6. CheckHolds(r)'
    BY <1>1, <1>2, <2>2, <2>3, <2>5 DEF CheckHolds
  <2> QED  BY <1>1, <1>2, <2>1, <2>2, <2>4, <2>6, QuietRequest
<1> QED  BY <1>3, <1>4

LEMMA VerifyKeeps ==
    ASSUME Acc!Parameters, AccountIInv, NEW r \in Request, Acc!Verify(r) PROVE AccountIInv'
<1> DEFINE account == users[asked[r].target]
           next == [asked[r] EXCEPT !.step = "write", !.seen = account]
<1>1. /\ asked \in [Request -> AskedType] /\ asked[r] \in AskedType
      /\ users \in [User -> Acc!Account \cup {Null}] /\ asked[r].target \in User
      /\ asked[r].step = "load" /\ asked[r].task = "login"
  BY AccountTypesUnfolded DEF AccountIInv, AllAskedFit, AskedFits, Acc!Verify, Acc!At
<1>2. UNCHANGED <<users, sessions, keys, made, setups, accountLapse>>
  BY DEF Acc!Verify
<1>3. CASE Acc!Done(r)
  BY <1>1, <1>2, <1>3, QuietEnd
<1>4. CASE ~Acc!Done(r)
  <2>1. account # Null /\ account \in Acc!Account
    BY <1>1, <1>4 DEF Acc!Verify
  <2>2. asked' = [asked EXCEPT ![r] = next]
    BY <1>1, <1>4 DEF Acc!Verify
  <2>3. /\ next \in AskedType /\ next.seen = account /\ next.step = "write"
        /\ next.target = asked[r].target /\ next.task = "login"
    BY <1>1, <2>1 DEF AskedType
  <2> HIDE DEF next
  <2>4. asked'[r] = next
    BY <1>1, <2>2
  <2>5. AskedFits(r)' /\ CheckHolds(r)'
    BY <1>1, <2>1, <2>3, <2>4 DEF AskedFits, CheckHolds
  <2> QED  BY <1>1, <1>2, <2>2, <2>3, <2>5, QuietRequest
<1> QED  BY <1>3, <1>4

-------------------------------------------------------------------------------
\* Writing accounts.
LEMMA WriteKeeps ==
    ASSUME Acc!Parameters, AccountIInv, NEW r \in Request,
           asked[r].step \notin {"idle", "written"},
           NEW us \in [User -> Acc!Account \cup {Null}], Acc!Write(r, us),
           UNCHANGED <<sessions, keys, made, setups>>,
           \A u \in User : users[u] # Null =>
              /\ us[u] # Null
              /\ \/ us[u].password = users[u].password
                 \/ Acc!Written(r).step = "written" /\ Acc!Written(r).target = u,
           ~asked[r].raced /\ Acc!ActiveAdmins(users) \ Acc!ActiveAdmins(us) # {} =>
              Acc!ActiveAdmins(us) # {}
    PROVE  AccountIInv'
<1>1. keys \subseteq [owner: User \cup {Null}, role: Acc!Role] /\ setups \in Nat
  BY AccountTypesUnfolded DEF AccountIInv
<1>2. Acc!TypeOK' /\ AllAskedFit'
  BY <1>1, WriteKeepsTypes
<1>3. Acc!AdminRemains'
  BY WriteKeepsAdmins
<1>4. OneSetup'
  BY WriteKeepsSetups
<1>5. SessionsAreOwned' /\ Acc!OldPasswordsAreCut'
  BY WriteKeepsSessions
<1> QED  BY <1>2, <1>3, <1>4, <1>5 DEF AccountIInv

LEMMA CreateKeeps ==
    ASSUME Acc!Parameters, AccountIInv, NEW r \in Request, Acc!Create(r) PROVE AccountIInv'
<1> DEFINE u == asked[r].target
<1>1. /\ asked[r].step = "load" /\ u \in User /\ users \in [User -> Acc!Account \cup {Null}]
  BY AccountTypesUnfolded DEF AccountIInv, AllAskedFit, AskedFits, Acc!Create, Acc!At
<1>2. UNCHANGED <<sessions, keys, made, setups>>
  BY DEF Acc!Create
<1>3. CASE users[u] = Null
  <2>1. PICK role \in Acc!Role : Acc!Write(r, [users EXCEPT ![u] = Acc!NewAccount(role)])
    BY <1>3 DEF Acc!Create
  <2> DEFINE us == [users EXCEPT ![u] = Acc!NewAccount(role)]
  <2>2. us \in [User -> Acc!Account \cup {Null}]
    BY <1>1, NewAccountType
  <2>3. \A v \in User : users[v] # Null => us[v] = users[v]
    BY <1>1, <1>3
  <2> HIDE DEF us
  <2>4. Acc!ActiveAdmins(users) \ Acc!ActiveAdmins(us) = {}
    BY <2>3 DEF Acc!ActiveAdmins
  <2>5. Acc!Write(r, us)
    BY <2>1 DEF us
  <2> QED  BY <1>1, <1>2, <2>2, <2>3, <2>4, <2>5, WriteKeeps
<1>4. CASE users[u] # Null
  BY <1>1, <1>2, <1>4, QuietEnd DEF Acc!Create
<1> QED  BY <1>3, <1>4

LEMMA ChangedType ==
    ASSUME Acc!Parameters, NEW account \in Acc!Account,
           NEW change \in Acc!Change \cup {Acc!NoChange}
    PROVE  Acc!Changed(account, change) \in Acc!Account /\ Acc!Changed(account, change) # Null
<1>1. change.role \in Acc!Role \cup {Null} /\ change.active \in BOOLEAN \cup {Null}
  BY DEF Acc!Change, Acc!NoChange
<1>2. Acc!Changed(account, change) \in Acc!Account
  BY <1>1 DEF Acc!Changed, Acc!Account
<1> QED  BY <1>2 DEF Acc!Parameters

\* A check that was passed leaves somebody besides the target.
LEMMA UpdateKeeps ==
    ASSUME Acc!Parameters, AccountIInv, NEW r \in Request, Acc!Update(r) PROVE AccountIInv'
<1> DEFINE u == asked[r].target
           change == asked[r].change
           us == [users EXCEPT ![u] = Acc!Changed(users[u], change)]
<1>1. /\ asked[r].step = "write" /\ asked[r].task = "update" /\ u \in User
      /\ users \in [User -> Acc!Account \cup {Null}]
             /\ change \in Acc!Change \cup {Acc!NoChange}
      /\ CheckHolds(r) /\ asked[r].seen \in Acc!Account
  BY AccountTypesUnfolded DEF AccountIInv, AllAskedFit, AskedFits, Acc!Update, Acc!At, AskedType
<1>2. UNCHANGED <<sessions, keys, made, setups>>
  BY DEF Acc!Update
<1>3. CASE users[u] = Null
  BY <1>1, <1>2, <1>3, QuietEnd DEF Acc!Update
<1>4. CASE users[u] # Null
  <2>1. Acc!Write(r, us)
    BY <1>1, <1>4 DEF Acc!Update
  <2>2. users[u] \in Acc!Account
    BY <1>1, <1>4
  <2>3. Acc!Changed(users[u], change) \in Acc!Account /\ Acc!Changed(users[u], change) # Null
    BY <1>1, <2>2, ChangedType
  <2>4. us \in [User -> Acc!Account \cup {Null}]
    BY <1>1, <2>3
  <2>5. /\ \A v \in User \ {u} : us[v] = users[v]
        /\ us[u] = Acc!Changed(users[u], change)
    BY <1>1
  <2>6. us[u].password = users[u].password
    BY <2>2, <2>5 DEF Acc!Changed, Acc!Account
  <2>7. us[u].role = (IF change.role = Null THEN users[u].role ELSE change.role)
        /\ us[u].active = (IF change.active = Null THEN users[u].active ELSE change.active)
    <3>1. /\ DOMAIN users[u] = {"role", "active", "password"}
          /\ us[u] = [users[u] EXCEPT
                !.role = IF change.role = Null THEN users[u].role ELSE change.role,
                !.active = IF change.active = Null THEN users[u].active ELSE change.active]
      BY <2>2, <2>5 DEF Acc!Changed, Acc!Account
    <3> QED  BY <3>1
  <2>8. change.role \in Acc!Role \cup {Null} /\ change.active \in BOOLEAN \cup {Null}
    BY <1>1 DEF Acc!Change, Acc!NoChange
  <2> HIDE DEF us
  <2>9. ASSUME ~asked[r].raced, Acc!ActiveAdmins(users) \ Acc!ActiveAdmins(us) # {}
        PROVE  Acc!ActiveAdmins(us) # {}
    <3>1. u \in Acc!ActiveAdmins(users) /\ u \notin Acc!ActiveAdmins(us)
      BY <2>5, <2>9 DEF Acc!ActiveAdmins
    <3>2. asked[r].seen.role = "admin" /\ asked[r].seen.active
      BY <1>1, <2>9, <3>1 DEF CheckHolds
    <3>3. users[u].role = "admin" /\ users[u].active
      BY <3>1 DEF Acc!ActiveAdmins
    <3>4. us[u].role # "admin" \/ ~us[u].active
      BY <1>1, <2>3, <2>5, <3>1 DEF Acc!ActiveAdmins
    <3>5. change.role \notin {Null, "admin"} \/ (change.active # Null /\ ~change.active)
      BY <2>7, <3>3, <3>4
    <3>6. Acc!TakesAnAdmin(asked[r])
      BY <2>8, <3>2, <3>5 DEF Acc!TakesAnAdmin
    <3>7. PICK v \in Acc!ActiveAdmins(users) : v # u
      BY <1>1, <2>9, <3>2, <3>6 DEF CheckHolds
    <3> QED  BY <2>5, <3>7 DEF Acc!ActiveAdmins
  <2>10. \A v \in User : users[v] # Null =>
            us[v] # Null /\ us[v].password = users[v].password
    BY <2>3, <2>5, <2>6
  <2> QED  BY <1>1, <1>2, <2>1, <2>4, <2>9, <2>10, WriteKeeps
<1> QED  BY <1>3, <1>4

LEMMA RemoveKeeps ==
    ASSUME Acc!Parameters, AccountIInv, NEW r \in Request, Acc!Remove(r) PROVE AccountIInv'
<1> DEFINE u == asked[r].target
           us == [users EXCEPT ![u] = Null]
<1>1. /\ asked[r].step = "write" /\ asked[r].task = "remove" /\ u \in User
      /\ users \in [User -> Acc!Account \cup {Null}]
      /\ CheckHolds(r) /\ asked[r].seen \in Acc!Account
      /\ keys \subseteq [owner: User \cup {Null}, role: Acc!Role] /\ setups \in Nat
  BY AccountTypesUnfolded DEF AccountIInv, AllAskedFit, AskedFits, Acc!Remove, Acc!At
<1>2. UNCHANGED <<made, setups>>
  BY DEF Acc!Remove
<1>3. CASE users[u] = Null
  BY <1>1, <1>2, <1>3, QuietEnd DEF Acc!Remove
<1>4. CASE users[u] # Null
  <2>1. /\ Acc!Write(r, us) /\ sessions' = {s \in sessions : s.owner # u}
        /\ keys' = {[k EXCEPT !.owner = IF @ = u THEN Null ELSE @] : k \in keys}
    BY <1>4 DEF Acc!Remove
  <2>2. us \in [User -> Acc!Account \cup {Null}]
    BY <1>1
  <2>3. us[u] = Null /\ \A v \in User \ {u} : us[v] = users[v]
    BY <1>1
  <2> HIDE DEF us
  <2>4. keys' \subseteq [owner: User \cup {Null}, role: Acc!Role]
    BY <1>1, <2>1
  <2>5. Acc!TypeOK' /\ AllAskedFit'
    BY <1>1, <1>2, <2>1, <2>2, <2>4, WriteKeepsTypes
  <2>6. ASSUME ~asked[r].raced, Acc!ActiveAdmins(users) \ Acc!ActiveAdmins(us) # {}
        PROVE  Acc!ActiveAdmins(us) # {}
    <3>1. u \in Acc!ActiveAdmins(users)
      BY <2>3, <2>6 DEF Acc!ActiveAdmins
    <3>2. asked[r].seen.role = "admin" /\ asked[r].seen.active
      BY <1>1, <2>6, <3>1 DEF CheckHolds
    <3>3. Acc!TakesAnAdmin(asked[r])
      BY <1>1, <3>2 DEF Acc!TakesAnAdmin
    <3>4. PICK v \in Acc!ActiveAdmins(users) : v # u
      BY <1>1, <2>6, <3>2, <3>3 DEF CheckHolds
    <3> QED  BY <2>3, <3>4 DEF Acc!ActiveAdmins
  <2>7. Acc!AdminRemains' /\ OneSetup'
    BY <1>1, <1>2, <2>1, <2>6, WriteKeepsAdmins, WriteKeepsSetups
  <2>8. /\ accountLapse \subseteq accountLapse' /\ users' = us
        /\ \A q \in Request \ {r} : /\ asked'[q].step = asked[q].step
                                    /\ asked'[q].target = asked[q].target
    BY <1>1, <2>1, AccountTypesUnfolded, AccountWriteFits DEF AccountIInv
  <2>9. \A s \in sessions' : s \in sessions /\ s.owner \in User /\ s.owner # u
                             /\ users'[s.owner] = users[s.owner]
    BY <2>1, <2>3, <2>8, AccountTypesUnfolded DEF AccountIInv
  <2>10. SessionsAreOwned'
    BY <2>9 DEF AccountIInv, SessionsAreOwned
  <2>11. ASSUME NEW s \in sessions'
         PROVE  \/ s.password = users'[s.owner].password
                \/ accountLapse' \cap {"lateSession", "unrevoked"} # {}
                \/ \E q \in Request : asked'[q].step = "written" /\ asked'[q].target = s.owner
    <3>1. s \in sessions /\ s.owner # u /\ users'[s.owner] = users[s.owner]
      BY <2>9
    <3>2. CASE s.password = users[s.owner].password
      BY <3>1, <3>2
    <3>3. CASE accountLapse \cap {"lateSession", "unrevoked"} # {}
      BY <3>3, <2>8
    <3>4. CASE \E q \in Request : asked[q].step = "written" /\ asked[q].target = s.owner
      BY <3>1, <3>4, <2>8
    <3> QED  BY <3>1, <3>2, <3>3, <3>4 DEF AccountIInv, Acc!OldPasswordsAreCut
  <2>12. Acc!OldPasswordsAreCut'
    BY <2>11 DEF Acc!OldPasswordsAreCut
  <2> QED  BY <2>5, <2>7, <2>10, <2>12 DEF AccountIInv
<1> QED  BY <1>3, <1>4

LEMMA SetPasswordKeeps ==
    ASSUME Acc!Parameters, AccountIInv, NEW r \in Request, Acc!SetPassword(r) PROVE AccountIInv'
<1> DEFINE u == asked[r].target
           us == [users EXCEPT ![u].password = @ + 1]
<1>1. /\ asked[r].step = "load" /\ asked[r].task \in {"setPassword", "changePassword"}
      /\ u \in User /\ asked[r] \in AskedType /\ users \in [User -> Acc!Account \cup {Null}]
  BY AccountTypesUnfolded DEF AccountIInv, AllAskedFit, AskedFits, Acc!SetPassword
<1>2. UNCHANGED <<sessions, keys, made, setups>>
  BY DEF Acc!SetPassword
<1>3. CASE ~(users[u] # Null /\ users[u].password < MaxPassword)
  BY <1>1, <1>2, <1>3, QuietEnd DEF Acc!SetPassword
<1>4. CASE users[u] # Null /\ users[u].password < MaxPassword
  <2>1. Acc!Write(r, us)
    BY <1>1, <1>4 DEF Acc!SetPassword
  <2>2. users[u] \in Acc!Account
    BY <1>1, <1>4
  <2>3. users[u].password + 1 \in 1..MaxPassword
    BY <1>4, <2>2 DEF Acc!Account, Acc!Parameters
  <2>4. us[u] = [users[u] EXCEPT !.password = @ + 1] /\ \A v \in User \ {u} : us[v] = users[v]
    BY <1>1
  <2>5. us[u] \in Acc!Account /\ us[u].role = users[u].role /\ us[u].active = users[u].active
    BY <2>2, <2>3, <2>4 DEF Acc!Account
  <2>6. us[u] # Null
    BY <2>5 DEF Acc!Parameters
  <2>7. us \in [User -> Acc!Account \cup {Null}]
    <3>1. us = [users EXCEPT ![u] = us[u]]
      BY <1>1, <2>4
    <3> HIDE DEF us
    <3> QED  BY <1>1, <2>5, <3>1
  <2> HIDE DEF us
  <2>8. Acc!ActiveAdmins(us) = Acc!ActiveAdmins(users)
    BY <1>4, <2>4, <2>5, <2>6 DEF Acc!ActiveAdmins
  <2>9. Acc!Written(r).step = "written" /\ Acc!Written(r).target = u
    BY <1>1 DEF Acc!Written, AskedType
  <2>10. \A v \in User : users[v] # Null =>
            us[v] # Null /\ (us[v].password = users[v].password \/ v = u)
    BY <2>4, <2>6
  <2> QED  BY <1>1, <1>2, <2>1, <2>7, <2>8, <2>9, <2>10, WriteKeeps
<1> QED  BY <1>3, <1>4

\* The one setup makes the first account, an administrator's.
LEMMA SetupKeeps ==
    ASSUME Acc!Parameters, AccountIInv, NEW r \in Request, Acc!Setup(r) PROVE AccountIInv'
<1> DEFINE u == asked[r].target
           us == [users EXCEPT ![u] = Acc!NewAccount("admin")]
<1>1. /\ asked[r].step = "load" /\ asked[r].task = "setup" /\ u \in User
      /\ users \in [User -> Acc!Account \cup {Null}]
      /\ keys \subseteq [owner: User \cup {Null}, role: Acc!Role] /\ setups \in Nat
      /\ asked[r] \in AskedType
  BY AccountTypesUnfolded DEF AccountIInv, AllAskedFit, AskedFits, Acc!Setup, Acc!At
<1>2. UNCHANGED <<sessions, keys, made>>
  BY DEF Acc!Setup
<1>3. CASE users[u] # Null
  BY <1>1, <1>2, <1>3, QuietEnd DEF Acc!Setup
<1>4. CASE users[u] = Null
  <2>1. Acc!Write(r, us) /\ setups' = setups + 1
    BY <1>4 DEF Acc!Setup
  <2>2. Acc!NewAccount("admin") \in Acc!Account /\ Acc!NewAccount("admin") # Null
    BY NewAccountType DEF Acc!Role
  <2>3. us \in [User -> Acc!Account \cup {Null}]
    BY <1>1, <2>2
  <2>4. us[u] = Acc!NewAccount("admin") /\ \A v \in User \ {u} : us[v] = users[v]
    BY <1>1
  <2> HIDE DEF us
  <2>5. Acc!TypeOK' /\ AllAskedFit'
    BY <1>1, <1>2, <2>1, <2>3, WriteKeepsTypes
  <2>6. /\ accountLapse \subseteq accountLapse' /\ users' = us /\ asked'[r] = Acc!Written(r)
        /\ \A q \in Request \ {r} : asked'[q].task = asked[q].task
    BY <1>1, <2>1, AccountTypesUnfolded, AccountWriteFits DEF AccountIInv
  <2>7. u \in Acc!ActiveAdmins(us)
    BY <1>1, <2>2, <2>4 DEF Acc!ActiveAdmins, Acc!NewAccount
  <2>8. Acc!AdminRemains'
    BY <2>6, <2>7 DEF Acc!AdminRemains
  <2>9. asked'[r].task # "setup"
    BY <1>1, <2>6 DEF Acc!Written, Acc!Idle, Acc!Parameters, Acc!Task
  <2>10. OneSetup'
    <3>1. SUFFICES ASSUME accountLapse' \cap {"setups", "overlap"} = {}
                   PROVE  /\ setups' <= 1
                          /\ \A q \in Request : asked'[q].task # "setup"
      BY DEF OneSetup
    <3>2. accountLapse \cap {"setups", "overlap"} = {}
      BY <2>6, <3>1
    <3>3. /\ setups = 0
          /\ \A p, q \in Request : asked[p].task = "setup" /\ asked[q].task = "setup" => p = q
      BY <1>1, <3>2 DEF AccountIInv, OneSetup
    <3>4. \A q \in Request \ {r} : asked[q].task # "setup"
      BY <1>1, <3>3
    <3> QED  BY <2>1, <2>6, <2>9, <3>3, <3>4
  <2>11. SessionsAreOwned' /\ Acc!OldPasswordsAreCut'
    <3>1. \A v \in User : users[v] # Null => us[v] # Null /\ us[v].password = users[v].password
      BY <1>4, <2>2, <2>4
    <3> QED  BY <1>1, <1>2, <2>1, <2>3, <3>1, WriteKeepsSessions
  <2> QED  BY <2>5, <2>8, <2>10, <2>11 DEF AccountIInv
<1> QED  BY <1>3, <1>4

-------------------------------------------------------------------------------
\* Sessions and keys come and go.
LEMMA IssueKeeps ==
    ASSUME Acc!Parameters, AccountIInv, NEW r \in Request, Acc!Issue(r) PROVE AccountIInv'
<1> DEFINE u == asked[r].target
           new == [owner |-> u, password |-> asked[r].seen.password]
<1>1. /\ asked[r].step = "write" /\ u \in User /\ asked[r].seen \in Acc!Account
      /\ asked \in [Request -> AskedType] /\ AllAskedFit
      /\ sessions \subseteq [owner: User, password: 1..MaxPassword]
      /\ accountLapse \subseteq {"overlap", "setups", "lateSession", "unrevoked"}
  BY AccountTypesUnfolded DEF AccountIInv, AllAskedFit, AskedFits, Acc!Issue, Acc!At
<1>2. UNCHANGED <<users, keys, made, setups>> /\ Acc!Done(r)
  BY DEF Acc!Issue
<1>3. CASE users[u] = Null
  BY <1>1, <1>2, <1>3, QuietEnd DEF Acc!Issue
<1>4. CASE users[u] # Null
  <2>1. /\ sessions' = sessions \cup {new}
        /\ accountLapse' = accountLapse \cup {l \in {"lateSession"} : users[u].password # new.password}
    BY <1>4 DEF Acc!Issue
  <2>2. new \in [owner: User, password: 1..MaxPassword] /\ new.owner = u
    BY <1>1 DEF Acc!Account
  <2> HIDE DEF new
  <2>3. AllAskedFit' /\ asked' \in [Request -> AskedType]
    BY <1>1, <1>2, AskedDoneFits
  <2>4. Acc!TypeOK'
    BY <1>1, <1>2, <2>1, <2>2, <2>3, AccountTypesUnfolded DEF AccountIInv, Acc!TypeOK, AskedType
  <2>5. /\ asked'[r] = Acc!Idle /\ Acc!Idle.task # "setup" /\ Acc!Idle.step # "written"
        /\ \A q \in Request \ {r} : asked'[q] = asked[q]
    BY <1>1, <1>2 DEF Acc!Done, Acc!Idle, Acc!Parameters, Acc!Task
  <2>6. Acc!AdminRemains' /\ OneSetup'
    BY <1>2, <2>1, <2>5 DEF AccountIInv, Acc!AdminRemains, OneSetup
  <2>7. SessionsAreOwned'
    BY <1>2, <1>4, <2>1, <2>2 DEF AccountIInv, SessionsAreOwned
  <2>8. ASSUME NEW s \in sessions'
        PROVE  \/ s.password = users[s.owner].password
               \/ accountLapse' \cap {"lateSession", "unrevoked"} # {}
               \/ \E q \in Request : asked'[q].step = "written" /\ asked'[q].target = s.owner
    <3>1. CASE s = new
      BY <2>1, <2>2, <3>1
    <3>2. CASE s \in sessions
      <4>1. \A q \in Request : asked[q].step = "written" => q # r /\ asked'[q] = asked[q]
        BY <1>1, <2>5
      <4> QED  BY <2>1, <3>2, <4>1 DEF AccountIInv, Acc!OldPasswordsAreCut
    <3> QED  BY <2>1, <3>1, <3>2
  <2>9. Acc!OldPasswordsAreCut'
    BY <1>2, <2>8 DEF Acc!OldPasswordsAreCut
  <2> QED  BY <2>3, <2>4, <2>6, <2>7, <2>9 DEF AccountIInv
<1> QED  BY <1>3, <1>4

\* A changed password has its sessions revoked, or on record that they were not.
LEMMA RevokeKeeps ==
    ASSUME Acc!Parameters, AccountIInv, NEW r \in Request,
           Acc!RevokeAll(r) \/ Acc!BreakOff(r) PROVE AccountIInv'
<1>1. /\ UNCHANGED <<users, keys, made, setups>> /\ Acc!Done(r)
             /\ accountLapse \subseteq accountLapse'
      /\ sessions' \subseteq sessions /\ accountLapse' \subseteq accountLapse \cup {"unrevoked"}
      /\ \/ "unrevoked" \in accountLapse'
         \/ \A s \in sessions' : s.owner # asked[r].target
  BY DEF Acc!RevokeAll, Acc!BreakOff
<1>2. asked \in [Request -> AskedType] /\ AllAskedFit
  BY AccountTypesUnfolded DEF AccountIInv
<1>3. AllAskedFit' /\ asked' \in [Request -> AskedType]
  BY <1>1, <1>2, AskedDoneFits
<1>4. Acc!TypeOK'
  BY <1>1, <1>3, AccountTypesUnfolded DEF AccountIInv, Acc!TypeOK, AskedType
<1>5. /\ asked'[r] = Acc!Idle /\ Acc!Idle.task # "setup"
      /\ \A q \in Request \ {r} : asked'[q] = asked[q]
  BY <1>1, <1>2 DEF Acc!Done, Acc!Idle, Acc!Parameters, Acc!Task
<1> QED  BY <1>1, <1>3, <1>4, <1>5, QuietStep

\* Nothing but sessions, keys and the count of requests moves.
LEMMA RowsKeep ==
    ASSUME AccountIInv, UNCHANGED <<users, asked, setups, accountLapse>>,
           sessions' \subseteq sessions,
           keys' \subseteq [owner: User \cup {Null}, role: Acc!Role], made' \in 0..MaxRequests
    PROVE  AccountIInv'
<1>1. AllAskedFit'
  BY DEF AccountIInv, AllAskedFit, AskedFits, CheckHolds
<1>2. Acc!TypeOK'
  BY AccountTypesUnfolded DEF AccountIInv, Acc!TypeOK, AskedType
<1> QED  BY <1>1, <1>2, QuietStep

LEMMA OthersKeep ==
    ASSUME Acc!Parameters, AccountIInv,
           \/ \E s \in sessions : Acc!SignOut(s)
           \/ \E u \in Acc!Accounts : Acc!IssueKey(u)
           \/ \E k \in keys : Acc!RevokeKey(k)
           \/ UNCHANGED Acc!vars
    PROVE  AccountIInv'
<1>1. keys \subseteq [owner: User \cup {Null}, role: Acc!Role] /\ made \in 0..MaxRequests
  BY AccountTypesUnfolded DEF AccountIInv
<1>2. CASE \E s \in sessions : Acc!SignOut(s)
  <2>1. UNCHANGED <<users, asked, setups, accountLapse, keys>> /\ sessions' \subseteq sessions
        /\ made' \in 0..MaxRequests
    BY <1>1, <1>2 DEF Acc!SignOut, Acc!Parameters
  <2> QED  BY <1>1, <2>1, RowsKeep
<1>3. CASE \E u \in Acc!Accounts : Acc!IssueKey(u)
  <2>1. UNCHANGED <<users, asked, setups, accountLapse, sessions>> /\ made' \in 0..MaxRequests
        /\ keys' \subseteq [owner: User \cup {Null}, role: Acc!Role]
    BY <1>1, <1>3 DEF Acc!IssueKey, Acc!Parameters, Acc!Accounts
  <2> QED  BY <2>1, RowsKeep
<1>4. CASE \E k \in keys : Acc!RevokeKey(k)
  <2>1. UNCHANGED <<users, asked, setups, accountLapse, sessions>> /\ made' \in 0..MaxRequests
        /\ keys' \subseteq [owner: User \cup {Null}, role: Acc!Role]
    BY <1>1, <1>4 DEF Acc!RevokeKey, Acc!Parameters
  <2> QED  BY <2>1, RowsKeep
<1>5. CASE UNCHANGED Acc!vars
  BY <1>1, <1>5, RowsKeep DEF Acc!vars
<1> QED  BY <1>2, <1>3, <1>4, <1>5

LEMMA AccountsNext ==
    ASSUME Acc!Parameters, AccountIInv, [Acc!Next]_(Acc!vars) PROVE AccountIInv'
BY AskAdminKeeps, CreateKeeps, LoadKeeps, CountKeeps, UpdateKeeps, RemoveKeeps, AskSetupKeeps,
   SetupKeeps, AskLoginKeeps, VerifyKeeps, IssueKeeps, AskChangePasswordKeeps,
   SetPasswordKeeps, RevokeKeeps, OthersKeep DEF Acc!Next

\* Whoever signs in, is changed or deleted meanwhile, for any number of people and requests:
\* an administrator remains, setup happens once, and an old password is of no use, up to
\* the overlaps that lapse has on record.
THEOREM AccountsAreSound ==
    ASSUME Acc!Parameters
    PROVE  Acc!Spec => [](Acc!TypeOK /\ Acc!AdminRemains /\ Acc!SetupHappensOnce
          /\ Acc!OldPasswordsAreCut)
<1>1. Acc!Init => AccountIInv
  BY AccountsInit
<1>2. AccountIInv /\ [Acc!Next]_(Acc!vars) => AccountIInv'
  BY AccountsNext
<1>3. AccountIInv => Acc!TypeOK /\ Acc!AdminRemains /\ Acc!SetupHappensOnce
      /\ Acc!OldPasswordsAreCut
  BY AccountTypesUnfolded DEF AccountIInv, OneSetup, Acc!SetupHappensOnce
<1> QED  BY <1>1, <1>2, <1>3, PTL DEF Acc!Spec

-------------------------------------------------------------------------------
(***************************************************************************)
(* Listings: what is made on the platform, and what is linked to it.       *)
(***************************************************************************)
Product == [madeFor: Item \cup {Null}, published: BOOLEAN]
Offered == [product: Nat, sku: Item \cup {Null}]
Linked == [item: Item, listing: Nat]

\* A run, over so many products and variants.
RunType(ps, vs) ==
    [step: {"idle", "next", "search", "create", "fill", "add", "publish", "claim", "link"},
     todo: SUBSET Item, loaded: [Item -> DOMAIN vs \cup {Null}], item: Item \cup {Null},
     sibling: DOMAIN vs \cup {Null}, product: DOMAIN ps \cup {Null},
     variant: DOMAIN vs \cup {Null}]

MatchType(vs) ==
    [step: {"idle", "check", "link", "stamp"}, item: Item \cup {Null},
     listing: DOMAIN vs \cup {Null}, holders: SUBSET Item]

ShopTyped ==
    /\ products \in Seq(Product) /\ variants \in Seq(Offered)
    /\ \A v \in Lst!Variant : variants[v].product \in DOMAIN products

RowsTyped ==
    /\ rows \in Seq(Linked)
    /\ \A a \in Lst!Row : rows[a].listing \in Lst!Variant
    /\ \A a, b \in Lst!Row : rows[a].item = rows[b].item => a = b

ListingLapse == {"created", "confirmed", "failed", "edited"}

ListingTyped ==
    /\ ShopTyped /\ RowsTyped
    /\ run \in [Request -> RunType(products, variants)]
    /\ match \in MatchType(variants)
    /\ listingLapse \subseteq ListingLapse

-------------------------------------------------------------------------------
\* What a run carries at each of its steps.
Working(q) == run[q].step \notin {"idle", "next"}

RunFits(q) ==
    /\ Lst!At(q, "idle") => run[q].todo = {}
    /\ Lst!At(q, "create") => run[q].sibling = Null
    /\ Working(q) => run[q].item \in Item \ run[q].todo
    /\ run[q].step \in {"fill", "publish", "claim", "link"} => run[q].variant \in Lst!Variant
    /\ run[q].step \in {"fill", "add", "publish"} => run[q].product \in DOMAIN products

\* While a product or a variant is being made for an item, no other carries its SKU.
SkuIsNew(q) ==
    /\ run[q].step \in {"create", "fill", "add"}
           /\ listingLapse \cap {"edited", "confirmed"} = {}
    => Lst!Carriers(run[q].item) = {}

\* An item that a run is still to link is not linked, and its listing is nobody else's.
NotLinkedYet(q) ==
    ~Lst!Overlapped =>
        /\ \A i \in run[q].todo : run[q].loaded[i] = Null => Lst!Links(i) = {}
        /\ Working(q) => Lst!Links(run[q].item) = {}
        /\ Lst!At(q, "link") => Lst!Drivers(run[q].variant) \subseteq {run[q].item}

\* A product of its own is only made for the first item of a card.
OfCard(i) == {a \in Lst!Row : CardOf[rows[a].item] = CardOf[i]}

IsFirst(q) ==
    /\ listingLapse = {} /\ run[q].item \in Single
    /\ Lst!At(q, "create") \/ (Lst!At(q, "search") /\ run[q].sibling = Null)
    => OfCard(run[q].item) = {}

RunOk(q) == RunFits(q) /\ SkuIsNew(q) /\ NotLinkedYet(q) /\ IsFirst(q)

\* The limiter's queue; and, unless calls overlapped, one call at a time.
OneCalling == \A p, q \in Request : Lst!Calling(p) /\ Lst!Calling(q) => p = q

OneAtATime ==
    /\ ~Lst!Overlapped => \A p, q \in Request : ~Lst!At(p, "idle") /\ ~Lst!At(q, "idle")
           => p = q
    /\ "confirmed" \notin listingLapse /\ match.step # "idle"
           => \A q \in Request : Lst!At(q, "idle")

MatchOk ==
    /\ match.step # "idle" => match.item \in Item /\ match.listing \in Lst!Variant
    /\ ~Lst!Overlapped /\ match.step = "check"
           => Lst!Drivers(match.listing) \subseteq match.holders
    /\ ~Lst!Overlapped /\ match.step = "link" =>
          Lst!Links(match.item) = {} /\ Lst!Drivers(match.listing) \subseteq {match.item}

OneDriver ==
    ~Lst!Overlapped => \A a, b \in Lst!Row :
        rows[a].listing = rows[b].listing => rows[a].item = rows[b].item

\* A run that has made a product will link its item.
Finishing(q) ==
    \/ Lst!At(q, "add") /\ run[q].sibling = Null
    \/ run[q].step \in {"fill", "publish", "claim"} /\ Lst!Drivers(run[q].variant) = {}
    \/ Lst!At(q, "link")

CardsAreKnown ==
    listingLapse = {} => \A p \in DOMAIN products : products[p].madeFor \in Single =>
        \/ OfCard(products[p].madeFor) # {}
        \/ \E q \in Request : /\ Finishing(q)
                          /\ CardOf[run[q].item] = CardOf[products[p].madeFor]

ListingIInv == /\ ListingTyped /\ (\A q \in Request : RunOk(q))
        /\ OneCalling /\ OneAtATime /\ MatchOk /\ OneDriver /\ CardsAreKnown
               /\ Lst!OneProductPerCard

-------------------------------------------------------------------------------
\* The shop only grows, and what was in it stays in it.
Grows ==
    /\ DOMAIN products \subseteq DOMAIN products' /\ Lst!Variant \subseteq Lst!Variant'

LEMMA TypesGrow ==
    ASSUME Grows
    PROVE  /\ RunType(products, variants) \subseteq RunType(products', variants')
           /\ MatchType(variants) \subseteq MatchType(variants')
BY DEF Grows, RunType, MatchType, Lst!Variant

LEMMA SameRows ==
    ASSUME UNCHANGED rows
    PROVE  /\ RowsTyped /\ Grows => RowsTyped'
           /\ \A i : Lst!Links(i)' = Lst!Links(i) /\ OfCard(i)' = OfCard(i)
           /\ \A v : Lst!Drivers(v)' = Lst!Drivers(v)
BY DEF RowsTyped, Lst!Links, OfCard, Lst!Drivers, Lst!Row, Grows

LEMMA LinkType ==
    ASSUME Lst!Parameters, RowsTyped, ShopTyped, NEW i
    PROVE  /\ Lst!Links(i) \subseteq Lst!Variant /\ Lst!LinkOf(i) \in Lst!Links(i) \cup {Null}
           /\ Lst!LinkOf(i) = Null <=> Lst!Links(i) = {}
           /\ \A v \in Lst!Links(i) : Lst!Links(i) = {v}
<1>1. Lst!Links(i) \subseteq Lst!Variant /\ \A u, v \in Lst!Links(i) : u = v
  BY DEF RowsTyped, Lst!Links, Lst!Row
<1>2. Lst!Variant \subseteq Nat
  BY DEF ShopTyped, Lst!Variant
<1> QED  BY <1>1, <1>2 DEF Lst!LinkOf, Lst!Parameters

LEMMA ListingsInit ==
    ASSUME Lst!Parameters, Lst!Init PROVE ListingIInv
<1>1. DOMAIN products = {1} /\ products[1].madeFor = Null
  BY DEF Lst!Init
<1>2. Lst!Variant = {1} /\ variants[1].product = 1
  BY DEF Lst!Init, Lst!Variant
<1>3. Lst!Row = {}
  BY DEF Lst!Init, Lst!Row
<1>4. Lst!Idle \in RunType(products, variants) /\ Lst!Idle.step = "idle" /\ Lst!Idle.todo = {}
  BY DEF Lst!Idle, RunType
<1>5. \A q \in Request : run[q] = Lst!Idle
  BY DEF Lst!Init
<1>6. Lst!NoMatch \in MatchType(variants) /\ match.step = "idle"
  BY DEF Lst!Init, Lst!NoMatch, MatchType
<1>7. ShopTyped
  <2>1. [madeFor |-> Null, published |-> TRUE] \in Product
    BY DEF Product
  <2>2. [product |-> 1, sku |-> Null] \in Offered
    BY DEF Offered
  <2>3. products \in Seq(Product) /\ variants \in Seq(Offered)
    BY <2>1, <2>2 DEF Lst!Init
  <2> QED  BY <2>3, <1>1, <1>2 DEF ShopTyped
<1>8. RowsTyped
  BY <1>3 DEF RowsTyped, Lst!Init
<1>9. ListingTyped
  BY <1>4, <1>6, <1>7, <1>8 DEF ListingTyped, Lst!Init
<1>10. \A q \in Request : RunOk(q)
  BY <1>4, <1>5 DEF RunOk, RunFits, SkuIsNew, NotLinkedYet, IsFirst, Working, Lst!At
<1>11. OneCalling /\ OneAtATime /\ MatchOk
  BY <1>4, <1>5, <1>6 DEF OneCalling, OneAtATime, MatchOk, Lst!Calling, Lst!At
<1>12. OneDriver /\ CardsAreKnown /\ Lst!OneProductPerCard
  BY <1>1, <1>3 DEF OneDriver, CardsAreKnown, Lst!OneProductPerCard, Lst!Parameters
<1> QED  BY <1>9, <1>10, <1>11, <1>12 DEF ListingIInv

-------------------------------------------------------------------------------
\* A run goes on, and no row changes.
LEMMA OthersStay ==
    ASSUME ListingIInv, NEW r \in Request, NEW job, run' = [run EXCEPT ![r] = job],
           UNCHANGED <<rows, match>>, Grows, listingLapse \subseteq listingLapse',
           (\A i \in Item : Lst!Carriers(i)' \subseteq Lst!Carriers(i)) \/ Lst!Calling(r)
    PROVE  \A q \in Request \ {r} : RunOk(q)' /\ run'[q] = run[q]
<1> SUFFICES ASSUME NEW q \in Request \ {r} PROVE RunOk(q)' /\ run'[q] = run[q]
  OBVIOUS
<1>1. run'[q] = run[q] /\ RunOk(q)
  BY DEF ListingIInv, ListingTyped
<1>2. RunFits(q)'
  BY <1>1 DEF RunOk, RunFits, Working, Grows, Lst!At
<1>3. SkuIsNew(q)'
  <2>1. SUFFICES ASSUME run[q].step \in {"create", "fill", "add"},
                        listingLapse' \cap {"edited", "confirmed"} = {}
                 PROVE  Lst!Carriers(run[q].item)' = {}
    BY <1>1 DEF SkuIsNew
  <2>2. ~Lst!Calling(r)
    BY <2>1 DEF Lst!Calling, ListingIInv, OneCalling
  <2>3. Lst!Carriers(run[q].item) = {} /\ run[q].item \in Item
    BY <1>1, <2>1 DEF RunOk, SkuIsNew, RunFits, Working
  <2> QED  BY <2>2, <2>3
<1>4. NotLinkedYet(q)' /\ IsFirst(q)'
  BY <1>1, SameRows DEF RunOk, NotLinkedYet, IsFirst, Working, Lst!At, Lst!Overlapped
<1> QED  BY <1>1, <1>2, <1>3, <1>4 DEF RunOk

LEMMA RunMoves ==
    ASSUME ListingIInv, NEW r \in Request, ~Lst!At(r, "idle"),
           NEW job \in RunType(products', variants'), run' = [run EXCEPT ![r] = job],
           UNCHANGED <<rows, match>>, Grows, ShopTyped',
           listingLapse \subseteq listingLapse',
               listingLapse' \subseteq listingLapse \cup {"failed"},
           (\A i \in Item : Lst!Carriers(i)' \subseteq Lst!Carriers(i)) \/ Lst!Calling(r),
           Lst!Calling(r)' => Lst!Calling(r) \/ \A q \in Request : ~Lst!Calling(q),
           RunOk(r)', CardsAreKnown', Lst!OneProductPerCard'
    PROVE  ListingIInv'
<1>1. \A q \in Request \ {r} : RunOk(q)' /\ run'[q] = run[q]
  BY OthersStay
<1>2. ListingTyped'
  BY TypesGrow, SameRows DEF ListingIInv, ListingTyped, ListingLapse
<1>3. OneCalling'
  BY <1>1 DEF ListingIInv, OneCalling, Lst!Calling
<1>4. Lst!Overlapped' <=> Lst!Overlapped
  BY DEF Lst!Overlapped
<1>5. OneAtATime'
  BY <1>1, <1>4 DEF ListingIInv, OneAtATime, Lst!At
<1>6. MatchOk' /\ OneDriver'
  BY <1>4, SameRows DEF ListingIInv, MatchOk, OneDriver, Grows, Lst!Row
<1> QED  BY <1>1, <1>2, <1>3, <1>5, <1>6 DEF ListingIInv

\* Products are for the cards they were for.
LEMMA CardsStay ==
    ASSUME ListingIInv, NEW r \in Request, NEW job, run' = [run EXCEPT ![r] = job],
           UNCHANGED rows, listingLapse \subseteq listingLapse',
           DOMAIN products' = DOMAIN products,
           \A p \in DOMAIN products : products'[p].madeFor = products[p].madeFor,
           listingLapse' = {} /\ Finishing(r) => Finishing(r)' /\ job.item = run[r].item
    PROVE  CardsAreKnown' /\ Lst!OneProductPerCard'
<1>1. \A q \in Request \ {r} : run'[q] = run[q]
  BY DEF ListingIInv, ListingTyped
<1>2. run'[r] = job
  BY DEF ListingIInv, ListingTyped
<1>3. \A q \in Request : listingLapse' = {} /\ Finishing(q) => Finishing(q)'
      /\ run'[q].item = run[q].item
  BY <1>1, <1>2, SameRows DEF Finishing, Lst!At
<1>4. CardsAreKnown'
  <2>1. SUFFICES ASSUME listingLapse' = {}, NEW p \in DOMAIN products,
                        products[p].madeFor \in Single
                 PROVE  \/ OfCard(products[p].madeFor) # {}
                        \/ \E q \in Request : Finishing(q)' /\
                              CardOf[run'[q].item] = CardOf[products[p].madeFor]
    BY SameRows DEF CardsAreKnown
  <2>2. listingLapse = {}
    BY <2>1
  <2> QED  BY <2>1, <2>2, <1>3 DEF ListingIInv, CardsAreKnown
<1>5. Lst!OneProductPerCard'
  BY DEF ListingIInv, Lst!OneProductPerCard
<1> QED  BY <1>4, <1>5

\* What is left to do is a part of what there was, as it was loaded.
LEMMA RestType ==
    ASSUME NEW todo \in SUBSET Item, NEW loaded \in [Item -> DOMAIN variants \cup {Null}]
    PROVE  /\ Lst!Rest(todo, loaded) \in RunType(products, variants)
           /\ Lst!Rest(todo, loaded).step \in {"idle", "next"}
           /\ Lst!Rest(todo, loaded).todo \subseteq todo
           /\ Lst!Rest(todo, loaded).step = "idle" => Lst!Rest(todo, loaded).todo = {}
           /\ \A i \in Lst!Rest(todo, loaded).todo :
                 Lst!Rest(todo, loaded).loaded[i] = loaded[i]
<1>1. Lst!Idle \in RunType(products, variants) /\ Lst!Idle.step = "idle" /\ Lst!Idle.todo = {}
  BY DEF Lst!Idle, RunType
<1>2. CASE todo = {}
  BY <1>1, <1>2 DEF Lst!Rest
<1>3. CASE todo # {}
  <2> DEFINE kept == [i \in Item |-> IF i \in todo THEN loaded[i] ELSE Null]
             rest == [Lst!Idle EXCEPT !.step = "next", !.todo = todo, !.loaded = kept]
  <2>1. kept \in [Item -> DOMAIN variants \cup {Null}] /\ \A i \in todo : kept[i] = loaded[i]
    OBVIOUS
  <2>2. Lst!Rest(todo, loaded) = rest
    BY <1>3 DEF Lst!Rest
  <2> HIDE DEF kept
  <2>3. rest \in RunType(products, variants) /\ rest.step = "next" /\ rest.todo = todo
        /\ rest.loaded = kept
    BY <1>1, <2>1 DEF RunType
  <2> QED  BY <2>1, <2>2, <2>3
<1> QED  BY <1>2, <1>3

\* A run leaves its item, for good or for bad.
LEMMA GivesUp ==
    ASSUME ListingIInv, NEW r \in Request, ~Lst!At(r, "idle"), Lst!NextItem(r),
           UNCHANGED <<rows, match>>,
           Grows, ShopTyped', listingLapse \subseteq listingLapse',
               listingLapse' \subseteq listingLapse \cup {"failed"},
           (\A i \in Item : Lst!Carriers(i)' \subseteq Lst!Carriers(i)) \/ Lst!Calling(r),
           listingLapse' # {} \/ (UNCHANGED products /\ ~Finishing(r))
    PROVE  ListingIInv'
<1> DEFINE job == Lst!Rest(run[r].todo, run[r].loaded)
<1>1. run[r] \in RunType(products, variants) /\ run' = [run EXCEPT ![r] = job] /\ RunOk(r)
  BY DEF ListingIInv, ListingTyped, Lst!NextItem
<1>2. /\ job \in RunType(products, variants) /\ job.step \in {"idle", "next"}
      /\ job.todo \subseteq run[r].todo /\ (job.step = "idle" => job.todo = {})
      /\ \A i \in job.todo : job.loaded[i] = run[r].loaded[i]
  <2>1. run[r].todo \in SUBSET Item /\ run[r].loaded \in [Item -> DOMAIN variants \cup {Null}]
    BY <1>1 DEF RunType
  <2> QED  BY <2>1, RestType
<1> HIDE DEF job
<1>3. run'[r] = job /\ job \in RunType(products', variants')
  BY <1>1, <1>2, TypesGrow DEF ListingIInv, ListingTyped
<1>4. RunOk(r)'
  BY <1>1, <1>2, <1>3, SameRows
     DEF RunOk, RunFits, SkuIsNew, NotLinkedYet, IsFirst, Working, Lst!At, Lst!Overlapped
<1>5. CardsAreKnown' /\ Lst!OneProductPerCard'
  <2>1. CASE listingLapse' # {}
    BY <2>1 DEF CardsAreKnown, Lst!OneProductPerCard
  <2>2. CASE UNCHANGED products /\ ~Finishing(r)
    BY <1>1, <2>2, CardsStay
  <2> QED  BY <2>1, <2>2
<1>6. ~Lst!Calling(r)'
  BY <1>2, <1>3 DEF Lst!Calling
<1> QED  BY <1>1, <1>3, <1>4, <1>5, <1>6, RunMoves

\* A request to the platform that is refused, or whose answer is lost.
LEMMA RefuseKeeps ==
    ASSUME ListingIInv, NEW r \in Request, Lst!Refuse(r) PROVE ListingIInv'
<1>1. /\ ~Lst!At(r, "idle") /\ Lst!NextItem(r) /\ listingLapse' = listingLapse \cup {"failed"}
      /\ UNCHANGED <<products, variants, rows, match>>
  BY DEF Lst!Refuse, Lst!At
<1>2. Grows /\ ShopTyped' /\ \A i : Lst!Carriers(i)' = Lst!Carriers(i)
  BY <1>1 DEF Grows, Lst!Variant, Lst!Carriers, ShopTyped, ListingIInv, ListingTyped
<1> QED  BY <1>1, <1>2, GivesUp

-------------------------------------------------------------------------------
\* Which calls there are.
LEMMA CreateListingsKeeps ==
    ASSUME Lst!Parameters, ListingIInv, NEW r \in Request, Lst!Create(r) PROVE ListingIInv'
<1> DEFINE known == [i \in Item |-> Lst!LinkOf(i)]
<1>1. PICK items \in SUBSET Item : run' = [run EXCEPT ![r] = Lst!Rest(items, known)]
  BY DEF Lst!Create
<1>2. /\ UNCHANGED <<products, variants, rows, match>> /\ Lst!At(r, "idle")
      /\ listingLapse' = listingLapse
                        \cup {l \in {"created"} : \E q \in Request : ~Lst!At(q, "idle")}
                     \cup {l \in {"confirmed"} : match.step # "idle"}
  BY DEF Lst!Create
<1>3. \A i : /\ Lst!Links(i) \subseteq Lst!Variant /\ Lst!LinkOf(i) \in Lst!Links(i) \cup {Null}
             /\ Lst!LinkOf(i) = Null <=> Lst!Links(i) = {}
  BY LinkType DEF ListingIInv, ListingTyped
<1>4. known \in [Item -> Lst!Variant \cup {Null}] /\ \A i \in Item : known[i] = Null
      => Lst!Links(i) = {}
  BY <1>3
<1> HIDE DEF known
<1> DEFINE job == Lst!Rest(items, known)
<1>5. /\ job \in RunType(products, variants) /\ job.step \in {"idle", "next"}
      /\ job.todo \subseteq items /\ (job.step = "idle" => job.todo = {})
      /\ \A i \in job.todo : job.loaded[i] = known[i]
  <2>1. known \in [Item -> DOMAIN variants \cup {Null}]
    BY <1>4 DEF Lst!Variant
  <2> QED  BY <2>1, RestType
<1> HIDE DEF job
<1>6. run' = [run EXCEPT ![r] = job] /\ run \in [Request -> RunType(products, variants)]
  BY <1>1 DEF job, ListingIInv, ListingTyped
<1>7. /\ Grows /\ ShopTyped' /\ listingLapse \subseteq listingLapse'
             /\ listingLapse' \subseteq ListingLapse
      /\ \A i : Lst!Carriers(i)' = Lst!Carriers(i)
  BY <1>2 DEF Grows, Lst!Variant, Lst!Carriers, ShopTyped, ListingIInv, ListingTyped,
     ListingLapse
<1>8. \A q \in Request \ {r} : RunOk(q)' /\ run'[q] = run[q]
  BY <1>2, <1>6, <1>7, OthersStay
<1>9. run'[r] = job
  BY <1>6
<1>10. \A i \in items : i \in Item
  OBVIOUS
<1>11. RunOk(r)'
  BY <1>2, <1>4, <1>5, <1>9, <1>10, SameRows
     DEF RunOk, RunFits, SkuIsNew, NotLinkedYet, IsFirst, Working, Lst!At
<1>12. ListingTyped'
  BY <1>2, <1>5, <1>6, <1>7, SameRows DEF ListingIInv, ListingTyped
<1>13. OneCalling'
  BY <1>5, <1>8, <1>9 DEF ListingIInv, OneCalling, Lst!Calling
<1>14. Lst!Overlapped => Lst!Overlapped'
  BY <1>7 DEF Lst!Overlapped
<1>15. OneAtATime'
  <2>1. ASSUME \E q \in Request : ~Lst!At(q, "idle") PROVE Lst!Overlapped'
    BY <1>2, <2>1 DEF Lst!Overlapped
  <2>2. ASSUME match.step # "idle" PROVE "confirmed" \in listingLapse'
    BY <1>2, <2>2
  <2>3. ~Lst!Overlapped' => \A q \in Request \ {r} : run'[q].step = "idle"
    BY <1>8, <2>1 DEF Lst!At
  <2> QED  BY <1>2, <2>2, <2>3 DEF OneAtATime, Lst!At
<1>16. MatchOk' /\ OneDriver'
  BY <1>2, <1>7, <1>14, SameRows DEF ListingIInv, MatchOk, OneDriver, Grows, Lst!Row
<1>17. ~Finishing(r)
  BY <1>2 DEF Finishing, Lst!At
<1>18. CardsAreKnown' /\ Lst!OneProductPerCard'
  BY <1>2, <1>6, <1>7, <1>17, CardsStay
<1> QED  BY <1>8, <1>11, <1>12, <1>13, <1>15, <1>16, <1>18 DEF ListingIInv

-------------------------------------------------------------------------------
\* The requests of a run.
LEMMA SiblingType ==
    ASSUME Lst!Parameters, ShopTyped, RowsTyped, NEW i
    PROVE  /\ Lst!OldestSibling(i) \in Lst!Variant \cup {Null}
           /\ Lst!OldestSibling(i) = Null /\ i \in Single => Lst!SiblingRows(i) = {}
<1> DEFINE S == Lst!SiblingRows(i)
<1>1. S \subseteq Lst!Row /\ Lst!Row \subseteq Nat /\ Lst!Variant \subseteq Nat
  BY DEF Lst!SiblingRows, RowsTyped, Lst!Row, ShopTyped, Lst!Variant
<1>2. CASE i \notin Single \/ S = {}
  BY <1>2 DEF Lst!OldestSibling
<1>3. CASE i \in Single /\ S # {}
  <2>1. PICK a \in S : \A b \in S : ~(<<b, a>> \in OpToRel(<, Nat))
    BY <1>1, <1>3, NatLessThanWellFounded, WFMin
  <2>2. \A b \in S : a <= b
    <3>1. SUFFICES ASSUME NEW b \in S, ~(a <= b) PROVE FALSE
      OBVIOUS
    <3>2. b \in Nat /\ a \in Nat
      BY <1>1, Zenon
    <3>3. b < a
      BY <3>1, <3>2
    <3>4. <<b, a>> \in OpToRel(<, Nat)
      BY <3>2, <3>3 DEF OpToRel
    <3> QED  BY <2>1, <3>4
  <2> DEFINE first == CHOOSE c \in S : \A b \in S : c <= b
  <2>3. first \in S
    BY <2>2
  <2>4. Lst!OldestSibling(i) = rows[first].listing
    BY <1>3 DEF Lst!OldestSibling
  <2> HIDE DEF first, S
  <2> QED  BY <1>1, <1>3, <2>3, <2>4 DEF RowsTyped, Lst!Parameters
<1> QED  BY <1>2, <1>3

LEMMA SameShop ==
    ASSUME ListingIInv, UNCHANGED <<products, variants>>
    PROVE  Grows /\ ShopTyped' /\ (\A i : Lst!Carriers(i)' = Lst!Carriers(i))
BY DEF Grows, Lst!Variant, Lst!Carriers, ShopTyped, ListingIInv, ListingTyped

LEMMA TakeItemKeeps ==
    ASSUME Lst!Parameters, ListingIInv, NEW r \in Request, Lst!TakeItem(r) PROVE ListingIInv'
<1>1. PICK i \in run[r].todo :
         LET rest == [run[r] EXCEPT !.todo = @ \ {i}]
         IN  run' = [run EXCEPT ![r] =
                IF rest.loaded[i] # Null THEN Lst!Rest(rest.todo, rest.loaded)
                ELSE [rest EXCEPT !.step = "search", !.item = i,
                         !.sibling = Lst!OldestSibling(i)]]
  BY DEF Lst!TakeItem
<1> DEFINE rest == [run[r] EXCEPT !.todo = @ \ {i}]
           taken == [rest EXCEPT !.step = "search", !.item = i,
                        !.sibling = Lst!OldestSibling(i)]
           job == IF rest.loaded[i] # Null THEN Lst!Rest(rest.todo, rest.loaded) ELSE taken
<1>2. /\ UNCHANGED <<products, variants, rows, match, listingLapse>> /\ Lst!At(r, "next")
      /\ run' = [run EXCEPT ![r] = job]
      /\ run[r] \in RunType(products, variants) /\ RunOk(r)
  BY <1>1 DEF Lst!TakeItem, ListingIInv, ListingTyped
<1>3. run[r].todo \in SUBSET Item /\ i \in Item /\ run[r].step = "next"
  BY <1>2 DEF RunType, Lst!At
<1>4. /\ rest \in RunType(products, variants) /\ rest.todo = run[r].todo \ {i}
      /\ rest.loaded = run[r].loaded
  BY <1>2, <1>3 DEF RunType
<1> HIDE DEF rest
<1>5. /\ Lst!OldestSibling(i) \in Lst!Variant \cup {Null}
      /\ Lst!OldestSibling(i) = Null /\ i \in Single => Lst!SiblingRows(i) = {}
  BY SiblingType DEF ListingIInv, ListingTyped
<1>6. /\ taken \in RunType(products, variants) /\ taken.step = "search" /\ taken.item = i
      /\ taken.sibling = Lst!OldestSibling(i) /\ taken.todo = run[r].todo \ {i}
      /\ taken.loaded = run[r].loaded
  BY <1>3, <1>4, <1>5 DEF RunType, Lst!Variant
<1> HIDE DEF taken
<1>7. Grows /\ ShopTyped' /\ (\A j : Lst!Carriers(j)' = Lst!Carriers(j))
  BY <1>2, SameShop
<1>8. ~Finishing(r)
  BY <1>3 DEF Finishing, Lst!At
<1>9. CASE rest.loaded[i] # Null
  <2>1. rest.todo \in SUBSET Item /\ rest.loaded \in [Item -> DOMAIN variants \cup {Null}]
    BY <1>4 DEF RunType
  <2> DEFINE left == Lst!Rest(rest.todo, rest.loaded)
  <2>10. job = left
    BY <1>9
  <2>2. /\ left \in RunType(products, variants) /\ left.step \in {"idle", "next"}
        /\ left.todo \subseteq run[r].todo /\ (left.step = "idle" => left.todo = {})
        /\ \A j \in left.todo : left.loaded[j] = run[r].loaded[j]
    <3>1. /\ left \in RunType(products, variants) /\ left.step \in {"idle", "next"}
          /\ left.todo \subseteq rest.todo /\ (left.step = "idle" => left.todo = {})
          /\ \A j \in left.todo : left.loaded[j] = rest.loaded[j]
      BY <2>1, RestType
    <3> HIDE DEF left
    <3> QED  BY <1>4, <3>1
  <2> HIDE DEF job, left
  <2>3. run'[r] = left
    BY <1>2, <2>10 DEF ListingIInv, ListingTyped
  <2>4. RunOk(r)' /\ ~Lst!Calling(r)'
    BY <1>2, <2>2, <2>3, SameRows
       DEF RunOk, RunFits, SkuIsNew, NotLinkedYet, IsFirst, Working, Lst!At, Lst!Overlapped,
       Lst!Calling
  <2>5. CardsAreKnown' /\ Lst!OneProductPerCard'
    BY <1>2, <1>8, CardsStay
  <2> QED  BY <1>2, <1>3, <1>7, <2>10, <2>2, <2>4, <2>5, RunMoves DEF Lst!At
<1>10. CASE rest.loaded[i] = Null
  <2>1. job = taken
    BY <1>10
  <2> HIDE DEF job
  <2>2. run'[r] = taken
    BY <1>2, <2>1 DEF ListingIInv, ListingTyped
  <2>3. ~Lst!Overlapped => Lst!Links(i) = {}
    BY <1>2, <1>4, <1>10 DEF RunOk, NotLinkedYet
  <2>4. RunFits(r)' /\ SkuIsNew(r)' /\ ~Lst!Calling(r)'
    BY <1>3, <1>6, <2>2 DEF RunFits, SkuIsNew, Working, Lst!At, Lst!Calling
  <2>5. NotLinkedYet(r)'
    BY <1>2, <1>6, <2>2, <2>3, SameRows DEF RunOk, NotLinkedYet, Working, Lst!At, Lst!Overlapped
  <2>6. IsFirst(r)'
    <3>1. SUFFICES ASSUME listingLapse = {}, i \in Single, Lst!OldestSibling(i) = Null
                   PROVE  OfCard(i) = {}
      BY <1>2, <1>6, <2>2, SameRows DEF IsFirst, Lst!At
    <3>2. Lst!SiblingRows(i) = {} /\ Lst!Links(i) = {}
      BY <1>5, <2>3, <3>1 DEF Lst!Overlapped
    <3> QED  BY <3>2 DEF Lst!SiblingRows, Lst!Links, OfCard
  <2>7. CardsAreKnown' /\ Lst!OneProductPerCard'
    BY <1>2, <1>8, CardsStay
  <2> QED  BY <1>2, <1>3, <1>6, <1>7, <2>1, <2>4, <2>5, <2>6, <2>7, RunMoves DEF Lst!At, RunOk
<1> QED  BY <1>9, <1>10

\* The call is at the platform: it found the SKU, it joins a sibling, or it makes a product.
LEMMA SearchKeeps ==
    ASSUME Lst!Parameters, ListingIInv, NEW r \in Request, Lst!Search(r) PROVE ListingIInv'
<1> DEFINE i == run[r].item
           sibling == run[r].sibling
<1>1. /\ UNCHANGED <<products, variants, rows, match, listingLapse>> /\ run[r].step = "search"
      /\ \A q \in Request : ~Lst!Calling(q)
      /\ run[r] \in RunType(products, variants) /\ RunOk(r) /\ i \in Item \ run[r].todo
  BY DEF Lst!Search, Lst!At, ListingIInv, ListingTyped, RunOk, RunFits, Working
<1>2. Grows /\ ShopTyped' /\ (\A j : Lst!Carriers(j)' = Lst!Carriers(j))
  BY <1>1, SameShop
<1>3. ~Finishing(r)
  BY <1>1 DEF Finishing, Lst!At
<1>4. ASSUME NEW job \in RunType(products, variants), run' = [run EXCEPT ![r] = job],
             job.item = i, job.todo = run[r].todo, job.loaded = run[r].loaded,
             \/ job.step = "claim" /\ job.variant \in Lst!Variant
             \/ job.step = "add" /\ job.product \in DOMAIN products /\ Lst!Carriers(i) = {}
             \/ job.step = "create" /\ sibling = Null /\ job.sibling = Null
                 /\ Lst!Carriers(i) = {}
      PROVE  ListingIInv'
  <2>1. run'[r] = job
    BY <1>4 DEF ListingIInv, ListingTyped
  <2>2. RunFits(r)' /\ SkuIsNew(r)'
    BY <1>1, <1>2, <1>4, <2>1 DEF RunFits, SkuIsNew, Working, Lst!At, Lst!Variant
  <2>3. NotLinkedYet(r)' /\ IsFirst(r)'
    BY <1>1, <1>4, <2>1, SameRows DEF RunOk, NotLinkedYet, IsFirst, Working, Lst!At,
       Lst!Overlapped
  <2>4. CardsAreKnown' /\ Lst!OneProductPerCard'
    BY <1>1, <1>3, <1>4, CardsStay
  <2> QED  BY <1>1, <1>2, <1>4, <2>2, <2>3, <2>4, RunMoves DEF Lst!At, RunOk
<1>5. CASE Lst!Carriers(i) # {}
  <2>1. PICK v \in Lst!Carriers(i) : run' = [run EXCEPT ![r] = Lst!Claiming(r, v)]
    BY <1>5 DEF Lst!Search
  <2>2. v \in Lst!Variant
    BY DEF Lst!Carriers
  <2> DEFINE job == Lst!Claiming(r, v)
  <2>3. /\ job \in RunType(products, variants) /\ job.item = i /\ job.todo = run[r].todo
        /\ job.loaded = run[r].loaded /\ job.step = "claim" /\ job.variant = v
    BY <1>1, <2>2 DEF Lst!Claiming, RunType, Lst!Variant
  <2> QED  BY <1>4, <2>1, <2>2, <2>3
<1>6. CASE Lst!Carriers(i) = {} /\ sibling # Null
  <2> DEFINE job == [run[r] EXCEPT !.step = "add", !.product = variants[sibling].product]
  <2>1. run' = [run EXCEPT ![r] = job]
    BY <1>1, <1>6 DEF Lst!Search, ListingIInv, ListingTyped
  <2>2. variants[sibling].product \in DOMAIN products
    BY <1>1, <1>6 DEF RunType, ListingIInv, ListingTyped, ShopTyped, Lst!Variant
  <2>3. /\ job \in RunType(products, variants) /\ job.item = i /\ job.todo = run[r].todo
        /\ job.loaded = run[r].loaded /\ job.step = "add"
        /\ job.product = variants[sibling].product
    BY <1>1, <2>2 DEF RunType
  <2> QED  BY <1>4, <1>6, <2>1, <2>2, <2>3
<1>7. CASE Lst!Carriers(i) = {} /\ sibling = Null
  <2> DEFINE job == [run[r] EXCEPT !.step = "create"]
  <2>1. run' = [run EXCEPT ![r] = job]
    BY <1>1, <1>7 DEF Lst!Search, ListingIInv, ListingTyped
  <2>2. /\ job \in RunType(products, variants) /\ job.item = i /\ job.todo = run[r].todo
        /\ job.loaded = run[r].loaded /\ job.step = "create" /\ job.sibling = sibling
    BY <1>1 DEF RunType
  <2> QED  BY <1>4, <1>7, <2>1, <2>2
<1> QED  BY <1>5, <1>6, <1>7

\* A request that takes effect, whether its answer arrives or not.
LEMMA AnsweredKeeps ==
    ASSUME ListingIInv, NEW r \in Request, Lst!Calling(r),
           NEW next \in RunType(products', variants'),
           Lst!Answered(r, next), UNCHANGED <<rows, match>>, Grows, ShopTyped',
           next.item = run[r].item, next.todo = run[r].todo, next.loaded = run[r].loaded,
           next.step \in {"fill", "add", "publish", "claim"},
           run' = [run EXCEPT ![r] = next] /\ UNCHANGED listingLapse =>
              RunFits(r)' /\ SkuIsNew(r)' /\ CardsAreKnown' /\ Lst!OneProductPerCard'
    PROVE  ListingIInv'
<1>1. ~Lst!At(r, "idle") /\ Working(r) /\ run \in [Request -> RunType(products, variants)]
      /\ RunOk(r)
  BY DEF Lst!Calling, Lst!At, Working, ListingIInv, ListingTyped
<1>2. CASE run' = [run EXCEPT ![r] = next] /\ UNCHANGED listingLapse
  <2>1. run'[r] = next
    BY <1>1, <1>2
  <2>2. NotLinkedYet(r)' /\ IsFirst(r)'
    BY <1>1, <1>2, <2>1, SameRows DEF RunOk, NotLinkedYet, IsFirst, Working, Lst!At,
       Lst!Overlapped
  <2> QED  BY <1>1, <1>2, <2>2, RunMoves DEF RunOk
<1>3. CASE Lst!NextItem(r) /\ listingLapse' = listingLapse \cup {"failed"}
  BY <1>1, <1>3, GivesUp
<1> QED  BY <1>2, <1>3 DEF Lst!Answered

LEMMA CreateProductKeeps ==
    ASSUME Lst!Parameters, ListingIInv, NEW r \in Request, Lst!CreateProduct(r)
    PROVE  ListingIInv'
<1> DEFINE i == run[r].item
           new == [madeFor |-> i, published |-> FALSE]
           p == Len(products) + 1
           v == Len(variants) + 1
<1>1. /\ run[r].step = "create" /\ UNCHANGED <<rows, match>>
      /\ run \in [Request -> RunType(products, variants)]
             /\ run[r] \in RunType(products, variants)
      /\ RunOk(r) /\ Lst!Calling(r)
      /\ ShopTyped /\ RowsTyped /\ products' = Append(products, new)
      /\ i \in Item \ run[r].todo /\ run[r].sibling = Null /\ i # Null
  BY DEF Lst!CreateProduct, Lst!At, ListingIInv, ListingTyped, RunOk, RunFits, Working,
     Lst!Calling, Lst!Parameters
<1>2. /\ products' \in Seq(Product) /\ DOMAIN products' = DOMAIN products \cup {p}
      /\ p \notin DOMAIN products /\ products'[p] = new /\ p \in Nat
      /\ \A o \in DOMAIN products : products'[o] = products[o]
  BY <1>1 DEF ShopTyped, Product
<1>3. /\ Lst!Variant \subseteq Nat /\ v \in Nat /\ v \notin Lst!Variant
             /\ Lst!Variant = DOMAIN variants
      /\ \A o \in Lst!Variant : variants[o] \in Offered
             /\ variants[o].product \in DOMAIN products
  BY <1>1 DEF ShopTyped, Lst!Variant
<1>4. \A u : u \notin Lst!Variant => Lst!Drivers(u) = {}
  BY <1>1 DEF RowsTyped, Lst!Drivers
<1>5. CardsAreKnown /\ Lst!OneProductPerCard /\ OneAtATime
  BY DEF ListingIInv
<1>6. ASSUME NEW next \in RunType(products', variants'), run'= [run EXCEPT ![r] = next],
             UNCHANGED listingLapse, next.item = i, Finishing(r)'
      PROVE  CardsAreKnown' /\ Lst!OneProductPerCard'
  <2>1. run'[r] = next /\ \A q \in Request \ {r} : run'[q] = run[q]
    BY <1>1, <1>6
  <2>2. \A q \in Request : Finishing(q) => Finishing(q)' /\ run'[q].item = run[q].item
    <3>1. ~Finishing(r)
      BY <1>1 DEF Finishing, Lst!At
    <3> QED  BY <1>1, <2>1, <3>1, SameRows DEF Finishing, Lst!At
  <2>3. CardsAreKnown'
    <3>1. SUFFICES ASSUME listingLapse = {}, NEW o \in DOMAIN products',
                          products'[o].madeFor \in Single
                   PROVE  \/ OfCard(products'[o].madeFor) # {}
                          \/ \E q \in Request : Finishing(q)' /\
                                CardOf[run'[q].item] = CardOf[products'[o].madeFor]
      BY <1>1, <1>6, SameRows DEF CardsAreKnown
    <3>2. CASE o = p
      BY <1>2, <1>6, <2>1, <3>2
    <3>3. CASE o \in DOMAIN products
      BY <1>2, <1>5, <2>2, <3>1, <3>3 DEF CardsAreKnown
    <3> QED  BY <1>2, <3>2, <3>3
  <2>4. ASSUME listingLapse = {}, i \in Single, NEW o \in DOMAIN products,
               products[o].madeFor \in Single, CardOf[products[o].madeFor] = CardOf[i]
        PROVE  FALSE
    <3>1. OfCard(i) = {}
      BY <1>1, <2>4 DEF RunOk, IsFirst, Lst!At
    <3>2. OfCard(products[o].madeFor) = OfCard(i)
      BY <2>4 DEF OfCard
    <3>3. PICK q \in Request : Finishing(q)
      BY <1>5, <2>4, <3>1, <3>2 DEF CardsAreKnown
    <3>4. ~Lst!At(q, "idle") /\ ~Lst!At(r, "idle")
      BY <1>1, <3>3 DEF Finishing, Lst!At
    <3>5. q = r
      BY <1>5, <2>4, <3>4 DEF OneAtATime, Lst!Overlapped
    <3> QED  BY <1>1, <3>3, <3>5 DEF Finishing, Lst!At
  <2>5. Lst!OneProductPerCard'
    <3>1. SUFFICES ASSUME listingLapse = {}, NEW a \in DOMAIN products',
                          NEW b \in DOMAIN products',
                          products'[a].madeFor \in Single, products'[b].madeFor \in Single,
                          CardOf[products'[a].madeFor] = CardOf[products'[b].madeFor]
                   PROVE  a = b
      BY <1>6 DEF Lst!OneProductPerCard
    <3>2. CASE a \in DOMAIN products /\ b \in DOMAIN products
      BY <1>2, <1>5, <3>1, <3>2 DEF Lst!OneProductPerCard
    <3>3. CASE a = p /\ b \in DOMAIN products
      BY <1>2, <2>4, <3>1, <3>3
    <3>4. CASE a \in DOMAIN products /\ b = p
      BY <1>2, <2>4, <3>1, <3>4
    <3> QED  BY <1>2, <3>1, <3>2, <3>3, <3>4
  <2> QED  BY <2>3, <2>5
<1>7. CASE /\ variants' = Append(variants, [product |-> p, sku |-> Null])
           /\ Lst!Answered(r, [run[r] EXCEPT !.step = "fill", !.product = p, !.variant = v])
  <2> DEFINE next == [run[r] EXCEPT !.step = "fill", !.product = p, !.variant = v]
             row == [product |-> p, sku |-> Null]
  <2>1. row \in Offered /\ row.product = p /\ row.sku = Null
    BY <1>2 DEF Offered
  <2> HIDE DEF row
  <2>2. variants' = Append(variants, row)
    BY <1>7 DEF row
  <2>3. /\ variants' \in Seq(Offered) /\ Lst!Variant' = Lst!Variant \cup {v}
               /\ variants'[v] = row
        /\ \A o \in Lst!Variant : variants'[o] = variants[o]
    BY <1>1, <2>1, <2>2 DEF ShopTyped, Lst!Variant
  <2>4. ShopTyped' /\ Grows
    BY <1>2, <1>3, <2>1, <2>3 DEF ShopTyped, Grows
  <2>5. \A j \in Item : Lst!Carriers(j)' = Lst!Carriers(j)
    BY <1>3, <2>1, <2>3 DEF Lst!Carriers, Lst!Parameters
  <2>6. run[r] \in RunType(products', variants')
    BY <1>1, <2>4, TypesGrow
  <2>7. /\ next \in RunType(products', variants') /\ next.item = i /\ next.step = "fill"
        /\ next.todo = run[r].todo /\ next.loaded = run[r].loaded /\ next.product = p
        /\ next.variant = v
    BY <1>2, <2>3, <2>6 DEF RunType, Lst!Variant
  <2>8. Lst!Answered(r, next)
    BY <1>7
  <2> HIDE DEF next
  <2>9. ASSUME run' = [run EXCEPT ![r] = next], UNCHANGED listingLapse
        PROVE  RunFits(r)' /\ SkuIsNew(r)' /\ CardsAreKnown' /\ Lst!OneProductPerCard'
    <3>1. run'[r] = next
      BY <1>1, <2>9
    <3>2. RunFits(r)'
      BY <1>1, <1>2, <2>3, <2>7, <3>1 DEF RunFits, Working, Lst!At
    <3>3. SkuIsNew(r)'
      BY <1>1, <2>5, <2>7, <2>9, <3>1 DEF RunOk, SkuIsNew
    <3>4. Lst!Drivers(next.variant) = {}
      BY <1>3, <1>4, <2>7
    <3>5. Finishing(r)'
      BY <1>1, <2>7, <3>1, <3>4, SameRows DEF Finishing
    <3> QED  BY <1>6, <2>7, <2>9, <3>2, <3>3, <3>5
  <2> QED  BY <1>1, <2>4, <2>7, <2>8, <2>9, AnsweredKeeps
<1>8. CASE variants' = variants
      /\ Lst!Answered(r, [run[r] EXCEPT !.step = "add", !.product = p])
  <2> DEFINE next == [run[r] EXCEPT !.step = "add", !.product = p]
  <2>1. ShopTyped' /\ Grows /\ Lst!Variant' = Lst!Variant
    BY <1>1, <1>2, <1>3, <1>8 DEF ShopTyped, Grows, Lst!Variant
  <2>2. \A j \in Item : Lst!Carriers(j)' = Lst!Carriers(j)
    BY <1>8, <2>1 DEF Lst!Carriers
  <2>3. run[r] \in RunType(products', variants')
    BY <1>1, <2>1, TypesGrow
  <2>4. /\ next \in RunType(products', variants') /\ next.item = i /\ next.step = "add"
        /\ next.todo = run[r].todo /\ next.loaded = run[r].loaded /\ next.product = p
        /\ next.sibling = Null
    BY <1>1, <1>2, <2>3 DEF RunType
  <2>5. Lst!Answered(r, next)
    BY <1>8
  <2> HIDE DEF next
  <2>6. ASSUME run' = [run EXCEPT ![r] = next], UNCHANGED listingLapse
        PROVE  RunFits(r)' /\ SkuIsNew(r)' /\ CardsAreKnown' /\ Lst!OneProductPerCard'
    <3>1. run'[r] = next
      BY <1>1, <2>6
    <3>2. RunFits(r)'
      BY <1>1, <1>2, <2>4, <3>1 DEF RunFits, Working, Lst!At
    <3>3. SkuIsNew(r)'
      BY <1>1, <2>2, <2>4, <2>6, <3>1 DEF RunOk, SkuIsNew
    <3>4. Finishing(r)'
      BY <2>4, <3>1 DEF Finishing, Lst!At
    <3> QED  BY <1>6, <2>4, <2>6, <3>2, <3>3, <3>4
  <2> QED  BY <1>1, <2>1, <2>4, <2>5, <2>6, AnsweredKeeps
<1> QED  BY <1>7, <1>8 DEF Lst!CreateProduct

\* What a run does with the variant it has made.
LEMMA HasVariantType ==
    ASSUME NEW r \in Request, NEW v, NEW ps, NEW vs, run[r] \in RunType(ps, vs), v \in DOMAIN vs
    PROVE  /\ Lst!HasVariant(r, v) \in RunType(ps, vs)
                  /\ Lst!HasVariant(r, v).item = run[r].item
           /\ Lst!HasVariant(r, v).todo = run[r].todo
                  /\ Lst!HasVariant(r, v).loaded = run[r].loaded
           /\ Lst!HasVariant(r, v).step \in {"publish", "claim"}
                  /\ Lst!HasVariant(r, v).variant = v
           /\ Lst!HasVariant(r, v).step = "publish"
                  => Lst!HasVariant(r, v).product = run[r].product
           /\ Lst!Claiming(r, v) \in RunType(ps, vs) /\ Lst!Claiming(r, v).item = run[r].item
           /\ Lst!Claiming(r, v).todo = run[r].todo /\ Lst!Claiming(r, v).loaded = run[r].loaded
           /\ Lst!Claiming(r, v).step = "claim" /\ Lst!Claiming(r, v).variant = v
BY DEF Lst!HasVariant, Lst!Claiming, RunType

\* A run that makes no product goes on with a variant it may link.
LEMMA GoesOn ==
    ASSUME ListingIInv, NEW r \in Request, Lst!Calling(r),
           NEW next \in RunType(products', variants'),
           Lst!Answered(r, next), UNCHANGED <<rows, match>>, Grows, ShopTyped',
           next.item = run[r].item, next.todo = run[r].todo, next.loaded = run[r].loaded,
           next.step \in {"publish", "claim"}, next.variant \in Lst!Variant',
           next.step = "publish" => next.product \in DOMAIN products,
           Finishing(r) => Lst!Drivers(next.variant) = {},
           DOMAIN products' = DOMAIN products,
           \A p \in DOMAIN products : products'[p].madeFor = products[p].madeFor
    PROVE  ListingIInv'
<1>1. RunFits(r) /\ run[r].step # "idle" /\ run[r].step # "next"
  BY DEF ListingIInv, RunOk, Lst!Calling
<1>2. ASSUME run' = [run EXCEPT ![r] = next], UNCHANGED listingLapse
      PROVE  RunFits(r)' /\ SkuIsNew(r)' /\ CardsAreKnown' /\ Lst!OneProductPerCard'
  <2>1. run'[r] = next
    BY <1>2 DEF ListingIInv, ListingTyped
  <2>2. RunFits(r)' /\ SkuIsNew(r)'
    BY <1>1, <2>1 DEF RunFits, SkuIsNew, Working, Lst!At
  <2>3. Finishing(r) => Finishing(r)'
    BY <2>1, SameRows DEF Finishing
  <2> QED  BY <1>2, <2>2, <2>3, CardsStay
<1> QED  BY <1>2, AnsweredKeeps

LEMMA FillVariantKeeps ==
    ASSUME Lst!Parameters, ListingIInv, NEW r \in Request, Lst!FillVariant(r) PROVE ListingIInv'
<1> DEFINE v == run[r].variant
           next == Lst!HasVariant(r, v)
<1>1. /\ run[r].step = "fill" /\ UNCHANGED <<products, rows, match>> /\ Lst!Calling(r)
      /\ run[r] \in RunType(products, variants) /\ ShopTyped
      /\ v \in Lst!Variant /\ run[r].product \in DOMAIN products /\ run[r].item \in Item
      /\ variants' = [variants EXCEPT ![v].sku = run[r].item] /\ Lst!Answered(r, next)
  BY DEF Lst!FillVariant, Lst!At, ListingIInv, ListingTyped, RunOk, RunFits, Working,
     Lst!Calling
<1>2. ShopTyped' /\ Grows /\ DOMAIN variants' = DOMAIN variants
  <2> DEFINE row == [variants[v] EXCEPT !.sku = run[r].item]
  <2>1. /\ variants[v] \in Offered /\ v \in 1..Len(variants)
        /\ variants' = [variants EXCEPT ![v] = row]
    BY <1>1 DEF ShopTyped, Lst!Variant
  <2>2. row \in Offered /\ row.product = variants[v].product
    BY <1>1, <2>1 DEF Offered
  <2> HIDE DEF row
  <2>3. variants' \in Seq(Offered) /\ Lst!Variant' = Lst!Variant
    BY <1>1, <2>1, <2>2, ExceptSeq DEF ShopTyped, Lst!Variant
  <2>4. \A o \in Lst!Variant : variants'[o].product = variants[o].product
    BY <1>1, <2>1, <2>2 DEF Lst!Variant
  <2> QED  BY <1>1, <2>3, <2>4 DEF ShopTyped, Grows, Lst!Variant
<1>3. run[r] \in RunType(products', variants') /\ v \in DOMAIN variants'
  BY <1>1, <1>2, TypesGrow DEF Lst!Variant
<1>4. /\ next \in RunType(products', variants') /\ next.item = run[r].item
      /\ next.todo = run[r].todo /\ next.loaded = run[r].loaded
      /\ next.step \in {"publish", "claim"} /\ next.variant = v
      /\ next.step = "publish" => next.product = run[r].product
  BY <1>3, HasVariantType
<1> HIDE DEF next
<1>5. Finishing(r) => Lst!Drivers(v) = {}
  BY <1>1 DEF Finishing, Lst!At
<1> QED  BY <1>1, <1>2, <1>3, <1>4, <1>5, GoesOn DEF Lst!Variant

LEMMA AddVariantKeeps ==
    ASSUME Lst!Parameters, ListingIInv, NEW r \in Request, Lst!AddVariant(r) PROVE ListingIInv'
<1> DEFINE v == Len(variants) + 1
           row == [product |-> run[r].product, sku |-> run[r].item]
           next == Lst!HasVariant(r, v)
<1>1. /\ run[r].step = "add" /\ UNCHANGED <<products, rows, match>> /\ Lst!Calling(r)
      /\ run[r] \in RunType(products, variants) /\ ShopTyped /\ RowsTyped
      /\ run[r].product \in DOMAIN products /\ run[r].item \in Item
      /\ variants' = Append(variants, row) /\ Lst!Answered(r, next)
  BY DEF Lst!AddVariant, Lst!At, ListingIInv, ListingTyped, RunOk, RunFits, Working, Lst!Calling
<1>2. row \in Offered /\ row.product = run[r].product
  BY <1>1 DEF Offered, ShopTyped
<1> HIDE DEF row
<1>3. /\ variants' \in Seq(Offered) /\ Lst!Variant' = Lst!Variant \cup {v} /\ variants'[v] = row
      /\ \A o \in Lst!Variant : variants'[o] = variants[o]
      /\ v \notin Lst!Variant
  BY <1>1, <1>2 DEF ShopTyped, Lst!Variant
<1>4. ShopTyped' /\ Grows
  BY <1>1, <1>2, <1>3 DEF ShopTyped, Grows
<1>5. run[r] \in RunType(products', variants') /\ v \in DOMAIN variants'
  BY <1>1, <1>3, <1>4, TypesGrow DEF Lst!Variant
<1>6. /\ next \in RunType(products', variants') /\ next.item = run[r].item
      /\ next.todo = run[r].todo /\ next.loaded = run[r].loaded
      /\ next.step \in {"publish", "claim"} /\ next.variant = v
      /\ next.step = "publish" => next.product = run[r].product
  BY <1>5, HasVariantType
<1> HIDE DEF next
<1>7. Lst!Drivers(v) = {}
  BY <1>1, <1>3 DEF RowsTyped, Lst!Drivers
<1> QED  BY <1>1, <1>4, <1>5, <1>6, <1>7, GoesOn DEF Lst!Variant

LEMMA PublishProductKeeps ==
    ASSUME Lst!Parameters, ListingIInv, NEW r \in Request, Lst!PublishProduct(r)
    PROVE  ListingIInv'
<1> DEFINE v == run[r].variant
           next == Lst!Claiming(r, v)
<1>1. /\ run[r].step = "publish" /\ UNCHANGED <<variants, rows, match>> /\ Lst!Calling(r)
      /\ run[r] \in RunType(products, variants) /\ ShopTyped
      /\ v \in Lst!Variant /\ run[r].product \in DOMAIN products
      /\ products' = [products EXCEPT ![run[r].product].published = TRUE]
             /\ Lst!Answered(r, next)
  BY DEF Lst!PublishProduct, Lst!At, ListingIInv, ListingTyped, RunOk, RunFits, Working,
     Lst!Calling
<1>2. /\ DOMAIN products' = DOMAIN products /\ products' \in Seq(Product)
      /\ \A p \in DOMAIN products : products'[p].madeFor = products[p].madeFor
  <2> DEFINE shown == [products[run[r].product] EXCEPT !.published = TRUE]
  <2>1. /\ products[run[r].product] \in Product /\ run[r].product \in 1..Len(products)
        /\ products' = [products EXCEPT ![run[r].product] = shown]
    BY <1>1 DEF ShopTyped
  <2>2. shown \in Product /\ shown.madeFor = products[run[r].product].madeFor
    BY <2>1 DEF Product
  <2> HIDE DEF shown
  <2>3. products' \in Seq(Product) /\ DOMAIN products' = DOMAIN products
    BY <1>1, <2>1, <2>2, ExceptSeq DEF ShopTyped
  <2> QED  BY <1>1, <2>1, <2>2, <2>3
<1>3. ShopTyped' /\ Grows /\ Lst!Variant' = Lst!Variant
  BY <1>1, <1>2 DEF ShopTyped, Grows, Lst!Variant
<1>4. run[r] \in RunType(products', variants') /\ v \in DOMAIN variants'
  BY <1>1, <1>3, TypesGrow DEF Lst!Variant
<1>5. /\ next \in RunType(products', variants') /\ next.item = run[r].item
      /\ next.todo = run[r].todo /\ next.loaded = run[r].loaded
      /\ next.step = "claim" /\ next.variant = v
  BY <1>4, HasVariantType
<1> HIDE DEF next
<1>6. Finishing(r) => Lst!Drivers(v) = {}
  BY <1>1 DEF Finishing, Lst!At
<1> QED  BY <1>1, <1>2, <1>3, <1>4, <1>5, <1>6, GoesOn DEF Lst!Variant

LEMMA ClaimKeeps ==
    ASSUME Lst!Parameters, ListingIInv, NEW r \in Request, Lst!Claim(r) PROVE ListingIInv'
<1>1. /\ UNCHANGED <<products, variants, rows, match, listingLapse>> /\ run[r].step = "claim"
      /\ run[r] \in RunType(products, variants) /\ RunOk(r)
  BY DEF Lst!Claim, Lst!At, ListingIInv, ListingTyped
<1>2. Grows /\ ShopTyped' /\ (\A j : Lst!Carriers(j)' = Lst!Carriers(j))
  BY <1>1, SameShop
<1>3. CASE ~(Lst!Drivers(run[r].variant) \subseteq {run[r].item})
  <2>1. Lst!NextItem(r) /\ ~Finishing(r) /\ ~Lst!At(r, "idle")
    BY <1>1, <1>3 DEF Lst!Claim, Finishing, Lst!At
  <2> QED  BY <1>1, <1>2, <2>1, GivesUp
<1>4. CASE Lst!Drivers(run[r].variant) \subseteq {run[r].item}
  <2> DEFINE job == [run[r] EXCEPT !.step = "link"]
  <2>1. run' = [run EXCEPT ![r] = job]
    BY <1>1, <1>4 DEF Lst!Claim, Lst!Goto, ListingIInv, ListingTyped
  <2>2. /\ job \in RunType(products, variants) /\ job.step = "link" /\ job.item = run[r].item
        /\ job.todo = run[r].todo /\ job.loaded = run[r].loaded
        /\ job.variant = run[r].variant
    BY <1>1 DEF RunType
  <2> HIDE DEF job
  <2>3. run'[r] = job
    BY <2>1 DEF ListingIInv, ListingTyped
  <2>4. RunFits(r)' /\ SkuIsNew(r)' /\ IsFirst(r)' /\ ~Lst!Calling(r)'
    BY <1>1, <1>2, <2>2, <2>3
       DEF RunOk, RunFits, SkuIsNew, IsFirst, Working, Lst!At, Lst!Calling, Lst!Variant
  <2>5. NotLinkedYet(r)'
    BY <1>1, <1>4, <2>2, <2>3, SameRows DEF RunOk, NotLinkedYet, Working, Lst!At, Lst!Overlapped
  <2>6. Finishing(r)'
    BY <2>2, <2>3 DEF Finishing, Lst!At
  <2>7. CardsAreKnown' /\ Lst!OneProductPerCard'
    BY <1>1, <2>1, <2>2, <2>6, CardsStay
  <2> QED  BY <1>1, <1>2, <2>1, <2>2, <2>4, <2>5, <2>7, RunMoves DEF Lst!At, RunOk
<1> QED  BY <1>3, <1>4

-------------------------------------------------------------------------------
\* A row gets its listing: the row the item has, or a new one.
LEMMA OverwrittenRow ==
    ASSUME RowsTyped, ShopTyped, UNCHANGED variants, NEW i \in Item, NEW v \in Lst!Variant,
           Lst!Upsert(i, v), Lst!Links(i) # {}
    PROVE  RowsTyped'
<1>1. rows \in Seq(Linked) /\ Lst!Row = 1..Len(rows) /\ Lst!Variant' = Lst!Variant
      /\ v \in Nat /\ Len(rows) \in Nat
  BY DEF RowsTyped, Lst!Row, ShopTyped, Lst!Variant
<1>2. rows' = [a \in Lst!Row |-> IF rows[a].item = i
                                    THEN [rows[a] EXCEPT !.listing = v]
                                    ELSE rows[a]]
  BY DEF Lst!Upsert
<1>3. \A a \in Lst!Row : /\ rows'[a] \in Linked
                     /\ rows'[a].item = rows[a].item
                     /\ rows'[a].listing \in {v, rows[a].listing}
  <2>1. SUFFICES ASSUME NEW a \in Lst!Row
                 PROVE  /\ rows'[a] \in Linked
                        /\ rows'[a].item = rows[a].item
                        /\ rows'[a].listing \in {v, rows[a].listing}
    OBVIOUS
  <2>2. rows[a] \in Linked
    BY <1>1
  <2> QED  BY <1>1, <1>2, <2>2 DEF Linked
<1>4. rows' \in [1..Len(rows) -> Linked]
  BY <1>1, <1>2, <1>3
<1>5. rows' \in Seq(Linked) /\ Lst!Row' = Lst!Row
  BY <1>1, <1>4, SeqDef DEF Lst!Row
<1>6. \A a \in Lst!Row : rows[a].listing \in Lst!Variant
  BY DEF RowsTyped
<1>7. \A a, b \in Lst!Row : rows[a].item = rows[b].item => a = b
  BY DEF RowsTyped
<1>8. \A a \in Lst!Row' : rows'[a].listing \in Lst!Variant'
  BY <1>1, <1>3, <1>5, <1>6
<1>9. \A a, b \in Lst!Row' : rows'[a].item = rows'[b].item => a = b
  BY <1>3, <1>5, <1>7
<1> QED  BY <1>5, <1>8, <1>9 DEF RowsTyped

LEMMA NewRow ==
    ASSUME RowsTyped, ShopTyped, UNCHANGED variants, NEW i \in Item, NEW v \in Lst!Variant,
           Lst!Upsert(i, v), Lst!Links(i) = {}
    PROVE  /\ RowsTyped'
           /\ \A a \in Lst!Row : a \in Lst!Row' /\ rows'[a] = rows[a]
           /\ \E n \in Lst!Row' : /\ Lst!Row' = Lst!Row \cup {n}
                              /\ rows'[n].item = i /\ rows'[n].listing = v
<1> DEFINE row == [item |-> i, listing |-> v]
           n == Len(rows) + 1
<1>1. rows \in Seq(Linked) /\ Lst!Row = 1..Len(rows) /\ Lst!Variant' = Lst!Variant
      /\ v \in Nat /\ Len(rows) \in Nat
  BY DEF RowsTyped, Lst!Row, ShopTyped, Lst!Variant
<1>2. rows' = Append(rows, row)
  BY DEF Lst!Upsert
<1>3. row \in Linked /\ row.item = i /\ row.listing = v
  BY <1>1 DEF Linked
<1> HIDE DEF row
<1>4. /\ rows' \in Seq(Linked) /\ Lst!Row' = Lst!Row \cup {n} /\ rows'[n] = row
      /\ \A a \in Lst!Row : rows'[a] = rows[a]
  BY <1>1, <1>2, <1>3 DEF Lst!Row
<1>5. \A a \in Lst!Row : rows[a].item # i
  BY DEF Lst!Links
<1>6. RowsTyped'
  <2>1. \A a \in Lst!Row : rows[a].listing \in Lst!Variant
    BY DEF RowsTyped
  <2>2. \A a, b \in Lst!Row : rows[a].item = rows[b].item => a = b
    BY DEF RowsTyped
  <2>3. \A a \in Lst!Row' : rows'[a].listing \in Lst!Variant'
    BY <1>1, <1>3, <1>4, <2>1
  <2>4. \A a, b \in Lst!Row' : rows'[a].item = rows'[b].item => a = b
    BY <1>3, <1>4, <1>5, <2>2
  <2> QED  BY <1>4, <2>3, <2>4 DEF RowsTyped
<1> QED  BY <1>3, <1>4, <1>6

\* What a new row changes.
LEMMA NewRowFacts ==
    ASSUME RowsTyped, ShopTyped, UNCHANGED variants, NEW i \in Item, NEW v \in Lst!Variant,
           Lst!Upsert(i, v), Lst!Links(i) = {}
    PROVE  /\ \A j : j # i => Lst!Links(j)' = Lst!Links(j)
           /\ Lst!Links(i)' = {v}
           /\ \A j : OfCard(j) # {} \/ CardOf[j] = CardOf[i] => OfCard(j)' # {}
           /\ OneDriver /\ UNCHANGED listingLapse /\ (~Lst!Overlapped
                  => Lst!Drivers(v) \subseteq {i}) =>
                 OneDriver'
<1>1. PICK n \in Lst!Row' : /\ Lst!Row' = Lst!Row \cup {n}
                        /\ rows'[n].item = i /\ rows'[n].listing = v
  BY NewRow
<1>2. \A a \in Lst!Row : a \in Lst!Row' /\ rows'[a] = rows[a]
  BY NewRow
<1>3. \A a \in Lst!Row : rows[a].item # i
  BY DEF Lst!Links
<1>4. \A j : j # i => Lst!Links(j)' = Lst!Links(j)
  BY <1>1, <1>2 DEF Lst!Links
<1>5. Lst!Links(i)' = {v}
  BY <1>1, <1>2, <1>3 DEF Lst!Links
<1>6. \A j : OfCard(j) # {} \/ CardOf[j] = CardOf[i] => OfCard(j)' # {}
  BY <1>1, <1>2 DEF OfCard
<1>7. ASSUME OneDriver, UNCHANGED listingLapse, ~Lst!Overlapped => Lst!Drivers(v) \subseteq {i}
      PROVE  OneDriver'
  <2>1. ~Lst!Overlapped => \A a \in Lst!Row : rows[a].listing = v => rows[a].item = i
    BY <1>7 DEF Lst!Drivers
  <2> QED  BY <1>1, <1>2, <1>7, <2>1 DEF OneDriver, Lst!Overlapped
<1> QED  BY <1>4, <1>5, <1>6, <1>7

LEMMA LinkKeeps ==
    ASSUME Lst!Parameters, ListingIInv, NEW r \in Request, Lst!Link(r) PROVE ListingIInv'
<1> DEFINE i == run[r].item
           v == run[r].variant
           job == Lst!Rest(run[r].todo, run[r].loaded)
<1>1. /\ UNCHANGED <<products, variants, match, listingLapse>> /\ run[r].step = "link"
      /\ run \in [Request -> RunType(products, variants)]
             /\ run[r] \in RunType(products, variants)
      /\ RunOk(r) /\ i \in Item \ run[r].todo /\ v \in Lst!Variant
      /\ RowsTyped /\ ShopTyped /\ Lst!Upsert(i, v) /\ run' = [run EXCEPT ![r] = job]
  BY DEF Lst!Link, Lst!NextItem, Lst!At, ListingIInv, ListingTyped, RunOk, RunFits, Working
<1>2. /\ job \in RunType(products, variants) /\ job.step \in {"idle", "next"}
      /\ job.todo \subseteq run[r].todo /\ (job.step = "idle" => job.todo = {})
      /\ \A j \in job.todo : job.loaded[j] = run[r].loaded[j]
  <2>1. run[r].todo \in SUBSET Item /\ run[r].loaded \in [Item -> DOMAIN variants \cup {Null}]
    BY <1>1 DEF RunType
  <2> QED  BY <2>1, RestType
<1> HIDE DEF job
<1>3. run'[r] = job /\ \A q \in Request \ {r} : run'[q] = run[q]
  BY <1>1
<1>4. Grows /\ ShopTyped' /\ (\A j : Lst!Carriers(j)' = Lst!Carriers(j))
  BY <1>1, SameShop
<1>5. RowsTyped'
  BY <1>1, OverwrittenRow, NewRow
<1>6. ListingTyped'
  BY <1>1, <1>2, <1>4, <1>5, TypesGrow DEF ListingIInv, ListingTyped
<1>7. ~Lst!Overlapped => /\ \A q \in Request \ {r} : Lst!At(q, "idle")
                     /\ match.step = "idle"
                     /\ Lst!Links(i) = {} /\ Lst!Drivers(v) \subseteq {i}
  BY <1>1 DEF ListingIInv, OneAtATime, Lst!At, Lst!Overlapped, RunOk, NotLinkedYet, Working
<1>8. ~Lst!Overlapped => /\ \A j : j # i => Lst!Links(j)' = Lst!Links(j)
                     /\ \A j : OfCard(j) # {} \/ CardOf[j] = CardOf[i] => OfCard(j)' # {}
                     /\ OneDriver'
  BY <1>1, <1>7, NewRowFacts DEF ListingIInv
<1>9. \A q \in Request : RunFits(q)' /\ SkuIsNew(q)'
  BY <1>1, <1>2, <1>3, <1>4 DEF ListingIInv, RunOk, RunFits, SkuIsNew, Working, Lst!At, Grows
<1>10. \A q \in Request : NotLinkedYet(q)'
  <2>1. SUFFICES ASSUME ~Lst!Overlapped, NEW q \in Request
                 PROVE  /\ \A j \in run'[q].todo : run'[q].loaded[j] = Null
                               => Lst!Links(j)' = {}
                        /\ run'[q].step \in {"idle", "next"}
    BY <1>1 DEF NotLinkedYet, Working, Lst!At, Lst!Overlapped
  <2>2. CASE q = r
    <3>1. \A j \in job.todo : job.loaded[j] = Null => Lst!Links(j) = {} /\ j # i
      BY <1>1, <1>2, <2>1 DEF RunOk, NotLinkedYet
    <3> QED  BY <1>2, <1>3, <1>8, <2>1, <2>2, <3>1
  <2>3. CASE q # r
    BY <1>3, <1>7, <2>1, <2>3 DEF ListingIInv, RunOk, RunFits, Lst!At
  <2> QED  BY <2>2, <2>3
<1>11. \A q \in Request : IsFirst(q)'
  <2>1. ASSUME listingLapse = {}, NEW q \in Request PROVE run'[q].step \in {"idle", "next"}
    BY <1>2, <1>3, <1>7, <2>1 DEF Lst!Overlapped, Lst!At
  <2> QED  BY <1>1, <2>1 DEF IsFirst, Lst!At
<1>12. OneCalling' /\ OneAtATime'
  BY <1>1, <1>2, <1>3 DEF ListingIInv, OneCalling, OneAtATime, Lst!Calling, Lst!At,
     Lst!Overlapped
<1>13. MatchOk' /\ OneDriver'
  BY <1>1, <1>4, <1>7, <1>8 DEF ListingIInv, MatchOk, OneDriver, Lst!Overlapped, Grows
<1>14. CardsAreKnown' /\ Lst!OneProductPerCard'
  <2>1. Lst!OneProductPerCard'
    BY <1>1 DEF ListingIInv, Lst!OneProductPerCard
  <2>2. SUFFICES ASSUME listingLapse = {}, NEW p \in DOMAIN products,
                        products[p].madeFor \in Single
                 PROVE  OfCard(products[p].madeFor)' # {}
    BY <1>1, <2>1 DEF CardsAreKnown
  <2>3. ~Lst!Overlapped
    BY <2>2 DEF Lst!Overlapped
  <2>4. \/ OfCard(products[p].madeFor) # {}
        \/ \E q \in Request : Finishing(q) /\ CardOf[run[q].item] = CardOf[products[p].madeFor]
    BY <2>2 DEF ListingIInv, CardsAreKnown
  <2>5. \A q \in Request : Finishing(q) => q = r
    BY <1>7, <2>3 DEF Finishing, Lst!At
  <2>6. OfCard(products[p].madeFor) # {} \/ CardOf[products[p].madeFor] = CardOf[i]
    BY <2>4, <2>5
  <2>7. products'[p].madeFor = products[p].madeFor
    BY <1>1
  <2> QED  BY <1>8, <2>3, <2>6, <2>7
<1> QED  BY <1>6, <1>9, <1>10, <1>11, <1>12, <1>13, <1>14 DEF ListingIInv, RunOk
-------------------------------------------------------------------------------
\* A step that is none of a run's.
LEMMA RunsStay ==
    ASSUME ListingIInv, UNCHANGED <<products, run>>, Lst!Variant' = Lst!Variant,
           listingLapse \subseteq listingLapse',
           \/ \A j \in Item : Lst!Carriers(j)' = Lst!Carriers(j)
           \/ listingLapse' \cap {"edited", "confirmed"} # {}
           \/ \A q \in Request : Lst!At(q, "idle"),
           \/ UNCHANGED rows
           \/ /\ listingLapse' # {}
              /\ \A j \in Item : Lst!Links(j)' \subseteq Lst!Links(j)
              /\ \A v \in Lst!Variant : Lst!Drivers(v)' \subseteq Lst!Drivers(v)
           \/ Lst!Overlapped'
           \/ \A q \in Request : Lst!At(q, "idle")
    PROVE  (\A q \in Request : RunOk(q)') /\ OneCalling'
<1>1. OneCalling'
  BY DEF ListingIInv, OneCalling, Lst!Calling
<1>2. SUFFICES ASSUME NEW q \in Request PROVE RunOk(q)'
  BY <1>1
<1>3. RunOk(q) /\ run' = run /\ run[q] \in RunType(products, variants)
  BY DEF ListingIInv, ListingTyped
<1>4. RunFits(q)'
  BY <1>3 DEF RunOk, RunFits, Working, Lst!At
<1>5. CASE Lst!At(q, "idle")
  BY <1>3, <1>4, <1>5
     DEF RunOk, RunFits, SkuIsNew, NotLinkedYet, IsFirst, Working, Lst!At
<1>6. CASE ~Lst!At(q, "idle")
  <2>1. Lst!Overlapped => Lst!Overlapped'
    BY DEF Lst!Overlapped
  <2>2. SkuIsNew(q)'
    <3>1. SUFFICES ASSUME run[q].step \in {"create", "fill", "add"},
                          listingLapse' \cap {"edited", "confirmed"} = {}
                   PROVE  Lst!Carriers(run[q].item)' = {}
      BY <1>3 DEF SkuIsNew
    <3>2. Lst!Carriers(run[q].item) = {} /\ run[q].item \in Item
      BY <1>3, <3>1 DEF RunOk, SkuIsNew, RunFits, Working
    <3>3. \A j \in Item : Lst!Carriers(j)' = Lst!Carriers(j)
      BY <1>6, <3>1
    <3> QED  BY <1>3, <3>2, <3>3
  <2>3. CASE UNCHANGED rows
    BY <1>3, <1>4, <2>1, <2>2, <2>3, SameRows
       DEF RunOk, NotLinkedYet, IsFirst, Working, Lst!At
  <2>4. CASE /\ listingLapse' # {}
             /\ \A j \in Item : Lst!Links(j)' \subseteq Lst!Links(j)
             /\ \A v \in Lst!Variant : Lst!Drivers(v)' \subseteq Lst!Drivers(v)
    <3>1. run[q].todo \subseteq Item /\ (Working(q) => run[q].item \in Item)
      BY <1>3 DEF RunType, RunOk, RunFits
    <3>2. Lst!At(q, "link") => run[q].variant \in Lst!Variant /\ Working(q)
      BY <1>3 DEF RunOk, RunFits, Lst!At, Working
    <3>3. \A j \in Item : Lst!Links(j) = {} => Lst!Links(j)' = {}
      BY <2>4
    <3>4. NotLinkedYet(q)'
      <4>1. SUFFICES ASSUME ~Lst!Overlapped'
                     PROVE  /\ \A i \in run[q].todo : run[q].loaded[i] = Null
                                   => Lst!Links(i)' = {}
                            /\ Working(q) => Lst!Links(run[q].item)' = {}
                            /\ Lst!At(q, "link")
                                   => Lst!Drivers(run[q].variant)' \subseteq {run[q].item}
        BY <1>3 DEF NotLinkedYet, Working, Lst!At
      <4>2. /\ \A i \in run[q].todo : run[q].loaded[i] = Null => Lst!Links(i) = {}
            /\ Working(q) => Lst!Links(run[q].item) = {}
            /\ Lst!At(q, "link") => Lst!Drivers(run[q].variant) \subseteq {run[q].item}
        BY <1>3, <2>1, <4>1 DEF RunOk, NotLinkedYet
      <4>3. Working(q) => Lst!Links(run[q].item)' = {}
        BY <1>3, <3>1, <3>3, <4>2
      <4>4. Lst!At(q, "link")
            => Lst!Drivers(run[q].variant)' \subseteq Lst!Drivers(run[q].variant)
        BY <1>3, <2>4, <3>2
      <4> QED  BY <3>1, <3>3, <4>2, <4>3, <4>4
    <3> QED  BY <1>4, <2>2, <2>4, <3>4 DEF RunOk, IsFirst
  <2>5. CASE Lst!Overlapped'
    BY <1>4, <2>2, <2>5 DEF RunOk, NotLinkedYet, IsFirst, Lst!Overlapped
  <2> QED  BY <1>6, <2>3, <2>4, <2>5
<1> QED  BY <1>5, <1>6

LEMMA MatchMoves ==
    ASSUME ListingIInv, UNCHANGED <<products, rows, run>>, Lst!Variant' = Lst!Variant,
           ShopTyped',
           listingLapse \subseteq listingLapse', listingLapse' \subseteq ListingLapse,
           \/ \A j \in Item : Lst!Carriers(j)' = Lst!Carriers(j)
           \/ listingLapse' \cap {"edited", "confirmed"} # {}
           \/ \A q \in Request : Lst!At(q, "idle"),
           match' \in MatchType(variants),
           match'.step # "idle" /\ "confirmed" \notin listingLapse'
               => \A q \in Request : Lst!At(q, "idle"),
           MatchOk'
    PROVE  ListingIInv'
<1>1. (\A q \in Request : RunOk(q)') /\ OneCalling'
  BY RunsStay
<1>2. Grows
  BY DEF Grows
<1>3. ListingTyped'
  BY <1>2, SameRows DEF ListingIInv, ListingTyped, RunType, MatchType, Lst!Variant
<1>4. Lst!Overlapped => Lst!Overlapped'
  BY DEF Lst!Overlapped
<1>5. OneAtATime' /\ OneDriver'
  BY <1>4 DEF ListingIInv, OneAtATime, OneDriver, Lst!At, Lst!Row
<1>6. CardsAreKnown' /\ Lst!OneProductPerCard'
  <2>1. \A q \in Request : Finishing(q)' = Finishing(q)
    BY SameRows DEF Finishing, Lst!At
  <2> QED  BY <2>1, SameRows DEF ListingIInv, CardsAreKnown, Lst!OneProductPerCard
<1> QED  BY <1>1, <1>3, <1>5, <1>6 DEF ListingIInv

LEMMA ConfirmKeeps ==
    ASSUME Lst!Parameters, ListingIInv, Lst!Confirm PROVE ListingIInv'
<1>1. PICK i \in Item, v \in Lst!Variant :
         match' = [step |-> "check", item |-> i, listing |-> v, holders |-> Lst!Drivers(v)]
  BY DEF Lst!Confirm
<1>2. /\ UNCHANGED <<products, variants, rows, run>>
      /\ listingLapse' = listingLapse
                        \cup {l \in {"confirmed"} : \E r \in Request : ~Lst!At(r, "idle")}
  BY DEF Lst!Confirm
<1>3. Lst!Drivers(v) \subseteq Item
  <2>1. \A a \in Lst!Row : rows[a] \in Linked
    BY DEF ListingIInv, ListingTyped, RowsTyped, Lst!Row
  <2> QED  BY <2>1 DEF Lst!Drivers, Linked
<1>4. match' \in MatchType(variants)
  BY <1>1, <1>3 DEF MatchType, Lst!Variant
<1>5. ShopTyped' /\ Lst!Variant' = Lst!Variant /\ (\A j : Lst!Carriers(j)' = Lst!Carriers(j))
  BY <1>2, SameShop DEF Lst!Variant
<1>6. MatchOk'
  BY <1>1, <1>2, <1>5, SameRows DEF MatchOk
<1>7. listingLapse \subseteq listingLapse' /\ listingLapse' \subseteq ListingLapse
  BY <1>2 DEF ListingIInv, ListingTyped, ListingLapse
<1>8. "confirmed" \notin listingLapse' => \A q \in Request : Lst!At(q, "idle")
  BY <1>2
<1> QED  BY <1>2, <1>4, <1>5, <1>6, <1>7, <1>8, MatchMoves

LEMMA CheckKeeps ==
    ASSUME Lst!Parameters, ListingIInv, Lst!Check PROVE ListingIInv'
<1> DEFINE i == match.item
           v == match.listing
           held == Lst!LinkOf(i)
           on == [match EXCEPT !.step = IF held = v THEN "stamp" ELSE "link", !.holders = {}]
<1>1. /\ UNCHANGED <<products, variants, rows, run, listingLapse>> /\ match.step = "check"
      /\ match \in MatchType(variants) /\ i \in Item /\ v \in Lst!Variant
      /\ ~Lst!Overlapped => Lst!Drivers(v) \subseteq match.holders
  BY DEF Lst!Check, ListingIInv, ListingTyped, MatchOk
<1>2. ShopTyped' /\ Lst!Variant' = Lst!Variant /\ (\A j : Lst!Carriers(j)' = Lst!Carriers(j))
  BY <1>1, SameShop DEF Lst!Variant
<1>3. held = Null <=> Lst!Links(i) = {}
  BY LinkType DEF ListingIInv, ListingTyped
<1>4. /\ on \in MatchType(variants) /\ on.item = i /\ on.listing = v
      /\ on.step = IF held = v THEN "stamp" ELSE "link"
  BY <1>1 DEF MatchType
<1>5. Lst!NoMatch \in MatchType(variants) /\ Lst!NoMatch.step = "idle"
  BY DEF Lst!NoMatch, MatchType
<1>6. \/ match' = Lst!NoMatch
      \/ match' = on /\ match.holders \subseteq {i} /\ held \in {Null, v}
  BY DEF Lst!Check
<1> HIDE DEF on, held, i, v
<1>7. match' \in MatchType(variants)
  BY <1>4, <1>5, <1>6
<1>8. MatchOk'
  <2>1. CASE match' = Lst!NoMatch
    BY <1>5, <2>1 DEF MatchOk
  <2>2. CASE match' = on /\ match.holders \subseteq {i} /\ held \in {Null, v}
    <3>1. match'.item = i /\ match'.listing = v
          /\ match'.step = IF held = v THEN "stamp" ELSE "link"
      BY <1>4, <2>2
    <3>2. (\A j : Lst!Links(j)' = Lst!Links(j)) /\ (\A u : Lst!Drivers(u)' = Lst!Drivers(u))
      BY <1>1, SameRows
    <3>3. Lst!Overlapped' = Lst!Overlapped
      BY <1>1 DEF Lst!Overlapped
    <3>4. i \in Item /\ v \in Lst!Variant /\ Null \notin Lst!Variant
      BY <1>1 DEF i, v, ListingIInv, ListingTyped, ShopTyped, Lst!Variant, Lst!Parameters
    <3>5. held # v /\ ~Lst!Overlapped => Lst!Links(i) = {} /\ Lst!Drivers(v) \subseteq {i}
      BY <1>1, <1>3, <2>2 DEF i, v
    <3> QED  BY <1>2, <2>2, <3>1, <3>2, <3>3, <3>4, <3>5 DEF MatchOk
  <2> QED  BY <1>6, <2>1, <2>2
<1>9. "confirmed" \notin listingLapse' => \A q \in Request : Lst!At(q, "idle")
  BY <1>1 DEF ListingIInv, OneAtATime
<1>10. listingLapse' \subseteq ListingLapse
  BY <1>1 DEF ListingIInv, ListingTyped
<1> QED  BY <1>1, <1>2, <1>7, <1>8, <1>9, <1>10, MatchMoves

LEMMA StampSkuKeeps ==
    ASSUME Lst!Parameters, ListingIInv, Lst!StampSku PROVE ListingIInv'
<1> DEFINE i == match.item
           v == match.listing
           row == [variants[v] EXCEPT !.sku = i]
<1>1. /\ UNCHANGED <<products, rows, run, listingLapse>> /\ match.step = "stamp"
      /\ i \in Item /\ v \in Lst!Variant /\ ShopTyped /\ match' = Lst!NoMatch
      /\ variants' = variants \/ variants' = [variants EXCEPT ![v].sku = i]
  BY DEF Lst!StampSku, ListingIInv, ListingTyped, MatchOk
<1>2. ShopTyped' /\ Lst!Variant' = Lst!Variant
  <2>1. variants[v] \in Offered /\ v \in 1..Len(variants) /\ variants \in Seq(Offered)
    BY <1>1 DEF ShopTyped, Lst!Variant
  <2>2. row \in Offered /\ row.product = variants[v].product
    BY <1>1, <2>1 DEF Offered
  <2>3. CASE variants' = variants
    BY <1>1, <2>3, SameShop DEF Lst!Variant
  <2>4. CASE variants' = [variants EXCEPT ![v] = row]
    <3> HIDE DEF row
    <3>1. variants' \in Seq(Offered) /\ Lst!Variant' = Lst!Variant
      BY <2>1, <2>2, <2>4, ExceptSeq DEF Lst!Variant
    <3>2. \A o \in Lst!Variant : variants'[o].product = variants[o].product
      BY <1>1, <2>1, <2>2, <2>4 DEF Lst!Variant
    <3> QED  BY <1>1, <3>1, <3>2 DEF ShopTyped
  <2> QED  BY <1>1, <2>1, <2>3, <2>4 DEF Offered
<1>3. Lst!NoMatch \in MatchType(variants) /\ Lst!NoMatch.step = "idle"
  BY DEF Lst!NoMatch, MatchType
<1>4. MatchOk'
  BY <1>1, <1>3 DEF MatchOk
<1>5. listingLapse' \cap {"edited", "confirmed"} # {} \/ \A q \in Request : Lst!At(q, "idle")
  BY <1>1 DEF ListingIInv, OneAtATime
<1>6. listingLapse' \subseteq ListingLapse
  BY <1>1 DEF ListingIInv, ListingTyped
<1> QED  BY <1>1, <1>2, <1>3, <1>4, <1>5, <1>6, MatchMoves

LEMMA EditSkuKeeps ==
    ASSUME Lst!Parameters, ListingIInv, Lst!EditSku PROVE ListingIInv'
<1>1. PICK v \in Lst!Variant, sku \in Item : variants' = [variants EXCEPT ![v].sku = sku]
  BY DEF Lst!EditSku
<1> DEFINE row == [variants[v] EXCEPT !.sku = sku]
<1>2. /\ UNCHANGED <<products, rows, run, match>>
             /\ listingLapse' = listingLapse \cup {"edited"}
      /\ ShopTyped /\ listingLapse \subseteq ListingLapse /\ match \in MatchType(variants)
  BY DEF Lst!EditSku, ListingIInv, ListingTyped
<1>3. ShopTyped' /\ Lst!Variant' = Lst!Variant
  <2>1. /\ variants[v] \in Offered /\ v \in 1..Len(variants) /\ variants \in Seq(Offered)
        /\ variants' = [variants EXCEPT ![v] = row]
    BY <1>1, <1>2 DEF ShopTyped, Lst!Variant
  <2>2. row \in Offered /\ row.product = variants[v].product
    BY <2>1 DEF Offered
  <2> HIDE DEF row
  <2>3. variants' \in Seq(Offered) /\ Lst!Variant' = Lst!Variant
    BY <2>1, <2>2, ExceptSeq DEF Lst!Variant
  <2>4. \A o \in Lst!Variant : variants'[o].product = variants[o].product
    BY <2>1, <2>2 DEF Lst!Variant
  <2> QED  BY <1>2, <2>3, <2>4 DEF ShopTyped
<1>4. Lst!Overlapped' <=> Lst!Overlapped
  BY <1>2 DEF Lst!Overlapped
<1>5. MatchOk'
  BY <1>2, <1>3, <1>4, SameRows DEF ListingIInv, MatchOk
<1>6. "confirmed" \notin listingLapse' /\ match.step # "idle"
      => \A q \in Request : Lst!At(q, "idle")
  BY <1>2 DEF ListingIInv, OneAtATime
<1>7. listingLapse' \cap {"edited", "confirmed"} # {}
      /\ listingLapse \subseteq listingLapse' /\ listingLapse' \subseteq ListingLapse
  BY <1>2 DEF ListingLapse
<1> QED  BY <1>2, <1>3, <1>5, <1>6, <1>7, MatchMoves

LEMMA ConfirmedKeeps ==
    ASSUME Lst!Parameters, ListingIInv, Lst!Confirmed PROVE ListingIInv'
<1> DEFINE i == match.item
           v == match.listing
           on == [match EXCEPT !.step = "stamp"]
<1>1. /\ UNCHANGED <<products, variants, run, listingLapse>> /\ match.step = "link"
      /\ match \in MatchType(variants) /\ i \in Item /\ v \in Lst!Variant
      /\ RowsTyped /\ ShopTyped /\ Lst!Upsert(i, v) /\ match' = on
      /\ ~Lst!Overlapped => Lst!Links(i) = {} /\ Lst!Drivers(v) \subseteq {i}
  BY DEF Lst!Confirmed, ListingIInv, ListingTyped, MatchOk
<1>2. Grows /\ ShopTyped' /\ Lst!Variant' = Lst!Variant
      /\ (\A j : Lst!Carriers(j)' = Lst!Carriers(j))
  BY <1>1, SameShop DEF Lst!Variant
<1>3. RowsTyped'
  BY <1>1, OverwrittenRow, NewRow
<1>4. on \in MatchType(variants) /\ on.step = "stamp" /\ on.item = i /\ on.listing = v
  BY <1>1 DEF MatchType
<1> HIDE DEF on
<1>5. ListingTyped'
  BY <1>1, <1>2, <1>3, <1>4, TypesGrow DEF ListingIInv, ListingTyped
<1>6. ~Lst!Overlapped => \A q \in Request : Lst!At(q, "idle")
  BY <1>1 DEF ListingIInv, OneAtATime, Lst!Overlapped
<1>7. (\A q \in Request : RunOk(q)') /\ OneCalling'
  <2>1. Lst!Overlapped' <=> Lst!Overlapped
    BY <1>1 DEF Lst!Overlapped
  <2> QED  BY <1>1, <1>2, <1>6, <2>1, RunsStay
<1>8. OneAtATime'
  BY <1>1, <1>4 DEF ListingIInv, OneAtATime, Lst!Overlapped, Lst!At
<1>9. MatchOk'
  BY <1>1, <1>2, <1>4 DEF MatchOk
<1>10. OneDriver'
  <2>1. CASE Lst!Overlapped
    BY <1>1, <2>1 DEF OneDriver, Lst!Overlapped
  <2>2. CASE ~Lst!Overlapped
    BY <1>1, <2>2, NewRowFacts DEF ListingIInv
  <2> QED  BY <2>1, <2>2
<1>11. CardsAreKnown' /\ Lst!OneProductPerCard'
  <2>1. Lst!OneProductPerCard'
    BY <1>1 DEF ListingIInv, Lst!OneProductPerCard
  <2>2. SUFFICES ASSUME listingLapse = {}, NEW p \in DOMAIN products,
                        products[p].madeFor \in Single
                 PROVE  OfCard(products[p].madeFor)' # {}
    BY <1>1, <2>1 DEF CardsAreKnown
  <2>3. ~Lst!Overlapped
    BY <2>2 DEF Lst!Overlapped
  <2>4. \A q \in Request : ~Finishing(q)
    BY <1>6, <2>3 DEF Finishing, Lst!At
  <2>5. OfCard(products[p].madeFor) # {}
    BY <2>2, <2>4 DEF ListingIInv, CardsAreKnown
  <2>6. products'[p].madeFor = products[p].madeFor
    BY <1>1
  <2>7. \A j : OfCard(j) # {} => OfCard(j)' # {}
    BY <1>1, <2>3, NewRowFacts
  <2> QED  BY <2>5, <2>6, <2>7
<1> QED  BY <1>5, <1>7, <1>8, <1>9, <1>10, <1>11 DEF ListingIInv

\* Each row left by a detachment is one of the rows there were.
LEMMA LeftRows ==
    ASSUME RowsTyped, NEW a \in Lst!Row,
           rows' = SubSeq(rows, 1, a - 1)
                             \o SubSeq(rows, a + 1, Len(rows))
    PROVE  /\ rows' \in Seq(Linked)
           /\ \A b \in Lst!Row' : LET c == IF b < a THEN b ELSE b + 1
                              IN  c \in Lst!Row /\ rows'[b] = rows[c]
<1> DEFINE n == Len(rows)
           low == SubSeq(rows, 1, a - 1)
           high == SubSeq(rows, a + 1, n)
<1>1. rows \in Seq(Linked) /\ Lst!Row = 1..n /\ n \in Nat /\ a \in 1..n
  BY DEF RowsTyped, Lst!Row
<1>2. /\ low \in Seq(Linked) /\ Len(low) = a - 1
      /\ \A b \in 1..(a - 1) : low[b] = rows[b]
  <2>1. \A k \in 1..(a - 1) : k \in 1..n
    BY <1>1
  <2>2. 1 \in 1..(n + 1) /\ a - 1 \in Int /\ a - 1 <= n
    BY <1>1
  <2> QED  BY <1>1, <2>1, <2>2, SubSeqProperties
<1>3. /\ high \in Seq(Linked) /\ Len(high) = n - a
      /\ \A b \in 1..(n - a) : high[b] = rows[a + b]
  <2> QED  BY <1>1, SubSeqProperties
<1> HIDE DEF low, high
<1>4. rows' = low \o high
  BY DEF low, high
<1>5. /\ rows' \in Seq(Linked) /\ Len(rows') = n - 1
      /\ \A b \in 1..(n - 1) : rows'[b] = IF b < a THEN low[b] ELSE high[b - (a - 1)]
  <2>1. /\ rows' \in Seq(Linked) /\ Len(rows') = Len(low) + Len(high)
        /\ \A b \in 1..(Len(low) + Len(high)) :
              rows'[b] = IF b <= Len(low) THEN low[b] ELSE high[b - Len(low)]
    <3>1. low \in Seq(Linked) /\ high \in Seq(Linked)
      BY <1>2, <1>3
    <3> DEFINE both == low \o high
    <3>2. /\ both \in Seq(Linked) /\ Len(both) = Len(low) + Len(high)
          /\ \A b \in 1..(Len(low) + Len(high)) :
                both[b] = IF b <= Len(low) THEN low[b] ELSE high[b - Len(low)]
      BY <3>1, ConcatProperties, Zenon
    <3> QED  BY <1>4, <3>2, Zenon
  <2>2. Len(low) + Len(high) = n - 1 /\ Len(low) = a - 1
    BY <1>1, <1>2, <1>3
  <2>3. \A b \in 1..(n - 1) : rows'[b] = IF b <= a - 1 THEN low[b] ELSE high[b - (a - 1)]
    BY <2>1, <2>2
  <2>4. \A b \in 1..(n - 1) : b <= a - 1 <=> b < a
    BY <1>1
  <2>5. \A b \in 1..(n - 1) : rows'[b] = IF b < a THEN low[b] ELSE high[b - (a - 1)]
    BY <2>3, <2>4, Zenon
  <2>6. Len(rows') = n - 1
    BY <2>1, <2>2
  <2> QED  BY <2>1, <2>5, <2>6
<1>6. Lst!Row' = 1..(n - 1)
  BY <1>5 DEF Lst!Row
<1>7. \A b \in Lst!Row' : LET c == IF b < a THEN b ELSE b + 1
                      IN  c \in Lst!Row /\ rows'[b] = rows[c]
  <2>1. SUFFICES ASSUME NEW b \in Lst!Row'
                 PROVE  LET c == IF b < a THEN b ELSE b + 1
                        IN  c \in Lst!Row /\ rows'[b] = rows[c]
    OBVIOUS
  <2>2. b \in 1..(n - 1) /\ n \in Nat /\ a \in 1..n
    BY <1>1, <1>6
  <2>3. CASE b < a
    <3>1. b \in 1..(a - 1) /\ b \in 1..n
      BY <2>2, <2>3
    <3> QED  BY <1>1, <1>2, <1>5, <2>2, <2>3, <3>1
  <2>4. CASE ~(b < a)
    <3>1. b - (a - 1) \in 1..(n - a) /\ b + 1 \in 1..n /\ a + (b - (a - 1)) = b + 1
      BY <2>2, <2>4
    <3>2. rows'[b] = rows[b + 1]
      BY <1>3, <1>5, <2>2, <2>4, <3>1
    <3> QED  BY <1>1, <2>4, <3>1, <3>2
  <2> QED  BY <2>3, <2>4
<1> QED  BY <1>5, <1>7

LEMMA DetachKeeps ==
    ASSUME Lst!Parameters, ListingIInv, Lst!Detach PROVE ListingIInv'
<1>1. PICK a \in Lst!Row :
         rows' = SubSeq(rows, 1, a - 1)
                           \o SubSeq(rows, a + 1, Len(rows))
  BY DEF Lst!Detach
<1>2. /\ UNCHANGED <<products, variants, run, match>>
             /\ listingLapse' = listingLapse \cup {"edited"}
      /\ RowsTyped /\ ShopTyped /\ listingLapse \subseteq ListingLapse
  BY DEF Lst!Detach, ListingIInv, ListingTyped
<1>3. Grows /\ ShopTyped' /\ Lst!Variant' = Lst!Variant
      /\ (\A j : Lst!Carriers(j)' = Lst!Carriers(j))
  BY <1>2, SameShop DEF Lst!Variant
<1> DEFINE was(b) == IF b < a THEN b ELSE b + 1
<1>4. /\ rows' \in Seq(Linked)
      /\ \A b \in Lst!Row' : was(b) \in Lst!Row /\ rows'[b] = rows[was(b)]
  BY <1>1, <1>2, LeftRows
<1>5. \A b, c \in Lst!Row' : was(b) = was(c) => b = c
  BY <1>2, <1>4 DEF RowsTyped, Lst!Row
<1> HIDE DEF was
<1>6. RowsTyped'
  <2>1. \A b \in Lst!Row : rows[b].listing \in Lst!Variant
    BY <1>2 DEF RowsTyped
  <2>2. \A b, c \in Lst!Row : rows[b].item = rows[c].item => b = c
    BY <1>2 DEF RowsTyped
  <2>3. \A b \in Lst!Row' : rows'[b].listing \in Lst!Variant'
    BY <1>3, <1>4, <2>1
  <2>4. \A b, c \in Lst!Row' : rows'[b].item = rows'[c].item => b = c
    BY <1>4, <1>5, <2>2
  <2> QED  BY <1>4, <2>3, <2>4 DEF RowsTyped
<1>7. (\A j : Lst!Links(j)' \subseteq Lst!Links(j))
      /\ (\A v : Lst!Drivers(v)' \subseteq Lst!Drivers(v))
  BY <1>4 DEF Lst!Links, Lst!Drivers
<1>8. ListingTyped'
  BY <1>2, <1>3, <1>6, TypesGrow DEF ListingIInv, ListingTyped, ListingLapse
<1>9. Lst!Overlapped' <=> Lst!Overlapped
  BY <1>2 DEF Lst!Overlapped
<1>10. (\A q \in Request : RunOk(q)') /\ OneCalling'
  <2>1. listingLapse' # {} /\ listingLapse \subseteq listingLapse'
        /\ listingLapse' \cap {"edited", "confirmed"} # {}
    BY <1>2
  <2> QED  BY <1>2, <1>3, <1>7, <2>1, RunsStay
<1>11. OneAtATime'
  BY <1>2, <1>9 DEF ListingIInv, OneAtATime, Lst!At
<1>12. MatchOk'
  <2>1. match' = match /\ MatchOk
    BY <1>2 DEF ListingIInv
  <2>2. Lst!Links(match.item)' \subseteq Lst!Links(match.item)
    BY <1>2, <1>7
  <2>3. Lst!Drivers(match.listing)' \subseteq Lst!Drivers(match.listing)
    BY <1>2, <1>7
  <2> QED  BY <1>3, <1>9, <2>1, <2>2, <2>3 DEF MatchOk
<1>13. OneDriver'
  BY <1>4, <1>9 DEF ListingIInv, OneDriver
<1>14. CardsAreKnown' /\ Lst!OneProductPerCard'
  BY <1>2 DEF CardsAreKnown, Lst!OneProductPerCard
<1> QED  BY <1>8, <1>10, <1>11, <1>12, <1>13, <1>14 DEF ListingIInv

LEMMA CrashKeeps ==
    ASSUME Lst!Parameters, ListingIInv, Lst!Crash PROVE ListingIInv'
<1>1. /\ UNCHANGED <<products, variants, rows>> /\ run' = [r \in Request |-> Lst!Idle]
      /\ match' = Lst!NoMatch /\ listingLapse' = listingLapse \cup {"failed"}
             /\ listingLapse \subseteq ListingLapse
  BY DEF Lst!Crash, ListingIInv, ListingTyped
<1>2. Grows /\ ShopTyped' /\ Lst!Variant' = Lst!Variant
  BY <1>1, SameShop DEF Lst!Variant
<1>3. Lst!Idle \in RunType(products, variants) /\ Lst!Idle.step = "idle" /\ Lst!Idle.todo = {}
  BY DEF Lst!Idle, RunType
<1>4. Lst!NoMatch \in MatchType(variants) /\ Lst!NoMatch.step = "idle"
  BY DEF Lst!NoMatch, MatchType
<1>5. \A q \in Request : run'[q] = Lst!Idle
  BY <1>1
<1>6. ListingTyped'
  BY <1>1, <1>2, <1>3, <1>4, SameRows, TypesGrow DEF ListingIInv, ListingTyped, ListingLapse
<1>7. \A q \in Request : RunOk(q)'
  BY <1>3, <1>5 DEF RunOk, RunFits, SkuIsNew, NotLinkedYet, IsFirst, Working, Lst!At
<1>8. OneCalling' /\ OneAtATime' /\ MatchOk'
  BY <1>1, <1>3, <1>4, <1>5 DEF OneCalling, OneAtATime, MatchOk, Lst!Calling, Lst!At
<1>9. OneDriver'
  BY <1>1 DEF ListingIInv, OneDriver, Lst!Overlapped, Lst!Row
<1>10. CardsAreKnown' /\ Lst!OneProductPerCard'
  BY <1>1 DEF CardsAreKnown, Lst!OneProductPerCard
<1> QED  BY <1>6, <1>7, <1>8, <1>9, <1>10 DEF ListingIInv

LEMMA ListingsNext ==
    ASSUME Lst!Parameters, ListingIInv, [Lst!Next]_(Lst!vars) PROVE ListingIInv'
<1>1. CASE UNCHANGED Lst!vars
  <2>1. Lst!Variant' = Lst!Variant
    BY <1>1 DEF Lst!vars, Lst!Variant
  <2>2. (\A q \in Request : RunOk(q)') /\ OneCalling'
    BY <1>1, <2>1, SameShop, RunsStay DEF Lst!vars
  <2>3. MatchOk'
    BY <1>1, <2>1, SameRows DEF ListingIInv, MatchOk, Lst!vars, Lst!Overlapped
  <2>4. ListingTyped' /\ OneAtATime' /\ OneDriver' /\ Lst!OneProductPerCard'
    BY <1>1, <2>1, SameRows, SameShop
       DEF ListingIInv, ListingTyped, OneAtATime, OneDriver, Lst!OneProductPerCard,
       Lst!Overlapped, Lst!At, Lst!Row, Lst!vars
  <2>5. CardsAreKnown'
    <3>1. \A q \in Request : Finishing(q)' = Finishing(q)
      BY <1>1, SameRows DEF Finishing, Lst!At, Lst!vars
    <3> QED  BY <1>1, <3>1, SameRows DEF ListingIInv, CardsAreKnown, Lst!vars
  <2> QED  BY <2>2, <2>3, <2>4, <2>5 DEF ListingIInv
<1>2. CASE Lst!Next
  BY <1>2, CreateListingsKeeps, TakeItemKeeps, SearchKeeps, CreateProductKeeps,
     FillVariantKeeps, AddVariantKeeps, PublishProductKeeps, ClaimKeeps, LinkKeeps, RefuseKeeps,
     CrashKeeps, ConfirmKeeps, CheckKeeps, ConfirmedKeeps, StampSkuKeeps, EditSkuKeeps,
     DetachKeeps DEF Lst!Next
<1> QED  BY <1>1, <1>2

-------------------------------------------------------------------------------
\* What the invariant says to a reader.
LEMMA InvariantSays ==
    ASSUME Lst!Parameters, ListingIInv
    PROVE  Lst!TypeOK /\ Lst!OneProductPerCard /\ Lst!OneItemPerListing
<1>1. ListingTyped
  BY DEF ListingIInv
<1>2. Lst!TypeOK
  <2>1. \A p \in DOMAIN products :
           products[p] \in [madeFor: Item \cup {Null}, published: BOOLEAN]
    <3>1. products \in Seq(Product)
      BY <1>1 DEF ListingTyped, ShopTyped
    <3>2. \A p \in DOMAIN products : products[p] \in Product
      BY <3>1
    <3> QED  BY <3>2 DEF Product
  <2>2. \A v \in Lst!Variant : variants[v] \in [product: DOMAIN products, sku: Item \cup {Null}]
    <3>1. \A v \in Lst!Variant : variants[v] \in Offered
          /\ variants[v].product \in DOMAIN products
      BY <1>1 DEF ListingTyped, ShopTyped, Lst!Variant
    <3> QED  BY <3>1 DEF Offered
  <2>3. \A a \in Lst!Row : rows[a] \in [item: Item, listing: Lst!Variant]
    <3>1. \A a \in Lst!Row : rows[a] \in Linked /\ rows[a].listing \in Lst!Variant
      BY <1>1 DEF ListingTyped, RowsTyped, Lst!Row
    <3> QED  BY <3>1 DEF Linked
  <2>4. \A a, b \in Lst!Row : rows[a].item = rows[b].item => a = b
    BY <1>1 DEF ListingTyped, RowsTyped
  <2> QED  BY <1>1, <2>1, <2>2, <2>3, <2>4 DEF Lst!TypeOK, ListingTyped, RunType, MatchType,
              ListingLapse, Lst!Variant
<1>3. Lst!OneItemPerListing
  <2>1. SUFFICES ASSUME ~Lst!Overlapped, NEW v \in Lst!Variant
                 PROVE  Cardinality(Lst!Drivers(v)) <= 1
    BY DEF Lst!OneItemPerListing, Lst!Cardinality, Cardinality
  <2>2. \A i, j \in Lst!Drivers(v) : i = j
    BY <2>1 DEF ListingIInv, OneDriver, Lst!Drivers
  <2>3. CASE Lst!Drivers(v) = {}
    BY <2>3, FS_EmptySet
  <2>4. CASE Lst!Drivers(v) # {}
    <3>1. PICK i : Lst!Drivers(v) = {i}
      BY <2>2, <2>4
    <3>2. Cardinality({i}) = 1
      BY FS_Singleton
    <3> QED  BY <3>1, <3>2
  <2> QED  BY <2>3, <2>4
<1> QED  BY <1>2, <1>3 DEF ListingIInv

\* No step gives a SKU that is in the shop to a second variant.
LEMMA StepMakesNoSecond ==
    ASSUME Lst!Parameters, ListingIInv, [Lst!Next]_(Lst!vars) PROVE Lst!MakesNoSecond
<1>1. SUFFICES ASSUME NEW i \in Item, match' = match,
                      listingLapse' \cap {"edited", "confirmed"} = {}
               PROVE  Lst!Carriers(i) = {} \/ Lst!Carriers(i)' \subseteq Lst!Carriers(i)
  BY DEF Lst!MakesNoSecond
<1>2. ShopTyped /\ Lst!Variant = 1..Len(variants) /\ Len(variants) \in Nat
  BY DEF ListingIInv, ListingTyped, ShopTyped, Lst!Variant
<1>3. CASE UNCHANGED variants
  BY <1>3 DEF Lst!Carriers, Lst!Variant
<1>4. ASSUME NEW r \in Request, Lst!CreateProduct(r)
      PROVE  Lst!Carriers(i)' \subseteq Lst!Carriers(i)
  <2>1. \/ UNCHANGED variants
        \/ variants' = Append(variants, [product |-> Len(products) + 1, sku |-> Null])
    BY <1>4 DEF Lst!CreateProduct
  <2> QED  BY <1>2, <2>1 DEF Lst!Carriers, Lst!Variant, ShopTyped, Lst!Parameters
<1>5. ASSUME NEW r \in Request, Lst!FillVariant(r) \/ Lst!AddVariant(r)
      PROVE  Lst!Carriers(i) = {} \/ Lst!Carriers(i)' \subseteq Lst!Carriers(i)
  <2>1. run[r].step \in {"fill", "add"} /\ listingLapse \subseteq listingLapse' /\ RunOk(r)
    BY <1>5 DEF Lst!FillVariant, Lst!AddVariant, Lst!At, Lst!Answered, ListingIInv
  <2>2. Lst!Carriers(run[r].item) = {}
    BY <1>1, <2>1 DEF RunOk, SkuIsNew
  <2>3. i # run[r].item => Lst!Carriers(i)' \subseteq Lst!Carriers(i)
    <3>1. CASE Lst!FillVariant(r)
      <4>1. variants' = [variants EXCEPT ![run[r].variant].sku = run[r].item]
        BY <3>1 DEF Lst!FillVariant
      <4>2. /\ Lst!Variant' = Lst!Variant
            /\ \A v \in Lst!Variant : variants'[v].sku \in {run[r].item, variants[v].sku}
        <5>1. \A v \in Lst!Variant : variants[v] \in Offered
          BY <1>2 DEF ShopTyped, Lst!Variant
        <5> QED  BY <4>1, <5>1 DEF Lst!Variant, Offered
      <4> QED  BY <4>2 DEF Lst!Carriers
    <3>2. CASE Lst!AddVariant(r)
      <4>1. variants' = Append(variants, [product |-> run[r].product, sku |-> run[r].item])
        BY <3>2 DEF Lst!AddVariant
      <4> QED  BY <1>2, <4>1 DEF Lst!Carriers, Lst!Variant, ShopTyped
    <3> QED  BY <1>5, <3>1, <3>2
  <2> QED  BY <2>2, <2>3
<1>6. CASE Lst!StampSku
  BY <1>1, <1>6 DEF Lst!StampSku, Lst!NoMatch
<1>7. CASE Lst!EditSku
  BY <1>1, <1>7 DEF Lst!EditSku
<1>8. \/ UNCHANGED variants \/ Lst!StampSku \/ Lst!EditSku
      \/ \E r \in Request : Lst!CreateProduct(r) \/ Lst!FillVariant(r) \/ Lst!AddVariant(r)
  BY DEF Lst!Next, Lst!vars, Lst!Create, Lst!TakeItem, Lst!Search, Lst!PublishProduct,
     Lst!Claim, Lst!Link, Lst!Refuse, Lst!Crash, Lst!Confirm, Lst!Check, Lst!Confirmed,
     Lst!Detach
<1> QED  BY <1>3, <1>4, <1>5, <1>6, <1>7, <1>8

\* A step that writes the rows writes one, whose item was not linked.
LEMMA StepKeepsLinks ==
    ASSUME Lst!Parameters, ListingIInv, [Lst!Next]_(Lst!vars) PROVE Lst!LinkStays
<1>1. SUFFICES ASSUME NEW i \in Item, ~Lst!Overlapped, Lst!Links(i) # {}
               PROVE  Lst!Links(i)' \in {{}, Lst!Links(i)}
  BY DEF Lst!LinkStays
<1>2. RowsTyped /\ ShopTyped
  BY DEF ListingIInv, ListingTyped
<1>3. CASE UNCHANGED rows
  BY <1>3, SameRows
<1>4. ASSUME NEW j \in Item, NEW v \in Lst!Variant, Lst!Upsert(j, v), UNCHANGED variants,
             Lst!Links(j) = {}
      PROVE  Lst!Links(i)' = Lst!Links(i)
  BY <1>1, <1>2, <1>4, NewRowFacts
<1>5. ASSUME NEW r \in Request, Lst!Link(r) PROVE Lst!Links(i)' = Lst!Links(i)
  <2>1. /\ UNCHANGED variants /\ run[r].step = "link" /\ RunOk(r)
        /\ Lst!Upsert(run[r].item, run[r].variant)
    BY <1>5 DEF Lst!Link, Lst!At, ListingIInv
  <2>2. run[r].item \in Item /\ run[r].variant \in Lst!Variant /\ Lst!Links(run[r].item) = {}
    BY <1>1, <2>1 DEF RunOk, RunFits, NotLinkedYet, Working
  <2> QED  BY <1>4, <2>1, <2>2
<1>6. CASE Lst!Confirmed
  <2>1. /\ UNCHANGED variants /\ Lst!Upsert(match.item, match.listing)
        /\ match.item \in Item /\ match.listing \in Lst!Variant /\ Lst!Links(match.item) = {}
    BY <1>1, <1>6 DEF Lst!Confirmed, ListingIInv, MatchOk
  <2> QED  BY <1>4, <2>1
<1>7. CASE Lst!Detach
  <2>1. PICK a \in Lst!Row :
           rows' = SubSeq(rows, 1, a - 1)
                             \o SubSeq(rows, a + 1, Len(rows))
    BY <1>7 DEF Lst!Detach
  <2>2. \A b \in Lst!Row' : \E c \in Lst!Row : rows'[b] = rows[c]
    BY <1>2, <2>1, LeftRows
  <2>3. Lst!Links(i)' \subseteq Lst!Links(i)
    BY <2>2 DEF Lst!Links
  <2>4. \A v \in Lst!Links(i) : Lst!Links(i) = {v}
    BY <1>2, LinkType
  <2> QED  BY <2>3, <2>4
<1>8. UNCHANGED rows \/ Lst!Confirmed \/ Lst!Detach \/ \E r \in Request : Lst!Link(r)
  BY DEF Lst!Next, Lst!vars, Lst!Create, Lst!TakeItem, Lst!Search, Lst!CreateProduct,
     Lst!FillVariant, Lst!AddVariant, Lst!PublishProduct, Lst!Claim, Lst!Refuse, Lst!Crash,
     Lst!Confirm, Lst!Check, Lst!StampSku, Lst!EditSku
<1> QED  BY <1>3, <1>5, <1>6, <1>7, <1>8

\* However calls of create and confirm overlap, fail, lose their answers or die, for any number
\* of items, cards and calls: a card has one product, a listing one item, a SKU one variant and
\* an item the listing it has, each up to what lapse has on record.
THEOREM ListingsAreSound ==
    ASSUME Lst!Parameters
    PROVE  Lst!Spec => /\ [](Lst!TypeOK /\ Lst!OneProductPerCard /\ Lst!OneItemPerListing)
                       /\ [][Lst!MakesNoSecond /\ Lst!LinkStays]_(Lst!vars)
<1>1. Lst!Init => ListingIInv
  BY ListingsInit
<1>2. ListingIInv /\ [Lst!Next]_(Lst!vars) => ListingIInv'
  BY ListingsNext
<1>3. ListingIInv => Lst!TypeOK /\ Lst!OneProductPerCard /\ Lst!OneItemPerListing
  BY InvariantSays
<1>4. ListingIInv /\ [Lst!Next]_(Lst!vars) => [Lst!MakesNoSecond /\ Lst!LinkStays]_(Lst!vars)
  BY StepMakesNoSecond, StepKeepsLinks
<1> QED  BY <1>1, <1>2, <1>3, <1>4, PTL DEF Lst!Spec

-------------------------------------------------------------------------------
(***************************************************************************)
(* The components side by side: a step of the whole is a step of each of   *)
(* them, or leaves it alone.                                               *)
(***************************************************************************)
LEMMA SideBySide ==
    /\ AllInit => Init /\ Acc!Init /\ Lst!Init
    /\ [AllNext]_allVars => [Next]_vars /\ [Acc!Next]_(Acc!vars) /\ [Lst!Next]_(Lst!vars)
<1>1. UNCHANGED accountVars => UNCHANGED Acc!vars
  BY DEF accountVars, Acc!vars
<1>2. UNCHANGED listingVars => UNCHANGED Lst!vars
  BY DEF listingVars, Lst!vars
<1> QED  BY <1>1, <1>2 DEF AllInit, AllNext, allVars

\* The accounts of MC_Records keep what they promise, for any number of people, requests and
\* passwords.
THEOREM AccountsStaySound ==
    ASSUME Acc!Parameters PROVE AllSpec => []AccountsHold
<1>1. Acc!Init /\ [][Acc!Next]_(Acc!vars) =>
         [](Acc!TypeOK /\ Acc!AdminRemains /\ Acc!SetupHappensOnce /\ Acc!OldPasswordsAreCut)
  BY AccountsAreSound DEF Acc!Spec
<1>2. Acc!AdminRemains /\ Acc!SetupHappensOnce /\ Acc!OldPasswordsAreCut => AccountsHold
  BY DEF AccountsHold
<1> QED  BY <1>1, <1>2, SideBySide, PTL DEF AllSpec

\* The channels of MC_Records are whole and keep their settings, for any fields, references and
\* requests.
THEOREM ChannelsStaySound ==
    ASSUME Parameters PROVE AllSpec => [](ChannelIsWhole /\ SavesKeepSettings)
<1>1. Init /\ [][Next]_vars => []ChannelIsWhole /\ []SavesKeepSettings
  BY Whole, SettingsAreKept DEF Spec
<1> QED  BY <1>1, SideBySide, PTL DEF AllSpec

\* The listings of MC_Records are owned as they should be, for any items, cards, calls and
\* bounds.
THEOREM ListingsStayOwned ==
    ASSUME Lst!Parameters PROVE AllSpec => ListingsAreOwned
<1>1. Lst!Init => ListingIInv
  BY ListingsInit
<1>2. ListingIInv /\ [Lst!Next]_(Lst!vars) => ListingIInv'
  BY ListingsNext
<1>3. ListingIInv => Lst!OneProductPerCard /\ Lst!OneItemPerListing
  BY InvariantSays
<1>4. ListingIInv /\ [Lst!Next]_(Lst!vars) => Lst!MakesNoSecond /\ Lst!LinkStays
  BY StepMakesNoSecond, StepKeepsLinks
<1> QED  BY <1>1, <1>2, <1>3, <1>4, SideBySide, PTL DEF AllSpec, ListingsAreOwned

\* Every variable of MC_Records keeps its type, for any constants.
THEOREM RecordsStayTyped ==
    ASSUME Parameters, Acc!Parameters, Lst!Parameters PROVE AllSpec => []AllTypeOK
<1>1. Init /\ [][Next]_vars => []TypeOK
  BY TypeCorrect DEF Spec
<1>2. Acc!Init /\ [][Acc!Next]_(Acc!vars) =>
         [](Acc!TypeOK /\ Acc!AdminRemains /\ Acc!SetupHappensOnce /\ Acc!OldPasswordsAreCut)
  BY AccountsAreSound DEF Acc!Spec
<1>3. Lst!Init => ListingIInv
  BY ListingsInit
<1>4. ListingIInv /\ [Lst!Next]_(Lst!vars) => ListingIInv'
  BY ListingsNext
<1>5. ListingIInv => Lst!TypeOK
  BY InvariantSays
<1>6. TypeOK /\ Acc!TypeOK /\ Lst!TypeOK => AllTypeOK
  BY DEF AllTypeOK
<1> QED  BY <1>1, <1>2, <1>3, <1>4, <1>5, <1>6, SideBySide, PTL DEF AllSpec
================================================================================
