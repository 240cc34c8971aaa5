--------------------------- MODULE CatalogMerge_proofs ---------------------------
(***************************************************************************)
(* Proofs about CatalogMerge, for any items, references, SKUs and calls:   *)
(* a merge deletes nothing of value and forgets no reference unless a call *)
(* or another merge was under way beside it, and no product is split over  *)
(* two items without somebody being told, unless a reference could not be  *)
(* written that nobody held when the call then looked.                     *)
(***************************************************************************)
EXTENDS CatalogMerge, TLAPS

CallStep == {"idle", "resolve", "createItem", "refs", "owner", "flag", "findSku",
             "createSku", "createRow", "record", "adjust", "allocate"}

Job == [step: CallStep, task: {"intake", "link", Null}, refs: Candidate \cup {{}},
        todo: SUBSET ExternalRef, condition: Condition \cup {Null}, item: Item \cup {Null},
        sku: SkuId \cup {Null}, ref: ExternalRef \cup {Null}, missed: SUBSET ExternalRef]

SkuRow == [item: Item, condition: Condition, row: Row \cup {Null}]

MergeJob == [winner: Item, loser: Item, move: SUBSET SkuId, refs: SUBSET ExternalRef]

Used == [calls: 0..MaxCalls, merges: 0..MaxMerges, mishaps: 0..MaxMishaps]

Typed ==
    /\ catalog \subseteq Item
    /\ holder \in [ExternalRef -> Item \cup {Null}]
    /\ sku \in [SkuId -> SkuRow \cup {Null}]
    /\ call \in [Caller -> Job]
    /\ merges \subseteq MergeJob
    /\ flagged \subseteq ExternalRef /\ known \subseteq ExternalRef /\ lost \subseteq Row
    /\ used \in Used
    /\ lapse \subseteq {"overlap"}

\* References and SKUs are of items that exist.
Rooted ==
    /\ \A x \in ExternalRef : holder[x] \in catalog \cup {Null}
    /\ \A s \in SkuId : sku[s] # Null => sku[s].item \in catalog

-------------------------------------------------------------------------------
(***************************************************************************)
(* The inductive invariant.                                                *)
(***************************************************************************)

\* A statement failed, a catalogue was cleared, or a merge was not alone.
Excused == used.mishaps > 0 \/ "overlap" \in lapse

\* What a call carries at each of its steps, and what it has covered of its candidate; a
\* reference that failed to be written is somebody's, or one of those has happened.
JobFits(job) ==
    /\ job.step # "idle" => job.condition \in Condition /\ job.refs \in Candidate
    /\ job.step \notin {"refs", "owner", "flag"} => job.todo = {}
    /\ job.step \in {"owner", "flag"} => job.ref \in job.todo
    /\ job.step \in {"createRow", "record", "adjust", "allocate"} => job.sku \in SkuId
    /\ job.step \in {"record", "adjust", "allocate"} /\ sku[job.sku] # Null =>
          sku[job.sku].row # Null
    /\ job.item \in catalog =>
          /\ \A x \in job.refs \ job.todo :
                holder[x] = job.item \/ x \in flagged \/ (x \in job.missed /\ Excused)
          /\ job.step = "owner" => holder[job.ref] # Null \/ Excused

Fits == \A c \in Caller : JobFits(call[c])

\* Two items, and the references of the one that goes, for as long as it is there.
MergeFits ==
    \A m \in merges :
        /\ m.winner # m.loser
        /\ m.loser \in catalog => \A x \in m.refs : holder[x] = m.loser

\* Alone, what the merge has read of the item that goes is still so.
Unraced ==
    "overlap" \notin lapse =>
        /\ lost = {}
        /\ \A x \in known : holder[x] # Null
        /\ \A m \in merges :
              /\ merges = {m}
              /\ \A c \in Caller : At(c, "idle")
              /\ m.loser \in catalog =>
                    /\ \A s \in SkusOf(m.loser) \ m.move : ~Blocks(sku[s].row)
                    /\ RefsOf(m.loser) \subseteq m.refs

IInv == Typed /\ Rooted /\ Fits /\ MergeFits /\ Unraced

LEMMA TypeIsTyped == Typed /\ Rooted => TypeOK
<1> SUFFICES ASSUME Typed, Rooted PROVE TypeOK
  OBVIOUS
<1>1. holder \in [ExternalRef -> catalog \cup {Null}]
  BY DEF Typed, Rooted
<1>2. sku \in [SkuId -> [item: catalog, condition: Condition, row: Row \cup {Null}] \cup {Null}]
  <2>1. \A s \in SkuId :
          sku[s] \in [item: catalog, condition: Condition, row: Row \cup {Null}] \cup {Null}
    BY DEF Typed, Rooted, SkuRow
  <2> QED  BY <2>1 DEF Typed
<1> QED  BY <1>1, <1>2 DEF Typed, TypeOK, Job, CallStep, MergeJob, Used

LEMMA Shapes ==
    ASSUME Parameters
    PROVE  /\ Away \in Job /\ JobFits(Away) /\ Away.step = "idle"
           /\ Empty \in Row
           /\ Null \notin SkuRow
<1>1. Away \in Job /\ Away.step = "idle" /\ Away.todo = {} /\ Away.refs = {}
      /\ Away.item = Null
  BY DEF Away, Job, CallStep
<1>2. JobFits(Away)
  BY <1>1 DEF JobFits
<1>3. Empty \in Row
  BY DEF Empty, Row
<1> QED  BY <1>1, <1>2, <1>3 DEF SkuRow, Parameters

-------------------------------------------------------------------------------
(***************************************************************************)
(* Every step preserves it.                                                *)
(***************************************************************************)

\* A step that changes nothing but its call and what is on record.
LEMMA OnRecord ==
    ASSUME Parameters, IInv, NEW c \in Caller, NEW job \in Job, JobFits(job)',
           call' = [call EXCEPT ![c] = job],
           UNCHANGED <<catalog, holder, sku, merges, flagged, known, lost>>,
           used' \in Used, lapse' \subseteq {"overlap"}, lapse \subseteq lapse',
           Excused => Excused',
           "overlap" \in lapse' \/ merges = {} \/ job.step = "idle"
    PROVE  IInv'
<1>1. Typed'
  BY DEF IInv, Typed
<1>2. Rooted'
  BY DEF IInv, Rooted
<1>3. Fits'
  <2>1. ASSUME NEW d \in Caller PROVE JobFits(call[d])'
    <3>1. CASE d = c
      BY <3>1 DEF IInv, Typed
    <3>2. CASE d # c
      <4>1. call'[d] = call[d] /\ JobFits(call[d])
        BY <3>2 DEF IInv, Typed, Fits
      <4> QED  BY <4>1 DEF JobFits
    <3> QED  BY <3>1, <3>2
  <2> QED  BY <2>1 DEF Fits
<1>4. MergeFits'
  BY DEF IInv, MergeFits
<1>5. Unraced'
  BY DEF IInv, Unraced, Typed, At, SkusOf, Skus, RefsOf, Blocks
<1> QED  BY <1>1, <1>2, <1>3, <1>4, <1>5 DEF IInv

LEMMA CallOnly ==
    ASSUME Parameters, IInv, NEW c \in Caller, NEW job \in Job, JobFits(job),
           call' = [call EXCEPT ![c] = job],
           UNCHANGED <<catalog, holder, sku, merges, flagged, known, lost>>,
           used' \in Used, lapse' \subseteq {"overlap"}, lapse \subseteq lapse',
           Excused => Excused',
           "overlap" \in lapse' \/ merges = {} \/ job.step = "idle"
    PROVE  IInv'
<1>1. JobFits(job)'
  BY DEF JobFits
<1> QED  BY <1>1, OnRecord

\* A call under way beside a merge is on record.
LEMMA Beside ==
    ASSUME IInv, NEW c \in Caller, ~At(c, "idle")
    PROVE  "overlap" \in lapse \/ merges = {}
BY DEF IInv, Unraced

LEMMA AskKeeps ==
    ASSUME Parameters, IInv, NEW c \in Caller, Ask(c) PROVE IInv'
<1>1. PICK task \in {"intake", "link"}, refs \in Candidate, condition \in Condition :
          call' = [call EXCEPT ![c] = [Away EXCEPT !.step = "resolve", !.task = task,
                                          !.refs = refs, !.condition = condition]]
  BY DEF Ask
<1> DEFINE job == [Away EXCEPT !.step = "resolve", !.task = task,
                                !.refs = refs, !.condition = condition]
<1>2. /\ job \in Job /\ job.step = "resolve" /\ job.condition = condition /\ job.refs = refs
      /\ job.todo = {} /\ job.item = Null
  BY DEF Away, Job, CallStep
<1>3. Null \notin catalog
  BY DEF IInv, Typed, Parameters
<1> HIDE DEF job
<1>4. JobFits(job)
  BY <1>2, <1>3 DEF JobFits
<1>5. used' \in Used /\ (Excused => Excused')
  BY DEF Ask, Use, IInv, Typed, Used, Parameters, Excused
<1>6. /\ lapse' \subseteq {"overlap"} /\ lapse \subseteq lapse'
      /\ "overlap" \in lapse' \/ merges = {}
  BY DEF Ask, IInv, Typed
<1> QED  BY <1>1, <1>2, <1>4, <1>5, <1>6, CallOnly DEF Ask, job

\* A call goes on, or is over, and touches nothing.
LEMMA GoesOn ==
    ASSUME Parameters, IInv, NEW c \in Caller, ~At(c, "idle"), NEW job \in Job, JobFits(job),
           call' = [call EXCEPT ![c] = job],
           UNCHANGED <<catalog, holder, sku, merges, flagged, known, lost, lapse>>,
           used' \in Used, Excused => Excused'
    PROVE  IInv'
<1>1. lapse' \subseteq {"overlap"} /\ lapse \subseteq lapse'
  BY DEF IInv, Typed
<1> QED  BY <1>1, Beside, CallOnly

LEMMA ResolveKeeps ==
    ASSUME Parameters, IInv, NEW c \in Caller, Resolve(c) PROVE IInv'
<1> DEFINE held == {holder[x] : x \in {x \in call[c].refs : holder[x] # Null}}
           job == [call[c] EXCEPT !.step = "createItem"]
<1>1. /\ call[c] \in Job /\ JobFits(call[c]) /\ call[c].step = "resolve"
      /\ used' \in Used /\ (Excused => Excused')
  BY DEF IInv, Typed, Fits, Resolve, At, Excused
<1>2. CASE held = {}
  <2>1. call' = [call EXCEPT ![c] = job]
    BY <1>2 DEF Resolve, Goto, IInv, Typed
  <2>2. job \in Job /\ JobFits(job)
    BY <1>1 DEF Job, CallStep, JobFits
  <2> HIDE DEF job
  <2> QED  BY <1>1, <2>1, <2>2, GoesOn DEF Resolve, At
<1>3. CASE held # {}
  <2>1. PICK i \in held : call' = [call EXCEPT ![c].step = "refs", ![c].item = i,
                                               ![c].todo = call[c].refs]
    BY <1>3 DEF Resolve
  <2> DEFINE found == [call[c] EXCEPT !.step = "refs", !.item = i, !.todo = call[c].refs]
  <2>2. call' = [call EXCEPT ![c] = found]
    BY <2>1 DEF IInv, Typed
  <2>3. call[c].refs \in Candidate /\ call[c].refs \subseteq ExternalRef
    BY <1>1 DEF JobFits, Parameters
  <2>4. i \in Item
    BY <2>3 DEF IInv, Typed
  <2>5. found \in Job /\ JobFits(found)
    BY <1>1, <2>3, <2>4 DEF Job, CallStep, JobFits
  <2> HIDE DEF found
  <2> QED  BY <1>1, <2>2, <2>5, GoesOn DEF Resolve, At
<1> QED  BY <1>2, <1>3

LEMMA FindSkuKeeps ==
    ASSUME Parameters, IInv, NEW c \in Caller, FindSku(c) PROVE IInv'
<1> DEFINE found == {s \in SkusOf(call[c].item) : sku[s].condition = call[c].condition}
           job == [call[c] EXCEPT !.step = "createSku"]
<1>1. /\ call[c] \in Job /\ JobFits(call[c]) /\ call[c].step = "findSku"
      /\ used' \in Used /\ (Excused => Excused')
  BY DEF IInv, Typed, Fits, FindSku, At, Excused
<1>2. CASE found = {}
  <2>1. call' = [call EXCEPT ![c] = job]
    BY <1>2 DEF FindSku, Goto, IInv, Typed
  <2>2. job \in Job /\ JobFits(job)
    BY <1>1 DEF Job, CallStep, JobFits
  <2> HIDE DEF job
  <2> QED  BY <1>1, <2>1, <2>2, GoesOn DEF FindSku, At
<1>3. CASE found # {}
  <2>1. PICK s \in found :
          call' = [call EXCEPT ![c].sku = s,
                      ![c].step = IF sku[s].row = Null THEN "createRow"
                                  ELSE IF call[c].task = "intake" THEN "adjust"
                                  ELSE "allocate"]
    BY <1>3 DEF FindSku
  <2> DEFINE next == IF sku[s].row = Null THEN "createRow"
                     ELSE IF call[c].task = "intake" THEN "adjust" ELSE "allocate"
             it == [call[c] EXCEPT !.sku = s, !.step = next]
  <2>2. call' = [call EXCEPT ![c] = it]
    BY <2>1 DEF IInv, Typed
  <2>3. s \in SkuId /\ next \in {"createRow", "adjust", "allocate"}
        /\ (next # "createRow" => sku[s].row # Null)
    BY DEF SkusOf, Skus
  <2> HIDE DEF next
  <2>4. it \in Job /\ JobFits(it)
    BY <1>1, <2>3 DEF Job, CallStep, JobFits
  <2> HIDE DEF it
  <2> QED  BY <1>1, <2>2, <2>4, GoesOn DEF FindSku, At
<1> QED  BY <1>2, <1>3

LEMMA DieKeeps ==
    ASSUME Parameters, IInv, NEW c \in Caller, Die(c) PROVE IInv'
<1>1. used' \in Used /\ (Excused => Excused')
  BY DEF Die, Use, IInv, Typed, Used, Parameters, Excused
<1> QED  BY <1>1, Shapes, GoesOn DEF Die, Done

\* A call that records references nobody held, of its item, old or new.
LEMMA Recorded ==
    ASSUME Parameters, IInv, NEW c \in Caller, ~At(c, "idle"), NEW job \in Job, JobFits(job)',
           call' = [call EXCEPT ![c] = job],
           catalog \subseteq catalog', catalog' \subseteq Item,
           \A i \in catalog' \ catalog :
              (\A m \in merges : i # m.loser) /\ \A d \in Caller \ {c} : call[d].item # i,
           holder' \in [ExternalRef -> catalog' \cup {Null}],
           \A x \in ExternalRef : holder[x] # Null => holder'[x] = holder[x],
           known' \subseteq ExternalRef, \A x \in known' \ known : holder'[x] # Null,
           flagged \subseteq flagged', flagged' \subseteq ExternalRef,
           UNCHANGED <<sku, merges, lost, used, lapse>>
    PROVE  IInv'
<1>1. Typed'
  BY DEF IInv, Typed
<1>2. Rooted'
  BY DEF IInv, Rooted
<1>3. Fits'
  <2>1. ASSUME NEW d \in Caller \ {c} PROVE JobFits(call[d])'
    <3>1. call'[d] = call[d] /\ JobFits(call[d]) /\ call[d] \in Job
      BY <2>1 DEF IInv, Typed, Fits
    <3>2. call[d].refs \subseteq ExternalRef
      BY <3>1 DEF Job, Parameters
    <3>3. Excused' = Excused
      BY DEF Excused
    <3>4. ASSUME call[d].item \in catalog'
          PROVE  call[d].item \in catalog /\ call[d].item # Null
      BY <2>1, <3>4 DEF IInv, Typed, Parameters
    <3>5. ASSUME call[d].item \in catalog', NEW x \in call[d].refs \ call[d].todo
          PROVE  holder'[x] = call[d].item \/ x \in flagged \/ (x \in call[d].missed /\ Excused')
      <4>1. holder[x] = call[d].item \/ x \in flagged \/ (x \in call[d].missed /\ Excused)
        BY <3>1, <3>4, <3>5 DEF JobFits
      <4> QED  BY <3>2, <3>3, <3>4, <3>5, <4>1
    <3>6. ASSUME call[d].item \in catalog', call[d].step = "owner"
          PROVE  holder'[call[d].ref] # Null \/ Excused'
      <4>1. call[d].ref \in ExternalRef
        BY <3>1, <3>6 DEF JobFits, Job
      <4>2. holder[call[d].ref] # Null \/ Excused
        BY <3>1, <3>4, <3>6 DEF JobFits
      <4> QED  BY <3>3, <4>1, <4>2
    <3> QED  BY <3>1, <3>5, <3>6 DEF JobFits
  <2>2. call'[c] = job
    BY DEF IInv, Typed
  <2> QED  BY <2>1, <2>2 DEF Fits
<1>4. MergeFits'
  <2>1. ASSUME NEW m \in merges, m.loser \in catalog', NEW x \in m.refs
        PROVE  holder'[x] = m.loser
    <3>1. m.loser \in catalog /\ m.loser # Null /\ x \in ExternalRef
      BY <2>1 DEF IInv, Typed, MergeJob, Parameters
    <3> QED  BY <2>1, <3>1 DEF IInv, MergeFits
  <2> QED  BY <2>1 DEF IInv, MergeFits
<1>5. Unraced'
  <2>1. ASSUME "overlap" \notin lapse
        PROVE  lost = {} /\ merges = {} /\ \A x \in known' : holder'[x] # Null
    BY <2>1, Beside DEF IInv, Unraced, Typed
  <2> QED  BY <2>1 DEF Unraced
<1> QED  BY <1>1, <1>2, <1>3, <1>4, <1>5 DEF IInv

LEMMA CreateItemKeeps ==
    ASSUME Parameters, IInv, NEW c \in Caller, CreateItem(c) PROVE IInv'
<1>1. /\ call[c] \in Job /\ JobFits(call[c]) /\ call[c].step = "createItem"
      /\ call[c].refs \in Candidate /\ call[c].refs \subseteq ExternalRef /\ call[c].todo = {}
  BY DEF IInv, Typed, Fits, JobFits, CreateItem, At, Parameters
<1>2. CASE \E x \in call[c].refs : holder[x] # Null
  <2>1. used' \in Used /\ (Excused => Excused')
    BY DEF CreateItem, IInv, Typed, Excused
  <2> QED  BY <1>1, <1>2, <2>1, Shapes, GoesOn DEF CreateItem, Done, At
<1>3. CASE ~ \E x \in call[c].refs : holder[x] # Null
  <2>1. PICK i \in Item \ catalog :
          /\ \A d \in Caller : call[d].item # i
          /\ \A m \in merges : i \notin {m.winner, m.loser}
          /\ catalog' = catalog \cup {i}
          /\ holder' = [x \in ExternalRef |-> IF x \in call[c].refs THEN i ELSE holder[x]]
          /\ known' = known \cup call[c].refs
          /\ call' = [call EXCEPT ![c].step = "findSku", ![c].item = i]
          /\ flagged' = flagged
    BY <1>3 DEF CreateItem
  <2>2. call' = [call EXCEPT ![c] = [call[c] EXCEPT !.step = "findSku", !.item = i]]
    BY <2>1 DEF IInv, Typed
  <2>3. PICK job \in Job :
          /\ job = [call[c] EXCEPT !.step = "findSku", !.item = i]
          /\ job.step = "findSku" /\ job.item = i /\ job.refs = call[c].refs
          /\ job.todo = {} /\ job.condition = call[c].condition
    <3> DEFINE it == [call[c] EXCEPT !.step = "findSku", !.item = i]
    <3>1. it \in Job
      BY <1>1 DEF Job, CallStep
    <3>2. /\ it.step = "findSku" /\ it.item = i /\ it.refs = call[c].refs
          /\ it.todo = {} /\ it.condition = call[c].condition
      BY <1>1 DEF Job
    <3> QED  BY <3>1, <3>2
  <2>4. \A x \in call[c].refs : holder'[x] = i
    BY <1>1, <2>1
  <2>5. JobFits(job)'
    BY <1>1, <2>3, <2>4 DEF JobFits
  <2>6. holder' \in [ExternalRef -> catalog' \cup {Null}]
    BY <2>1 DEF IInv, Typed, Rooted
  <2>7. \A x \in ExternalRef : holder[x] # Null => holder'[x] = holder[x]
    BY <1>3, <2>1
  <2>8. i # Null
    BY DEF Parameters
  <2>9. known' \subseteq ExternalRef /\ \A x \in known' \ known : holder'[x] # Null
    BY <1>1, <2>1, <2>4, <2>8 DEF IInv, Typed
  <2>10. catalog' \subseteq Item /\ flagged \subseteq flagged' /\ flagged' \subseteq ExternalRef
    BY <2>1 DEF IInv, Typed
  <2>11. UNCHANGED <<sku, merges, lost, used, lapse>> /\ ~At(c, "idle")
    BY <1>1 DEF CreateItem, At
  <2>12. catalog \subseteq catalog' /\ \A j \in catalog' \ catalog :
            (\A m \in merges : j # m.loser) /\ \A d \in Caller \ {c} : call[d].item # j
    BY <2>1
  <2>13. call' = [call EXCEPT ![c] = job]
    BY <2>2, <2>3
  <2> QED  BY <2>5, <2>6, <2>7, <2>9, <2>10, <2>11, <2>12, <2>13, Recorded
<1> QED  BY <1>2, <1>3

\* A call that is done with one of its references.
LEMMA Moved ==
    ASSUME Parameters, IInv, NEW c \in Caller, call[c].step \in {"refs", "owner", "flag"},
           NEW x \in call[c].todo, NEW missed \in SUBSET {x}, MovesOn(c, x, missed)
    PROVE  /\ call[c] \in Job /\ JobFits(call[c]) /\ ~At(c, "idle") /\ x \in ExternalRef
           /\ \E job \in Job :
                /\ call' = [call EXCEPT ![c] = job]
                /\ job.step \in {"refs", "findSku"} /\ (job.step = "findSku" => job.todo = {})
                /\ job.item = call[c].item /\ job.refs = call[c].refs
                /\ job.todo = call[c].todo \ {x} /\ job.missed = call[c].missed \cup missed
                /\ job.condition = call[c].condition
<1>1. call[c] \in Job /\ JobFits(call[c])
  BY DEF IInv, Typed, Fits
<1>2. x \in ExternalRef /\ call[c].todo \subseteq ExternalRef /\ ~At(c, "idle")
  BY <1>1 DEF Job, At
<1> DEFINE next == IF call[c].todo = {x} THEN "findSku" ELSE "refs"
           it == [call[c] EXCEPT !.todo = @ \ {x}, !.ref = Null, !.missed = @ \cup missed,
                                 !.step = next]
<1>3. call' = [call EXCEPT ![c] = it]
  BY DEF MovesOn, IInv, Typed
<1>4. next \in {"refs", "findSku"} /\ (next = "findSku" => call[c].todo \ {x} = {})
  OBVIOUS
<1> HIDE DEF next
<1>5. it \in Job
  BY <1>1, <1>2, <1>4 DEF Job, CallStep
<1>6. /\ it.step \in {"refs", "findSku"} /\ (it.step = "findSku" => it.todo = {})
      /\ it.item = call[c].item /\ it.refs = call[c].refs /\ it.todo = call[c].todo \ {x}
      /\ it.missed = call[c].missed \cup missed /\ it.condition = call[c].condition
  BY <1>1, <1>4 DEF Job
<1> HIDE DEF it
<1> QED  BY <1>1, <1>2, <1>3, <1>5, <1>6

\* It leaves the reference recorded, reported or missed for a reason.
LEMMA Leaves ==
    ASSUME Parameters, IInv, NEW c \in Caller, call[c].step \in {"refs", "owner", "flag"},
           NEW x \in call[c].todo, NEW missed \in SUBSET {x}, MovesOn(c, x, missed),
           holder' \in [ExternalRef -> catalog \cup {Null}],
           \A y \in ExternalRef : holder[y] # Null => holder'[y] = holder[y],
           known' \subseteq ExternalRef, \A y \in known' \ known : holder'[y] # Null,
           flagged \subseteq flagged', flagged' \subseteq ExternalRef,
           call[c].item \in catalog =>
              holder'[x] = call[c].item \/ x \in flagged' \/ (x \in missed /\ Excused),
           UNCHANGED <<catalog, sku, merges, lost, used, lapse>>
    PROVE  IInv'
<1>1. call[c] \in Job /\ JobFits(call[c]) /\ ~At(c, "idle") /\ x \in ExternalRef
  BY Moved
<1>2. PICK job \in Job :
        /\ call' = [call EXCEPT ![c] = job]
        /\ job.step \in {"refs", "findSku"} /\ (job.step = "findSku" => job.todo = {})
        /\ job.item = call[c].item /\ job.refs = call[c].refs
        /\ job.todo = call[c].todo \ {x} /\ job.missed = call[c].missed \cup missed
        /\ job.condition = call[c].condition
  BY Moved
<1>3. Excused' = Excused
  BY DEF Excused
<1>4. call[c].refs \in Candidate /\ call[c].refs \subseteq ExternalRef
  BY <1>1 DEF JobFits, Parameters
<1>5. ASSUME job.item \in catalog, NEW y \in job.refs \ job.todo
      PROVE  holder'[y] = job.item \/ y \in flagged' \/ (y \in job.missed /\ Excused')
  <2>1. CASE y = x
    BY <1>2, <1>3, <1>5, <2>1
  <2>2. CASE y # x
    <3>1. \/ holder[y] = call[c].item \/ y \in flagged
          \/ y \in call[c].missed /\ Excused
      BY <1>1, <1>2, <1>5, <2>2 DEF JobFits
    <3>2. y \in ExternalRef /\ call[c].item # Null
      BY <1>2, <1>4, <1>5 DEF IInv, Typed, Parameters
    <3> QED  BY <1>2, <1>3, <3>1, <3>2
  <2> QED  BY <2>1, <2>2
<1>6. JobFits(job)'
  BY <1>1, <1>2, <1>4, <1>5 DEF JobFits
<1> QED  BY <1>1, <1>2, <1>6, Recorded DEF IInv, Typed

LEMMA TryRefKeeps ==
    ASSUME Parameters, IInv, NEW c \in Caller, TryRef(c) PROVE IInv'
<1>1. /\ call[c] \in Job /\ JobFits(call[c]) /\ call[c].step = "refs"
      /\ call[c].refs \in Candidate /\ call[c].todo \subseteq ExternalRef
      /\ UNCHANGED <<catalog, sku, merges, flagged, lost, lapse>>
  BY DEF IInv, Typed, Fits, JobFits, TryRef, At, Job
<1>2. PICK x \in call[c].todo :
        \/ /\ MayRecord(c, x) /\ MovesOn(c, x, {})
           /\ holder' = [holder EXCEPT ![x] = call[c].item]
           /\ known' = known \cup {x}
           /\ UNCHANGED used
        \/ /\ call' = [call EXCEPT ![c].step = "owner", ![c].ref = x]
           /\ IF MayRecord(c, x) THEN used.mishaps < MaxMishaps /\ Use("mishaps")
              ELSE UNCHANGED used
           /\ UNCHANGED <<holder, known>>
  BY DEF TryRef
<1>3. x \in ExternalRef /\ holder \in [ExternalRef -> catalog \cup {Null}]
  BY <1>1 DEF IInv, Typed, Rooted
<1>4. CASE /\ MayRecord(c, x) /\ MovesOn(c, x, {})
           /\ holder' = [holder EXCEPT ![x] = call[c].item]
           /\ known' = known \cup {x}
           /\ UNCHANGED used
  <2>1. holder[x] = Null /\ call[c].item \in catalog
    BY <1>4 DEF MayRecord
  <2>2. /\ holder' \in [ExternalRef -> catalog \cup {Null}]
        /\ \A y \in ExternalRef : holder[y] # Null => holder'[y] = holder[y]
        /\ holder'[x] = call[c].item
    BY <1>3, <1>4, <2>1
  <2>3. known' \subseteq ExternalRef /\ \A y \in known' \ known : holder'[y] # Null
    BY <1>3, <1>4, <2>1, <2>2 DEF IInv, Typed, Parameters
  <2>4. flagged \subseteq flagged' /\ flagged' \subseteq ExternalRef
    BY <1>1 DEF IInv, Typed
  <2> QED  BY <1>1, <1>4, <2>2, <2>3, <2>4, Leaves
<1>5. CASE /\ call' = [call EXCEPT ![c].step = "owner", ![c].ref = x]
           /\ IF MayRecord(c, x) THEN used.mishaps < MaxMishaps /\ Use("mishaps")
              ELSE UNCHANGED used
           /\ UNCHANGED <<holder, known>>
  <2>2. used \in Used
    BY DEF IInv, Typed
  <2>3. /\ used' \in Used /\ (Excused => Excused')
        /\ ~MayRecord(c, x) \/ Excused'
    BY <1>1, <1>5, <2>2 DEF Use, Used, Excused, Parameters
  <2>1. PICK job \in Job :
          /\ call' = [call EXCEPT ![c] = job]
          /\ job.step = "owner" /\ job.ref = x /\ job.item = call[c].item
          /\ job.refs = call[c].refs /\ job.todo = call[c].todo
          /\ job.missed = call[c].missed /\ job.condition = call[c].condition
    <3> DEFINE it == [call[c] EXCEPT !.step = "owner", !.ref = x]
    <3>1. call' = [call EXCEPT ![c] = it]
      BY <1>5 DEF IInv, Typed
    <3>2. /\ it \in Job /\ it.step = "owner" /\ it.ref = x /\ it.item = call[c].item
          /\ it.refs = call[c].refs /\ it.todo = call[c].todo
          /\ it.missed = call[c].missed /\ it.condition = call[c].condition
      BY <1>1, <1>3 DEF Job, CallStep
    <3> HIDE DEF it
    <3> QED  BY <3>1, <3>2
  <2>5. UNCHANGED <<catalog, holder, sku, merges, flagged, known, lost, lapse>>
    BY <1>1, <1>5
  <2>6. JobFits(job)'
    <3>1. x \in job.todo /\ job.condition \in Condition /\ job.refs \in Candidate
      BY <1>1, <2>1 DEF JobFits
    <3>2. ASSUME job.item \in catalog, NEW y \in job.refs \ job.todo
          PROVE  holder[y] = job.item \/ y \in flagged \/ (y \in job.missed /\ Excused')
      BY <1>1, <2>1, <2>3, <3>2 DEF JobFits
    <3>3. job.item \in catalog => holder[job.ref] # Null \/ Excused'
      BY <2>1, <2>3 DEF MayRecord
    <3> QED  BY <2>1, <2>5, <3>1, <3>2, <3>3 DEF JobFits
  <2>7. "overlap" \in lapse \/ merges = {}
    BY <1>1, Beside DEF At
  <2>8. lapse' \subseteq {"overlap"} /\ lapse \subseteq lapse'
    BY <2>5 DEF IInv, Typed
  <2> QED  BY <2>1, <2>3, <2>5, <2>6, <2>7, <2>8, OnRecord
<1> QED  BY <1>2, <1>4, <1>5

LEMMA LookUpKeeps ==
    ASSUME Parameters, IInv, NEW c \in Caller, LookUp(c) PROVE IInv'
<1> DEFINE x == call[c].ref
           job == [call[c] EXCEPT !.step = "flag"]
<1>1. /\ call[c] \in Job /\ JobFits(call[c]) /\ call[c].step = "owner"
      /\ x \in call[c].todo
      /\ UNCHANGED <<catalog, holder, sku, merges, flagged, known, lost, used, lapse>>
  BY DEF IInv, Typed, Fits, JobFits, LookUp, At
<1>2. CASE Contested(c)
  <2>1. call' = [call EXCEPT ![c] = job]
    BY <1>2 DEF LookUp, Goto, IInv, Typed
  <2>2. job \in Job /\ JobFits(job)
    BY <1>1 DEF Job, CallStep, JobFits
  <2>3. used' \in Used /\ (Excused => Excused')
    BY <1>1 DEF IInv, Typed, Excused
  <2> HIDE DEF job
  <2> QED  BY <1>1, <2>1, <2>2, <2>3, GoesOn DEF At
<1>3. CASE ~Contested(c)
  <2> DEFINE missed == {y \in {x} : holder[y] = Null}
  <2>1. MovesOn(c, x, missed)
    BY <1>3 DEF LookUp
  <2>2. call[c].item \in catalog => holder[x] = call[c].item \/ (x \in missed /\ Excused)
    BY <1>1, <1>3 DEF Contested, JobFits
  <2>3. /\ holder' \in [ExternalRef -> catalog \cup {Null}]
        /\ known' \subseteq ExternalRef /\ flagged \subseteq flagged'
        /\ flagged' \subseteq ExternalRef
    BY <1>1 DEF IInv, Typed, Rooted
  <2>4. missed \in SUBSET {x}
    OBVIOUS
  <2> HIDE DEF missed, x
  <2> QED  BY <1>1, <2>1, <2>2, <2>3, <2>4, Leaves
<1> QED  BY <1>2, <1>3

LEMMA FlagKeeps ==
    ASSUME Parameters, IInv, NEW c \in Caller, Flag(c) PROVE IInv'
<1> DEFINE x == call[c].ref
<1>1. /\ call[c] \in Job /\ call[c].step = "flag" /\ x \in call[c].todo
      /\ MovesOn(c, x, {}) /\ flagged' = flagged \cup {x}
      /\ UNCHANGED <<catalog, holder, sku, merges, known, lost, used, lapse>>
  BY DEF IInv, Typed, Fits, JobFits, Flag, At
<1>2. /\ holder' \in [ExternalRef -> catalog \cup {Null}]
      /\ known' \subseteq ExternalRef /\ flagged \subseteq flagged'
      /\ flagged' \subseteq ExternalRef /\ x \in flagged'
  BY <1>1 DEF IInv, Typed, Rooted, Job
<1> HIDE DEF x
<1> QED  BY <1>1, <1>2, Leaves

\* A call that writes SKUs: one without a row is new, or had none before.
LEMMA Wrote ==
    ASSUME Parameters, IInv, NEW c \in Caller, ~At(c, "idle"), NEW job \in Job, JobFits(job)',
           call' = [call EXCEPT ![c] = job],
           sku' \in [SkuId -> SkuRow \cup {Null}],
           \A s \in SkuId : sku'[s] # Null => sku'[s].item \in catalog,
           \A s \in SkuId : sku'[s] # Null /\ sku'[s].row = Null =>
              \/ sku[s] # Null /\ sku[s].row = Null
              \/ \A d \in Caller : call[d].sku # s,
           UNCHANGED <<catalog, holder, merges, flagged, known, lost, used, lapse>>
    PROVE  IInv'
<1>1. Typed'
  BY DEF IInv, Typed
<1>2. Rooted'
  BY DEF IInv, Rooted
<1>3. Fits'
  <2>1. ASSUME NEW d \in Caller \ {c} PROVE JobFits(call[d])'
    <3>1. call'[d] = call[d] /\ JobFits(call[d]) /\ call[d] \in Job
      BY <2>1 DEF IInv, Typed, Fits
    <3>2. ASSUME call[d].step \in {"record", "adjust", "allocate"}, sku'[call[d].sku] # Null
          PROVE  sku'[call[d].sku].row # Null
      BY <3>1, <3>2 DEF JobFits
    <3> QED  BY <3>1, <3>2 DEF JobFits, Excused
  <2>2. call'[c] = job
    BY DEF IInv, Typed
  <2> QED  BY <2>1, <2>2 DEF Fits
<1>4. MergeFits'
  BY DEF IInv, MergeFits
<1>5. Unraced'
  BY Beside DEF IInv, Unraced
<1> QED  BY <1>1, <1>2, <1>3, <1>4, <1>5 DEF IInv

LEMMA CreateSkuKeeps ==
    ASSUME Parameters, IInv, NEW c \in Caller, CreateSku(c) PROVE IInv'
<1> DEFINE taken == \E s \in SkusOf(call[c].item) : sku[s].condition = call[c].condition
<1>1. /\ call[c] \in Job /\ JobFits(call[c]) /\ call[c].step = "createSku" /\ ~At(c, "idle")
      /\ call[c].condition \in Condition /\ call[c].refs \in Candidate
      /\ call[c].todo = {}
  BY DEF IInv, Typed, Fits, JobFits, CreateSku, At
<1>2. CASE call[c].item \notin catalog \/ taken
  <2>1. used' \in Used /\ (Excused => Excused')
    BY DEF CreateSku, IInv, Typed, Excused
  <2> QED  BY <1>1, <1>2, <2>1, Shapes, GoesOn DEF CreateSku, Done
<1>3. CASE ~(call[c].item \notin catalog \/ taken)
  <2>1. PICK s \in SkuId \ Skus :
          /\ \A d \in Caller : call[d].sku # s
          /\ sku' = [sku EXCEPT ![s] = [item |-> call[c].item, condition |-> call[c].condition,
                                        row |-> Null]]
          /\ call' = [call EXCEPT ![c].step = "createRow", ![c].sku = s]
    BY <1>3 DEF CreateSku
  <2>2. call' = [call EXCEPT ![c] = [call[c] EXCEPT !.step = "createRow", !.sku = s]]
    BY <2>1 DEF IInv, Typed
  <2>3. PICK job \in Job :
          /\ job = [call[c] EXCEPT !.step = "createRow", !.sku = s]
          /\ job.step = "createRow" /\ job.item = call[c].item /\ job.refs = call[c].refs
          /\ job.todo = {} /\ job.condition = call[c].condition /\ job.sku = s
          /\ job.missed = call[c].missed
    <3> DEFINE it == [call[c] EXCEPT !.step = "createRow", !.sku = s]
    <3>1. it \in Job
      BY <1>1 DEF Job, CallStep
    <3>2. /\ it.step = "createRow" /\ it.item = call[c].item /\ it.refs = call[c].refs
          /\ it.todo = {} /\ it.condition = call[c].condition /\ it.sku = s
          /\ it.missed = call[c].missed
      BY <1>1 DEF Job
    <3> QED  BY <3>1, <3>2
  <2>4. UNCHANGED <<catalog, holder, merges, flagged, known, lost, used, lapse>>
    BY DEF CreateSku
  <2>5. JobFits(job)'
    BY <1>1, <2>3, <2>4 DEF JobFits, Excused
  <2> DEFINE new == [item |-> call[c].item, condition |-> call[c].condition, row |-> Null]
  <2>6. new \in SkuRow /\ new.item \in catalog
    BY <1>1, <1>3 DEF SkuRow, IInv, Typed
  <2>7. sku' = [sku EXCEPT ![s] = new]
    BY <2>1
  <2> HIDE DEF new
  <2>8. /\ sku' \in [SkuId -> SkuRow \cup {Null}]
        /\ \A t \in SkuId : sku'[t] # Null => sku'[t].item \in catalog
        /\ \A t \in SkuId : t # s => sku'[t] = sku[t]
    BY <2>6, <2>7 DEF IInv, Typed, Rooted
  <2>9. \A t \in SkuId : sku'[t] # Null /\ sku'[t].row = Null =>
           \/ sku[t] # Null /\ sku[t].row = Null
           \/ \A d \in Caller : call[d].sku # t
    BY <2>1, <2>8
  <2>10. call' = [call EXCEPT ![c] = job]
    BY <2>2, <2>3
  <2> QED  BY <1>1, <2>4, <2>5, <2>8, <2>9, <2>10, Wrote
<1> QED  BY <1>2, <1>3

\* The row of a SKU is written, or made.
LEMMA RowWritten ==
    ASSUME Parameters, IInv, NEW c \in Caller, ~At(c, "idle"), NEW job \in Job, JobFits(job)',
           call' = [call EXCEPT ![c] = job], NEW s \in Skus, NEW row \in Row,
           sku' = [sku EXCEPT ![s].row = row],
           UNCHANGED <<catalog, holder, merges, flagged, known, lost, used, lapse>>
    PROVE  IInv'
<1>1. s \in SkuId /\ sku[s] \in SkuRow /\ sku[s].item \in catalog
  BY DEF Skus, IInv, Typed, Rooted
<1> DEFINE new == [sku[s] EXCEPT !.row = row]
<1>2. new \in SkuRow /\ new.item \in catalog /\ new.row = row /\ row # Null
  BY <1>1 DEF SkuRow, Parameters
<1>3. sku' = [sku EXCEPT ![s] = new]
  BY DEF IInv, Typed
<1> HIDE DEF new
<1>4. /\ sku' \in [SkuId -> SkuRow \cup {Null}]
      /\ \A t \in SkuId : t # s => sku'[t] = sku[t]
      /\ sku'[s] = new
  BY <1>1, <1>2, <1>3 DEF IInv, Typed
<1>5. /\ \A t \in SkuId : sku'[t] # Null => sku'[t].item \in catalog
      /\ \A t \in SkuId : sku'[t] # Null /\ sku'[t].row = Null =>
            sku[t] # Null /\ sku[t].row = Null
  BY <1>2, <1>4 DEF IInv, Rooted
<1> QED  BY <1>4, <1>5, Wrote

LEMMA CreateRowKeeps ==
    ASSUME Parameters, IInv, NEW c \in Caller, CreateRow(c) PROVE IInv'
<1> DEFINE s == call[c].sku
<1>1. /\ call[c] \in Job /\ JobFits(call[c]) /\ call[c].step = "createRow" /\ ~At(c, "idle")
      /\ call[c].condition \in Condition /\ call[c].refs \in Candidate
      /\ call[c].todo = {} /\ s \in SkuId
      /\ UNCHANGED <<catalog, holder, merges, flagged, known, lost, used, lapse>>
  BY DEF IInv, Typed, Fits, JobFits, CreateRow, At
<1>2. CASE s \notin Skus \/ (s \in Skus /\ sku[s].row # Null)
  <2>1. used' \in Used /\ (Excused => Excused')
    BY <1>1 DEF IInv, Typed, Excused
  <2> QED  BY <1>1, <1>2, <2>1, Shapes, GoesOn DEF CreateRow, Done
<1>3. ASSUME s \in Skus, NEW step \in {"record", "allocate"}, NEW row \in Row,
             sku' = [sku EXCEPT ![s].row = row],
             call' = [call EXCEPT ![c].step = step]
      PROVE  IInv'
  <2>1. PICK job \in Job :
          /\ job = [call[c] EXCEPT !.step = step]
          /\ job.step = step /\ job.item = call[c].item /\ job.refs = call[c].refs
          /\ job.todo = {} /\ job.condition = call[c].condition /\ job.sku = s
          /\ job.missed = call[c].missed
    <3> DEFINE it == [call[c] EXCEPT !.step = step]
    <3>1. it \in Job
      BY <1>1 DEF Job, CallStep
    <3>2. /\ it.step = step /\ it.item = call[c].item /\ it.refs = call[c].refs
          /\ it.todo = {} /\ it.condition = call[c].condition /\ it.sku = s
          /\ it.missed = call[c].missed
      BY <1>1 DEF Job
    <3> QED  BY <3>1, <3>2
  <2>2. call' = [call EXCEPT ![c] = job]
    BY <1>3, <2>1 DEF IInv, Typed
  <2>3. sku[s] \in SkuRow /\ row # Null
    BY <1>3 DEF Skus, IInv, Typed, Parameters
  <2>4. sku'[s].row # Null
    BY <1>1, <1>3, <2>3 DEF IInv, Typed, SkuRow
  <2>5. JobFits(job)'
    BY <1>1, <1>3, <2>1, <2>4 DEF JobFits, Excused
  <2> QED  BY <1>1, <1>3, <2>2, <2>5, RowWritten
<1>4. CASE s \in Skus /\ sku[s].row = Null
  <2>1. CASE call[c].task = "intake"
    <3>1. [Empty EXCEPT !.onHand = 1] \in Row
      <4>1. Empty \in Row /\ 1 \in 0..1
        BY Shapes
      <4> QED  BY <4>1, Zenon DEF Row
    <3>2. /\ sku' = [sku EXCEPT ![s].row = [Empty EXCEPT !.onHand = 1]]
          /\ call' = [call EXCEPT ![c].step = "record"]
      BY <1>4, <2>1 DEF CreateRow, Goto
    <3> QED  BY <1>3, <1>4, <3>1, <3>2
  <2>2. CASE call[c].task # "intake"
    <3>1. /\ sku' = [sku EXCEPT ![s].row = Empty]
          /\ call' = [call EXCEPT ![c].step = "allocate"]
      BY <1>4, <2>2 DEF CreateRow, Goto
    <3> QED  BY <1>3, <1>4, <3>1, Shapes
  <2> QED  BY <2>1, <2>2
<1> QED  BY <1>2, <1>4

LEMMA WriteRowKeeps ==
    ASSUME Parameters, IInv, NEW c \in Caller, ~At(c, "idle"), NEW row \in Row,
           WriteRow(c, row)
    PROVE  IInv'
<1>1. CASE call[c].sku \in Skus
  <2>1. JobFits(Away)'
    BY Shapes DEF JobFits, WriteRow, Away
  <2> QED  BY <1>1, <2>1, Shapes, RowWritten DEF WriteRow, Done
<1>2. CASE call[c].sku \notin Skus
  <2>1. used' \in Used /\ (Excused => Excused')
    BY DEF WriteRow, IInv, Typed, Excused
  <2> QED  BY <1>2, <2>1, Shapes, GoesOn DEF WriteRow, Done
<1> QED  BY <1>1, <1>2

\* What a call that is past its row finds there is a row.
LEMMA RowFound ==
    ASSUME Parameters, IInv, NEW c \in Caller,
           call[c].step \in {"record", "adjust", "allocate"}
    PROVE  RowOf(c) \in Row
<1>1. CASE call[c].sku \in Skus
  <2>1. sku[call[c].sku] \in SkuRow /\ sku[call[c].sku].row # Null
    BY <1>1 DEF Skus, IInv, Typed, Fits, JobFits
  <2> QED  BY <1>1, <2>1 DEF RowOf, SkuRow
<1>2. CASE call[c].sku \notin Skus
  BY <1>2, Shapes DEF RowOf
<1> QED  BY <1>1, <1>2

LEMMA WritesKeep ==
    ASSUME Parameters, IInv, NEW c \in Caller, Record(c) \/ Adjust(c) \/ Allocate(c)
    PROVE  IInv'
<1>1. ~At(c, "idle") /\ RowOf(c) \in Row
  BY RowFound DEF Record, Adjust, Allocate, At
<1>2. CASE Record(c)
  <2>1. [RowOf(c) EXCEPT !.moved = TRUE] \in Row
    BY <1>1 DEF Row
  <2> QED  BY <1>1, <1>2, <2>1, WriteRowKeeps DEF Record
<1>3. CASE Adjust(c)
  <2>1. PICK onHand \in {0, 1} :
          WriteRow(c, [RowOf(c) EXCEPT !.onHand = onHand, !.moved = TRUE])
    BY <1>3 DEF Adjust
  <2>2. onHand \in 0..1
    OBVIOUS
  <2>3. [RowOf(c) EXCEPT !.onHand = onHand, !.moved = TRUE] \in Row
    BY <1>1, <2>2, Zenon DEF Row
  <2> QED  BY <1>1, <2>1, <2>3, WriteRowKeeps
<1>4. CASE Allocate(c)
  <2>1. [RowOf(c) EXCEPT !.linked = TRUE] \in Row
    BY <1>1 DEF Row
  <2> QED  BY <1>1, <1>4, <2>1, WriteRowKeeps DEF Allocate
<1> QED  BY <1>2, <1>3, <1>4

LEMMA AskMergeKeeps ==
    ASSUME Parameters, IInv, AskMerge PROVE IInv'
<1>1. /\ used' \in Used /\ (Excused => Excused')
      /\ lapse' = lapse \cup {l \in {"overlap"} : Busy \/ merges # {}}
      /\ UNCHANGED <<catalog, holder, sku, call, flagged, known, lost>>
  BY DEF AskMerge, Use, IInv, Typed, Used, Parameters, Excused
<1>2. PICK winner, loser \in catalog :
        LET taken == {sku[s].condition : s \in SkusOf(winner)}
            duplicate == {s \in SkusOf(loser) : sku[s].condition \in taken}
            blocked == \E s \in duplicate : Blocks(sku[s].row)
        IN  /\ winner # loser
            /\ merges' = merges \cup
                  {m \in {[winner |-> winner, loser |-> loser,
                           move |-> SkusOf(loser) \ duplicate, refs |-> RefsOf(loser)]} :
                   ~blocked}
  BY DEF AskMerge
<1>3. PICK duplicate \in SUBSET SkusOf(loser) :
        /\ winner # loser
        /\ merges' = merges \cup
              {m \in {[winner |-> winner, loser |-> loser,
                       move |-> SkusOf(loser) \ duplicate, refs |-> RefsOf(loser)]} :
               ~ \E s \in duplicate : Blocks(sku[s].row)}
  BY <1>2
<1> DEFINE new == [winner |-> winner, loser |-> loser, move |-> SkusOf(loser) \ duplicate,
                   refs |-> RefsOf(loser)]
<1>4. /\ new \in MergeJob /\ new.winner = winner /\ new.loser = loser
      /\ new.move = SkusOf(loser) \ duplicate /\ new.refs = RefsOf(loser)
  <2>1. /\ SkusOf(loser) \subseteq SkuId /\ RefsOf(loser) \subseteq ExternalRef
        /\ winner \in Item /\ loser \in Item
    BY DEF SkusOf, Skus, RefsOf, IInv, Typed
  <2> QED  BY <2>1 DEF MergeJob
<1>5. /\ merges' \subseteq merges \cup {new}
      /\ new \in merges' \ merges => \A s \in duplicate : ~Blocks(sku[s].row)
  BY <1>3
<1> HIDE DEF new
<1>6. Typed'
  BY <1>1, <1>4, <1>5 DEF IInv, Typed
<1>7. Rooted'
  BY <1>1 DEF IInv, Rooted
<1>8. Fits'
  <2>1. ASSUME NEW d \in Caller PROVE JobFits(call[d])'
    BY <1>1 DEF IInv, Fits, JobFits
  <2> QED  BY <2>1 DEF Fits
<1>9. MergeFits'
  <2>1. \A x \in RefsOf(loser) : holder[x] = loser
    BY DEF RefsOf
  <2> QED  BY <1>1, <1>3, <1>4, <1>5, <2>1 DEF MergeFits, IInv
<1>10. Unraced'
  <2>1. ASSUME "overlap" \notin lapse'
        PROVE  /\ "overlap" \notin lapse /\ merges = {} /\ \A c \in Caller : At(c, "idle")
    BY <1>1, <2>1 DEF Busy, At
  <2>2. SkusOf(loser)' = SkusOf(loser) /\ RefsOf(loser)' = RefsOf(loser)
    BY <1>1 DEF SkusOf, Skus, RefsOf
  <2>3. ASSUME "overlap" \notin lapse', NEW m \in merges'
        PROVE  /\ merges' = {m} /\ m = new
               /\ \A s \in SkusOf(m.loser)' \ m.move : ~Blocks(sku'[s].row)
               /\ RefsOf(m.loser)' \subseteq m.refs
    <3>1. m = new /\ merges' = {m} /\ m \in merges' \ merges
      BY <1>5, <2>1, <2>3
    <3>2. SkusOf(m.loser)' = SkusOf(loser) /\ RefsOf(m.loser)' = RefsOf(loser)
      BY <1>1, <1>4, <3>1 DEF SkusOf, Skus, RefsOf
    <3>3. \A s \in SkusOf(loser) \ m.move : s \in duplicate
      BY <1>4, <3>1
    <3> QED  BY <1>1, <1>4, <1>5, <3>1, <3>2, <3>3 DEF Blocks
  <2>4. ASSUME "overlap" \notin lapse'
        PROVE  /\ lost' = {} /\ \A x \in known' : holder'[x] # Null
               /\ \A c \in Caller : At(c, "idle")'
    BY <1>1, <2>1, <2>4 DEF IInv, Unraced, At
  <2> QED  BY <2>3, <2>4 DEF Unraced, Blocks
<1> QED  BY <1>6, <1>7, <1>8, <1>9, <1>10 DEF IInv

LEMMA CommitKeeps ==
    ASSUME Parameters, IInv, Commit PROVE IInv'
<1>1. PICK m \in merges :
        /\ IF CannotCommit(m)
           THEN UNCHANGED <<catalog, holder, sku, lost>>
           ELSE LET gone == SkusOf(m.loser) \ m.move
                IN  /\ sku' = [s \in SkuId |->
                                 IF s \in gone THEN Null
                                 ELSE IF s \in m.move THEN [sku[s] EXCEPT !.item = m.winner]
                                 ELSE sku[s]]
                    /\ holder' = [x \in ExternalRef |-> RefsAfter(m, x)]
                    /\ catalog' = catalog \ {m.loser}
                    /\ lost' = lost \cup ({sku[s].row : s \in gone} \ {Null, Empty})
        /\ merges' = merges \ {m}
        /\ UNCHANGED <<call, flagged, known, used, lapse>>
  BY DEF Commit
<1>2. /\ m \in MergeJob /\ Excused' = Excused
      /\ "overlap" \notin lapse' =>
            "overlap" \notin lapse /\ merges' = {} /\ \A c \in Caller : At(c, "idle")
  BY <1>1 DEF IInv, Typed, Unraced, Excused
<1>3. CASE CannotCommit(m)
  <2>1. UNCHANGED <<catalog, holder, sku, lost>>
    BY <1>1, <1>3
  <2>2. Typed' /\ Rooted' /\ MergeFits'
    BY <1>1, <2>1 DEF IInv, Typed, Rooted, MergeFits
  <2>3. Fits'
    <3>1. ASSUME NEW d \in Caller PROVE JobFits(call[d])'
      BY <1>1, <1>2, <2>1 DEF IInv, Fits, JobFits
    <3> QED  BY <3>1 DEF Fits
  <2>4. Unraced'
    BY <1>1, <1>2, <2>1 DEF IInv, Unraced
  <2> QED  BY <2>2, <2>3, <2>4 DEF IInv
<1>4. CASE ~CannotCommit(m)
  <2> DEFINE gone == SkusOf(m.loser) \ m.move
  <2>1. /\ sku' = [s \in SkuId |->
                     IF s \in gone THEN Null
                     ELSE IF s \in m.move THEN [sku[s] EXCEPT !.item = m.winner]
                     ELSE sku[s]]
        /\ holder' = [x \in ExternalRef |-> RefsAfter(m, x)]
        /\ catalog' = catalog \ {m.loser}
        /\ lost' = lost \cup ({sku[s].row : s \in gone} \ {Null, Empty})
    BY <1>1, <1>4
  <2>2. /\ m.winner \in Item /\ m.loser \in catalog /\ m.winner # m.loser
        /\ m.move \cup m.refs # {} => m.winner \in catalog
        /\ m.move \subseteq Skus
        /\ \A x \in m.refs : holder[x] = m.loser
    BY <1>2, <1>4 DEF CannotCommit, IInv, MergeJob, MergeFits
  <2>3. gone \subseteq Skus /\ Skus \subseteq SkuId /\ \A s \in Skus : sku[s] \in SkuRow
    BY DEF SkusOf, Skus, IInv, Typed
  <2>4. \A s \in SkuId :
          \/ s \in gone /\ sku'[s] = Null
          \/ s \notin gone /\ s \in m.move /\ sku'[s] = [sku[s] EXCEPT !.item = m.winner]
          \/ s \notin gone /\ s \notin m.move /\ sku'[s] = sku[s]
    BY <2>1
  <2>5. \A s \in SkuId :
          /\ sku'[s] \in SkuRow \cup {Null}
          /\ sku'[s] # Null => /\ sku'[s].item \in catalog'
                               /\ sku[s] # Null /\ sku'[s].row = sku[s].row
    <3>1. ASSUME NEW s \in m.move
          PROVE  /\ [sku[s] EXCEPT !.item = m.winner] \in SkuRow
                 /\ [sku[s] EXCEPT !.item = m.winner].item = m.winner
                 /\ [sku[s] EXCEPT !.item = m.winner].row = sku[s].row
                 /\ sku[s] # Null /\ m.winner \in catalog'
      <4>1. sku[s] \in SkuRow /\ m.winner \in Item /\ sku[s] # Null
        BY <2>2, <2>3 DEF Skus
      <4> QED  BY <2>1, <2>2, <4>1 DEF SkuRow
    <3>2. ASSUME NEW s \in SkuId, s \notin gone, s \notin m.move, sku[s] # Null
          PROVE  sku[s].item \in catalog'
      BY <2>1, <3>2 DEF SkusOf, Skus, IInv, Rooted
    <3>3. sku \in [SkuId -> SkuRow \cup {Null}]
      BY DEF IInv, Typed
    <3> HIDE DEF gone
    <3> QED  BY <2>4, <3>1, <3>2, <3>3
  <2>6. \A x \in ExternalRef :
          /\ holder'[x] \in catalog' \cup {Null}
          /\ holder[x] # m.loser => holder'[x] = holder[x]
          /\ x \in m.refs => holder'[x] = m.winner
    BY <2>1, <2>2 DEF RefsAfter, IInv, Rooted
  <2>7. sku' \in [SkuId -> SkuRow \cup {Null}]
    <3>1. sku' = [s \in SkuId |-> sku'[s]]
      BY <2>1
    <3> QED  BY <2>5, <3>1
  <2>8. Typed'
    <3>1. {sku[s].row : s \in gone} \ {Null, Empty} \subseteq Row
      BY <2>3 DEF SkuRow
    <3>2. lost' \subseteq Row
      BY <2>1, <3>1 DEF IInv, Typed
    <3>3. catalog' \subseteq Item
      BY <2>1 DEF IInv, Typed
    <3>4. holder' \in [ExternalRef -> Item \cup {Null}]
      BY <2>1, <2>6, <3>3
    <3> QED  BY <1>1, <2>7, <3>2, <3>3, <3>4 DEF IInv, Typed
  <2>9. Rooted'
    BY <2>5, <2>6 DEF Rooted
  <2>10. Fits'
    <3>1. ASSUME NEW d \in Caller PROVE JobFits(call[d])'
      <4>1. call'[d] = call[d] /\ JobFits(call[d]) /\ call[d] \in Job
        BY <1>1 DEF IInv, Typed, Fits
      <4>2. call[d].refs \subseteq ExternalRef
        BY <4>1 DEF Job, Parameters
      <4>3. ASSUME call[d].item \in catalog', NEW x \in call[d].refs \ call[d].todo
            PROVE  \/ holder'[x] = call[d].item \/ x \in flagged
                   \/ x \in call[d].missed /\ Excused'
        BY <1>2, <2>1, <2>6, <4>1, <4>2, <4>3 DEF JobFits
      <4>4. ASSUME call[d].step \in {"record", "adjust", "allocate"},
                   sku'[call[d].sku] # Null
            PROVE  sku'[call[d].sku].row # Null
        BY <2>5, <4>1, <4>4 DEF JobFits
      <4>5. call[d].step = "owner" => Excused'
        BY <1>2, Beside DEF At, Excused
      <4> QED  BY <1>1, <4>1, <4>3, <4>4, <4>5 DEF JobFits
    <3> QED  BY <3>1 DEF Fits
  <2>11. MergeFits'
    <3>1. ASSUME NEW n \in merges', n.loser \in catalog', NEW x \in n.refs
          PROVE  holder'[x] = n.loser
      <4>1. n \in merges /\ n.loser \in catalog /\ n.loser # m.loser
        BY <1>1, <2>1, <3>1
      <4>2. holder[x] = n.loser /\ x \in ExternalRef
        BY <3>1, <4>1 DEF IInv, MergeFits, Typed, MergeJob
      <4> QED  BY <2>6, <4>1, <4>2
    <3> QED  BY <1>1, <3>1 DEF IInv, MergeFits
  <2>12. Unraced'
    <3>1. ASSUME "overlap" \notin lapse
          PROVE  lost' = {} /\ \A x \in known : holder'[x] # Null
      <4>1. /\ lost = {} /\ \A x \in known : holder[x] # Null
            /\ \A s \in gone : ~Blocks(sku[s].row)
            /\ RefsOf(m.loser) \subseteq m.refs
        BY <2>2, <3>1 DEF IInv, Unraced
      <4>2. \A s \in gone : sku[s].row \in {Null, Empty}
        BY <4>1 DEF Blocks
      <4>3. lost' = {}
        BY <2>1, <4>1, <4>2
      <4>4. ASSUME NEW x \in known PROVE holder'[x] # Null
        <5>1. x \in ExternalRef /\ holder[x] # Null /\ m.winner # Null
          BY <2>2, <4>1 DEF IInv, Typed, Parameters
        <5>2. holder[x] = m.loser => x \in m.refs
          BY <4>1, <5>1 DEF RefsOf
        <5> QED  BY <2>6, <5>1, <5>2
      <4> QED  BY <4>3, <4>4
    <3> QED  BY <1>1, <1>2, <3>1 DEF Unraced
  <2> QED  BY <2>8, <2>9, <2>10, <2>11, <2>12 DEF IInv
<1> QED  BY <1>3, <1>4

LEMMA ClearKeeps ==
    ASSUME Parameters, IInv, Clear PROVE IInv'
<1> DEFINE bare == {i \in catalog : SkusOf(i) = {}}
<1>1. /\ catalog' = catalog \ bare
      /\ holder' = [x \in ExternalRef |-> IF holder[x] \in bare THEN Null ELSE holder[x]]
      /\ known' = known \ {x \in ExternalRef : holder[x] \in bare}
      /\ UNCHANGED <<sku, call, merges, flagged, lost, lapse>>
  BY DEF Clear
<1>2. used' \in Used /\ Excused'
  BY DEF Clear, Use, IInv, Typed, Used, Parameters, Excused
<1>3. \A x \in ExternalRef : holder[x] \notin bare => holder'[x] = holder[x]
  BY <1>1
<1>4. Typed'
  BY <1>1, <1>2 DEF IInv, Typed
<1>5. Rooted'
  <2>1. \A x \in ExternalRef : holder'[x] \in catalog' \cup {Null}
    BY <1>1 DEF IInv, Rooted
  <2>2. \A s \in SkuId : sku[s] # Null => sku[s].item \in catalog \ bare
    BY DEF IInv, Rooted, SkusOf, Skus
  <2> QED  BY <1>1, <2>1, <2>2 DEF Rooted
<1>6. Fits'
  <2>1. ASSUME NEW d \in Caller PROVE JobFits(call[d])'
    <3>1. call'[d] = call[d] /\ JobFits(call[d]) /\ call[d].refs \subseteq ExternalRef
      BY <1>1 DEF IInv, Typed, Fits, Job, Parameters
    <3>2. ASSUME call[d].item \in catalog', NEW x \in call[d].refs \ call[d].todo
          PROVE  \/ holder'[x] = call[d].item \/ x \in flagged
                 \/ x \in call[d].missed /\ Excused'
      BY <1>1, <1>2, <1>3, <3>1, <3>2 DEF JobFits
    <3> QED  BY <1>1, <1>2, <3>1, <3>2 DEF JobFits
  <2> QED  BY <2>1 DEF Fits
<1>7. MergeFits'
  <2>1. ASSUME NEW m \in merges, m.loser \in catalog', NEW x \in m.refs
        PROVE  holder'[x] = m.loser
    <3>1. holder[x] = m.loser /\ m.loser \notin bare /\ x \in ExternalRef
      BY <1>1, <2>1 DEF IInv, Typed, MergeJob, MergeFits
    <3> QED  BY <1>3, <3>1
  <2> QED  BY <1>1, <2>1 DEF IInv, MergeFits
<1>8. Unraced'
  <2>1. ASSUME "overlap" \notin lapse
        PROVE  lost = {} /\ \A x \in known' : holder'[x] # Null
    BY <1>1, <2>1 DEF IInv, Unraced, Typed
  <2>2. ASSUME "overlap" \notin lapse, NEW m \in merges
        PROVE  /\ merges = {m} /\ \A c \in Caller : At(c, "idle")
               /\ m.loser \in catalog' =>
                     /\ \A s \in SkusOf(m.loser)' \ m.move : ~Blocks(sku[s].row)
                     /\ RefsOf(m.loser)' \subseteq m.refs
    <3>1. m.loser # Null
      BY <2>2 DEF IInv, Typed, MergeJob, Parameters
    <3>2. RefsOf(m.loser)' \subseteq RefsOf(m.loser) /\ SkusOf(m.loser)' = SkusOf(m.loser)
      BY <1>1, <3>1 DEF RefsOf, SkusOf, Skus
    <3> QED  BY <1>1, <2>2, <3>2 DEF IInv, Unraced
  <2> QED  BY <1>1, <2>1, <2>2 DEF Unraced, At, Blocks
<1> QED  BY <1>4, <1>5, <1>6, <1>7, <1>8 DEF IInv

-------------------------------------------------------------------------------
\* The invariant of every behaviour of intakes, links, merges and clears, however they
\* interleave and wherever a call dies: what each of them has read is still good enough for
\* what it is about to write, or that a merge was not alone, a statement failed or the catalogue was cleared is on record.
THEOREM IInvInvariant == ASSUME Parameters PROVE Spec => []IInv
<1>1. Init => IInv
  <2> SUFFICES ASSUME Init PROVE IInv
    OBVIOUS
  <2>1. [calls |-> 0, merges |-> 0, mishaps |-> 0] \in Used
    BY DEF Used, Parameters
  <2>2. Typed
    BY <2>1, Shapes DEF Init, Typed
  <2>3. Fits
    BY Shapes DEF Init, Fits
  <2> QED  BY <2>2, <2>3, Shapes DEF Init, IInv, Rooted, MergeFits, Unraced
<1>2. IInv /\ [Next]_vars => IInv'
  <2> SUFFICES ASSUME IInv, [Next]_vars PROVE IInv'
    OBVIOUS
  <2>1. ASSUME NEW c \in Caller,
               \/ Ask(c) \/ Resolve(c) \/ CreateItem(c) \/ TryRef(c)
               \/ LookUp(c) \/ Flag(c)
               \/ FindSku(c) \/ CreateSku(c) \/ CreateRow(c) \/ Die(c)
        PROVE  IInv'
    BY <2>1, AskKeeps, ResolveKeeps, CreateItemKeeps, TryRefKeeps, LookUpKeeps,
       FlagKeeps, FindSkuKeeps, CreateSkuKeeps, CreateRowKeeps, DieKeeps
  <2>2. ASSUME NEW c \in Caller, Record(c) \/ Adjust(c) \/ Allocate(c) PROVE IInv'
    BY <2>2, WritesKeep
  <2>3. CASE AskMerge \/ Commit \/ Clear
    BY <2>3, AskMergeKeeps, CommitKeeps, ClearKeeps
  <2>4. CASE UNCHANGED vars
    <3>1. Typed' /\ Rooted' /\ MergeFits'
      BY <2>4 DEF vars, IInv, Typed, Rooted, MergeFits
    <3>2. Fits'
      <4>1. ASSUME NEW d \in Caller PROVE JobFits(call[d])'
        BY <2>4 DEF vars, IInv, Fits, JobFits, Excused
      <4> QED  BY <4>1 DEF Fits
    <3>3. Unraced'
      BY <2>4 DEF vars, IInv, Unraced, At, SkusOf, Skus, RefsOf, Blocks
    <3> QED  BY <3>1, <3>2, <3>3 DEF IInv
  <2> QED  BY <2>1, <2>2, <2>3, <2>4 DEF Next
<1> QED  BY <1>1, <1>2, PTL DEF Spec

\* Items, SKUs, rows and references keep their shape, and a reference or a SKU is never of an
\* item that was deleted under it.
THEOREM TypeCorrect == ASSUME Parameters PROVE Spec => []TypeOK
<1>1. IInv => TypeOK
  BY TypeIsTyped DEF IInv
<1> QED  BY <1>1, IInvInvariant, PTL

\* A merge deletes no stock, history or link and forgets no reference unless a call or another
\* merge was under way beside it; and a call that is done with its references leaves every
\* reference of its candidate on its item, or the conflict on record, or dropped after a failed
\* statement, a clear or a merge beside it.
THEOREM NothingLost == ASSUME Parameters PROVE Spec => []MergeLosesNothing
<1>1. IInv => NothingIsLost
  BY DEF IInv, Unraced, NothingIsLost
<1>2. IInv => SplitIsKnown
  <2> SUFFICES ASSUME IInv, NEW c \in Caller, call[c].item \in catalog,
                      call[c].step \notin {"refs", "owner", "flag"}, NEW x \in call[c].refs
               PROVE  \/ holder[x] = call[c].item \/ x \in flagged
                      \/ x \in call[c].missed /\ Excused
    BY DEF SplitIsKnown, Excused
  <2>1. JobFits(call[c]) /\ call[c].todo = {}
    BY DEF IInv, Fits, JobFits
  <2> QED  BY <2>1 DEF JobFits
<1>3. IInv => MergeLosesNothing
  BY <1>1, <1>2 DEF MergeLosesNothing
<1> QED  BY <1>3, IInvInvariant, PTL
===============================================================================
