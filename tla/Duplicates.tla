------------------------------- MODULE Duplicates -------------------------------
(***************************************************************************)
(* Items recorded twice: CatalogDuplicatesService finds the rows of one    *)
(* name that no namespace of references ties together, the panel of the    *)
(* catalogue page lets the operator keep one of them, and the page asks    *)
(* for one merge per other row, all at once.                               *)
(***************************************************************************)
EXTENDS Naturals, FiniteSets, SequencesExt

CONSTANTS
    MaxItem,        \* ids, in the order the rows are created
    Row,            \* [name, refs, number, image, held]: what a row may be
    MaxConfirms,
    MaxMishaps,     \* rows that arrive, are removed or gain a reference; answers lost
    Null

VARIABLES
    rows,           \* per id: its row, or Null
    shown,          \* the groups on the page, or Null
    winners,        \* per group: the row the operator chose to keep, or Null
    confirming,     \* the group whose merge waits for a yes, or Null
    merges,         \* requests under way
    latest,         \* the request the page looks at
    agreed,         \* pairs the operator said yes to
    known,          \* per name: references and units there were, less what was removed
    used, lapse

vars == <<rows, shown, winners, confirming, merges, latest, agreed, known, used, lapse>>

ItemId == 1..MaxItem
Name == {r.name : r \in Row}
Live == {i \in ItemId : rows[i] # Null}
Named(n) == {i \in Live : rows[i].name = n}
Units(ids) == FoldSet(LAMBDA i, t : Cardinality(rows[i].held) + t, 0, ids)
RefsOf(ids) == UNION {rows[i].refs : i \in ids}
Spend(what, max) == used[what] < max /\ used' = [used EXCEPT ![what] = @ + 1]
Mishap == Spend("mishaps", MaxMishaps)

Init ==
    /\ \E n \in 0..MaxItem : \E given \in [1..n -> Row] :
          rows = [i \in ItemId |-> IF i <= n THEN given[i] ELSE Null]
    /\ shown = Null /\ winners = [n \in Name |-> Null] /\ confirming = Null
    /\ merges = {} /\ latest = Null /\ agreed = {}
    /\ known = [n \in Name |-> [refs |-> RefsOf(Named(n)), units |-> Units(Named(n))]]
    /\ used = [confirms |-> 0, mishaps |-> 0] /\ lapse = {}

-------------------------------------------------------------------------------
Meets(i, cluster) == \E j \in Range(cluster) : rows[i].refs \cap rows[j].refs # {}

\* Mutant of Join: a row joins the first cluster it meets and leaves the others apart.
JoinFirst(clusters, i) ==
    LET met == {k \in DOMAIN clusters : Meets(i, clusters[k])}
        first == CHOOSE k \in met : \A l \in met : k <= l
    IN  IF met = {} THEN Append(clusters, <<i>>)
        ELSE [clusters EXCEPT ![first] = Append(@, i)]

\* A row and all the clusters it shares a namespace with become one.
Join(clusters, i) ==
    Append(SelectSeq(clusters, LAMBDA c : ~Meets(i, c)),
           <<i>> \o FlattenSeq(SelectSeq(clusters, LAMBDA c : Meets(i, c))))

Clusters(n) == FoldLeft(Join, <<>>, SetToSortSeq(Named(n), <))

Values(ids, field) == {rows[i][field] : i \in ids}
Distinct(ids, field) == Null \notin Values(ids, field)
                            /\ Cardinality(Values(ids, field)) = Cardinality(ids)
Alike(ids, field) == Null \notin Values(ids, field) /\ Cardinality(Values(ids, field)) = 1

Confidence(ids) == IF Alike(ids, "number") THEN "number"
                   ELSE IF Alike(ids, "image") THEN "image" ELSE "name"

\* Rows of one name in two clusters or more, unless every row has a number of its own.
Offered(n) == Len(Clusters(n)) >= 2 /\ ~Distinct(Named(n), "number")

FindDuplicates ==
    [n \in {n \in Name : Offered(n)} |->
        [items |-> FlattenSeq(Clusters(n)), confidence |-> Confidence(Named(n)),
         attached |-> [i \in Named(n) |-> Cardinality(rows[i].held)]]]

-------------------------------------------------------------------------------
Groups == IF shown = Null THEN {} ELSE DOMAIN shown
Idle == latest \notin merges

\* Opening the panel, and each time its answer is out of date.
Fetch ==
    /\ shown' = FindDuplicates
    /\ shown # FindDuplicates
    /\ UNCHANGED <<rows, winners, confirming, merges, latest, agreed, known, used, lapse>>

\* The operator's choice, or the first of the rows with the most attached.
WinnerFor(n) ==
    LET ids == shown[n].items
        most(k) == \A i \in Range(ids) : shown[n].attached[ids[k]] >= shown[n].attached[i]
    IN  IF winners[n] # Null THEN winners[n]
        ELSE ids[CHOOSE k \in DOMAIN ids : most(k) /\ \A l \in 1..(k - 1) : ~most(l)]

Losers(n) == Range(shown[n].items) \ {WinnerFor(n)}

Keep(n, i) ==
    /\ n \in Groups /\ i \in Range(shown[n].items) /\ winners' = [winners EXCEPT ![n] = i]
    /\ UNCHANGED <<rows, shown, confirming, merges, latest, agreed, known, used, lapse>>

Ask(n) ==
    /\ n \in Groups /\ Idle /\ confirming' = n
    /\ UNCHANGED <<rows, shown, winners, merges, latest, agreed, known, used, lapse>>

\* No.
Refuse ==
    /\ confirming \in Groups /\ confirming' = Null
    /\ UNCHANGED <<rows, shown, winners, merges, latest, agreed, known, used, lapse>>

\* Yes: one request per loser, none waiting for another; the page follows the last.
Agree ==
    /\ confirming \in Groups /\ Idle /\ Spend("confirms", MaxConfirms) /\ confirming' = Null
    /\ LET n == confirming
           asked == {[id |-> <<used.confirms, l>>, winner |-> WinnerFor(n), loser |-> l,
                      step |-> "sent", had |-> Null, move |-> {}] : l \in Losers(n)}
           last == Last(SelectSeq(shown[n].items, LAMBDA i : i # WinnerFor(n)))
       IN  /\ merges' = merges \cup asked
           /\ latest' = CHOOSE m \in asked : m.loser = last
           /\ agreed' = agreed \cup {{WinnerFor(n), l} : l \in Losers(n)}
    /\ UNCHANGED <<rows, shown, winners, known, lapse>>

-------------------------------------------------------------------------------
Replace(m, next) ==
    /\ merges' = (merges \ {m}) \cup next
    /\ latest' = IF latest = m /\ next # {} THEN CHOOSE x \in next : TRUE ELSE latest

\* Mutant of Blocked: stock the kept row has too is discarded.
BlockedNever(w, l) == FALSE

\* The same SKU on both rows, with stock on the one that goes.
Blocked(w, l) == rows[w].held \cap rows[l].held # {}

\* CatalogMergeService looks at both rows and decides.
Read(m) ==
    /\ m \in merges /\ m.step = "sent"
    /\ LET ok == {m.winner, m.loser} \subseteq Live /\ m.winner # m.loser
                    /\ ~Blocked(m.winner, m.loser)
       IN  Replace(m, IF ok THEN {[m EXCEPT !.step = "write", !.had = rows[m.loser],
                                      !.move = rows[m.loser].held \ rows[m.winner].held]}
                      ELSE {})
    /\ UNCHANGED <<rows, shown, winners, confirming, agreed, known, used, lapse>>

\* The transaction: a row that is gone by now, or a SKU the kept row has by now, fails it.
Write(m) ==
    /\ m \in merges /\ m.step = "write"
    /\ LET there == {m.winner, m.loser} \subseteq Live
           fits == there /\ rows[m.winner].held \cap m.move = {}
       IN  /\ rows' = IF ~fits THEN rows
                      ELSE [rows EXCEPT ![m.winner].refs = @ \cup m.had.refs,
                                        ![m.winner].held = @ \cup m.move,
                                        ![m.loser] = Null]
           /\ lapse' = lapse \cup {l \in {"cascade"} :
                                     fits /\ rows[m.loser] # m.had}
           /\ Replace(m, {})
    /\ UNCHANGED <<shown, winners, confirming, agreed, known, used>>

Lose(m) ==
    /\ m \in merges /\ Mishap /\ Replace(m, {})
    /\ UNCHANGED <<rows, shown, winners, confirming, agreed, known, lapse>>

-------------------------------------------------------------------------------
\* Another source brings the product, or a reference of it.
Arrive ==
    /\ Mishap
    /\ \E i \in ItemId, r \in Row :
          /\ \/ (\A j \in Live : j < i) /\ i \notin UNION agreed /\ i \notin Range(winners)
                    /\ rows' = [rows EXCEPT ![i] = r]
             \/ i \in Live /\ rows[i].name = r.name
                    /\ rows' = [rows EXCEPT ![i].refs = @ \cup r.refs]
          /\ known' = [known EXCEPT ![r.name].refs = @ \cup r.refs,
                          ![r.name].units = @ + IF i \in Live THEN 0 ELSE Cardinality(r.held)]
    /\ UNCHANGED <<shown, winners, confirming, merges, latest, agreed, lapse>>

\* A row without a SKU is cleared away.
Clear ==
    /\ Mishap
    /\ \E i \in Live :
          /\ rows[i].held = {} /\ rows' = [rows EXCEPT ![i] = Null]
          /\ known' = [known EXCEPT ![rows[i].name].refs =
                          RefsOf(Named(rows[i].name) \ {i})]
    /\ UNCHANGED <<shown, winners, confirming, merges, latest, agreed, lapse>>

Next ==
    \/ Fetch \/ Refuse \/ Agree \/ Arrive \/ Clear
    \/ \E n \in Name : Ask(n) \/ \E i \in ItemId : Keep(n, i)
    \/ \E m \in merges : Read(m) \/ Write(m) \/ Lose(m)

Spec == Init /\ [][Next]_vars

TypeOK ==
    /\ \A i \in Live : rows[i] \in [name : Name, refs : SUBSET UNION {r.refs : r \in Row},
                         number : {r.number : r \in Row}, image : {r.image : r \in Row},
                         held : SUBSET UNION {r.held : r \in Row}]
    /\ \A n \in Name : winners[n] \in ItemId \cup {Null}
    /\ confirming \in Name \cup {Null} /\ used.confirms \in 0..MaxConfirms

-------------------------------------------------------------------------------
Linked(n) == {p \in Named(n) \X Named(n) : rows[p[1]].refs \cap rows[p[2]].refs # {}}
Families(n) ==
    LET closed(s) == \A p \in Linked(n) : p[1] \in s <=> p[2] \in s
        around(i) == {s \in SUBSET Named(n) : i \in s /\ closed(s)}
    IN  {CHOOSE s \in around(i) : \A t \in around(i) : s \subseteq t : i \in Named(n)}

\* The clusters are the families of the sharing of namespaces: the fewest groups of rows
\* of which no two share one, whatever the order the rows were created in (the loop over
\* overlapping clusters).
ClustersAreFamilies ==
    \A n \in Name : {Range(c) : c \in Range(Clusters(n))} = Families(n)

\* A merge is of two rows of one name, those a group showed, whatever the page has
\* fetched and whatever was chosen for another group since.
MergesAreOfOneProduct ==
    \A m \in merges : {m.winner, m.loser} \subseteq Live =>
                          rows[m.winner].name = rows[m.loser].name

\* However the requests of one yes, and of the next, overlap, no unit and no reference of
\* a name goes: what a merged row had is on the row that was kept.  Except for what came
\* to the row between a merge's reading of it and its deletion.
AllIsKept ==
    "cascade" \in lapse \/ \A n \in Name : /\ Units(Named(n)) = known[n].units
                                           /\ RefsOf(Named(n)) = known[n].refs

DuplicatesHold == ClustersAreFamilies /\ MergesAreOfOneProduct /\ AllIsKept

\* Refuted: "a 3-row group merges its losers one request at a time" (CatalogPage.tsx:336):
\* the loop fires every request without waiting for the one before.
OneAtATime == Cardinality(merges) <= 1

\* Refuted: "Whatever is left on the loser is provably empty, so the cascade has nothing of
\* value to take with it" (catalog-merge.service.ts:170): of the requests that run at once,
\* one fills the row another has read and deletes.
CascadeIsEmpty == \A n \in Name : Units(Named(n)) = known[n].units

\* Refuted: "Same-named cards with different collector numbers are reprints and are not
\* offered" (the panel): one row without a number, or two alike, and all are offered.
ReprintsAreLeft ==
    \A n \in DOMAIN FindDuplicates : Cardinality(Values(Named(n), "number") \ {Null}) <= 1

===============================================================================
