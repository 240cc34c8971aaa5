-------------------------------- MODULE Matching --------------------------------
(***************************************************************************)
(* Linking the listings a channel already has to the catalogue: what is    *)
(* proposed for a listing and on which evidence (matching/propose.ts), the *)
(* run over one set and the confirmation of its links                      *)
(* (matching.service.ts), the code of the hub that a confirmation may      *)
(* write into a listing's SKU (sku-code.ts), and the page where a person   *)
(* reviews a run and confirms it (MatchPage.tsx).                          *)
(*                                                                         *)
(* A name is a sequence of words and a SKU a sequence of tokens, so that   *)
(* "equal" and "contains" mean what they mean of the strings.  Of the      *)
(* dimensions of a SKU only the condition is kept.  A title is a name, and *)
(* a condition when its tail is one.  A row of the catalogue is named for  *)
(* the source and the product it was made of; a source gives a product its *)
(* own id and whichever ids of other sources it publishes, which may be    *)
(* none, or one that it gives to another product as well.                  *)
(***************************************************************************)
EXTENDS Naturals, Sequences, FiniteSets, SequencesExt

CONSTANTS
    Channel,
    Page,           \* the listings of a channel, in the order it enumerates them
    Title,          \* [name, condition] of a listing, condition None when it says none
    Product,
    Name,           \* the catalogue's name of a product
    Preference,     \* the sources, in the order a row is presented under their ids
    Given,          \* what the sources may give: [Source -> [Product -> the refs it gives]]
    Condition,      \* "NM" among them
    MaxRuns, MaxConfirms,
    MaxMishaps,     \* what cuts across a review: a form changed, a link or the ledger lost
    None

VARIABLES
    sku,            \* the SKU each listing has on each channel
    drives,         \* the listing each item drives on each channel, or None
    gives,          \* the refs each source gives each product
    recorded,       \* the refs recorded for each row of the catalogue, none if there is no row
    picker,         \* the channel and the source picked in the form
    asked,          \* the channel and the source of a run under way, or None
    review,         \* the run under review: what was asked and its proposals, or None
    pending,        \* the confirm the mounted list waits for, or None
    call,           \* the confirms the server carries out
    stamped,        \* the item whose code was last written into each listing's SKU
    made,           \* the links made: what was sent and what was under review
    runs, lapse

vars == <<sku, drives, gives, recorded, picker, asked, review, pending, call, stamped,
          made, runs, lapse>>

Listing == ToSet(Page)
Source == ToSet(Preference)
Row == Source \X Product
StockItem == Row \X Condition
Form == [channel: Channel, source: Source]

-------------------------------------------------------------------------------
\* The code of a SKU: a well-formed code has one shape that no seller's text has.
EncodeSkuCode(source, id, condition) == <<source, id, condition>>
IsSkuCode(s) == Len(s) = 3

\* Mutant of DeriveSkuDimensions: the condition is read from the title alone.
DeriveFromTitle(s, title) == title.condition

\* What a listing implies about condition: its code outright, else its title.
DeriveSkuDimensions(s, title) == IF IsSkuCode(s) THEN s[3] ELSE title.condition

PartOf(b, a) == b \in SubSeqs(a)

\* Everything that speaks for a product; a listing's code only under its own namespace.
Reasons(s, title, p, refs) ==
    {r \in {"hub-sku", "external-id", "external-id-embedded", "name-and-set",
            "name-partial"} :
        CASE r = "hub-sku" -> IsSkuCode(s) /\ <<s[1], s[2]>> \in refs
          [] r = "external-id" -> \E ref \in refs : s = <<ref[2]>>
          [] r = "external-id-embedded" ->
                \E ref \in refs : s # <<ref[2]>> /\ ref[2] \in ToSet(s)
          [] r = "name-and-set" -> title.name = Name[p]
          [] r = "name-partial" ->
                title.name # Name[p]
                /\ (PartOf(Name[p], title.name) \/ PartOf(title.name, Name[p]))}

\* Mutant of Order: an id only contained comes before the code that contains it.
OrderAsEvidence ==
    <<"external-id", "external-id-embedded", "hub-sku", "name-and-set", "name-partial">>

\* The reasons in the order in which they are looked for, and what each is worth.
Order == <<"hub-sku", "external-id", "external-id-embedded", "name-and-set", "name-partial">>
Confidence == [r \in ToSet(Order) |->
    IF r \in {"hub-sku", "external-id"} THEN 0 ELSE IF r = "name-partial" THEN 2 ELSE 1]

BestReasonFor(s, title, p, refs) ==
    SelectSeq(Order, LAMBDA r : r \in Reasons(s, title, p, refs))[1]

\* An id matches or does not; two names agree as far as the shorter covers the longer.
OverlapOf(reason, title, p) ==
    LET a == Len(title.name)
        b == Len(Name[p])
    IN  IF reason # "name-partial" THEN <<1, 1>> ELSE IF a <= b THEN <<a, b>> ELSE <<b, a>>

\* Of each candidate, which is a product of a source, the refs are those the run sees.
ScoreCandidates(s, title, seen) ==
    [t \in {t \in DOMAIN seen : Reasons(s, title, t[2], seen[t]) # {}} |->
        LET reason == BestReasonFor(s, title, t[2], seen[t])
        IN  [confidence |-> Confidence[reason], overlap |-> OverlapOf(reason, title, t[2])]]

Better(a, b) ==
    \/ a.confidence < b.confidence
    \/ /\ a.confidence = b.confidence
       /\ a.overlap[1] * b.overlap[2] > b.overlap[1] * a.overlap[2]

\* The candidates none is better than: one of them is a match, several are a tie.
ProposeMatch(score) ==
    {p \in DOMAIN score : \A q \in DOMAIN score : ~Better(score[q], score[p])}

-------------------------------------------------------------------------------
\* The rows an intake finds for a product of a source by any of the ids it gives, or the one
\* it makes; ids nobody has yet are recorded with it.
Resolve(catalog, source, p) ==
    LET refs == gives[source][p]
        holders == {row \in Row : catalog[row] \cap refs # {}}
        owned == UNION {catalog[row] : row \in Row}
    IN  {[row |-> row, catalog |-> [catalog EXCEPT ![row] = @ \cup (refs \ owned)]] :
            row \in IF holders = {} THEN {<<source, p>>} ELSE holders}

\* An empty catalogue, and one into which one or two products of a source were taken.
Catalogs ==
    LET empty == [row \in Row |-> {}]
        after(catalogs, source) ==
            {found.catalog : found \in UNION {Resolve(catalog, source, p) :
                                               catalog \in catalogs, p \in Product}}
    IN  UNION {LET one == after({empty}, source) IN {empty} \cup one \cup after(one, source) :
               source \in Source}

\* The rows that have an id of the requested source, or when there are none what that source
\* finds, with what it gives of each.
Known(source) == {p \in Product : gives[source][p] # {}}
Usable(source) == {row \in Row : \E ref \in recorded[row] : ref[1] = source}
Candidates(source) ==
    IF Usable(source) # {} THEN Usable(source) ELSE {source} \X Known(source)

\* A row that has two ids of one source shows one of them.
Views(source, t) ==
    LET refs == IF Usable(source) # {} THEN recorded[t] ELSE gives[source][t[2]]
    IN  {seen \in SUBSET refs :
            \A ref \in refs : Cardinality({x \in seen : x[1] = ref[1]}) = 1}

SeenBy(source) ==
    {seen \in [Candidates(source) -> UNION {Views(source, t) : t \in Candidates(source)}] :
        \A t \in DOMAIN seen : seen[t] \in Views(source, t)}

\* The ref a row is presented under: one of the source that comes first.
Presented(refs) ==
    {ref \in refs :
        ref[1] = SelectSeq(Preference, LAMBDA s : \E other \in refs : other[1] = s)[1]}

\* Mutant of SourceIdOf: the source a row is presented under, whichever was asked for.
SourceIdAsPresented(source, refs) == (CHOOSE ref \in Presented(refs) : TRUE)[2]

\* The id a candidate is confirmed under: the requested source's spelling of it.
SourceIdOf(source, refs) == (CHOOSE ref \in refs : ref[1] = source)[2]

LinkedIds(c) == {drives[c][i] : i \in StockItem} \ {None}

\* The run: a proposal for every listing of the page that the channel does not drive.
Propose(form, seen) ==
    [l \in Listing \ LinkedIds(form.channel) |->
        LET s == sku[form.channel][l]
            score == ScoreCandidates(s, Title[l], seen)
            best == ProposeMatch(score)
        IN  [best |-> best,
             certain |-> Cardinality(best) = 1 /\ \A t \in best : score[t].confidence = 0,
             derived |-> DeriveSkuDimensions(s, Title[l]),
             carries |-> stamped[form.channel][l]]]

\* What a row can be accepted as: a match as its target, a tie as the candidate somebody
\* picks, an unmatched row not at all; the condition offered is derived, and can be changed.
Acceptable(proposals) ==
    UNION {[rows -> StockItem] : rows \in SUBSET DOMAIN proposals}

MayAccept(proposals, picks) ==
    \A l \in DOMAIN picks : picks[l][1] \in proposals[l].best

-------------------------------------------------------------------------------
Mishap == lapse < MaxMishaps /\ lapse' = lapse + 1

store == <<sku, gives, stamped>>
page == <<picker, asked, review, pending>>

\* What each listing holds when the hub is set up: the seller's own text, or an id.
Init ==
    /\ gives \in Given
    /\ sku \in [Channel -> [Listing ->
                    {<<"other">>} \cup {<<ref[2]>> : ref \in UNION {gives[row[1]][row[2]] :
                                                                    row \in Row}}]]
    /\ \A c, d \in Channel : sku[c] = sku[d]
    /\ drives = [c \in Channel |-> [i \in StockItem |-> None]]
    /\ recorded \in Catalogs
    /\ picker \in Form
    /\ asked = None /\ review = None /\ pending = None
    /\ call = <<>>
    /\ stamped = [c \in Channel |-> [l \in Listing |-> None]]
    /\ made = {} /\ runs = 0 /\ lapse = 0

\* The form is submitted: the list of the run before is gone while this one is under way.
AskRun ==
    /\ asked = None /\ runs < MaxRuns
    /\ asked' = picker
    /\ runs' = runs + 1
    /\ review' = None /\ pending' = None
    /\ UNCHANGED <<store, drives, recorded, picker, call, made, lapse>>

\* The answer, whatever the form says by now.
AnswerRun ==
    /\ asked # None
    /\ \E seen \in SeenBy(asked.source) :
          review' = [form |-> asked, seen |-> seen, proposals |-> Propose(asked, seen)]
    /\ asked' = None
    /\ UNCHANGED <<store, drives, recorded, picker, pending, call, made, runs, lapse>>

\* Another channel mounts the list anew under it, with the proposals it had; another
\* source leaves it as it is.
PickForm(form) ==
    /\ form # picker
    /\ IF asked = None /\ review = None THEN UNCHANGED lapse ELSE Mishap
    /\ picker' = form
    /\ IF form.channel = picker.channel \/ review = None
       THEN UNCHANGED pending
       ELSE pending' = None
    /\ UNCHANGED <<store, drives, recorded, asked, review, call, made, runs>>

\* A character typed into the set mounts the list anew as well, and it no longer waits.
RetypeSet ==
    /\ review # None /\ Mishap
    /\ pending' = None
    /\ UNCHANGED <<store, drives, recorded, picker, asked, review, call, made, runs>>

\* The links as they are sent: the channel and the source are the form's, the ids the run's.
Links(picks) ==
    LET accepted == SelectSeq(Page, LAMBDA l : l \in DOMAIN picks)
    IN  [k \in DOMAIN accepted |->
            [listing |-> accepted[k],
             id |-> SourceIdOf(review.form.source, review.seen[picks[accepted[k]][1]]),
             condition |-> picks[accepted[k]][2],
             shown |-> picks[accepted[k]][1][2]]]

ConfirmLinks(picks, write) ==
    /\ pending = None /\ DOMAIN picks # {}
    /\ MayAccept(review.proposals, picks)
    /\ Len(call) < MaxConfirms
    /\ call' = Append(call, [channel |-> picker.channel, source |-> picker.source,
                             links |-> Links(picks), write |-> write, stamp |-> None,
                             form |-> review.form, manual |-> FALSE])
    /\ pending' = Len(call) + 1
    /\ UNCHANGED <<store, drives, recorded, picker, asked, review, made, runs, lapse>>

Unfinished(k) == call[k].links # <<>> \/ call[k].stamp # None

\* One listing linked by hand, to a row found in the local catalogue, by the ref that row
\* is presented under.
ManualLink(l, row, condition) ==
    /\ Len(call) < MaxConfirms
    /\ ~\E k \in DOMAIN call : call[k].manual /\ Unfinished(k)
    /\ \E ref \in Presented(recorded[row]) :
          LET form == [channel |-> picker.channel, source |-> ref[1]]
          IN  call' = Append(call, [channel |-> form.channel, source |-> form.source,
                                    links |-> <<[listing |-> l, id |-> ref[2],
                                                 condition |-> condition, shown |-> row[2]]>>,
                                    write |-> FALSE, stamp |-> None, form |-> form,
                                    manual |-> TRUE])
    /\ UNCHANGED <<store, drives, recorded, page, made, runs, lapse>>

-------------------------------------------------------------------------------
\* One link: the product is fetched again by the pair that was sent, from the row that has
\* the id or else from the source, and its row is found or made; then the link is made,
\* unless another item drives the listing or the item another listing.  What two
\* confirmations do to each other between these reads and the write is in Listings.
Resolves(source, id) ==
    LET local == {row \in Row : <<source, id>> \in recorded[row]}
    IN  IF local # {}
        THEN {[row |-> row, catalog |-> recorded] : row \in local}
        ELSE UNION {Resolve(recorded, source, p) :
                    p \in {q \in Known(source) : SourceIdOf(source, gives[source][q]) = id}}

Refused(c, item, l) ==
    \/ \E i \in StockItem \ {item} : drives[c][i] = l
    \/ drives[c][item] \notin {None, l}

NextLink(k) ==
    LET cl == call[k]
        link == Head(cl.links)
        found == Resolves(cl.source, link.id)
        written(item) == [listing |-> link.listing, ref |-> <<cl.source, link.id>>,
                          product |-> item[1][2], condition |-> item[2]]
        drop == call' = [call EXCEPT ![k].links = Tail(@)]
    IN  /\ cl.links # <<>> /\ cl.stamp = None
        /\ \/ found = {} /\ drop /\ UNCHANGED <<drives, recorded, made>>
           \/ \E f \in found :
                LET item == <<f.row, link.condition>>
                IN  /\ recorded' = f.catalog
                    /\ IF Refused(cl.channel, item, link.listing)
                       THEN drop /\ UNCHANGED <<drives, made>>
                       ELSE /\ drives' = [drives EXCEPT ![cl.channel][item] = link.listing]
                            /\ made' = made \cup {[source |-> cl.source, product |-> f.row[2],
                                                   shown |-> link.shown, form |-> cl.form]}
                            /\ call' = [call EXCEPT ![k].links = Tail(@),
                                   ![k].stamp = IF cl.write THEN written(item) ELSE None]
        /\ UNCHANGED <<store, page, runs, lapse>>

\* The code of what is stored goes to the channel, only once the link is recorded.
WriteSku(k) ==
    LET cl == call[k]
        st == cl.stamp
        code == EncodeSkuCode(st.ref[1], st.ref[2], st.condition)
    IN  /\ st # None
        /\ sku' = [sku EXCEPT ![cl.channel][st.listing] = code]
        /\ stamped' = [stamped EXCEPT ![cl.channel][st.listing] =
                          [ref |-> st.ref, product |-> st.product, condition |-> st.condition]]
        /\ call' = [call EXCEPT ![k].stamp = None]
        /\ UNCHANGED <<gives, drives, recorded, page, made, runs, lapse>>

\* A write the channel refuses is a problem of that row; the link stays.
WriteSkuFails(k) ==
    /\ call[k].stamp # None /\ Mishap
    /\ call' = [call EXCEPT ![k].stamp = None]
    /\ UNCHANGED <<store, drives, recorded, page, made, runs>>

\* The answer reaches the list that sent it, if it is still mounted.
Settle ==
    /\ pending # None
    /\ ~Unfinished(pending)
    /\ pending' = None
    /\ UNCHANGED <<store, drives, recorded, picker, asked, review, call, made,
                   runs, lapse>>

\* An allocation is removed; the code stays on the listing.
Detach(c, item) ==
    /\ drives[c][item] # None /\ Mishap
    /\ drives' = [drives EXCEPT ![c][item] = None]
    /\ UNCHANGED <<store, recorded, page, call, made, runs>>

\* The hub is rebuilt on an empty database, into which sets are taken again; the channels
\* keep what was written to them.
Rebuild ==
    /\ Mishap
    /\ recorded' \in Catalogs
    /\ drives' = [c \in Channel |-> [i \in StockItem |-> None]]
    /\ asked' = None /\ review' = None /\ pending' = None
    /\ call' = [k \in DOMAIN call |-> [call[k] EXCEPT !.links = <<>>, !.stamp = None]]
    /\ UNCHANGED <<store, picker, made, runs>>

Next ==
    \/ AskRun \/ AnswerRun \/ RetypeSet \/ Settle \/ Rebuild
    \/ \E form \in Form : PickForm(form)
    \/ /\ review # None
       /\ \E picks \in Acceptable(review.proposals), write \in BOOLEAN :
             ConfirmLinks(picks, write)
    \/ \E l \in Listing, row \in Row, condition \in Condition : ManualLink(l, row, condition)
    \/ \E k \in DOMAIN call : NextLink(k) \/ WriteSku(k) \/ WriteSkuFails(k)
    \/ \E c \in Channel, item \in StockItem : Detach(c, item)

Spec == Init /\ [][Next]_vars

-------------------------------------------------------------------------------
TypeOK ==
    /\ DOMAIN sku = Channel /\ \A c \in Channel : DOMAIN sku[c] = Listing
    /\ drives \in [Channel -> [StockItem -> Listing \cup {None}]]
    /\ gives \in Given
    /\ \A row \in Row : recorded[row] \subseteq UNION {gives[t[1]][t[2]] : t \in Row}
    /\ \A row, other \in Row : row # other => recorded[row] \cap recorded[other] = {}
    /\ picker \in Form /\ asked \in Form \cup {None}
    /\ review # None =>
          /\ review.form \in Form /\ DOMAIN review.proposals \subseteq Listing
          /\ \A l \in DOMAIN review.proposals :
                review.proposals[l].derived \in Condition \cup {None}
    /\ pending \in DOMAIN call \cup {None}
    /\ \A c \in Channel, l \in Listing :
          stamped[c][l] # None => stamped[c][l].condition \in Condition
    /\ runs \in 0..MaxRuns /\ lapse \in 0..MaxMishaps

\* Some source gives one id to two products, or two sources to one each.
Confused(p, q) ==
    \E s, t \in Source : gives[s][p] \cap gives[t][q] # {}

\* A link that was sent with the source of its run binds the listing to the product the
\* reviewer saw, whatever the catalogue recorded, lost or took in since: propose reads each
\* candidate's id in the source the client will confirm with.  Only where a source gives
\* another product the same id is it that product.
LinkedAsReviewed ==
    \A m \in made :
        \/ m.source # m.form.source
        \/ m.product = m.shown
        \/ Confused(m.shown, m.product)

\* "A rebuilt hub can re-derive every link": whatever happened to the ledger and to the
\* catalogue, a listing whose SKU carries a code is proposed for the candidates that have the
\* id of the code and no other, with the condition of the code: one of them, which is
\* certain and the product the code was written for, unless a source gives two the same id.
CodesAreDecisive ==
    review # None =>
        \A l \in DOMAIN review.proposals :
            LET row == review.proposals[l]
                meant == {t \in DOMAIN review.seen : row.carries.ref \in review.seen[t]}
            IN  row.carries # None /\ meant # {} =>
                    /\ row.best = meant
                    /\ row.derived = row.carries.condition
                    /\ \A t \in meant :
                          \/ row.certain /\ t[2] = row.carries.product
                          \/ \E p \in Product \ {t[2]} : Confused(t[2], p)

MatchingHolds == LinkedAsReviewed /\ CodesAreDecisive

\* matching.service.ts:195 "the client sends the source this run was asked for".
SendsTheSourceAsked == \A m \in made : m.source = m.form.source
===============================================================================
