------------------------------ MODULE ListingContent ------------------------------
(***************************************************************************)
(* What a product on the storefront says and shows, and the two runs that  *)
(* bring it up to date: ListingImagesService replaces its pictures with    *)
(* the catalogue's, ListingAttributesService adds the tags and fills the   *)
(* custom field and the category the channel's rules name.  Both take a    *)
(* snapshot of the listings that qualify and then work through the ones    *)
(* the operator selected, each by a read and one or two writes on the      *)
(* platform, where the seller and other runs write as well.                *)
(*                                                                         *)
(* One product, whose variants are the listings of the items: what is      *)
(* written for one of them is written for all.                             *)
(***************************************************************************)
EXTENDS Naturals, FiniteSets

CONSTANTS
    Item,           \* the items that may be linked to variants of the product
    Picture,        \* URLs of pictures the catalogue may hold
    Run,            \* runs at once
    MaxRuns,
    MediaPage,      \* pictures one read of a product returns at most
    MaxEdits,       \* changes of the seller, of the operator and of the catalogue
    MaxMishaps,     \* calls that fail and processes killed
    Null

VARIABLES
    linked,         \* items with an externalListingId
    picture,        \* CatalogItem.imageUrl of the card, or Null
    rules,          \* ChannelInstance.listingDefaults
    media,          \* the product's pictures on the platform
    page,           \* the product's tags, custom field and category there
    run,
    claim,          \* what the runs have reported done, by hindsight
    used,
    lapse           \* what overlapped or was taken away meanwhile

\* Nothing is not an item, a picture or a value of a field; the bounds are numbers.
Parameters ==
    /\ Null \notin Item \cup Picture \cup {"hand", "rule", "cards"}
    /\ MediaPage \in Nat /\ MaxRuns \in Nat /\ MaxEdits \in Nat /\ MaxMishaps \in Nat

vars == <<linked, picture, rules, media, page, run, claim, used, lapse>>

Hand == "hand"                              \* what only the seller would write
Tag == {"game", "set", Hand}
Rules == {[tags |-> {"game"}, field |-> "rule", category |-> "cards"],
          [tags |-> {"set"}, field |-> Null, category |-> Null],
          [tags |-> {}, field |-> Null, category |-> Null]}

Idle == [step |-> "idle", kind |-> Null, ids |-> {}, todo |-> {}, eligible |-> {}, item |-> Null,
         rules |-> [tags |-> {}, field |-> Null, category |-> Null], url |-> Null,
         old |-> {}, seen |-> [tags |-> {}, field |-> Null, category |-> Null],
         updated |-> {}, unchanged |-> {}, problems |-> {}]

Init ==
    /\ linked = Item
    /\ picture \in Picture
    /\ rules \in Rules
    /\ media = {[id |-> 0, url |-> Hand]}
    /\ page = [tags |-> {Hand}, field |-> Null, category |-> Null]
    /\ run = [r \in Run |-> Idle]
    /\ claim = [tags |-> {}, shows |-> Null]
    /\ used = [runs |-> 0, edits |-> 0, mishaps |-> 0, added |-> 0]
    /\ lapse = {}

ledger == <<linked, picture, rules>>
product == <<media, page>>

At(r, step) == run[r].step = step
Use(what, most) == used[what] < most /\ used' = [used EXCEPT ![what] = @ + 1]

\* A run is between its read of the product and its last write.
Amid(kind) == \E r \in Run : run[r].kind = kind /\ run[r].step \in {"add", "delete", "write"}
Racing(kind) == {k \in {kind} : Amid(k)}

\* The item in hand is done with, and reported where it belongs.
Reported(r, where) ==
    LET q == run[r]
        Also(items, list) == IF where = list THEN items \cup {q.item} ELSE items
    IN  run' = [run EXCEPT ![r] = [q EXCEPT !.step = "next", !.item = Null, !.url = Null,
                   !.old = {}, !.seen = Idle.seen,
                   !.updated = Also(q.updated, "updated"),
                   !.unchanged = Also(q.unchanged, "unchanged"),
                   !.problems = Also(q.problems, "problems")]]

-------------------------------------------------------------------------------
\* The operator selects rows.  An attribute run takes the category from the rules first.
Ask(r, kind) ==
    /\ At(r, "idle") /\ Use("runs", MaxRuns)
    /\ \E ids \in SUBSET Item \ {{}} :
          run' = [run EXCEPT ![r] = [Idle EXCEPT !.step = "pending", !.kind = kind, !.ids = ids,
                     !.todo = ids, !.rules.category = rules.category]]
    /\ UNCHANGED <<ledger, product, claim, lapse>>

\* pending(): the rules are read again, and the listings that qualify; a channel whose rules
\* name nothing is refused.
Pending(r) ==
    /\ At(r, "pending")
    /\ run' = [run EXCEPT ![r] =
          IF @.kind = "images"
          THEN [@ EXCEPT !.step = "next", !.eligible = IF picture = Null THEN {} ELSE linked]
          ELSE IF rules.tags = {} /\ rules.field = Null
          THEN Idle
          ELSE [@ EXCEPT !.step = "next", !.eligible = linked, !.rules.tags = rules.tags,
                         !.rules.field = rules.field]]
    /\ UNCHANGED <<ledger, product, claim, used, lapse>>

\* The next of the selected listings; one that does not qualify is a problem of its own.
Take(r, i) ==
    LET q == run[r]
    IN  /\ At(r, "next") /\ i \in q.todo
        /\ run' = [run EXCEPT ![r] =
              IF i \in q.eligible
              THEN [q EXCEPT !.step = "read", !.item = i, !.todo = q.todo \ {i}]
              ELSE [q EXCEPT !.todo = q.todo \ {i}, !.problems = q.problems \cup {i}]]
        /\ UNCHANGED <<ledger, product, claim, used, lapse>>

\* The run is over.
Finish(r) ==
    /\ At(r, "next") /\ run[r].todo = {}
    /\ run' = [run EXCEPT ![r] = Idle]
    /\ UNCHANGED <<ledger, product, claim, used, lapse>>

-------------------------------------------------------------------------------
Ids(pictures) == {m.id : m \in pictures}

\* The picture is read again, then one page of the pictures there are; none to show is a
\* problem.
ReadMedia(r) ==
    /\ At(r, "read") /\ run[r].kind = "images"
    /\ IF picture = Null
       THEN Reported(r, "problems") /\ UNCHANGED lapse
       ELSE \E old \in SUBSET Ids(media) :
              /\ Cardinality(old) = IF Cardinality(media) <= MediaPage
                                    THEN Cardinality(media) ELSE MediaPage
              /\ run' = [run EXCEPT ![r].step = "add", ![r].url = picture, ![r].old = old]
              /\ lapse' = lapse \cup Racing("images") \cup {c \in {"beyond"} : old # Ids(media)}
    /\ UNCHANGED <<ledger, product, claim, used>>

\* A picture gets an id of its own on the platform.
WithNew(url) == media \cup {[id |-> used.added + 1, url |-> url]}

\* Mutant of AddMedia: the old pictures are removed before the new one is there.
AddMediaLast(r) ==
    /\ At(r, "add")
    /\ media' = {m \in media : m.id \notin run[r].old}
    /\ run' = [run EXCEPT ![r].step = "delete"]
    /\ UNCHANGED <<ledger, page, claim, used, lapse>>

\* "Add first, then delete, so the product never has zero images."
AddMedia(r) ==
    /\ At(r, "add")
    /\ media' = WithNew(run[r].url)
    /\ used' = [used EXCEPT !.added = @ + 1]
    /\ run' = [run EXCEPT ![r].step = "delete"]
    /\ UNCHANGED <<ledger, page, claim, lapse>>

\* The pictures read are removed, in one call that fails as a whole when one of them is gone.
Removes(r) == run[r].old \subseteq Ids(media)
WithoutOld(r) == {m \in media : m.id \notin run[r].old}

DeleteMedia(r) ==
    /\ At(r, "delete")
    /\ IF Removes(r)
       THEN /\ media' = WithoutOld(r)
            /\ claim' = [claim EXCEPT !.shows = run[r].url]
            /\ Reported(r, "updated")
       ELSE Reported(r, "problems") /\ UNCHANGED <<media, claim>>
    /\ UNCHANGED <<ledger, page, used, lapse>>

-------------------------------------------------------------------------------
\* The tags the product lacks, the field if it holds none, and the category only with it.
Lacking(r) == run[r].rules.tags \ run[r].seen.tags
Fills(r) == run[r].rules.field # Null /\ run[r].seen.field = Null
Classifies(r) == Fills(r) /\ run[r].seen.category = Null /\ run[r].rules.category # Null

ReadPage(r) ==
    /\ At(r, "read") /\ run[r].kind = "attributes"
    /\ run' = [run EXCEPT ![r].step = "write", ![r].seen = page]
    /\ lapse' = lapse \cup Racing("attributes")
    /\ UNCHANGED <<ledger, product, claim, used>>

\* Mutant of WritePage: only the tags to add are sent, and the field whatever it holds.
WritePageAlone(r) ==
    /\ At(r, "write")
    /\ page' = [tags |-> IF Lacking(r) = {} THEN page.tags ELSE Lacking(r),
                field |-> IF run[r].rules.field = Null THEN page.field ELSE run[r].rules.field,
                category |-> IF Classifies(r) THEN run[r].rules.category ELSE page.category]
    /\ claim' = [claim EXCEPT !.tags = @ \cup Lacking(r)]
    /\ Reported(r, "updated")
    /\ UNCHANGED <<ledger, media, used, lapse>>

Writes(r) == Lacking(r) # {} \/ Fills(r)

Written(r) == [tags |-> IF Lacking(r) = {} THEN page.tags ELSE run[r].seen.tags \cup Lacking(r),
               field |-> IF Fills(r) THEN run[r].rules.field ELSE page.field,
               category |-> IF Classifies(r) THEN run[r].rules.category ELSE page.category]

\* "productUpdate replaces the whole tag list, so this reads first and writes the union."
WritePage(r) ==
    /\ At(r, "write")
    /\ IF Writes(r)
       THEN /\ page' = Written(r)
            /\ claim' = [claim EXCEPT !.tags = @ \cup Lacking(r)]
            /\ Reported(r, "updated")
       ELSE Reported(r, "unchanged") /\ UNCHANGED <<page, claim>>
    /\ UNCHANGED <<ledger, media, used, lapse>>

-------------------------------------------------------------------------------
\* A call whose answer never comes has reached the platform or has not.
Lands(r) ==
    \/ UNCHANGED product
    \/ At(r, "add") /\ media' = WithNew(run[r].url) /\ UNCHANGED page
    \/ At(r, "delete") /\ Removes(r) /\ media' = WithoutOld(r) /\ UNCHANGED page
    \/ At(r, "write") /\ Writes(r) /\ page' = Written(r) /\ UNCHANGED media

\* What was reported of the pictures ends with a replacement that breaks off.
BreaksOff(r) ==
    /\ used.mishaps < MaxMishaps
    /\ used' = [used EXCEPT !.mishaps = @ + 1, !.added = @ + 1]
    /\ Lands(r)
    /\ claim' = IF run[r].step \in {"add", "delete"} THEN [claim EXCEPT !.shows = Null]
                ELSE claim
    /\ UNCHANGED <<ledger, lapse>>

\* A call fails, or its answer is lost: the listing is a problem, and the run goes on.
CallFails(r) ==
    /\ run[r].step \in {"read", "add", "delete"} \/ (At(r, "write") /\ Writes(r))
    /\ Reported(r, "problems")
    /\ BreaksOff(r)

\* The process is killed; nothing takes the run up again.
Crash(r) ==
    /\ ~At(r, "idle")
    /\ run' = [run EXCEPT ![r] = Idle]
    /\ BreaksOff(r)

-------------------------------------------------------------------------------
\* The seller works on the product in the platform's own pages, at any time.
SellerShows ==
    /\ used.edits < MaxEdits
    /\ media' = media \cup {[id |-> used.added + 1, url |-> Hand]}
    /\ used' = [used EXCEPT !.edits = @ + 1, !.added = @ + 1]
    /\ claim' = [claim EXCEPT !.shows = Null]
    /\ lapse' = lapse \cup Racing("images")
    /\ UNCHANGED <<ledger, page, run>>

SellerHides(m) ==
    /\ Use("edits", MaxEdits)
    /\ media' = media \ {m}
    /\ claim' = [claim EXCEPT !.shows = Null]
    /\ lapse' = lapse \cup Racing("images") \cup {"hidden"}
    /\ UNCHANGED <<ledger, page, run>>

SellerTags(t) ==
    /\ Use("edits", MaxEdits)
    /\ page' = [page EXCEPT !.tags = IF t \in @ THEN @ \ {t} ELSE @ \cup {t}]
    /\ claim' = [claim EXCEPT !.tags = @ \ {t}]
    /\ lapse' = lapse \cup Racing("attributes") \cup {u \in {"untagged"} : t = Hand}
    /\ UNCHANGED <<ledger, media, run>>

SellerFills ==
    /\ Use("edits", MaxEdits)
    /\ page' = [page EXCEPT !.field = Hand, !.category = Hand]
    /\ lapse' = lapse \cup Racing("attributes") \cup {"filled"}
    /\ UNCHANGED <<ledger, media, run, claim>>

\* The rules, the catalogue's picture and the links change in the hub.
EditHub ==
    /\ Use("edits", MaxEdits)
    /\ \/ \E d \in Rules : rules' = d /\ UNCHANGED <<linked, picture>>
       \/ \E u \in Picture \cup {Null} : picture' = u /\ UNCHANGED <<linked, rules>>
       \/ \E i \in linked : linked' = linked \ {i} /\ UNCHANGED <<picture, rules>>
    /\ UNCHANGED <<product, run, claim, lapse>>

Next ==
    \/ \E r \in Run :
          \/ \E kind \in {"images", "attributes"} : Ask(r, kind)
          \/ Pending(r) \/ \E i \in Item : Take(r, i)
          \/ ReadMedia(r) \/ AddMedia(r) \/ DeleteMedia(r)
          \/ ReadPage(r) \/ WritePage(r)
          \/ CallFails(r) \/ Crash(r) \/ Finish(r)
    \/ SellerShows \/ \E m \in media : SellerHides(m)
    \/ \E t \in Tag : SellerTags(t)
    \/ SellerFills
    \/ EditHub

Spec == Init /\ [][Next]_vars

-------------------------------------------------------------------------------
Content == [tags: SUBSET Tag, field: {Null, "rule", Hand}, category: {Null, "cards", Hand}]

TypeOK ==
    /\ linked \subseteq Item /\ picture \in Picture \cup {Null}
    /\ rules \in Content /\ page \in Content
    /\ \A m \in media : m.id \in 0..used.added /\ m.url \in Picture \cup {Hand}
    /\ \A r \in Run :
          /\ run[r].step \in {"idle", "pending", "next", "read", "add", "delete", "write"}
          /\ run[r].seen \in Content /\ run[r].rules \in Content
          /\ run[r].url \in Picture \cup {Null} /\ run[r].old \subseteq 0..used.added
    /\ claim.tags \subseteq Tag /\ claim.shows \in Picture \cup {Null}
    /\ used.runs <= MaxRuns /\ used.edits <= MaxEdits /\ used.mishaps <= MaxMishaps

\* "The product never has zero images", however runs overlap and wherever they break off.
NeverBare == media # {} \/ "hidden" \in lapse

\* What an image run reports is what the product shows, and all it shows, once no run is at
\* work: also when an earlier one left both pictures behind and this one was the rerun.  Only
\* pictures beyond the page that was read stay.
ShowsWhatIsReported ==
    claim.shows = Null \/ Amid("images") \/ {"images", "beyond"} \cap lapse # {}
        \/ {m.url : m \in media} = {claim.shows}

\* "A tag the seller applied by hand survives", and so does every tag a run has reported: only
\* a write that overlapped another run or the seller can strip one.
TagsSurvive ==
    "attributes" \in lapse \/
        claim.tags \cup {t \in {Hand} : "untagged" \notin lapse} \subseteq page.tags

\* A field or a category the seller has set stays, whatever the rules say.
HandsOff ==
    {"attributes", "filled"} \cap lapse = {"filled"} =>
        page.field = Hand /\ page.category = Hand

\* A run accounts for every listing it was given, once.
EachReportedOnce ==
    \A r \in Run : LET q == run[r] IN
        /\ q.updated \cap q.problems = {} /\ q.unchanged \cap (q.updated \cup q.problems) = {}
        /\ q.step # "idle" =>
              q.ids = q.todo \cup q.updated \cup q.unchanged \cup q.problems
                        \cup ({q.item} \ {Null})

ContentHolds == NeverBare /\ ShowsWhatIsReported /\ TagsSurvive /\ HandsOff /\ EachReportedOnce
===============================================================================
