----------------------------- MODULE CatalogPanels -----------------------------
(***************************************************************************)
(* Filling the catalogue by hand: the panel that lists a source's sets and *)
(* ingests those that are ticked, with the token some sources want, and    *)
(* the panel that reads a card list from a file and imports it; and        *)
(* CatalogIngestService, which asks the source again what it has.          *)
(***************************************************************************)
EXTENDS Naturals, Sequences, FiniteSets

CONSTANTS
    Source,         \* sources that can be ingested
    Guarded,        \* those of them that want a token
    Game,           \* what is typed for a game
    SetId,          \* ids of sets, which sources share
    Listed,         \* per source, the sets it lists at first
    File,           \* card lists: [game |-> .., cards |-> whether each has name and id]
    DefaultMaxSets,
    MostSetIds,     \* ids one request may name
    MostMaxSets,    \* the largest ceiling one may ask for
    MaxRuns,        \* ingests, imports and saves of a token
    MaxMoves,       \* changes of source or game
    MaxFiles,       \* files chosen and games typed for them
    MaxMishaps,     \* sets a source takes away, and requests lost
    Null

VARIABLES
    panel,          \* the panel in use: the two share nothing
    offers,         \* per source and game: the sets the source lists
    token,          \* per source: the source its stored token was typed for, or Null
    page,           \* source and game on screen, whether the list is asked for, ticks
    typed,          \* the source a token is typed for, or Null
    known,          \* sources the page believes configured
    listing,        \* per source and game: the sets the page has been told, or Null
    run,            \* the ingest under way, or Null
    saving,         \* the token under way, or Null
    ingested,       \* <<source, set>>: what has been fetched
    form,           \* the import panel: files being read, game, cards, whether it failed
    imports,        \* what has been sent
    meant,          \* <<source, set>> ticked, and games typed, by the operator
    used,
    lapse           \* whether a run left a set out; how many sets runs too large asked for

vars == <<panel, offers, token, page, typed, known, listing, run, saving, ingested, form, imports,
          meant, used, lapse>>
ingest == <<offers, token, page, typed, known, listing, run, saving, ingested>>

Spend(what, max) == used[what] < max /\ used' = [used EXCEPT ![what] = @ + 1]
Mishap == Spend("mishaps", MaxMishaps)
Range(s) == {s[k] : k \in DOMAIN s}

Init ==
    /\ panel \in {"ingest", "import"}
    /\ offers = [k \in Source \X Game |-> Listed[k[1]]]
    /\ \E set \in SUBSET Guarded : token = [s \in Source |-> IF s \in set THEN s ELSE Null]
    /\ \E s \in Source, g \in Game :
          page = [source |-> s, game |-> g, requested |-> FALSE, ticks |-> {}]
    /\ typed = Null /\ known = {} /\ listing = [k \in Source \X Game |-> Null]
    /\ run = Null /\ saving = Null /\ ingested = {}
    /\ form = [reading |-> <<>>, game |-> Null, cards |-> Null, last |-> Null]
    /\ imports = {} /\ meant = [ticks |-> {}, games |-> {}]
    /\ used = [runs |-> 0, moves |-> 0, mishaps |-> 0] /\ lapse = [left |-> FALSE, refused |-> {}]

Here == <<page.source, page.game>>
Sets == IF listing[Here] = Null THEN {} ELSE listing[Here]
Needs(s) == s \in Guarded
Locked(s) == Needs(s) /\ token[s] = Null

-------------------------------------------------------------------------------
\* Mutant of Turned: what was ticked stays ticked.
TurnedKept(s, g) == [page EXCEPT !.source = s, !.game = g, !.requested = FALSE]

\* Another source or game: nothing is ticked and nothing asked for.
Turned(s, g) == [source |-> s, game |-> g, requested |-> FALSE, ticks |-> {}]

\* Mutant of TypedAfter: a token stays in its field.
TypedAfterKept(s) == typed

TypedAfter(s) == IF s = page.source THEN typed ELSE Null

Turn ==
    /\ Spend("moves", MaxMoves)
    /\ \E s \in Source, g \in Game :
          /\ <<s, g>> # Here /\ page' = Turned(s, g) /\ typed' = TypedAfter(s)
    /\ UNCHANGED <<offers, token, known, listing, run, saving, ingested, form, imports, meant,
                   lapse>>

\* List sets.
List ==
    /\ Needs(page.source) => page.source \in known
    /\ ~page.requested /\ page' = [page EXCEPT !.requested = TRUE]
    /\ UNCHANGED <<offers, token, typed, known, listing, run, saving, ingested, form, imports,
                   meant, used, lapse>>

\* The query of what is asked for; what it was told stays for this source and game.
FetchSets ==
    /\ page.requested /\ ~Locked(page.source)
    /\ listing[Here] # offers[Here] /\ listing' = [listing EXCEPT ![Here] = offers[Here]]
    /\ UNCHANGED <<offers, token, page, typed, known, run, saving, ingested, form, imports,
                   meant, used, lapse>>

Tick ==
    /\ \E ticks \in {Sets} \cup {(page.ticks \cup {i}) : i \in Sets} \cup {{}} :
          /\ page' = [page EXCEPT !.ticks = ticks] /\ page.ticks # ticks
          /\ meant' = [meant EXCEPT !.ticks = @ \cup {<<page.source, i>> :
                                                       i \in ticks \ page.ticks}]
    /\ UNCHANGED <<offers, token, typed, known, listing, run, saving, ingested, form, imports,
                   used, lapse>>

\* Mutant of Ceiling: the server's own limit, whatever was ticked.
CeilingDefault(ticks) == DefaultMaxSets

\* More than the default is asked for by number.
Ceiling(ticks) == IF Cardinality(ticks) > DefaultMaxSets THEN Cardinality(ticks)
                  ELSE DefaultMaxSets

Ingest ==
    /\ listing[Here] # Null /\ page.ticks # {} /\ run = Null /\ Spend("runs", MaxRuns)
    /\ run' = [source |-> page.source, game |-> page.game, asked |-> page.ticks,
               max |-> Ceiling(page.ticks), todo |-> Null]
    /\ UNCHANGED <<offers, token, page, typed, known, listing, saving, ingested, form, imports,
                   meant, lapse>>

\* A request that names too many sets, or too high a ceiling, is refused as it comes in.
TooLarge == Cardinality(run.asked) > MostSetIds \/ run.max > MostMaxSets

\* The source is asked again; what it lists no more is left out, and too many is refused.
Wanted == offers[<<run.source, run.game>>] \cap run.asked
Plan ==
    /\ run # Null /\ run.todo = Null
    /\ LET refused == TooLarge \/ (~Locked(run.source) /\ Cardinality(Wanted) > run.max)
           planned == ~refused /\ ~Locked(run.source)
       IN  /\ run' = IF planned THEN [run EXCEPT !.todo = Wanted] ELSE Null
           /\ lapse' = [left |-> lapse.left \/ (planned /\ Wanted # run.asked),
                        refused |-> lapse.refused
                                        \cup {n \in {Cardinality(run.asked)} : refused}]
    /\ UNCHANGED <<offers, token, page, typed, known, listing, saving, ingested, form, imports,
                   meant, used>>

\* One set after another; one that fails is reported and the rest goes on.
FetchSet ==
    /\ run # Null /\ run.todo \notin {Null, {}}
    /\ \E i \in run.todo :
          /\ run' = [run EXCEPT !.todo = @ \ {i}]
          /\ \/ ingested' = ingested \cup {<<run.source, i>>} /\ UNCHANGED used
             \/ Mishap /\ UNCHANGED ingested
    /\ UNCHANGED <<offers, token, page, typed, known, listing, saving, form, imports, meant,
                   lapse>>

Report ==
    /\ run # Null /\ run.todo = {} /\ run' = Null
    /\ UNCHANGED <<offers, token, page, typed, known, listing, saving, ingested, form, imports,
                   meant, used, lapse>>

\* The source's list changes.
Withdraw ==
    /\ Mishap
    /\ \E k \in Source \X Game : \E i \in offers[k] : offers' = [offers EXCEPT ![k] = @ \ {i}]
    /\ UNCHANGED <<token, page, typed, known, listing, run, saving, ingested, form, imports,
                   meant, lapse>>

-------------------------------------------------------------------------------
TypeToken ==
    /\ Needs(page.source) /\ typed = Null /\ typed' = page.source
    /\ UNCHANGED <<offers, token, page, known, listing, run, saving, ingested, form, imports,
                   meant, used, lapse>>

SaveToken ==
    /\ Needs(page.source) /\ typed # Null /\ saving = Null /\ Spend("runs", MaxRuns)
    /\ saving' = [source |-> page.source, token |-> typed]
    /\ UNCHANGED <<offers, token, page, typed, known, listing, run, ingested, form, imports,
                   meant, lapse>>

\* The fields are emptied, and a status is read again: that of the source on screen.
TokenSaved ==
    /\ saving # Null /\ saving' = Null
    /\ \/ /\ token' = [token EXCEPT ![saving.source] = saving.token] /\ typed' = Null
          /\ known' = known \cup {s \in {page.source} : token'[s] # Null}
          /\ UNCHANGED used
       \/ Mishap /\ UNCHANGED <<token, typed, known>>
    /\ UNCHANGED <<offers, page, listing, run, ingested, form, imports, meant, lapse>>

ReadStatus ==
    /\ Needs(page.source) /\ known' = (known \ {page.source})
                                       \cup {s \in {page.source} : token[s] # Null}
    /\ known' # known
    /\ UNCHANGED <<offers, token, page, typed, listing, run, saving, ingested, form, imports,
                   meant, used, lapse>>

-------------------------------------------------------------------------------
\* A file is chosen: what the panel holds goes, and the file is read in its own time.
Choose(f) ==
    /\ Spend("moves", MaxFiles)
    /\ form' = [form EXCEPT !.reading = Append(@, f), !.cards = Null, !.last = f]
    /\ UNCHANGED <<ingest, imports, meant, lapse>>

\* Mutant of Parsed: cards that lack a name or an id are skipped.
ParsedSome(f) == [file |-> f, cards |-> Cardinality({k \in DOMAIN f.cards : f.cards[k]})]

\* Every card has a name and an id, or none is taken.
Parsed(f) == IF FALSE \in Range(f.cards) THEN Null ELSE [file |-> f, cards |-> Len(f.cards)]

\* A wrapper's game fills an empty field, before its cards are looked at.
ReadFile ==
    /\ \E k \in DOMAIN form.reading :
          LET f == form.reading[k]
              rest == [j \in 1..(Len(form.reading) - 1) |-> form.reading[IF j < k THEN j ELSE j + 1]]
          IN  form' = [form EXCEPT !.reading = rest,
                          !.game = IF @ = Null THEN f.game ELSE @,
                          !.cards = IF Parsed(f) = Null THEN @ ELSE Parsed(f)]
    /\ UNCHANGED <<ingest, imports, meant, used, lapse>>

TypeGame ==
    /\ \E g \in Game : /\ form.game # g /\ form' = [form EXCEPT !.game = g]
                       /\ meant' = [meant EXCEPT !.games = @ \cup {g}]
    /\ Spend("moves", MaxFiles) /\ UNCHANGED <<ingest, imports, lapse>>

Import ==
    /\ form.cards # Null /\ form.game # Null /\ Spend("runs", MaxRuns)
    /\ imports' = imports \cup {[cards |-> form.cards, game |-> form.game, last |-> form.last]}
    /\ UNCHANGED <<ingest, form, meant, lapse>>

UseIngest ==
    \/ Turn \/ List \/ FetchSets \/ Tick \/ Ingest \/ Plan \/ FetchSet \/ Report \/ Withdraw
    \/ TypeToken \/ SaveToken \/ TokenSaved \/ ReadStatus

UseImport == (\E f \in File : Choose(f)) \/ ReadFile \/ TypeGame \/ Import

Next ==
    /\ \/ panel = "ingest" /\ UseIngest
       \/ panel = "import" /\ UseImport
    /\ UNCHANGED panel

Spec == Init /\ [][Next]_vars

TypeOK ==
    /\ page \in [source : Source, game : Game, requested : BOOLEAN, ticks : SUBSET SetId]
    /\ offers \in [Source \X Game -> SUBSET SetId] /\ typed \in Guarded \cup {Null}
    /\ known \subseteq Guarded /\ ingested \subseteq Source \X SetId
    /\ Range(form.reading) \subseteq File
    /\ form.game \in Game \cup {f.game : f \in File} \cup {Null}

-------------------------------------------------------------------------------
\* What is ingested was ticked in the list of the source it is taken from ("stale selections
\* would silently ingest the wrong thing"): sets of two sources go by the same ids.
IngestsAreAsked ==
    /\ ingested \subseteq meant.ticks
    /\ run # Null => \A i \in run.asked : <<run.source, i>> \in meant.ticks

\* A run of the panel is refused for its size only when more sets are ticked than a request
\* may name, never by the server's default ceiling.
RunsAreAllowed ==
    \A asked \in lapse.refused : asked > MostSetIds \/ asked > MostMaxSets

\* A token is stored for the source it was typed for, and no other.
TokensGoHome == \A s \in Source : token[s] \in {Null, s}

\* An import is a whole file, of which every card has a name and an id, whatever files
\* were chosen or failed around it ("refused with its reason rather than half-imported").
ImportsAreWhole ==
    \A i \in imports : /\ i.cards.cards = Len(i.cards.file.cards)
                       /\ FALSE \notin Range(i.cards.file.cards)

PanelsHold == IngestsAreAsked /\ RunsAreAllowed /\ TokensGoHome /\ ImportsAreWhole

\* Refuted: "the request names every set explicitly: nothing can be silently left out"
\* (CatalogPage.tsx, IngestPanel): a set the source lists no more is not even a problem.
NothingIsLeftOut == ~lapse.left

\* Refuted: the file on screen is the one imported; two that are read end in any order.
ImportsAreOfTheLast == \A i \in imports : i.cards.file = i.last

\* Refuted: the "game and set prefill the fields": those of the file before stay.
GamesAreTheFiles ==
    \A i \in imports : i.cards.file.game # Null => i.game \in {i.cards.file.game} \cup meant.games

===============================================================================
