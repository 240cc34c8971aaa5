------------------------------- MODULE Conversions -------------------------------
(***************************************************************************)
(* What the hub turns into something else: a channel's listing defaults    *)
(* into what a created product carries (listing-defaults.ts), what the     *)
(* screens say of it before and propose to add (tagSuggest.ts,             *)
(* ChannelsPage), the form of the repricing policy (ChannelsPage), and     *)
(* the files exchanged with TCGPlayer: the cells of a CSV document         *)
(* (csv.ts), its prices (csv.ts, tcgplayer.ts) and its Condition column    *)
(* (condition.ts), which carries four dimensions of a SKU in one string.   *)
(*                                                                         *)
(* A rule is a match, the value it looks for and what it gives: a tag, a   *)
(* vendor or a custom field.  A card's name is the set of the fragments it *)
(* contains, and a tag or the label of a choice the pair of its spelling   *)
(* and what that reduces to (normalizeForMatch).  A cell is a sequence of  *)
(* characters.  A condition, a printing token and the name of a language   *)
(* are sequences of words, so that a phrase is stripped at a word boundary *)
(* by construction and " - " is the word "-" between two others; letter    *)
(* case is left out.                                                       *)
(***************************************************************************)
EXTENDS RepricingPolicy, Sequences, SequencesExt

Kinds == {"single", "sealed", "other"}
Matches == {"game", "set", "name-contains", "kind"}
KnownKeys == {"tags", "tagRules", "metafields", "metafieldRules", "category", "vendor",
              "vendorRules", "publications"}
NoText == ""

ItemKind(condition) ==
    CASE condition = "SEALED" -> "sealed" [] condition = "NA" -> "other" [] OTHER -> "single"

InSelloutScope(scope, condition) == scope = "all" \/ ItemKind(condition) = "single"

RuleMatches(rule, item) ==
    CASE rule.match = "game" -> item.game = rule.value
      [] rule.match = "set" -> item.setName = rule.value
      [] rule.match = "name-contains" -> rule.value \in item.name
      [] rule.match = "kind" -> item.condition # None /\ ItemKind(item.condition) = rule.value

-------------------------------------------------------------------------------
(* The stored column *)

Gives(rule) == rule.gives # NoText
Field(rule) == rule.gives.owner \in {"product", "variant"} /\ rule.gives.field # NoText

\* A rule that cannot be evaluated is dropped: an unknown match or kind, a blank value.
Evaluable(rule) ==
    /\ rule.match \in Matches /\ rule.value # NoText
    /\ rule.match = "kind" => rule.value \in Kinds

KeepRules(rules, Whole(_)) == SelectSeq(rules, LAMBDA r : Evaluable(r) /\ Whole(r))
KeepText(texts) == SelectSeq(texts, LAMBDA t : t # NoText)

\* What is read of one field; None when nothing is left that could be meant.
ParseField(key, raw) ==
    CASE key \in {"tags", "publications"} -> KeepText(raw)
      [] key \in {"tagRules", "vendorRules"} -> KeepRules(raw, Gives)
      [] key = "metafieldRules" -> KeepRules(raw, Field)
      [] key = "metafields" ->
            SelectSeq(raw, LAMBDA f : f.owner \in {"product", "variant"} /\ f.field # NoText)
      [] key \in {"category", "vendor"} -> IF raw = NoText THEN None ELSE raw

\* A defaults record has every known key, None where nothing was declared.
ParseListingDefaults(stored) ==
    [key \in KnownKeys |-> IF key \in DOMAIN stored THEN ParseField(key, stored[key]) ELSE None]

\* What is stored of it: the keys that are declared.
EncodeListingDefaults(defaults) ==
    [key \in {key \in KnownKeys : defaults[key] # None} |-> defaults[key]]

HasDeclaredDefaults(defaults) == \E key \in KnownKeys : defaults[key] # None

Listed(defaults, key) == IF defaults[key] = None THEN <<>> ELSE defaults[key]

-------------------------------------------------------------------------------
(* What a card gets *)

Matched(defaults, key, item) ==
    SelectSeq(Listed(defaults, key), LAMBDA r : RuleMatches(r, item))
Given(rules) == [i \in DOMAIN rules |-> rules[i].gives]

\* The entries of a sequence that no earlier one equals.
Uniques(entries) ==
    LET first == {i \in DOMAIN entries : \A j \in 1..(i - 1) : entries[j] # entries[i]}
        places == SelectSeq([i \in DOMAIN entries |-> i], LAMBDA i : i \in first)
    IN  [i \in DOMAIN places |-> entries[places[i]]]

ResolveTags(defaults, item) ==
    Uniques(Listed(defaults, "tags") \o Given(Matched(defaults, "tagRules", item)))

\* The first rule that matches, or the channel's one vendor.
ResolveVendor(defaults, item) ==
    LET rules == Matched(defaults, "vendorRules", item)
    IN  IF rules = <<>> THEN defaults["vendor"] ELSE rules[1].gives

KeyOf(field) == <<field.owner, field.field>>

\* Mutant of ResolveMetafields: the first value of a field is kept.
ResolveFirstMetafields(defaults, item) ==
    LET all == Listed(defaults, "metafields") \o Given(Matched(defaults, "metafieldRules", item))
        keys == Uniques([i \in DOMAIN all |-> KeyOf(all[i])])
    IN  [k \in DOMAIN keys |-> SelectSeq(all, LAMBDA f : KeyOf(f) = keys[k])[1]]

\* One value per field, in the place of its first and with the value of its last.
ResolveMetafields(defaults, item) ==
    LET all == Listed(defaults, "metafields") \o Given(Matched(defaults, "metafieldRules", item))
        keys == Uniques([i \in DOMAIN all |-> KeyOf(all[i])])
    IN  [k \in DOMAIN keys |-> Last(SelectSeq(all, LAMBDA f : KeyOf(f) = keys[k]))]

\* A run's own category and publications, an empty list included, or else the channel's.
ApplyListingDefaults(request, defaults) ==
    [key \in {"category", "publications"} |->
        IF request[key] = None THEN defaults[key] ELSE request[key]]

-------------------------------------------------------------------------------
(* The screens *)

\* tagSuggest.ts, the mirror of resolveTags that the intake screen shows.
PreviewTags(rules, always, item) ==
    Uniques(always \o Given(SelectSeq(rules, LAMBDA r : RuleMatches(r, item))))

\* The one entry that reduces to the same, or None; also when there are several.
SuggestTag(reduced, vocabulary) ==
    LET same == SelectSeq(vocabulary, LAMBDA entry : entry.reduced = reduced)
    IN  IF Len(same) = 1 THEN same[1] ELSE None

AddRule(rules, rule) == IF rule \in ToSet(rules) THEN rules ELSE Append(rules, rule)

Without(rules, Which(_)) == SelectSeq(rules, LAMBDA r : ~Which(r))

\* The vendor of one game: its rule is taken out and put at the end, or left out.
SetVendorForGame(rules, game, vendor) ==
    LET rest == Without(rules, LAMBDA r : r.match = "game" /\ r.value = game)
    IN  IF vendor = NoText THEN rest
        ELSE Append(rest, [match |-> "game", value |-> game, gives |-> vendor])

\* A custom field for a card: one rule per match, value and field.
PutMetafieldRule(rules, rule) ==
    Append(Without(rules, LAMBDA r : /\ r.match = rule.match /\ r.value = rule.value
                                     /\ r.gives.field = rule.gives.field),
           rule)

\* The repricing form: seeded with the limit that is in force in each direction; what it
\* writes has the pair and not the one they replace, and says nothing of the least move.
SeedForm(policy) ==
    [enabled |-> policy.enabled, percent |-> policy.percent, rounding |-> policy.rounding,
     floor |-> policy.floor, up |-> Fallback(policy.maxUpPct, policy.maxPct),
     down |-> Fallback(policy.maxDownPct, policy.maxPct)]
SaveForm(form) ==
    [enabled |-> form.enabled, percent |-> form.percent, rounding |-> form.rounding,
     floor |-> form.floor, maxPct |-> None, maxUpPct |-> form.up, maxDownPct |-> form.down,
     minDelta |-> None]

-------------------------------------------------------------------------------
\* What the column says survives being stored and read, and being read means every rule can
\* be evaluated: a rule that looks saved and never fires is gone instead.
DefaultsComeBack(stored) ==
    LET defaults == ParseListingDefaults(stored)
    IN  ParseListingDefaults(EncodeListingDefaults(defaults)) = defaults

\* A card's tags, vendor and custom fields, from the rules as the operator arranged them: no
\* tag twice and none unasked for; the vendor of the first rule that matches; one value per
\* field, the last one's, so that a rule overrides the unconditional field.  The preview at
\* intake is what the server applies.
CardsAreDescribed(defaults, item) ==
    LET tags == ResolveTags(defaults, item)
        fields == ResolveMetafields(defaults, item)
        Hit(key) == {i \in DOMAIN Listed(defaults, key) :
                        RuleMatches(Listed(defaults, key)[i], item)}
        Value(key, i) == Listed(defaults, key)[i].gives
    IN  /\ IsInjective(tags)
        /\ ToSet(tags) = ToSet(Listed(defaults, "tags"))
                             \cup {Value("tagRules", i) : i \in Hit("tagRules")}
        /\ \A i \in Hit("vendorRules") : \E j \in Hit("vendorRules") :
              j <= i /\ ResolveVendor(defaults, item) = Value("vendorRules", j)
        /\ Hit("vendorRules") = {} => ResolveVendor(defaults, item) = defaults["vendor"]
        /\ \A f, g \in DOMAIN fields : KeyOf(fields[f]) = KeyOf(fields[g]) => f = g
        /\ \A i \in Hit("metafieldRules") : \E j \in Hit("metafieldRules") :
              /\ j >= i
              /\ KeyOf(Value("metafieldRules", j)) = KeyOf(Value("metafieldRules", i))
              /\ Value("metafieldRules", j) \in ToSet(fields)
        /\ PreviewTags(Listed(defaults, "tagRules"), Listed(defaults, "tags"), item) = tags

\* Setting the vendor of one game changes no card of another game, where every vendor rule
\* is about a game (ChannelsPage.tsx: setVendorForGame).
EditsStayLocal(rules, game, vendor, item) ==
    LET Of(these) == ResolveVendor([key \in KnownKeys |->
                          IF key = "vendorRules" THEN these ELSE None], item)
    IN  (\A i \in DOMAIN rules : rules[i].match = "game") /\ item.game # game
            => Of(SetVendorForGame(rules, game, vendor)) = Of(rules)

\* What the hub decides about a price: where the policy is saved from an untouched form.
SameDecision(policy, current, target) ==
    ClassifyChange(SaveForm(SeedForm(policy)), current, target) =
        ClassifyChange(policy, current, target)

\* "Pre-filled from the effective limit in each direction": a policy from before the split
\* decides as it did once it is saved, unless it has a least move.
PoliciesMigrate(policy, current, target) ==
    policy.minDelta = None => SameDecision(policy, current, target)

\* Every save keeps what the policy ignores ("Ignore moves smaller than this many cents").
LeastMoveIsKept(policy, current, target) == SameDecision(policy, current, target)

\* "re-adding the same field for the same card replaces rather than duplicating": a rule that
\* is put takes no other field from a card.
OtherFieldsStay(defaults, rule, item) ==
    LET after == [defaults EXCEPT !["metafieldRules"] = PutMetafieldRule(@, rule)]
    IN  \A field \in ToSet(ResolveMetafields(defaults, item)) :
            KeyOf(field) = KeyOf(rule.gives)
                \/ field \in ToSet(ResolveMetafields(after, item))

-------------------------------------------------------------------------------
(* Cells *)

Quote == "\""
Special == {Quote, ",", "\r", "\n"}

Quoted(cell) ==
    <<Quote>> \o FlattenSeq([i \in DOMAIN cell |->
                    IF cell[i] = Quote THEN <<Quote, Quote>> ELSE <<cell[i]>>])
              \o <<Quote>>
EscapeCell(cell) == IF ToSet(cell) \cap Special # {} THEN Quoted(cell) ELSE cell

Joined(parts, between) ==
    FlattenSeq([i \in DOMAIN parts |-> IF i = 1 THEN parts[i] ELSE between \o parts[i]])

ToCsv(headers, rows, quoteValues) ==
    LET Cell(cell) == IF quoteValues THEN Quoted(cell) ELSE EscapeCell(cell)
        Line(cells) == Joined([i \in DOMAIN cells |-> Cell(cells[i])], <<",">>)
        header == Joined([i \in DOMAIN headers |-> EscapeCell(headers[i])], <<",">>)
    IN  Joined(<<header>> \o [i \in DOMAIN rows |-> Line(rows[i])], <<"\r", "\n">>)
            \o <<"\r", "\n">>

\* The scanner after one more character; of two quotes in a quoted field the second is
\* looked at with the first.
Scan(s, text, i) ==
    LET c == text[i]
        doubled == i < Len(text) /\ text[i + 1] = Quote
    IN  CASE s.skip -> [s EXCEPT !.skip = FALSE]
          [] ~s.skip /\ s.inQuotes /\ c = Quote /\ doubled ->
                [s EXCEPT !.field = Append(@, Quote), !.skip = TRUE]
          [] ~s.skip /\ s.inQuotes /\ c = Quote /\ ~doubled -> [s EXCEPT !.inQuotes = FALSE]
          [] ~s.skip /\ s.inQuotes /\ c # Quote -> [s EXCEPT !.field = Append(@, c)]
          [] ~s.skip /\ ~s.inQuotes /\ c = Quote -> [s EXCEPT !.inQuotes = TRUE]
          [] ~s.skip /\ ~s.inQuotes /\ c = "," ->
                [s EXCEPT !.row = Append(@, s.field), !.field = <<>>]
          [] ~s.skip /\ ~s.inQuotes /\ c = "\n" ->
                [s EXCEPT !.grid = Append(@, Append(s.row, s.field)), !.row = <<>>,
                          !.field = <<>>]
          [] ~s.skip /\ ~s.inQuotes /\ c = "\r" -> s
          [] OTHER -> [s EXCEPT !.field = Append(@, c)]

ParseGrid(text) ==
    LET start == [grid |-> <<>>, row |-> <<>>, field |-> <<>>, inQuotes |-> FALSE,
                  skip |-> FALSE]
        after[i \in 0..Len(text)] == IF i = 0 THEN start ELSE Scan(after[i - 1], text, i)
        end == after[Len(text)]
    IN  IF end.field # <<>> \/ end.row # <<>>
        THEN Append(end.grid, Append(end.row, end.field))
        ELSE end.grid

Blank == {" ", "\r", "\n"}
Trim(cell) ==
    LET solid == {i \in DOMAIN cell : cell[i] \notin Blank}
    IN  IF solid = {} THEN <<>>
        ELSE SubSeq(cell, CHOOSE i \in solid : \A j \in solid : i <= j,
                          CHOOSE i \in solid : \A j \in solid : i >= j)

\* The rows under the header: a line of one blank cell is no row, a short one is padded.
ParseCsv(text) ==
    LET grid == ParseGrid(text)
        headers == IF grid = <<>> THEN <<>> ELSE [i \in DOMAIN grid[1] |-> Trim(grid[1][i])]
        rows == SelectSeq(SubSeq(grid, 2, Len(grid)),
                          LAMBDA cells : ~(Len(cells) = 1 /\ Trim(cells[1]) = <<>>))
    IN  [headers |-> headers,
         rows |-> [r \in DOMAIN rows |-> [i \in DOMAIN headers |->
                        IF i \in DOMAIN rows[r] THEN Trim(rows[r][i]) ELSE <<>>]]]

-------------------------------------------------------------------------------
(* Prices: a decimal is its whole part and the digits after the point *)

Digit(fraction, i) == IF i \in DOMAIN fraction THEN fraction[i] ELSE 0

\* Integer cents; the third decimal rounds.
ParseMoneyToCents(price) ==
    price.whole * 100 + Digit(price.fraction, 1) * 10 + Digit(price.fraction, 2)
        + (IF Digit(price.fraction, 3) >= 5 THEN 1 ELSE 0)

FormatMoney(cents) ==
    [whole |-> cents \div 100, fraction |-> <<(cents % 100) \div 10, cents % 10>>]

-------------------------------------------------------------------------------
(* The Condition column *)

ConditionPhrases ==
    <<<<<<"near", "mint">>, "NM">>, <<<<"lightly", "played">>, "LP">>,
      <<<<"moderately", "played">>, "MP">>, <<<<"heavily", "played">>, "HP">>,
      <<<<"damaged">>, "DMG">>, <<<<"unopened">>, "SEALED">>>>
EditionPhrases ==
    <<<<<<"1st", "edition">>, "1ST_EDITION">>, <<<<"unlimited">>, "UNLIMITED">>,
      <<<<"limited">>, "LIMITED">>>>
FinishPhrases ==
    <<<<<<"reverse", "holofoil">>, "REVERSE_HOLOFOIL">>, <<<<"holofoil">>, "HOLOFOIL">>,
      <<<<"foil">>, "FOIL">>>>
LanguageNames ==
    <<<<<<"english">>, "EN">>, <<<<"japanese">>, "JA">>, <<<<"chinese", "(s)">>, "ZHS">>,
      <<<<"chinese", "simplified">>, "ZHS">>>>

CodesOf(phrases) == {phrases[i][2] : i \in DOMAIN phrases}
PhraseOf(phrases, code) == SelectSeq(phrases, LAMBDA p : p[2] = code)[1][1]

\* The first phrase the words begin with, if one does, and what remains of them.
StripPhrase(words, phrases, otherwise) ==
    LET hits == SelectSeq(phrases, LAMBDA p : IsPrefix(p[1], words))
    IN  IF hits = <<>> THEN [value |-> otherwise, rest |-> words]
        ELSE [value |-> hits[1][2],
              rest |-> SubSeq(words, Len(hits[1][1]) + 1, Len(words))]

Named(name) == SelectSeq(LanguageNames, LAMBDA p : p[1] = name)

\* A name behind the last free-standing hyphen is the language, English when there is none.
SplitLanguage(words) ==
    LET dashes == {i \in DOMAIN words : words[i] = "-" /\ i > 1 /\ i < Len(words)}
        at == CHOOSE i \in dashes : \A j \in dashes : j <= i
        known == Named(SubSeq(words, at + 1, Len(words)))
    IN  IF dashes = {} THEN [rest |-> words, language |-> "EN"]
        ELSE IF known = <<>> THEN [rest |-> words, language |-> None]
        ELSE [rest |-> SubSeq(words, 1, at - 1), language |-> known[1][2]]

Absent == [status |-> "absent"]
Unrecognised == [status |-> "unrecognised"]

\* Mutant of ParseCondition: in this order, with what then remains ignored.
ParseConditionLoosely(words) ==
    LET split == SplitLanguage(words)
        condition == StripPhrase(split.rest, ConditionPhrases, None)
        edition == StripPhrase(condition.rest, EditionPhrases, None)
        finish == StripPhrase(edition.rest, FinishPhrases, "NORMAL")
    IN  IF words = <<>> THEN Absent
        ELSE IF split.language = None \/ condition.value = None THEN Unrecognised
        ELSE [status |-> "parsed", condition |-> condition.value, edition |-> edition.value,
              finish |-> finish.value, language |-> split.language]

\* Language, condition, edition and finish in this order; nothing may remain.
ParseCondition(words) ==
    LET split == SplitLanguage(words)
        condition == StripPhrase(split.rest, ConditionPhrases, None)
        edition == StripPhrase(condition.rest, EditionPhrases, None)
        finish == StripPhrase(edition.rest, FinishPhrases, "NORMAL")
    IN  IF words = <<>> THEN Absent
        ELSE IF split.language = None \/ condition.value = None \/ finish.rest # <<>>
        THEN Unrecognised
        ELSE [status |-> "parsed", condition |-> condition.value, edition |-> edition.value,
              finish |-> finish.value, language |-> split.language]

\* Sku.printing: the parts an underscore joins, NORMAL for a card with neither.
ToPrinting(edition, finish) ==
    IF edition = None THEN <<finish>>
    ELSE IF finish = "NORMAL" THEN <<edition>> ELSE <<edition, finish>>

Finish == CodesOf(FinishPhrases) \cup {"NORMAL"}

FromPrinting(printing) ==
    LET edition == IF printing # <<>> /\ printing[1] \in CodesOf(EditionPhrases)
                   THEN printing[1] ELSE None
        rest == IF edition = None THEN printing ELSE Tail(printing)
    IN  IF rest = <<>> THEN [edition |-> edition, finish |-> "NORMAL"]
        ELSE IF Len(rest) = 1 /\ rest[1] \in Finish
        THEN [edition |-> edition, finish |-> rest[1]]
        ELSE None

\* The words TCGPlayer spells a SKU with, or None when it has no spelling for it.
FormatCondition(sku) ==
    LET parts == FromPrinting(sku.printing)
        Words(phrases, code) ==
            IF code \in CodesOf(phrases) THEN PhraseOf(phrases, code) ELSE <<>>
    IN  IF \/ sku.condition \notin CodesOf(ConditionPhrases)
           \/ parts = None
           \/ sku.language \notin CodesOf(LanguageNames)
        THEN None
        ELSE PhraseOf(ConditionPhrases, sku.condition)
             \o Words(EditionPhrases, parts.edition) \o Words(FinishPhrases, parts.finish)
             \o (IF sku.language = "EN" THEN <<>>
                 ELSE <<"-">> \o PhraseOf(LanguageNames, sku.language))

SkuOf(split) == [condition |-> split.condition,
                 printing |-> ToPrinting(split.edition, split.finish),
                 language |-> split.language]

-------------------------------------------------------------------------------
\* A file that is written and read again has the cells it was written with, whatever
\* commas, quotes and line ends they hold, up to blanks around them.
RowsComeBack(headers, rows, quoteValues) ==
    ParseCsv(ToCsv(headers, rows, quoteValues)) =
        [headers |-> [i \in DOMAIN headers |-> Trim(headers[i])],
         rows |-> [r \in DOMAIN rows |-> [i \in DOMAIN headers |-> Trim(rows[r][i])]]]

\* A Condition is read only when every word of it is understood: written again it is the
\* same, up to another name of the language; and a SKU that is written is read as itself.
NothingIsGuessed(words) ==
    LET split == ParseCondition(words)
        again == FormatCondition(SkuOf(split))
    IN  split.status = "parsed" =>
            /\ SplitLanguage(again).rest = SplitLanguage(words).rest
            /\ ParseCondition(again) = split

\* A price is read as the nearest cent, half a cent upwards, and one that is written is
\* read as itself.
PricesComeBack(price) ==
    LET exact == price.whole * 10000 + Digit(price.fraction, 1) * 1000
                    + Digit(price.fraction, 2) * 100 + Digit(price.fraction, 3) * 10
                    + Digit(price.fraction, 4)
        cents == ParseMoneyToCents(price)
    IN  /\ cents * 100 - exact \in -49..50
        /\ ParseMoneyToCents(FormatMoney(cents)) = cents
===============================================================================
