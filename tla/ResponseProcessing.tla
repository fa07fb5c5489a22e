------------------------- MODULE ResponseProcessing -------------------------
(***************************************************************************)
(* The ResponseProcessor (response_processor.go) with the JSONCleaner      *)
(* (json_cleaner.go) and the EntityValidator (entity_validator.go): the    *)
(* text of an LLM is cleaned, parsed and its entities validated, all of it *)
(* again if there is no JSON in it.                                        *)
(*                                                                         *)
(* Of a response the model keeps the traits that the cleaner tells apart   *)
(* or breaks, and the braces: those of the object and of its entities, and *)
(* those that the texts of the entities hold.  One without traits is a     *)
(* well-formed object on several lines.  An entity has a key (its type and *)
(* normalised text), a confidence in tenths, and whether its type, text    *)
(* and offsets pass.  Brackets in texts, the quality metrics, which are    *)
(* computed from the counts, and the warnings are left out.                *)
(***************************************************************************)
EXTENDS Integers, Sequences, FiniteSets, SequencesExt

CONSTANTS
  Entities,      \* what can stand in a response, [key, confidence, valid]
  MaxPerAnswer,  \* bound: the entities of a response
  MaxBraced,     \* bound: the entities of a response with braces in its texts
  MinConfidence, MaxEntities, MaxProcessing \* MaxRetries of the processor (3)

ASSUME ProcessingAssumption ==
  /\ \A e \in Entities : e \in [key : {e.key}, confidence : Int, valid : BOOLEAN]
  /\ MinConfidence \in 0 .. 10 /\ {MaxPerAnswer, MaxEntities, MaxProcessing} \subseteq Nat \ {0}
  /\ MaxBraced \in 1 .. MaxPerAnswer

\* What stands around the object, how it is written (a list of entities is an
\* "array", a block comment on one line "inline"), and what its texts hold:
\* ", word:", and an address in an object on one line.
Around == {"fence", "known prefix", "prose"}
Inside1 == {"trailing comma", "inline comment", "comment"}
InTexts == {"escaped quote", "comma word colon", "address"}

\* The braces of the text of an entity.
Texts == {<<>>, <<"open">>, <<"close">>, <<"open", "close">>, <<"close", "open">>}
TextsUpTo(n) == UNION {[1 .. m -> Texts] : m \in 1 .. n}
Plain(n) == [1 .. n -> {<<>>}]

InBraces(s) == <<"{">> \o s \o <<"}">>
BracesOf(traits, texts) ==
  LET entities == FlattenSeq([i \in DOMAIN texts |-> InBraces(texts[i])]) IN
  IF "array" \in traits THEN entities ELSE InBraces(entities)

\* A response: its traits, the texts of its entities, and how many of its braces
\* are left, all of them or, of one that is "cut", those before the end it has.
Uncut(T, S) ==
  {[traits |-> t, texts |-> s, left |-> Len(BracesOf(t, s))] : t \in T, s \in S}
Cut(T, S) ==
  UNION {{[traits |-> t \cup {"cut"}, texts |-> s, left |-> n] : n \in 1 .. Len(BracesOf(t, s)) - 1} :
           t \in T, s \in S}

NoObject == [traits |-> {"no object"}, texts |-> <<>>, left |-> 0]
UpTo(n) ==
  {t \in SUBSET (Around \cup {"array"} \cup Inside1 \cup InTexts) : Cardinality(t) <= n}
Surroundings == SUBSET {"fence", "prose", "array"}

Responses ==
  {NoObject}
    \cup Uncut(UpTo(3), UNION {Plain(n) : n \in 1 .. MaxPerAnswer})
    \cup Uncut(Surroundings, TextsUpTo(MaxBraced))
    \cup Cut(UpTo(2), Plain(MaxBraced)) \cup Cut(SUBSET {"array"}, TextsUpTo(MaxBraced))

VARIABLES
  processing,  \* "new", "cleaning", "parsing", "validating", "ok" or "error"
  response,    \* until its entities are read
  cleaned,     \* the traits that it is left with, the same at every attempt
  candidates,  \* the entities it holds
  kept,        \* the entities of the result
  strictMode, attempts1, callerDone,
  because      \* "" or what the last attempt failed for

processingVars ==
  <<processing, response, cleaned, candidates, kept, strictMode, attempts1, callerDone, because>>

ProcessingTypeOK ==
  /\ processing \in {"new", "cleaning", "parsing", "validating", "ok", "error"}
  /\ response \in Responses
  /\ \A s \in {candidates, kept} : Len(s) <= MaxPerAnswer
  /\ strictMode \in BOOLEAN /\ callerDone \in BOOLEAN
  /\ attempts1 \in 0 .. MaxProcessing
  /\ because \in {"", "JSON", "validation", "context"}

ProcessingInit ==
  /\ processing = "new" /\ response = NoObject /\ cleaned = {}
  /\ candidates = <<>> /\ kept = <<>>
  /\ strictMode = FALSE /\ attempts1 = 0 /\ callerDone = FALSE /\ because = ""

-----------------------------------------------------------------------------
(* CleanResponse, step by step on the traits t and the braces s *)

Braces(r) == SubSeq(BracesOf(r.traits, r.texts), 1, r.left)
Opens(brace) == brace \in {"{", "open"}
InText(brace) == brace \in {"open", "close"}

\* How many more of the braces of s open than close; part is a piece of it.
Balance(s) ==
  LET opening == {i \in DOMAIN s : Opens(s[i])} IN 2 * Cardinality(opening) - Len(s)
Piece(s, part) == SubSeq(s, part[1], part[2])

\* Without its end a block is no block, and only its first line goes.
removeMarkdownBlocks(t) ==
  IF "fence" \notin t THEN t ELSE IF "cut" \in t THEN t \ {"fence"} ELSE t \ Around

removeExplanatoryText(t) == t \ {"known prefix"}

\* The structure that begins with the first brace or bracket ends where as many
\* have been closed, those in texts included; a bracket is only in an array.
Ends(t, s) ==
  IF "array" \in t THEN (IF "cut" \in t THEN {} ELSE {Len(s)})
  ELSE {i \in DOMAIN s : Balance(SubSeq(s, 1, i)) = 0}

\* What the regular expression matches: an object of objects without braces.
Matches(s) ==
  {p \in (DOMAIN s) \X (DOMAIN s) :
     /\ p[1] < p[2] /\ Opens(s[p[1]]) /\ ~Opens(s[p[2]]) /\ (p[2] - p[1]) % 2 = 1
     /\ \A k \in p[1] + 1 .. p[2] - 1 : Opens(s[k]) <=> (k - p[1]) % 2 = 1}
FoundAll(s) ==
  {p \in Matches(s) : \A q \in Matches(s) : q[1] <= p[1] /\ p[2] <= q[2] => q = p}

\* The parts it may return: without an end the longest of the matches, which any
\* of them can be, and without a match everything.
extractJSONStructure(t, s) ==
  LET ends == Ends(t, s) IN
  IF ends # {} THEN {<<1, CHOOSE i \in ends : \A j \in ends : i <= j>>}
  ELSE IF FoundAll(s) # {} THEN FoundAll(s) ELSE {<<1, Len(s)>>}

\* Braces in strings do not count here; what begins in a text takes texts for
\* structure and structure for texts.
ValidateJSONStructure(t, s) ==
  s # <<>> /\ t \cap {"prose", "no object"} = {}
    /\ Balance(SelectSeq(s, LAMBDA brace : InText(brace) = InText(s[1]))) = 0

\* A part of the object keeps what is in it of what the object had, and one from
\* within a text need not be JSON.
Extracted(t, s, part) ==
  IF ~ValidateJSONStructure(t \ {"prose"}, Piece(s, part)) THEN {t}
  ELSE IF part = <<1, Len(s)>> /\ "cut" \notin t THEN {t \ {"prose"}}
  ELSE {{"piece"} \cup u :
          u \in SUBSET ((t \cap (Inside1 \cup InTexts))
                          \cup IF InText(s[part[1]]) THEN {"broken"} ELSE {})}


\* What is cut off is never a structure: the object or the list is not closed.
ExtractIfNeeded(t, s) ==
  IF "cut" \notin t /\ ValidateJSONStructure(t, s) THEN {t}
  ELSE UNION {Extracted(t, s, part) : part \in extractJSONStructure(t, s)}

\* Every backslash before a quote goes, and a word before a colon is quoted, in
\* a text as well.
fixCommonJSONIssues(t) ==
  IF t \cap {"escaped quote", "comma word colon"} = {} THEN t \ {"trailing comma"}
  ELSE (t \ {"trailing comma"}) \cup {"broken"}

\* From the first "//" to the end of the text, if no line feed is between, and
\* block comments without a line feed: an address loses what follows, other
\* comments stay.
removeJSONComments(t) ==
  IF "address" \in t THEN t \cup {"lost"} ELSE t \ {"inline comment"}

\* Nothing is left unless it begins and ends like a structure.  What is cut off
\* may end so, but then does not parse.
finalCleanup(t) ==
  IF t \cap {"lost", "prose", "no object", "cut"} = {} THEN t ELSE {"lost"}

CleanResponse(r) ==
  {finalCleanup(removeJSONComments(fixCommonJSONIssues(t))) :
     t \in ExtractIfNeeded(removeExplanatoryText(removeMarkdownBlocks(r.traits)), Braces(r))}

CleanedAway == "lost" \in cleaned

\* The three formats that are tried are all objects, and an entity is one too.
Parses(t) == t \cap {"broken", "array", "comment"} = {}

-----------------------------------------------------------------------------
(* ValidateAndFilterEntities *)

Clamped(e) ==
  [e EXCEPT !.confidence = IF @ < 0 THEN 0 ELSE IF @ > 10 THEN 10 ELSE @]

validateSingleEntity(e) == e.valid /\ Clamped(e).confidence >= MinConfidence

AppendValid(passed, e) ==
  IF validateSingleEntity(e) THEN Append(passed, Clamped(e)) ELSE passed

Validated(es) == FoldLeft(AppendValid, <<>>, es)

\* Mutant of deduplicateEntities: the later entity replaces the earlier one.
deduplicateToLast(es) ==
  LET keep(unique, e) ==
        LET same == {i \in DOMAIN unique : unique[i].key = e.key} IN
        IF same = {} THEN Append(unique, e)
        ELSE [i \in DOMAIN unique |-> IF i \in same THEN e ELSE unique[i]] IN
  FoldLeft(keep, <<>>, es)

\* The entity with the higher confidence takes the place of the first one.
KeepBetter(unique, e) ==
  LET same == {i \in DOMAIN unique : unique[i].key = e.key} IN
  IF same = {} THEN Append(unique, e)
  ELSE [i \in DOMAIN unique |->
          IF i \in same /\ e.confidence > unique[i].confidence THEN e ELSE unique[i]]

deduplicateEntities(es) == FoldLeft(KeepBetter, <<>>, es)

\* The highest confidence first; the sort leaves equal ones in their order.
Precedes(es, i, j) ==
  \/ es[i].confidence > es[j].confidence
  \/ es[i].confidence = es[j].confidence /\ i <= j
Rank(es, j) == Cardinality({i \in DOMAIN es : Precedes(es, i, j)})
sortEntitiesByConfidence(es) ==
  [r \in DOMAIN es |-> es[CHOOSE j \in DOMAIN es : Rank(es, j) = r]]

Limited(es) ==
  IF Len(es) <= MaxEntities THEN es
  ELSE SubSeq(sortEntitiesByConfidence(es), 1, MaxEntities)

-----------------------------------------------------------------------------

ReceiveResponse ==
  \E r \in Responses, strict \in BOOLEAN :
    /\ processing = "new" /\ processing' = "cleaning"
    /\ response' = r /\ cleaned' \in CleanResponse(r) /\ strictMode' = strict
    /\ attempts1' = 1
    /\ UNCHANGED <<candidates, kept, callerDone, because>>

\* Only an answer without JSON is worth another attempt, which does the same.
shouldRetry(problem) == problem = "JSON" /\ attempts1 < MaxProcessing

AttemptFails(problem) ==
  /\ because' = problem
  /\ \/ shouldRetry(problem) /\ processing' = "cleaning" /\ attempts1' = attempts1 + 1
     \/ ~shouldRetry(problem) /\ processing' = "error" /\ attempts1' = MaxProcessing

Clean ==
  /\ processing = "cleaning"
  /\ \/ callerDone /\ AttemptFails("context")
     \/ ~callerDone /\ CleanedAway /\ AttemptFails("JSON")
     \/ ~callerDone /\ ~CleanedAway /\ processing' = "parsing"
        /\ UNCHANGED <<attempts1, because>>
  /\ UNCHANGED <<response, cleaned, candidates, kept, strictMode, callerDone>>

\* A piece of a response is parsed like the whole, and holds no entities.
Parse ==
  /\ processing = "parsing"
  /\ \/ ~Parses(cleaned) /\ AttemptFails("JSON") /\ UNCHANGED <<response, candidates>>
     \/ /\ Parses(cleaned) /\ processing' = "validating"
        /\ \/ "piece" \in cleaned /\ UNCHANGED <<response, candidates>>
           \/ /\ "piece" \notin cleaned /\ response' = NoObject
              /\ candidates' \in [DOMAIN response.texts -> Entities]
        /\ UNCHANGED <<attempts1, because>>
  /\ UNCHANGED <<cleaned, kept, strictMode, callerDone>>

AnyInvalid == \E i \in DOMAIN candidates : ~validateSingleEntity(candidates[i])

\* In strict mode an entity that is not valid fails the whole.
Validate ==
  /\ processing = "validating"
  /\ \/ strictMode /\ AnyInvalid /\ AttemptFails("validation") /\ UNCHANGED kept
     \/ /\ ~(strictMode /\ AnyInvalid)
        /\ kept' = Limited(deduplicateEntities(Validated(candidates)))
        /\ processing' = "ok" /\ UNCHANGED <<attempts1, because>>
  /\ UNCHANGED <<response, cleaned, candidates, strictMode, callerDone>>

CallerGivesUp ==
  /\ processing = "cleaning" /\ ~callerDone /\ callerDone' = TRUE
  /\ UNCHANGED <<processing, response, cleaned, candidates, kept, strictMode, attempts1, because>>

ProcessingNext == ReceiveResponse \/ Clean \/ Parse \/ Validate \/ CallerGivesUp

ProcessingSpec == ProcessingInit /\ [][ProcessingNext]_processingVars

-----------------------------------------------------------------------------
(* Properties *)

\* No two entities of a result have the same key; and one that passes but is not
\* in the result has given way to its like with at least its confidence, or to
\* MaxEntities others with at least its confidence.
KeptAreBest ==
  /\ ProcessingTypeOK
  /\ processing = "ok" =>
       /\ \A i, j \in DOMAIN kept : kept[i].key = kept[j].key => i = j
       /\ \A i \in DOMAIN candidates :
            LET e == Clamped(candidates[i]) IN
            validateSingleEntity(e) =>
              \/ \E k \in DOMAIN kept : kept[k].key = e.key /\ kept[k].confidence >= e.confidence
              \/ /\ Len(kept) = MaxEntities
                 /\ \A k \in DOMAIN kept : kept[k].confidence >= e.confidence

=============================================================================
