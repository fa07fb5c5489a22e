--------------------------- MODULE LLMExtraction ---------------------------
(***************************************************************************)
(* What one document costs at the LLM: the extraction stage runs the       *)
(* unified extractor and, as its fallback, one extractor per part          *)
(* (analyzers/pipeline.go); each of them is the same unified extraction    *)
(* (extractors/llm_entity.go, llm_citation.go, llm_topic.go), which asks   *)
(* the LLM twice (llm_unified_extractor.go), each time with the retries of *)
(* clients/llm.go; and the second answer is parsed and, when that fails,   *)
(* healed and parsed again (llm_prompts.go).                               *)
(*                                                                         *)
(* An answer is a record of what the parser tells apart: what stands where *)
(* a part of the answer should.  Prompts, confidences and the              *)
(* unsynchronised metrics are left out.                                    *)
(***************************************************************************)
EXTENDS Naturals, Sequences

CONSTANTS LLMRetries,   \* maxRetries of the client
          LLMAnswers    \* what the LLM can answer

VARIABLES toRun,        \* the extractors still to run, the current one first
          asking,       \* the call of the current extractor to the LLM
          understood,   \* the answer to the analysis and whether it was parsed
          deadlineGone, \* AnalysisTimeout is over
          lateTries,    \* requests attempted after that
          extracted,    \* the extractors that gave a result
          extractErrors \* the extractors that failed, in order

llmVars == <<toRun, asking, understood, deadlineGone, lateTries, extracted,
             extractErrors>>

Extractor == {"unified", "entities", "citations", "topics"}
IfEnabled(enabled, extractor) == IF enabled THEN <<extractor>> ELSE <<>>
NotAsking == [phase |-> "idle", purpose |-> "none", attempt |-> 0]
Try(purpose, n) == [phase |-> "trying", purpose |-> purpose, attempt |-> n]

(* The text of an answer: the JSON object alone or among other words,      *)
(* nothing of the kind, an object cut off, an object followed by a list    *)
(* with a stray closing brace or with braces of its own.                   *)
AnswerTexts == {"whole", "nothing", "cut", "stray", "braces"}

(* "other" is a value of any type that is neither the one asked for nor    *)
(* one of those named; "mixed" topics are a list in which some are strings *)
(* or objects and others are neither.  Authors, volume (issue and pages    *)
(* are alike) and year are those of the citations; rest is every other     *)
(* part, the summary or the confidence of a topic.                         *)
AnswerForms ==
  [text : AnswerTexts, classification : {"object", "string", "other"},
   entities : {"objects", "other"},
   topics : {"objects", "string", "strings", "mixed", "other"},
   citations : {"objects", "number", "other"}, authors : {"strings", "other"},
   volume : {"string", "number"}, year : {"none", "string", "number"},
   rest : {"fits", "other"}]

AsAsked ==
  [text |-> "whole", classification |-> "object", entities |-> "objects",
   topics |-> "objects", citations |-> "objects", authors |-> "strings",
   volume |-> "string", year |-> "number", rest |-> "fits"]

ASSUME LLMAssumption == LLMRetries \in Nat /\ LLMAnswers \subseteq AnswerForms

----------------------------------------------------------------------------
(* Parsing: the struct takes an object of the right types only.            *)
FitsStruct(a) ==
  /\ \A part \in (DOMAIN a) \ {"year"} : a[part] = AsAsked[part]
  /\ a.year # "string"

(* What follows a list mark is cut off at the last place where the braces  *)
(* balance.  A truncated object is never completed: extractJSON has left   *)
(* nothing that does not end with a brace.                                 *)
fixTruncatedJSON(a) == IF a.text = "stray" THEN [a EXCEPT !.text = "whole"] ELSE a

Mended(value, wrong, right) == IF value \in wrong THEN right ELSE value

\* Mutant of healJSONResponse: the numbers of a citation stay numbers.
healObjectsOnly(a) ==
  [a EXCEPT !.classification = Mended(@, {"string"}, "object"),
            !.topics = Mended(@, {"string", "strings", "mixed"}, "objects"),
            !.citations = Mended(@, {"number"}, "objects")]

(* Mixed topics lose those that are neither strings nor objects; a list    *)
(* without either stays as it is, like everything else not named here.     *)
healJSONResponse(a) ==
  [a EXCEPT !.classification = Mended(@, {"string"}, "object"),
            !.topics = Mended(@, {"string", "strings", "mixed"}, "objects"),
            !.citations = Mended(@, {"number"}, "objects"),
            !.volume = Mended(@, {"number"}, "string"),
            !.year = Mended(@, {"number"}, "string")]

parseUnifiedResponse(a) ==
  \/ FitsStruct(a)
  \/ LET fixed == fixTruncatedJSON(a)
     IN fixed.text = "whole" /\ FitsStruct(healJSONResponse(fixed))

Understandings == {<<a, parseUnifiedResponse(a)>> : a \in LLMAnswers}

----------------------------------------------------------------------------
LLMInit ==
  /\ toRun = <<>> /\ asking = NotAsking /\ understood = <<>>
  /\ deadlineGone = FALSE /\ lateTries = 0
  /\ extracted = {} /\ extractErrors = <<>>

(* The configuration of the document decides which extractors may run: the *)
(* individual ones after the unified one only if the fallback is enabled.  *)
PlanExtraction ==
  /\ toRun = <<>> /\ extracted = {} /\ extractErrors = <<>>
  /\ \E unified, fallback, entities, citations, topics \in BOOLEAN :
       toRun' = IfEnabled(unified, "unified")
                \o (IF unified /\ ~fallback THEN <<>>
                    ELSE IfEnabled(entities, "entities")
                         \o IfEnabled(citations, "citations") \o IfEnabled(topics, "topics"))
  /\ UNCHANGED <<asking, understood, deadlineGone, lateTries, extracted,
                 extractErrors>>

CountLate == lateTries' = IF deadlineGone THEN lateTries + 1 ELSE lateTries

(* ExtractAll first classifies the document.                               *)
StartExtractor ==
  /\ toRun # <<>> /\ asking.phase = "idle"
  /\ asking' = Try("classify", 0)
  /\ understood' = <<>>
  /\ CountLate
  /\ UNCHANGED <<toRun, deadlineGone, extracted, extractErrors>>

ExtractorFails ==
  /\ toRun' = Tail(toRun)
  /\ asking' = NotAsking
  /\ extractErrors' = Append(extractErrors, Head(toRun))

\* Mutant of LLMAttemptFails: the wait does not look at the context.
LLMAttemptFailsBlindly ==
  /\ asking.phase = "trying"
  /\ IF asking.attempt >= LLMRetries
     THEN ExtractorFails
     ELSE /\ asking' = [asking EXCEPT !.phase = "waiting"]
          /\ UNCHANGED <<toRun, extractErrors>>
  /\ UNCHANGED <<understood, deadlineGone, lateTries, extracted>>

(* After the last attempt, or when the wait before the next finds the      *)
(* context done, the call fails.                                           *)
LLMAttemptFails ==
  /\ asking.phase = "trying"
  /\ IF asking.attempt >= LLMRetries \/ deadlineGone
     THEN ExtractorFails
     ELSE /\ asking' = [asking EXCEPT !.phase = "waiting"]
          /\ UNCHANGED <<toRun, extractErrors>>
  /\ UNCHANGED <<understood, deadlineGone, lateTries, extracted>>

(* The timer of the backoff fires, or the context ends the wait.           *)
BackoffOver ==
  /\ asking.phase = "waiting"
  /\ asking' = Try(asking.purpose, asking.attempt + 1)
  /\ CountLate
  /\ UNCHANGED <<toRun, understood, deadlineGone, extracted, extractErrors>>

BackoffCancelled ==
  /\ asking.phase = "waiting" /\ deadlineGone
  /\ ExtractorFails
  /\ UNCHANGED <<understood, deadlineGone, lateTries, extracted>>

(* Whatever the classification says, or fails to say, the analysis follows.*)
Classified ==
  /\ asking.phase = "trying" /\ asking.purpose = "classify" /\ ~deadlineGone
  /\ asking' = Try("analyze", 0)
  /\ UNCHANGED <<toRun, understood, deadlineGone, lateTries, extracted,
                 extractErrors>>

(* A unified result makes the individual extractors superfluous.           *)
Analyzed ==
  /\ asking.phase = "trying" /\ asking.purpose = "analyze" /\ ~deadlineGone
  /\ understood' \in Understandings
  /\ IF understood'[2]
     THEN /\ extracted' = extracted \cup {Head(toRun)}
          /\ toRun' = IF Head(toRun) = "unified" THEN <<>> ELSE Tail(toRun)
          /\ asking' = NotAsking
          /\ UNCHANGED extractErrors
     ELSE ExtractorFails /\ UNCHANGED extracted
  /\ UNCHANGED <<deadlineGone, lateTries>>

DeadlineGoes ==
  /\ toRun # <<>> /\ ~deadlineGone
  /\ deadlineGone' = TRUE
  /\ UNCHANGED <<toRun, asking, understood, lateTries, extracted, extractErrors>>

LLMStep == StartExtractor \/ LLMAttemptFails \/ BackoffOver
           \/ BackoffCancelled
           \/ Classified \/ Analyzed

LLMNext == PlanExtraction \/ LLMStep \/ DeadlineGoes

(* The stage goroutine goes on, and the timeout of the HTTP client ends    *)
(* every attempt; nothing says that one succeeds.                          *)
LLMFairness == WF_llmVars(LLMStep)

LLMSpec == LLMInit /\ [][LLMNext]_llmVars /\ LLMFairness

----------------------------------------------------------------------------
LLMTypeOK ==
  /\ toRun \in Seq(Extractor)
  /\ asking \in [phase : {"idle", "trying", "waiting"},
                 purpose : {"none", "classify", "analyze"}, attempt : 0..LLMRetries]
  /\ understood = <<>> \/ understood \in LLMAnswers \X BOOLEAN
  /\ deadlineGone \in BOOLEAN
  /\ lateTries \in Nat
  /\ extracted \subseteq Extractor
  /\ extractErrors \in Seq(Extractor)

Amiss(a) == {part \in DOMAIN a : a[part] \notin {AsAsked[part], "none"}}
Repairable(a) ==
  a.text \in {"whole", "stray"} /\ "other" \notin {a[part] : part \in DOMAIN a}

(* Healing repairs a stray brace, a classification or topics given as      *)
(* strings, citations given as a number and the numbers of a citation, all *)
(* of them at once, and nothing else: an answer with any other mismatch is *)
(* lost, and so is one with a year as soon as anything is to be repaired,  *)
(* as the year becomes a string too, which the struct declares as a number *)
(* (healJSONResponse, parseUnifiedResponse).                               *)
YearsDefeatHealing ==
  understood # <<>> =>
    LET a == understood[1]
    IN understood[2] <=>
         Repairable(a) /\ (a.year = "none" \/ (a.year = "number" /\ Amiss(a) = {}))

(* Once the deadline of the document is over no extractor asks the LLM     *)
(* more than once: an extraction does not run through its retries, though  *)
(* every extractor of the fallback still tries (makeRequest).              *)
OneTryAfterDeadline ==
  /\ LLMTypeOK
  /\ lateTries <= Len(extractErrors) + (IF asking.phase = "idle" THEN 0 ELSE 1)

(* An extraction ends, with a result or an error of every extractor that   *)
(* ran, however often the LLM fails (makeRequest, runExtractionStage).     *)
LLMExtractionEnds == toRun # <<>> ~> toRun = <<>>
============================================================================
