----------------------------- MODULE MCDocuments -----------------------------
(***************************************************************************)
(* What happens to a document and to the answers about it: four components *)
(* that share no state, each on a small instance; the one chosen at the    *)
(* start runs, the others stay as they are.  The store is run twice: two   *)
(* processes that start, and the users of one of them.                     *)
(***************************************************************************)
EXTENDS DocumentStore, LLMExtraction, ResponseProcessing, ChunkedExtraction

OwnNames  == <<"documents", "entities">>
MetaNames == <<"documents", "metadata">>

\* One key three times, with offsets and confidences in and out of range.
SampleEntities ==
  {[key |-> "a", confidence |-> 5, valid |-> TRUE],
   [key |-> "a", confidence |-> 7, valid |-> TRUE],
   [key |-> "b", confidence |-> 12, valid |-> TRUE],
   [key |-> "b", confidence |-> 1, valid |-> TRUE],
   [key |-> "c", confidence |-> 6, valid |-> TRUE],
   [key |-> "c", confidence |-> 9, valid |-> FALSE]}

\* Overlaps smaller than a chunk, none, and larger than one.
SampleChunkConfigs ==
  {[max |-> 3, min |-> 1, overlap |-> 2], [max |-> 3, min |-> 2, overlap |-> 1],
   [max |-> 2, min |-> 1, overlap |-> 0], [max |-> 2, min |-> 2, overlap |-> 3]}

\* The answer that is asked for, with and without years, and all that differ from
\* it in one or two parts; what is no list of objects has no authors or years.
Parts ==
  [text |-> AnswerTexts, classification |-> {"string", "other"}, entities |-> {"other"},
   topics |-> {"string", "strings", "mixed", "other"}, citations |-> {"number", "other"},
   authors |-> {"other"}, volume |-> {"number"}, year |-> {"string"}, rest |-> {"other"}]

Altered(S) ==
  {IF v \in Parts[part] THEN [a EXCEPT ![part] = v] ELSE a :
     a \in S, part \in DOMAIN Parts, v \in UNION {Parts[p] : p \in DOMAIN Parts}}

SampleAnswers ==
  {a \in Altered(Altered({AsAsked, [AsAsked EXCEPT !.year = "none"]})) :
     a.citations # "objects" => a.authors = "strings" /\ a.volume = "string" /\ a.year = "none"}

VARIABLE component

Components == {"store start", "store use", "llm", "response", "chunks"}

Init ==
  /\ component \in Components
  /\ StoreInit /\ LLMInit /\ ProcessingInit /\ ChunkInit

\* Both processes start, fail and start again, and nobody uses them yet.
StoreStart == StoreNext /\ \A u \in Users : task'[u] = task[u]

\* One process, all of whose abandoned attempts have come to nothing.
StoreUse ==
  StoreNext /\ late' = {} /\ \A m \in Managers \ {Main} : task'[m] = task[m]

Next ==
  /\ UNCHANGED component
  /\ \/ /\ \/ component = "store start" /\ StoreStart
           \/ component = "store use" /\ StoreUse
        /\ UNCHANGED <<llmVars, processingVars, chunkVars>>
     \/ /\ component = "llm" /\ LLMNext
        /\ UNCHANGED <<storeVars, processingVars, chunkVars>>
     \/ /\ component = "response" /\ ProcessingNext
        /\ UNCHANGED <<storeVars, llmVars, chunkVars>>
     \/ /\ component = "chunks" /\ ChunkNext
        /\ UNCHANGED <<storeVars, llmVars, processingVars>>

allVars == <<component, storeVars, llmVars, processingVars, chunkVars>>

Spec ==
  Init /\ [][Next]_allVars /\ StoreFairness /\ LLMFairness /\ ChunkFairness

-----------------------------------------------------------------------------

\* Whatever the server and the LLM fail to answer, and however many chunks of a
\* document fail, every call to the store, every extraction of a document and
\* every extraction of a long text returns.
CallsReturn == StoreCallsReturn /\ LLMExtractionEnds /\ ExtractionEnds
=============================================================================
