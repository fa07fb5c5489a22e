------------------------- MODULE ChunkedExtraction -------------------------
(***************************************************************************)
(* The OptimizedExtractor (optimized_extractor.go) with its                *)
(* IntelligentChunker (intelligent_chunking.go): a call reserves memory    *)
(* for its document, splits one that is too long into chunks, extracts     *)
(* from all of them at once behind a semaphore, and merges what the chunks *)
(* that succeeded have given.                                              *)
(*                                                                         *)
(* Splitting touches nothing that is shared and is one step.  Left out:    *)
(* the entities, the cross references and the metrics, which the           *)
(* goroutines of a call write without a lock and nothing reads.  Goroutines *)
(* of one call differ only in their index: they are counted.               *)
(***************************************************************************)
EXTENDS Integers, Sequences, FiniteSets, FiniteSetsExt

CONSTANTS
  ExtractCalls,      \* concurrent calls of ExtractEntities
  LongCalls,         \* those whose document needs chunks
  LongDocument,      \* the length of such a document
  ChunkConfigs,      \* the [max, min, overlap] a chunker can be given
  MaxConcurrentChunks,
  MaxMemoryUsage,    \* in documents: all reserve the same
  MaxResets          \* bound: the calls of Reset

ASSUME ChunkAssumption ==
  /\ IsFiniteSet(ExtractCalls) /\ LongCalls \subseteq ExtractCalls
  /\ LongDocument \in Nat /\ ChunkConfigs # {}
  /\ \A g \in ChunkConfigs : /\ {g.max, g.min, g.overlap} \subseteq Nat
                             /\ 0 < g.min /\ g.min <= g.max /\ g.max < LongDocument
  /\ MaxConcurrentChunks \in Nat \ {0} /\ {MaxMemoryUsage, MaxResets} \subseteq Nat

VARIABLES
  extracting, \* where each call stands
  pieces,     \* the chunks it has just made, as pairs of offsets
  settings,   \* the configuration they were made with
  queued,     \* goroutines of the call that wait for the semaphore
  busy,       \* those that hold it
  good, bad,  \* chunks that were extracted, and that failed
  memoryUsage, resets,
  resetSaw    \* the usage Reset has read and is going to subtract

chunkVars == <<extracting, pieces, settings, queued, busy, good, bad,
               memoryUsage, resets, resetSaw>>
gangVars == <<queued, busy, good, bad>>
memoryVars == <<memoryUsage, resets, resetSaw>>

AnyConfig == CHOOSE g \in ChunkConfigs : TRUE

ChunkTypeOK ==
  /\ extracting \in [ExtractCalls ->
       {"new", "reserved", "single", "chunked", "working", "result", "failed", "ok", "error"}]
  /\ pieces \in [ExtractCalls -> Seq((0 .. LongDocument) \X (0 .. LongDocument))]
  /\ settings \in [ExtractCalls -> ChunkConfigs]
  /\ {queued[c] : c \in ExtractCalls} \cup {busy[c] : c \in ExtractCalls} \subseteq Nat
  /\ {good[c] : c \in ExtractCalls} \cup {bad[c] : c \in ExtractCalls} \subseteq Nat
  /\ memoryUsage \in 0 .. Cardinality(ExtractCalls)
  /\ resets \in 0 .. MaxResets /\ resetSaw \in -1 .. Cardinality(ExtractCalls)

ChunkInit ==
  /\ extracting = [c \in ExtractCalls |-> "new"]
  /\ pieces = [c \in ExtractCalls |-> <<>>]
  /\ settings = [c \in ExtractCalls |-> AnyConfig]
  /\ queued = [c \in ExtractCalls |-> 0] /\ busy = [c \in ExtractCalls |-> 0]
  /\ good = [c \in ExtractCalls |-> 0] /\ bad = [c \in ExtractCalls |-> 0]
  /\ memoryUsage = 0 /\ resets = 0 /\ resetSaw = -1

-----------------------------------------------------------------------------
(* The chunks of a document, given the boundaries found in it *)

Least(a, b) == IF a < b THEN a ELSE b
Greatest(a, b) == IF a > b THEN a ELSE b

\* The first boundary in reach, or as much as a chunk can hold.
findOptimalChunkEnd(start, boundaries, g) ==
  LET maxEnd == Least(start + g.max, LongDocument)
      minEnd == Least(start + g.min, LongDocument)
      inReach == {b \in boundaries : minEnd <= b /\ b <= maxEnd} IN
  IF inReach = {} THEN maxEnd ELSE Min(inReach)

\* Mutant of nextIntelligent: the overlap is added.
nextIntelligentBeyond(start, end, g) ==
  IF g.overlap > 0 /\ end < LongDocument THEN Greatest(start + g.min, end + g.overlap) ELSE end

nextIntelligent(start, end, g) ==
  IF g.overlap > 0 /\ end < LongDocument THEN Greatest(start + g.min, end - g.overlap) ELSE end

\* Chunk n starts where chunk n - 1 and the overlap leave off; the length of the
\* document means that there is none.
intelligentChunking(boundaries, g) ==
  LET end(start) == findOptimalChunkEnd(start, boundaries, g)
      starts[n \in Nat] ==
        IF n = 0 THEN 0
        ELSE IF starts[n - 1] = LongDocument THEN LongDocument
        ELSE nextIntelligent(starts[n - 1], end(starts[n - 1]), g)
      count == Min({n \in 1 .. LongDocument : starts[n] = LongDocument}) IN
  [n \in 1 .. count |-> <<starts[n - 1], end(starts[n - 1])>>]

\* The overlap is dropped where it would not let the next chunk move on.
overlappingChunking(g) ==
  LET end(start) == Least(start + g.max, LongDocument)
      starts[n \in Nat] ==
        IF n = 0 THEN 0
        ELSE LET start == starts[n - 1] IN
          IF end(start) = LongDocument THEN LongDocument
          ELSE IF end(start) - g.overlap <= start THEN end(start) ELSE end(start) - g.overlap
      count == Min({n \in 1 .. LongDocument : starts[n] = LongDocument}) IN
  [n \in 1 .. count |-> <<starts[n - 1], end(starts[n - 1])>>]

fixedChunking(g) ==
  [n \in 1 .. ((LongDocument + g.max - 1) \div g.max) |->
     <<(n - 1) * g.max, Least(n * g.max, LongDocument)>>]

\* With "none" as the strategy too the chunks are intelligent; semantic ones are
\* overlapping.
ChunkingsOf(g) ==
  {intelligentChunking(b, g) : b \in SUBSET (1 .. LongDocument)}
    \cup {overlappingChunking(g), fixedChunking(g)}
Chunkings == UNION {{<<g, p>> : p \in ChunkingsOf(g)} : g \in ChunkConfigs}

-----------------------------------------------------------------------------
(* ExtractEntities *)

Extracts1(c, from, to) ==
  extracting[c] = from /\ extracting' = [extracting EXCEPT ![c] = to]

updateMemoryUsage(delta) ==
  memoryUsage' = Greatest(0, memoryUsage + delta) /\ UNCHANGED <<resets, resetSaw>>

Reserve(c) ==
  /\ Extracts1(c, "new", "reserved")
  /\ updateMemoryUsage(1)
  /\ UNCHANGED <<pieces, settings, gangVars>>

\* Mutant of MemoryExceeded: what was reserved is not given back.
MemoryExceededKept(c) ==
  /\ memoryUsage > MaxMemoryUsage
  /\ Extracts1(c, "reserved", "error")
  /\ UNCHANGED <<memoryUsage, pieces, settings, gangVars, resets, resetSaw>>

\* checkMemoryLimits: what this and all other calls have reserved is too much.
MemoryExceeded(c) ==
  /\ memoryUsage > MaxMemoryUsage
  /\ Extracts1(c, "reserved", "error")
  /\ updateMemoryUsage(-1)
  /\ UNCHANGED <<pieces, settings, gangVars>>

\* A short document.
Single(c) ==
  /\ c \notin LongCalls /\ memoryUsage <= MaxMemoryUsage
  /\ Extracts1(c, "reserved", "single")
  /\ UNCHANGED <<pieces, settings, gangVars, memoryVars>>

ChunkDocument(c) ==
  /\ memoryUsage <= MaxMemoryUsage
  /\ Extracts1(c, "reserved", "chunked")
  /\ c \in LongCalls
  /\ \E made \in Chunkings :
       /\ settings' = [settings EXCEPT ![c] = made[1]]
       /\ pieces' = [pieces EXCEPT ![c] = made[2]]
  /\ UNCHANGED <<gangVars, memoryVars>>

\* A goroutine for each chunk; what is in the chunks plays no role any more.
Launch(c) ==
  /\ Extracts1(c, "chunked", "working")
  /\ queued' = [queued EXCEPT ![c] = Len(pieces[c])]
  /\ pieces' = [pieces EXCEPT ![c] = <<>>]
  /\ settings' = [settings EXCEPT ![c] = AnyConfig]
  /\ UNCHANGED <<busy, good, bad, memoryVars>>

Acquire(c) ==
  /\ queued[c] > 0 /\ busy[c] < MaxConcurrentChunks
  /\ queued' = [queued EXCEPT ![c] = @ - 1] /\ busy' = [busy EXCEPT ![c] = @ + 1]
  /\ UNCHANGED <<extracting, pieces, settings, good, bad, memoryVars>>

\* processChunk returns; it gives its place up however it ended.
ChunkDone(c) ==
  /\ busy[c] > 0
  /\ busy' = [busy EXCEPT ![c] = @ - 1]
  /\ \/ good' = [good EXCEPT ![c] = @ + 1] /\ UNCHANGED bad
     \/ bad' = [bad EXCEPT ![c] = @ + 1] /\ UNCHANGED good
  /\ UNCHANGED <<extracting, pieces, settings, queued, memoryVars>>

\* After wg.Wait: chunks that failed are left out, unless all did.
mergeChunkResults(c) ==
  /\ queued[c] = 0 /\ busy[c] = 0
  /\ Extracts1(c, "working", IF good[c] = 0 THEN "failed" ELSE "result")
  /\ UNCHANGED <<pieces, settings, gangVars, memoryVars>>

processSingleDocument(c) ==
  /\ Extracts1(c, "single", "result") \/ Extracts1(c, "single", "failed")
  /\ UNCHANGED <<pieces, settings, gangVars, memoryVars>>

\* The deferred call that gives the memory back.
Release(c) ==
  /\ Extracts1(c, "result", "ok") \/ Extracts1(c, "failed", "error")
  /\ updateMemoryUsage(-1)
  /\ UNCHANGED <<pieces, settings, gangVars>>

\* Reset reads the usage and subtracts it later.
ResetReads ==
  /\ resetSaw = -1 /\ resets < MaxResets
  /\ resetSaw' = memoryUsage /\ resets' = resets + 1
  /\ UNCHANGED <<extracting, pieces, settings, gangVars, memoryUsage>>
ResetSubtracts ==
  /\ resetSaw # -1 /\ resetSaw' = -1
  /\ memoryUsage' = Greatest(0, memoryUsage - resetSaw)
  /\ UNCHANGED <<extracting, pieces, settings, gangVars, resets>>

ExtractStep(c) ==
  \/ MemoryExceeded(c) \/ Single(c) \/ ChunkDocument(c) \/ Launch(c)
  \/ Acquire(c) \/ ChunkDone(c) \/ mergeChunkResults(c)
  \/ processSingleDocument(c) \/ Release(c)

ChunkNext ==
  \/ \E c \in ExtractCalls : Reserve(c) \/ ExtractStep(c)
  \/ ResetReads \/ ResetSubtracts

\* The base extractor returns.
ChunkFairness == \A c \in ExtractCalls : WF_chunkVars(ExtractStep(c))
ChunkSpec == ChunkInit /\ [][ChunkNext]_chunkVars /\ ChunkFairness

-----------------------------------------------------------------------------
(* Properties *)

\* Whatever the boundaries, the overlap and the strategy, the chunks cover the
\* document without a gap, none is larger than allowed, and each one begins
\* after the one before it and goes further: the loop ends.
NothingLost ==
  /\ ChunkTypeOK
  /\ \A c \in ExtractCalls : extracting[c] = "chunked" =>
       LET p == pieces[c] IN
       /\ p[1][1] = 0 /\ p[Len(p)][2] = LongDocument
       /\ \A i \in DOMAIN p : p[i][1] < p[i][2] /\ p[i][2] - p[i][1] <= settings[c].max
       /\ \A i \in 2 .. Len(p) : p[i - 1][1] < p[i][1] /\ p[i][1] <= p[i - 1][2]

Inside == {c \in ExtractCalls : extracting[c] \notin {"new", "ok", "error"}}

\* The memory that is reserved is that of the calls that are going on: refused
\* and failed ones have given theirs back.  A Reset in between leaves less, never
\* more.  A call that answers has tried all of its chunks, never more at once
\* than the semaphore lets in.
MemoryIsGivenBack ==
  /\ memoryUsage <= Cardinality(Inside)
  /\ resets = 0 => memoryUsage = Cardinality(Inside)
  /\ \A c \in ExtractCalls : /\ busy[c] <= MaxConcurrentChunks
                             /\ extracting[c] = "ok" => queued[c] + busy[c] = 0

\* Every call ends, however many of its chunks fail.
ExtractionEnds ==
  \A c \in ExtractCalls : extracting[c] = "reserved" ~> extracting[c] \in {"ok", "error"}
=============================================================================
