------------------------- MODULE MCAnalysisPipeline -------------------------
(***************************************************************************)
(* AnalysisPipeline on small instances.  An instance has nine places for   *)
(* documents; to reach the last one, a run starts in one of two states     *)
(* that the specification reaches.  Either the first requests of the       *)
(* process have timed out before they were submitted, or they have been    *)
(* abandoned since and lie in all places but documentChan, while the       *)
(* deadlines of all the goroutines have run out.                           *)
(***************************************************************************)
EXTENDS AnalysisPipeline

CONSTANTS b1, b2, b3, b4, b5, b6, b7, b8   \* the first requests

Bygone == {b1, b2, b3, b4, b5, b6, b7, b8}

ASSUME PlacesAssumption == Bygone \subseteq Requests /\ Capacity = 9

Nobody ==
  /\ call = [c \in Callers |-> "idle"]
  /\ asked = [c \in Callers |-> NoRequest]
  /\ documentChan = <<>>

Bygones(how) == [r \in Requests |-> IF r \in Bygone THEN how ELSE "none"]

Unburdened ==
  /\ Nobody /\ outcome = Bygones("unsubmitted")
  /\ processingChan = <<>> /\ storageChan = <<>> /\ resultChan = <<>>
  /\ holding = [w \in StageWorkers |-> NoRequest]
  /\ deadline = [w \in StageWorkers |-> "none"]
  /\ parts = [r \in Requests |-> {}] /\ errors = [r \in Requests |-> {}]

Clogged ==
  /\ Nobody /\ outcome = Bygones("abandoned")
  /\ resultChan = <<b1>> /\ storageChan = <<b3>> /\ processingChan = <<b5>>
  /\ holding = [w \in StageWorkers |->
       CASE w \in Storers -> b2 [] w \in Processors -> b4
         [] w \in Extractors -> <<b6, b7, b8>>[w[2]]]
  /\ deadline = [w \in StageWorkers |-> "expired"]
  /\ parts = [r \in Requests |-> IF r \in {b1, b2, b3, b4, b5} THEN Parts ELSE {}]
  /\ errors = [r \in Requests |-> {}]

MCSpec == (Unburdened \/ Clogged) /\ [][Next]_vars /\ Fairness
=============================================================================
