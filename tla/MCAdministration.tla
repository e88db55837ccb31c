-------------------------- MODULE MCAdministration --------------------------
(* The parts of the administration side that share no state in one run:    *)
(* the evaluation gate, retention, the langgraph engine, the chunker and   *)
(* the artifact service.                                                   *)
(* A behaviour is one of a single part; the variables of the others keep   *)
(* the value their own Init gives them.                                    *)
EXTENDS EvaluationGate, Retention, IndexingGraph, Chunking,
        ArtifactStore, TLC

CONSTANT MaxBoundaries  \* bound of the runs: line ends and stops in a text
VARIABLE part

adminVars == <<part, gateVars, retentionVars, graphVars, chunkingVars, artifactVars>>

(* A text of one letter is one of the chunker's initial states.            *)
ShortTextInit == /\ text = [p \in 0..0 |-> "letter"]
                 /\ layout = "parents"
                 /\ cursor = 0
                 /\ parents = <<>>
                 /\ chunks = <<>>

Boundaries == {p \in Offsets : text[p] \in Boundary}

AdminInit == /\ part \in {"gate", "retention", "graph", "chunking", "artifacts"}
             /\ GateInit
             /\ part # "gate" => goldenSet = [c \in GoldenCase |-> "absent"]
             /\ RetentionInit
             /\ GraphInit
             /\ IF part = "chunking"
                THEN ChunkingInit /\ Cardinality(Boundaries) <= MaxBoundaries
                ELSE ShortTextInit
             /\ ArtifactInit

AdminNext ==
  \/ /\ part = "gate" /\ GateNext
     /\ UNCHANGED <<part, retentionVars, graphVars, chunkingVars, artifactVars>>
  \/ /\ part = "retention" /\ RetentionNext
     /\ UNCHANGED <<part, gateVars, graphVars, chunkingVars, artifactVars>>
  \/ /\ part = "graph" /\ GraphNext
     /\ UNCHANGED <<part, gateVars, retentionVars, chunkingVars, artifactVars>>
  \/ /\ part = "chunking" /\ ChunkingNext
     /\ UNCHANGED <<part, gateVars, retentionVars, graphVars, artifactVars>>
  \/ /\ part = "artifacts" /\ ArtifactNext
     /\ UNCHANGED <<part, gateVars, retentionVars, graphVars, chunkingVars>>

AdminSpec == AdminInit /\ [][AdminNext]_adminVars

(* The types of the five parts' states. *)
AdminTypeOK == /\ GateTypeOK
               /\ RetentionTypeOK
               /\ GraphTypeOK
               /\ ChunkingTypeOK
               /\ ArtifactTypeOK

MCArtifactName == {<<0>>, <<0, 2>>}

MCSymmetry == Permutations(GoldenCase) \cup Permutations(GatedVersion) \cup
              Permutations(EvaluationRequest)
=============================================================================
