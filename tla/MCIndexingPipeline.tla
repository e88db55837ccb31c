------------------------- MODULE MCIndexingPipeline -------------------------
(* Instances of IndexingPipeline: versions of one document.                *)
EXTENDS IndexingPipeline, TLC

CONSTANT theDocument

MCDocumentOf == [v \in Version |-> theDocument]

Symmetry == Permutations(Worker)
=============================================================================
