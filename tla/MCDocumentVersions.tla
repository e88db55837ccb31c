------------------------- MODULE MCDocumentVersions -------------------------
(* Instance of DocumentVersions: one document with three versions.         *)
EXTENDS DocumentVersions, TLC

CONSTANTS d1, a1, a2, a3

MCDocumentOf == [v \in {a1, a2, a3} |-> d1]

Symmetry == Permutations({a1, a2, a3})
=============================================================================
