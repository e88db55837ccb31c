---------------------------- MODULE Publication ----------------------------
(***************************************************************************)
(* What the document store promises its readers and its operators, without *)
(* saying how.  Every document shows its readers at most one version, the  *)
(* live one.  Putting another version in its place is one step, and the    *)
(* version it replaces, like a version taken down, is retained: it can be  *)
(* put back as it is.  Only submitting it again, indexing it again or a    *)
(* failure recorded on it take a version out of that circuit.              *)
(*                                                                         *)
(* DocumentVersions implements this specification.                         *)
(***************************************************************************)

CONSTANTS Version,     \* the versions of all documents
          Document,    \* the documents
          DocumentOf   \* the document each version belongs to

VARIABLES live,        \* live[d]: the versions of d that searches return
          retained     \* retained[d]: the versions of d that can be put back

vars == <<live, retained>>

Init == /\ live = [d \in Document |-> {}]
        /\ retained = [d \in Document |-> {}]

(* One version takes the place of whatever its document was showing.       *)
Serve(v) == LET d == DocumentOf[v] IN
  /\ v \notin live[d]
  /\ live' = [live EXCEPT ![d] = {v}]
  /\ retained' = [retained EXCEPT ![d] = (@ \cup live[d]) \ {v}]

(* The live version is taken down; its document shows nothing.             *)
TakeDown(v) == LET d == DocumentOf[v] IN
  /\ v \in live[d]
  /\ live' = [live EXCEPT ![d] = @ \ {v}]
  /\ retained' = [retained EXCEPT ![d] = @ \cup {v}]

(* A version goes back to indexing, or is marked failed.                   *)
Reprocess(v) == LET d == DocumentOf[v] IN
  /\ v \in live[d] \cup retained[d]
  /\ live' = [live EXCEPT ![d] = @ \ {v}]
  /\ retained' = [retained EXCEPT ![d] = @ \ {v}]

Next == \E v \in Version : Serve(v) \/ TakeDown(v) \/ Reprocess(v)

Spec == Init /\ [][Next]_vars
=============================================================================
