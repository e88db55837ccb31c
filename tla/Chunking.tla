------------------------------- MODULE Chunking -------------------------------
(***************************************************************************)
(* The chunker: chunk_document of src/ingestion/chunker.py cuts the text   *)
(* of a section into overlapping windows, once into large ones that give   *)
(* the model its context and once into small ones that are embedded and    *)
(* retrieved, and gives every small one a large one.                       *)
(*                                                                         *)
(* A window is the pair of its bounds; its content is the text between     *)
(* them, stripped, so a character that is not blank is in the content      *)
(* exactly when it is between the bounds.                                  *)
(***************************************************************************)
EXTENDS Integers, Sequences

CONSTANTS MaxText,      \* bound: characters of a section
          WindowChars,  \* IT_CHUNK_MAX_CHARS
          OverlapChars, \* IT_CHUNK_OVERLAP_CHARS
          ChildChars    \* IT_CHUNK_CHILD_MAX_CHARS

ASSUME ChunkingAssumption == /\ MaxText \in Nat \ {0}
                             /\ WindowChars \in Nat \ {0}
                             /\ ChildChars \in Nat \ {0}
                             /\ OverlapChars \in 0..(WindowChars - 1)

VARIABLES text,      \* the section, a function of the offsets
          layout,    \* which windows are being cut, or "done"
          cursor,    \* start of the next window
          parents,   \* the large windows, in order
          chunks     \* the small windows with their parents, in order

chunkingVars == <<text, layout, cursor, parents, chunks>>

(* "stop" is the Chinese full stop.                                        *)
Character == {"letter", "stop", "newline", "space"}
Blank == {"newline", "space"}
Boundary == {"newline", "stop"}

Offsets == DOMAIN text
TextLength == CHOOSE n \in 0..MaxText : Offsets = 0..(n - 1)
Window == [start : 0..MaxText, end : 0..MaxText]

(* Lines are stripped, empty ones left out and the others joined.          *)
Normalized(t, n) ==
  /\ t[0] \notin Blank /\ t[n - 1] \notin Blank
  /\ \A p \in 1..(n - 2) : t[p] = "newline" =>
       t[p - 1] \notin Blank /\ t[p + 1] \notin Blank

ChunkingTypeOK ==
  /\ \E n \in 1..MaxText : text \in [0..(n - 1) -> Character]
  /\ layout \in {"parents", "children", "done"}
  /\ cursor \in 0..MaxText
  /\ parents \in Seq(Window)
  /\ chunks \in Seq([window : Window, parent : Window])

ChunkingInit == /\ \E n \in 1..MaxText : \E t \in [0..(n - 1) -> Character] :
                     Normalized(t, n) /\ text = t
                /\ layout = "parents"
                /\ cursor = 0
                /\ parents = <<>>
                /\ chunks = <<>>

-----------------------------------------------------------------------------
(* An operator X_Y before an operator X is X with a plausible mistake in   *)
(* it; no action uses it.                                                  *)

HasText(from, to) == \E p \in from..(to - 1) : text[p] \notin Blank

(* _split_windows, one turn of its loop: the window ends behind the last   *)
(* boundary in it, if that lies in its latter half.                        *)
Latter(from, to, size) ==
  {p \in from..(to - 1) : text[p] \in Boundary /\ p > from + size \div 2}

WindowEnd(from, size) ==
  IF from + size >= TextLength THEN TextLength
  ELSE LET latter == Latter(from, from + size, size) IN
       IF latter = {} THEN from + size
       ELSE 1 + CHOOSE p \in latter : \A q \in latter : q <= p

NextStart_WrongSign(from, to, overlap) ==
  IF to + overlap > from THEN to + overlap ELSE from + 1

NextStart(from, to, overlap) ==
  IF to - overlap > from THEN to - overlap ELSE from + 1

(* The first parent window with the start of the child in it or, if that   *)
(* is in a window that was blank, the first of those that share most.      *)
Shared(p, c) == (IF p.end < c.end THEN p.end ELSE c.end)
                  - (IF p.start > c.start THEN p.start ELSE c.start)

Holds(p, c) == p.start <= c.start /\ c.start < p.end

ParentOf(c) ==
  LET holding == {i \in DOMAIN parents : Holds(parents[i], c)}
      nearest == {i \in DOMAIN parents : \A k \in DOMAIN parents :
                    Shared(parents[k], c) <= Shared(parents[i], c)}
      candidates == IF holding # {} THEN holding ELSE nearest
  IN parents[CHOOSE i \in candidates : \A k \in candidates : i <= k]

(* The loop goes on behind the window, or ends with the text.              *)
Slide(window, overlap, next) ==
  IF window.end >= TextLength
  THEN cursor' = 0 /\ layout' = next
  ELSE cursor' = NextStart(window.start, window.end, overlap) /\ UNCHANGED layout

CutParent ==
  LET window == [start |-> cursor, end |-> WindowEnd(cursor, WindowChars)] IN
  /\ layout = "parents"
  /\ parents' = IF HasText(window.start, window.end) THEN Append(parents, window)
                                                     ELSE parents
  /\ Slide(window, OverlapChars, "children")
  /\ UNCHANGED <<text, chunks>>

(* Children overlap by a quarter of their size at most.                    *)
ChildOverlap == IF OverlapChars < ChildChars \div 4 THEN OverlapChars
                                                    ELSE ChildChars \div 4

CutChild ==
  LET window == [start |-> cursor, end |-> WindowEnd(cursor, ChildChars)] IN
  /\ layout = "children"
  /\ chunks' = IF HasText(window.start, window.end)
               THEN Append(chunks, [window |-> window, parent |-> ParentOf(window)])
               ELSE chunks
  /\ Slide(window, ChildOverlap, "done")
  /\ UNCHANGED <<text, parents>>

ChunkingNext == CutParent \/ CutChild

ChunkingSpec == ChunkingInit /\ [][ChunkingNext]_chunkingVars

-----------------------------------------------------------------------------
(* Properties.                                                             *)

Inside(p, w) == w.start <= p /\ p < w.end

(* Nothing of a text is lost to retrieval and nothing retrieved lacks its  *)
(* context: however boundaries shorten the windows and blanks empty them,  *)
(* every character that is not blank is in a chunk, the chunks keep to the *)
(* size that is embedded and advance through the text, and the context of  *)
(* each shares text with it (_split_windows and chunk_document).           *)
EveryCharacterIsRetrievable ==
  layout = "done" =>
    /\ \A p \in Offsets : text[p] \notin Blank =>
         \E i \in DOMAIN chunks : Inside(p, chunks[i].window)
    /\ \A i \in DOMAIN chunks : LET c == chunks[i] IN
         /\ c.window.end - c.window.start <= ChildChars
         /\ \A k \in 1..(i - 1) : chunks[k].window.start < c.window.start
         /\ \E p \in Offsets : Inside(p, c.window) /\ Inside(p, c.parent)
=============================================================================
