----------------------------- MODULE FortVector -----------------------------
(***************************************************************************)
(* The growing arrays libfort keeps everything in (fort.c, "vector.c"), as *)
(* sequences.  Positions count from 0, as in the code.  Memory never runs  *)
(* out; what was never written into an array is a Hole.                    *)
(***************************************************************************)
EXTENDS Integers, SequencesExt

CONSTANT Hole       \* the content of an element that was never written

vector_at(v, pos) == v[pos + 1]

vector_push(v, item) == Append(v, item)

(* Pushes `item` until the array has n elements. *)
PushedUpTo(v, n, item) == v \o [i \in 1..(n - Len(v)) |-> item]

vector_insert(v, item, pos) ==
  IF pos >= Len(v) THEN vector_push(PushedUpTo(v, pos, Hole), item)
                   ELSE InsertAt(v, pos + 1, item)

(* What vector_split leaves in the array, and the array it returns. *)
SplitHead(v, pos) == IF Len(v) > pos THEN SubSeq(v, 1, pos) ELSE v
SplitTail(v, pos) == SubSeq(v, pos + 1, Len(v))

(* `v` after vector_swap took the elements of `mv` in at `pos`. *)
vector_swap(v, mv, pos) ==
  IF mv = <<>> THEN v
  ELSE LET old == PushedUpTo(v, pos + Len(mv), Hole)
       IN  [i \in DOMAIN old |-> IF i \in pos + 1..pos + Len(mv) THEN mv[i - pos]
                                                                  ELSE old[i]]

(* `v` after vector_erase of every position in `gone`. *)
Erased(v, gone) ==
  FlattenSeq([i \in DOMAIN v |-> IF i - 1 \in gone THEN <<>> ELSE <<v[i]>>])
=============================================================================
