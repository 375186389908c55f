------------------------------- MODULE Selection -------------------------------
(***************************************************************************)
(* What a filter leaves of a list.                                         *)
(***************************************************************************)
EXTENDS Sequences, SequencesExt

(* What of a sequence is in S, in its order.                               *)
Only(s, S) == FoldLeft(LAMBDA r, x : IF x \in S THEN Append(r, x) ELSE r, <<>>, s)
================================================================================
