-------------------------------- MODULE Lists --------------------------------
(***************************************************************************)
(* Array.filter, on sequences: what the library has for it, SelectSeq, is  *)
(* unknown to the provers.                                                 *)
(***************************************************************************)
EXTENDS SequencesExt

\* The elements of s that are in S, in their order.
Filtered(s, S) == FlattenSeq([i \in DOMAIN s |-> IF s[i] \in S THEN <<s[i]>> ELSE <<>>])
=============================================================================
