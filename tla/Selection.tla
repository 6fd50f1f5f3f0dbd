----------------------------- MODULE Selection -----------------------------
(* What removing elements leaves of a sequence.  It is a recursive         *)
(* function rather than SelectSeq, so that it can be proved about: the     *)
(* prover knows nothing of SelectSeq.                                      *)
EXTENDS Naturals, Sequences

(* The elements of s that are in keep, in the order of s. *)
Only(s, keep) ==
  LET only[n \in 0 .. Len(s)] ==
        IF n = 0 THEN <<>> ELSE IF s[n] \in keep THEN Append(only[n - 1], s[n]) ELSE only[n - 1]
  IN  only[Len(s)]
=============================================================================
