------------------------------- MODULE Lists -------------------------------
(***************************************************************************)
(* What the pages do with arrays of events and messages: slice(-n) and     *)
(* filter.  Filter is SelectSeq with a set for the test, written as a      *)
(* recursive function so that proofs can reason about it.                  *)
(***************************************************************************)
EXTENDS Integers, Sequences

LastN(s, n) == IF Len(s) <= n THEN s ELSE SubSeq(s, Len(s) - n + 1, Len(s))

(* The elements of s that are in T, in their order. *)
Filter(s, T) ==
    LET upTo[n \in 0 .. Len(s)] ==
          IF n = 0 THEN <<>>
          ELSE IF s[n] \in T THEN Append(upTo[n - 1], s[n]) ELSE upTo[n - 1]
    IN  upTo[Len(s)]
=============================================================================
