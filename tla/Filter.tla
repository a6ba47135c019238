------------------------------ MODULE Filter ------------------------------
(***************************************************************************)
(* SelectSeq with a set for its test, written as a recursive function: the *)
(* definition in the standard module is one that proofs cannot follow.     *)
(***************************************************************************)
EXTENDS Integers, Sequences

\* The elements of s that are in T, in their order.
Only(s, T) ==
  LET kept[n \in 0 .. Len(s)] ==
        IF n = 0 THEN <<>>
        ELSE IF s[n] \in T THEN Append(kept[n - 1], s[n]) ELSE kept[n - 1]
  IN kept[Len(s)]
=============================================================================
