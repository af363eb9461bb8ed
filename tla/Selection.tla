----------------------------- MODULE Selection -----------------------------
(***************************************************************************)
(* The elements of a sequence that lie in a set, in their order: SelectSeq *)
(* as a recursive function.                                                *)
(***************************************************************************)
EXTENDS Naturals, Sequences

\* Those among the first n elements of s.
OnlyUpTo(s, S, n) ==
  LET only[k \in 0 .. n] ==
        IF k = 0 THEN <<>>
          ELSE IF s[k] \in S THEN Append(only[k - 1], s[k]) ELSE only[k - 1]
  IN  only[n]

Only(s, S) == OnlyUpTo(s, S, Len(s))
=============================================================================
