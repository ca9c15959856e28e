------------------------------ MODULE Selection ------------------------------
(***************************************************************************)
(* The members of a sequence that lie in a set, in their order: SelectSeq  *)
(* for a set, as a recursive function, which the provers can unfold.       *)
(***************************************************************************)
EXTENDS Naturals, Sequences

Selected(s, keep) ==
  LET upto[i \in 0..Len(s)] == IF i = 0 THEN <<>>
                               ELSE IF s[i] \in keep THEN Append(upto[i - 1], s[i])
                               ELSE upto[i - 1]
  IN  upto[Len(s)]
===============================================================================
