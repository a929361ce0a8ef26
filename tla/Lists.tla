------------------------------- MODULE Lists -------------------------------
(***************************************************************************)
(* Lists made from lists, as the iterators of the code make them.  Picked   *)
(* has a set of positions where SelectSeq has a test, and a recursive       *)
(* function for its definition, so that ListsProofs can say what it is.     *)
(***************************************************************************)
EXTENDS Naturals, Sequences

\* The elements of s at the positions in keep, in their order.
Picked(s, keep) ==
  LET upTo[i \in 0 .. Len(s)] ==
        IF i = 0 THEN <<>>
        ELSE IF i \in keep THEN Append(upTo[i - 1], s[i]) ELSE upTo[i - 1]
  IN  upTo[Len(s)]
=============================================================================
