----------------------------- MODULE Subsequences -----------------------------
(***************************************************************************)
(* The elements of a sequence at the positions of a set, in their order:   *)
(* what a loop over the sequence keeps when it passes over the others.     *)
(* SelectSeq of the standard modules decides by the element, this operator *)
(* by the position; and it is a recursive function, about which the        *)
(* provers can be told everything.                                         *)
(***************************************************************************)
EXTENDS Naturals, Sequences

Pick(s, I) ==
  LET picked[n \in 0 .. Len(s)] ==
        IF n = 0 THEN <<>>
        ELSE IF n \in I THEN Append(picked[n - 1], s[n])
        ELSE picked[n - 1]
  IN  picked[Len(s)]

=============================================================================
