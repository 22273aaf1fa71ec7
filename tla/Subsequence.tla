------------------------------ MODULE Subsequence ------------------------------
(***************************************************************************)
(* What Vec::retain leaves of a sequence: the elements that are in a set,  *)
(* in their order.                                                         *)
(***************************************************************************)
EXTENDS Naturals, Sequences

Elements(seq) == {seq[i] : i \in DOMAIN seq}

Within(seq, S) ==
  LET kept[n \in 0 .. Len(seq)] ==
        IF n = 0 THEN <<>>
        ELSE IF seq[n] \in S THEN Append(kept[n - 1], seq[n]) ELSE kept[n - 1]
  IN  kept[Len(seq)]

Without(seq, x) == Within(seq, Elements(seq) \ {x})
===============================================================================
