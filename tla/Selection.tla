------------------------------- MODULE Selection -------------------------------
(* Choosing among the items of a sequence by their places, with a recursion over *)
(* how many of them were read.                                                   *)
EXTENDS Naturals, Sequences

\* The items at the places kept, in their order.
Where(items, kept) ==
  LET upTo[n \in 0..Len(items)] ==
        IF n = 0 THEN <<>>
        ELSE IF n \in kept THEN Append(upTo[n - 1], items[n]) ELSE upTo[n - 1]
  IN  upTo[Len(items)]
================================================================================
