------------------------------ MODULE ListOps ------------------------------
(***************************************************************************)
(* What Python does with a list in one expression, as recursive functions: *)
(* its sum, and the comprehension that keeps some of its elements.         *)
(***************************************************************************)
EXTENDS Naturals, Sequences

\* sum(numbers).
Total(numbers) ==
    LET upTo[n \in 0..Len(numbers)] == IF n = 0 THEN 0 ELSE upTo[n - 1] + numbers[n]
    IN upTo[Len(numbers)]

\* [x for x in list if x in chosen].
Only(list, chosen) ==
    LET kept[n \in 0..Len(list)] ==
          IF n = 0 THEN <<>>
          ELSE IF list[n] \in chosen THEN Append(kept[n - 1], list[n]) ELSE kept[n - 1]
    IN kept[Len(list)]

=============================================================================
