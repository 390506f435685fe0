---------------------------- MODULE EmbedBatches ----------------------------
(***************************************************************************)
(* How embed_documents cuts the texts of one call into requests: greedily, *)
(* in order, under a cap on texts and a cap on estimated tokens.           *)
(*                                                                         *)
(* `tokens` gives the estimate for each text, and caps.texts and           *)
(* caps.tokens stand for _MAX_BATCH_TEXTS and _MAX_BATCH_TOKENS.           *)
(***************************************************************************)
EXTENDS Naturals, Sequences, SequencesExt, ListOps

\* Whole tokens, and never none.
EstimateTokens(length, charsPerToken) ==
    LET tokens == length \div charsPerToken IN IF tokens = 0 THEN 1 ELSE tokens

TokensOf(texts, tokens) == Total([i \in DOMAIN texts |-> tokens[texts[i]]])

\* Slip: a text too many.
OneTextMore(acc, cost, caps) ==
    /\ acc.current # <<>>
    /\ \/ Len(acc.current) > caps.texts
       \/ acc.tokens + cost > caps.tokens

\* An empty batch takes any text, however long.
Overflows(acc, cost, caps) ==
    /\ acc.current # <<>>
    /\ \/ Len(acc.current) >= caps.texts
       \/ acc.tokens + cost > caps.tokens

\* One turn of the loop: a text that does not fit closes the current batch.
AddText(acc, text, cost, caps) ==
    IF Overflows(acc, cost, caps)
       THEN [batches |-> Append(acc.batches, acc.current),
             current |-> <<text>>, tokens |-> cost]
       ELSE [acc EXCEPT !.current = Append(@, text), !.tokens = @ + cost]

\* What the loop has gathered after each text.
Turns(texts, tokens, caps) ==
    LET acc[n \in 0..Len(texts)] ==
          IF n = 0 THEN [batches |-> <<>>, current |-> <<>>, tokens |-> 0]
                   ELSE AddText(acc[n - 1], texts[n], tokens[texts[n]], caps)
    IN acc

IterBatches(texts, tokens, caps) ==
    LET acc == Turns(texts, tokens, caps)[Len(texts)]
    IN IF acc.current = <<>> THEN acc.batches ELSE Append(acc.batches, acc.current)

=============================================================================
