--------------------------- MODULE MCCanExchange ---------------------------
(* Requests of one to five frames; answers of one frame, of two, of four and  *)
(* of nineteen, where the sequence number has wrapped, and a refusal.         *)
EXTENDS CanExchange
McPayload(first, n) == [k \in 1..n |-> IF k = 1 THEN first ELSE first + k]
McRequests == {McPayload(34, n) : n \in {2, 8, 27, 34}}
McPreludes == {<<>>, <<[pci |-> Single, n |-> 3, data |-> <<5, 6, 7>>]>>,
               <<[pci |-> Single, n |-> 3, data |-> <<127, 34, 120>>]>>}
McAnswers == {McPayload(98, n) : n \in {3, 8, 27, 130}} \cup {<<127, 34, 49>>}
=============================================================================
