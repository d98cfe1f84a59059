------------------------- MODULE MCOffloadingConnector -------------------------
(* Model-checking instances of OffloadingConnector. *)
EXTENDS OffloadingConnector

CONSTANTS r1, r2, r3, a, b, c, b1, b2, b3, b4, w1, w2

OneWorker == {w1}
TwoWorkers == {w1, w2}
TwoBlocks == {b1, b2}
ThreeBlocks == {b1, b2, b3}
FourBlocks == {b1, b2, b3, b4}
OneReq == {r1}
TwoReqs == {r1, r2}
ThreeReqs == {r1, r2, r3}
OneKey == {a}
TwoKeys == {a, b}
ThreeKeys == {a, b, c}

\* Two prompts that share their first block and differ in the second.
SharedPrefix == [r \in TwoReqs |-> IF r = r1 THEN <<a, b>> ELSE <<a, c>>]
\* A prompt and its prefix.
Nested == [r \in TwoReqs |-> IF r = r1 THEN <<a, b>> ELSE <<a>>]
\* A request alone, with one block or two.
Alone == [r \in OneReq |-> <<a>>]
AloneLonger == [r \in OneReq |-> <<a, b>>]
\* The same one-block prompt twice.
Same == [r \in TwoReqs |-> <<a>>]
\* Two unrelated one-block prompts, and a request with no full block.
Apart == [r \in ThreeReqs |-> CASE r = r1 -> <<a>> [] r = r2 -> <<b>> [] r = r3 -> <<>>]

BlockSymmetry == Permutations(Blocks)
=============================================================================
