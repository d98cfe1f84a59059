---------------------------- MODULE MCPrefixCache ----------------------------
(* Model-checking instances of PrefixCache. *)
EXTENDS PrefixCache

CONSTANTS r1, r2

TwoReqs == {r1, r2}

\* Mamba blocks of 8 tokens, chunks of at most 5: every block is filled in
\* several steps, as in the shipped configuration.
Narrow(text, prompt, common, eagle, dropUnits, preempts, evictions) ==
    [text |-> text, prompt |-> prompt, common |-> common, eagle |-> eagle,
     dropUnits |-> dropUnits, maxTokens |-> 5, budgets |-> {3, 5},
     preempts |-> preempts, evictions |-> evictions]

\* Chunks wider than a block.
Wide(text, prompt, common, eagle, preempts, evictions) ==
    [Narrow(text, prompt, common, eagle, 1, preempts, evictions)
       EXCEPT !.maxTokens = 20, !.budgets = {7, 20}]

Same == [r \in TwoReqs |-> "x"]
Differ == [r \in TwoReqs |-> IF r = r1 THEN "x" ELSE "y"]
Lengths(m, n) == [r \in TwoReqs |-> IF r = r1 THEN m ELSE n]

MCWorkloads ==
    {Narrow(Same, Lengths(11, 11), 0, FALSE, 1, 1, 0),
     Narrow(Same, Lengths(13, 13), 0, TRUE, 1, 0, 0),
     Narrow(Same, Lengths(15, 11), 0, TRUE, 2, 0, 1),
     Narrow(Same, Lengths(12, 14), 0, TRUE, 1, 0, 0),
     Narrow(Differ, Lengths(12, 10), 9, FALSE, 1, 0, 0),
     Narrow(Differ, Lengths(11, 15), 9, FALSE, 1, 0, 1),
     Wide(Differ, Lengths(21, 19), 10, TRUE, 0, 1),
     Wide(Differ, Lengths(19, 13), 9, FALSE, 1, 0),
     Wide(Same, Lengths(21, 13), 0, TRUE, 1, 0)}
=============================================================================
