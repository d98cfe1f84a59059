--------------------------- MODULE MCTieringManager ---------------------------
(* Model-checking instances of TieringManager. *)
EXTENDS TieringManager

CONSTANTS r1, r2, a, b, c

TwoReqs == {r1, r2}
ThreeKeys == {a, b, c}

Workload(prompt, tail, onDisk, slots, faults_, resets_) ==
    [prompt |-> prompt, tail |-> tail, onDisk |-> onDisk, slots |-> slots,
     tiers |-> Len(onDisk), faults |-> faults_, resets |-> resets_]

\* A request alone, with two chunks and a partial tail: promotions of two
\* blocks, and a tail whose promotion needs the room of the chunks.
Alone(onDisk, resets_) ==
    Workload([r \in {r1} |-> <<a, b>>], [r \in {r1} |-> c], onDisk, 2, 1, resets_)

\* Two requests with the same chunk, one with a partial tail.
Shared(slots, faults_, resets_) ==
    Workload([r \in TwoReqs |-> <<a>>], [r \in TwoReqs |-> IF r = r1 THEN b ELSE NoKey],
             <<{a, b}>>, slots, faults_, resets_)

\* Different chunks and one slot: a store finds it pinned, and writes its file.
Competing == Workload([r \in TwoReqs |-> IF r = r1 THEN <<a>> ELSE <<b>>],
                      [r \in TwoReqs |-> NoKey], <<{a}>>, 1, 1, 0)

MCWorkloads ==
    {Alone(<<{a, b, c}>>, 1), Alone(<<{a}, {b, c}>>, 0), Shared(1, 1, 0), Shared(2, 0, 1),
     Competing}

FirstIsRequestLevel == [r \in Reqs |-> IF r = r1 THEN {1} ELSE {}]
=============================================================================
