------------------------------ MODULE OrderedKeys ------------------------------
(***************************************************************************)
(* The keys of an OrderedDict, oldest first, or a list, as a sequence: what   *)
(* is left when members are deleted, in the order it was in.  Written by      *)
(* position and without recursion: DataProofs states what the replacement     *)
(* policies, the sessions and the connector rely on.                          *)
(***************************************************************************)
EXTENDS Integers, SequencesExt

\* The position with n members of a set of positions up to it, itself included.
Nth(positions, n) == CHOOSE i \in positions : Cardinality({m \in positions : m <= i}) = n

\* The members of S in s, in their order.
Within(s, S) ==
    LET positions == {i \in DOMAIN s : s[i] \in S}
    IN [n \in 1..Cardinality(positions) |-> s[Nth(positions, n)]]

Without(s, S) == Within(s, Range(s) \ S)
=============================================================================
