------------------------------- MODULE Ascending -------------------------------
(***************************************************************************)
(* A finite set of numbers as a sequence, without the recursion and the    *)
(* comparison operators of the sorting functions of the community modules, *)
(* which the prover cannot expand.                                         *)
(***************************************************************************)
EXTENDS Integers, FiniteSets

Ascending(S) ==
    [k \in 1 .. Cardinality(S) |-> CHOOSE n \in S : Cardinality({m \in S : m <= n}) = k]
=============================================================================
