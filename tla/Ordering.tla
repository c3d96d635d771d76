------------------------------ MODULE Ordering ------------------------------
(***************************************************************************)
(* Sorting without duplicates: sort_by(), and collecting what a filter     *)
(* lets through in its order.                                              *)
(***************************************************************************)
EXTENDS Naturals, FiniteSets

(* What has k - 1 others before it comes k-th; `before` is a set of pairs. *)
InOrder(S, before) ==
    [k \in 1 .. Cardinality(S) |->
        CHOOSE x \in S : Cardinality({y \in S : <<y, x>> \in before}) = k - 1]

Ascending(S) == InOrder(S, {p \in S \X S : p[1] < p[2]})

(* What stands in a sequence at the positions of S, in its order. *)
Picked(source, S) ==
    LET picked == Ascending(S)
    IN  [k \in DOMAIN picked |-> source[picked[k]]]

=============================================================================
