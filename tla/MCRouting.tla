----------------------------- MODULE MCRouting -----------------------------
(* Model checking of Routing: the second target is twice as strong.        *)
EXTENDS Routing, TLC

CONSTANTS a, b, c

MCUrls == {a, b, c}
MCWeight == [u \in MCUrls |-> IF u = b THEN 2 ELSE 1]

(* Requests are interchangeable, and so are two targets of equal weight.   *)
Symmetry == Permutations(Requests) \cup Permutations({a, c})

=============================================================================
