------------------------------ MODULE Listings ------------------------------
(***************************************************************************)
(* Rows in the order a query asks for: `before` is the set of the pairs    *)
(* <<x, y>> of which its ORDER BY puts x first.                            *)
(***************************************************************************)
EXTENDS Integers, FiniteSets

Earlier(x, S, before) == {y \in S : <<y, x>> \in before}

\* The members of S, each after those that come before it.
Listing(S, before) == [k \in 1..Cardinality(S) |-> CHOOSE x \in S : Cardinality(Earlier(x, S, before)) = k - 1]

=============================================================================
