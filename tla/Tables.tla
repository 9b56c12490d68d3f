------------------------------- MODULE Tables -------------------------------
(* Searches that go through a table or a list from its start and stop at the *)
(* first hit.                                                                *)
EXTENDS Integers

\* The first of the indices at which a search can stop.
Smallest(S) == CHOOSE x \in S : \A y \in S : x <= y
=============================================================================
