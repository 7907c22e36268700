----------------------- MODULE MCAttributeCalculation -----------------------
(* Attributes, requests and names for AttributeCalculation.                  *)
EXTENDS AttributeCalculation, TLC

CONSTANTS a1, a2, r1, r2

MCTwo == {a1, a2}
MCOneRequest == {r1}
MCTwoRequests == {r1, r2}
MCText == {a1}
MCRequestSymmetry == Permutations(MCTwoRequests)
MCOwnNames == [a \in MCTwo |-> a]
MCSameName == [a \in MCTwo |-> a1]
=============================================================================
