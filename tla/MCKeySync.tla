------------------------------ MODULE MCKeySync ------------------------------
(* Instances of KeySync for TLC. *)
EXTENDS KeyRefinement, KeyClaims, TLC

CONSTANT RefusingNode   \* a node that never does what it is asked

Symmetry == Permutations(Requests) \cup Permutations(Keys)

AllAnswers == [n \in Nodes |-> {"done", "lost", "refused", "unset"}]

SureAnswers == [n \in Nodes |-> {"done", "refused"}]

\* A node that may lack its master key, and one that refuses everything.
MixedAnswers == [n \in Nodes |-> IF n = RefusingNode THEN {"refused"} ELSE {"done", "unset"}]
==============================================================================
