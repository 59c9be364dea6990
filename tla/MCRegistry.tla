------------------------------ MODULE MCRegistry ------------------------------
(* An instance of Registry for TLC: a consumer with its profile, and an endpoint *)
(* of a node and of an account.                                                 *)
EXTENDS Registry, TLC

CONSTANTS n1, p1, m1, a1, e1, c1, f1, v1, v2

NeedsOfAll ==
  [x \in Entities |-> CASE x = a1 -> Providers
                        [] x = e1 -> Nodes \cup Accounts \cup Models
                        [] OTHER  -> {}]

Columns(a, b) == [first |-> a, second |-> b]

\* A consumer with or without its profile.
NewRowsOfAll ==
  [x \in Entities |-> IF x = c1 THEN {Columns(v1, Null), Columns(v1, f1)}
                                ELSE {Columns(v1, v1)}]

\* Each column alone; for routing none too.
PatchesOfAll ==
  [x \in Entities |-> CASE x = n1 -> {Columns(v2, Unset), Columns(Unset, v2)}
                        [] x = e1 -> {Columns(v2, Unset), Columns(Unset, v2), Nothing}
                        [] x = c1 -> {Columns(v2, Unset), Columns(Unset, f1)}
                        [] OTHER  -> {}]

Symmetry == Permutations(Requests)
==============================================================================
