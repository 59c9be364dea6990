----------------------------- MODULE KeyRefinement -----------------------------
(* The key tables as seen by whoever reads what is committed. *)
EXTENDS KeySync

\* What each request was asked, or whether its transaction was committed.
Asked == [r \in Requests |-> [consumer |-> flow[r].consumer, wants |-> flow[r].wants]]

Tables == INSTANCE KeyTables WITH tables <- db, asked <- Asked

\* Although requests and the loop read and call the nodes without the lock, act on
\* what they read before, lose answers and fail half-way: a request that commits
\* has stored exactly the status it was asked for and the outcome of every node,
\* and one that fails has stored nothing; a round of the loop stores no status,
\* and each consumer's synchronization whole but that at which it failed.
CommitsAreIsolated == Tables!Spec
==============================================================================
