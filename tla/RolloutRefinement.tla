-------------------------- MODULE RolloutRefinement --------------------------
(* Deployments as seen by whoever waits for the end of a running one. *)
EXTENDS Rollout

\* During a deployment the file counts as what it was when it began.
Settled ==
  IF \E w \in Workers : Locking(w)
  THEN flow[CHOOSE w \in Workers : Locking(w)].backup
  ELSE disk

Atomic == INSTANCE RolloutAtomic WITH file <- Settled, success <- last

\* As long as nothing fails but verifications, which find the node not ready and
\* do not raise, and there was a file, a deployment is atomic: it ends with the
\* new file and its success recorded, or with the old file and the old record,
\* also when a request and the loop deploy different configurations at a time.
DeploysAreAtomic == Atomic!Spec
==============================================================================
