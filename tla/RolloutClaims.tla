---------------------------- MODULE RolloutClaims ----------------------------
(* What the documentation says of deployments and the code does not keep. *)
EXTENDS Rollout

\* rollout-model.md, Verification: on a failure "Revert config file on disk to the
\* last `success` configuration [...] Write a new rollout record with status
\* `rolled_back`.  Raise error to block API."  The error makes get_db roll the
\* transaction back, the record of the rollback and of the failure with it.
RollbackIsRecorded ==
  [][\A w \in Workers : flow[w].restored # NoConfig /\ flow'[w] = Idle =>
       [config |-> flow[w].restored, status |-> "rolled_back"] \in logged']_vars
==============================================================================
