--------------------------- MODULE HealthRefinement ---------------------------
(* The failure handlers of concurrent requests against HealthSerial. *)
EXTENDS HealthControl

Serial == INSTANCE HealthSerial WITH
  health <- [x \in Entities |-> [row[x] EXCEPT !.timer = NoTimer]]

\* However failure reports race with each other, with operators of accounts
\* and with registrations, the committed rows are those of some serial order of
\* the handlers: the unlocked reads of handle_*_failure and transition_*_state
\* do no harm among themselves.
FailuresSerialize == Serial!Spec
==============================================================================
