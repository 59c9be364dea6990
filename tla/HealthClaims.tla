----------------------------- MODULE HealthClaims -----------------------------
(***************************************************************************)
(* What the documentation and the comments say of the health state, and the *)
(* code does not keep.  Each definition quotes the sentence it formalizes;  *)
(* a run of its own shows the shortest way the code breaks it.              *)
(***************************************************************************)
EXTENDS HealthControl

\* An operator's request writes: an account's own UPDATE, a registration, or
\* the commit of an endpoint request.  (Time passing changes no status.)
OperatorWrites == UNCHANGED <<todo, pass>>
                    \/ \E r \in Requests, x \in Entities : todo[r][x].do = "store"

Leaves(x, s) == row[x].status = s /\ Present(row'[x]) /\ row'[x].status # s

\* handle_*_success: a success "must NOT short-circuit a cooldown timer".  Its
\* decision may have been read before the cooldown committed.
SuccessKeepsCooldown ==
  [][\A x \in Entities : Leaves(x, "cooldown") /\ row'[x].status = "active" =>
       FinishPass \/ OperatorWrites]_vars

\* reconcile_cooldowns "Scans all cooldown resources.  If their cooldown time
\* has expired, triggers active probe": the ids are read before Doppler and the
\* provider answer, and not looked at again; what was disabled since is
\* probed and re-activated.
PassLeavesDisabled ==
  [][FinishPass => \A e \in Endpoints :
       row[e].status = "disabled" => row'[e].status = "disabled"]_vars
==============================================================================
