----------------------------- MODULE HealthRouting -----------------------------
(***************************************************************************)
(* What the health columns are for: which endpoints of a node get into its   *)
(* configuration (the generator's filter), which endpoints the policy engine *)
(* offers a consumer (the same filter, written a second time), and what the  *)
(* health summary says of the node.  All three read the committed rows.      *)
(*                                                                         *)
(* Abstractions: the endpoints are those of one node; a consumer is its      *)
(* status and the model groups its profile allows, none when it has no       *)
(* profile; the resolution of secrets is in Secrets.                         *)
(***************************************************************************)
EXTENDS HealthControl

CONSTANTS
  Groups,      \* models.logical_group
  GroupOf      \* the group of each endpoint's model

ASSUME GroupsAssumption == GroupOf \in [Endpoints -> Groups]

ConsumerRows == [status : {"active", "disabled"}, allowed : SUBSET Groups]

NodeStatuses == {"active", "inactive", "degraded"}

-----------------------------------------------------------------------------
(* generate_config *)

\* The row e of an endpoint, of an account with the row a, passes the filter.
Generates(e, a) ==
  /\ e.override # "force-disabled"
  /\ IF e.override = "force-active"
     THEN a.status \notin {"disabled", "inactive"}
     ELSE /\ e.status \notin {"disabled", "cooldown", "degraded"}
          /\ a.status \notin {"disabled", "inactive", "cooldown"}

\* The filter excludes the endpoint for its own columns, whatever its account.
Barred(e) == ~Generates(e, NewRow("active", "none"))

\* The endpoints of model_list.
Routed == {e \in Endpoints : Present(row[e]) /\ Generates(row[e], row[AccountOf[e]])}

-----------------------------------------------------------------------------
(* get_candidate_endpoints *)

Admitted(consumer, group) == consumer.status = "active" /\ group \in consumer.allowed

\* The second copy of the filter; without the account there is no candidate.
Eligible(e, a) ==
  /\ Present(a)
  /\ e.override # "force-disabled"
  /\ IF e.override # "force-active"
     THEN /\ e.status \notin {"disabled", "cooldown", "degraded"}
          /\ a.status \notin {"disabled", "inactive", "cooldown"}
     ELSE a.status \notin {"disabled", "inactive"}

\* Wrong on purpose: the account is not looked at.
CandidatesByEndpoint(consumer, group) ==
  IF ~Admitted(consumer, group) THEN {}
  ELSE {e \in Endpoints : /\ Present(row[e]) /\ GroupOf[e] = group
                          /\ Eligible(row[e], NewRow("active", "none"))}

Candidates(consumer, group) ==
  IF ~Admitted(consumer, group) THEN {}
  ELSE {e \in Endpoints : /\ Present(row[e]) /\ GroupOf[e] = group
                          /\ Eligible(row[e], row[AccountOf[e]])}

-----------------------------------------------------------------------------
(* get_health_summary *)

EndpointStatuses == {row[e].status : e \in {f \in Endpoints : Present(row[f])}}

\* Wrong on purpose: an endpoint that is active makes the node active.
NodeHealthOfSome(status) ==
  IF EndpointStatuses = {} THEN status
  ELSE IF EndpointStatuses = {"disabled"} THEN "disabled"
  ELSE IF EndpointStatuses \cap {"active", "recovered"} # {} THEN "active"
  ELSE "degraded"

\* The health of a node whose own row has the status.
NodeHealth(status) ==
  IF EndpointStatuses = {} THEN status
  ELSE IF EndpointStatuses = {"disabled"} THEN "disabled"
  ELSE IF EndpointStatuses \subseteq {"active", "recovered"} THEN "active"
  ELSE IF EndpointStatuses \cap {"cooldown", "degraded", "probe"} # {} THEN "degraded"
  ELSE status

-----------------------------------------------------------------------------
(* Properties that hold *)

\* What a request has left to do to an endpoint that may put it back: the write
\* of a success report, also of one decided before the endpoint was barred, or
\* that of an operator, who writes back the status read when none is given.
Grants(task) == task.do \in {"store", "success"} \/ task.status = "active"

\* A barred endpoint gets past the filter again only by a success report, an
\* operator, or a cooldown pass that selected it, or that probed its account
\* through it, as it does with a degraded one.  No failure report puts it back,
\* however stale, with the status it writes (the filter names what it excludes,
\* `probe' and `recovered' pass); nor does a pass put back endpoints that it was
\* not to touch.  The probe need not have been answered: after one failure below
\* the threshold the endpoint is left in `probe', and is routed.
EndpointsReturnByGrant ==
  [][\A e \in Endpoints :
       /\ Present(row[e]) /\ Barred(row[e])
       /\ Present(row'[e]) /\ ~Barred(row'[e])
       => \/ \E r \in Requests : Commit(r) /\ Grants(todo[r][e])
          \/ FinishPass /\ (e \in pass.due \/ row[e].status = "degraded")]_vars

\* "matching ConfigGenerator.generate_config logic" (get_candidate_endpoints):
\* the two copies of the filter agree, so that an admitted consumer is offered
\* the endpoints of its group that the proxy has, and no others.
EngineMatchesGenerator ==
  \A consumer \in ConsumerRows, group \in Groups :
    Candidates(consumer, group) =
      {e \in Routed : Admitted(consumer, group) /\ GroupOf[e] = group}

\* The summary looks at the endpoints' statuses alone, the filter at overrides
\* and accounts too.  All the same, a node reported disabled has only forced
\* endpoints, and of one reported active an endpoint is missing only because it
\* is overridden, because of its account, or because it is disabled and the
\* status of the node's own row is what is reported.
HealthMatchesRouting ==
  \A status \in NodeStatuses :
    /\ NodeHealth(status) = "disabled" => \A e \in Routed : row[e].override = "force-active"
    /\ NodeHealth(status) = "active" =>
         \A e \in Endpoints \ Routed : Present(row[e]) =>
           \/ row[e].override = "force-disabled"
           \/ row[AccountOf[e]].status \in {"disabled", "inactive", "cooldown"}
           \/ row[e].status = "disabled" /\ status = "active"
==============================================================================
