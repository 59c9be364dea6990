--------------------------- MODULE MCHealthControl ---------------------------
(* Instances of HealthControl and HealthRouting for TLC: endpoints of one account. *)
EXTENDS HealthClaims, HealthRefinement, HealthRouting, TLC

CONSTANTS e1, e2, a1, g1, g2

GroupOfAll == [e \in Endpoints |-> g1]

AccountOfAll == [e \in Endpoints |-> a1]

OfEndpoints == {{e} : e \in Endpoints}
OfFirst == {{e1, a1}}
OfBoth == {{e, AccountOf[e]} : e \in Endpoints}

AllEvents == FailureClasses \cup {"success"}

Body(s, o) == [status |-> s, override |-> o]

\* Cool down; force out of routing, and release again.
SomeEndpointRequests ==
  {Body("cooldown", Unset), Body(Unset, "force-disabled"), Body(Unset, "none")}

ForcedEndpoints == {Body("degraded", "force-active")}
PlainEndpoints == ForcedEndpoints \cup {Body("active", "none")}

Symmetry == Permutations(Requests)
==============================================================================
