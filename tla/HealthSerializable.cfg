\* Racing failure reports against the serial handlers (no passes commit), while
\* endpoints and their account are registered, set and deleted.
SPECIFICATION Spec
CONSTANTS
  e1 = e1
  e2 = e2
  a1 = a1
  g1 = g1
  g2 = g2
  Groups = {g1, g2}
  GroupOf <- GroupOfAll
  NoTimer = NoTimer
  Accounts = {a1}
  AccountOf <- AccountOfAll
  FailureThreshold = 2
  CooldownTicks = 1
  Endpoints = {e1, e2}
  Requests = {r1, r2}
  EventLabels <- OfFirst
  EventClasses <- FailureClasses
  ProbeOutcomes = {}
  EndpointRequests = {}
  AccountRequests = {"active", "disabled"}
  NewEndpoints <- ForcedEndpoints
  NewAccounts = {"active"}
  Deletable <- Entities
INVARIANTS
  HealthMatchesRouting
SYMMETRY Symmetry
PROPERTIES
  FailuresSerialize
