\* A request, the cooldown pass, operators and registrations on one endpoint and
\* its account; probes are not answered with 429, or cooldowns need not end.
SPECIFICATION FairSpec
CONSTANTS
  e1 = e1
  e2 = e2
  a1 = a1
  g1 = g1
  g2 = g2
  Groups = {g1, g2}
  GroupOf <- GroupOfAll
  NoTimer = NoTimer
  Accounts = {a1}
  AccountOf <- AccountOfAll
  FailureThreshold = 2
  CooldownTicks = 1
  Endpoints = {e1}
  Requests = {r1}
  EventLabels <- OfBoth
  EventClasses <- AllEvents
  ProbeOutcomes = {"ok", "other", "nosecret"}
  EndpointRequests <- SomeEndpointRequests
  AccountRequests = {"active"}
  NewEndpoints <- PlainEndpoints
  NewAccounts = {}
  Deletable = {e1}
INVARIANTS
  TypeOK
  ActiveIsClean
  TransientStatesHidden
  EngineMatchesGenerator
PROPERTIES
  CooldownEnds
  AccountActivationIsProbed
  HealthKeepsOverrides
  DeletedStaysDeleted
  EndpointsReturnByGrant
