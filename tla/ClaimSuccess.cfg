\* Does a success leave a cooldown alone when the two race?
SPECIFICATION Spec
CONSTANTS
  e1 = e1
  e2 = e2
  a1 = a1
  g1 = g1
  g2 = g2
  Groups = {g1, g2}
  GroupOf <- GroupOfAll
  NoTimer = NoTimer
  Accounts = {a1}
  AccountOf <- AccountOfAll
  FailureThreshold = 2
  CooldownTicks = 2
  Endpoints = {e1}
  Requests = {r1, r2}
  EventLabels <- OfEndpoints
  EventClasses = {"rate", "other", "success"}
  ProbeOutcomes = {"ok"}
  EndpointRequests = {}
  AccountRequests = {}
  NewEndpoints = {}
  NewAccounts = {}
  Deletable = {}
PROPERTIES
  SuccessKeepsCooldown
