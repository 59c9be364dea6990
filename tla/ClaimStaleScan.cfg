\* Does the pass leave alone what was disabled since its scan?
SPECIFICATION Spec
CONSTANTS
  e1 = e1
  e2 = e2
  a1 = a1
  g1 = g1
  g2 = g2
  Groups = {g1, g2}
  GroupOf <- GroupOfAll
  NoTimer = NoTimer
  Accounts = {a1}
  AccountOf <- AccountOfAll
  FailureThreshold = 2
  CooldownTicks = 1
  Endpoints = {e1}
  Requests = {r1}
  EventLabels <- OfEndpoints
  EventClasses = {"rate", "auth"}
  ProbeOutcomes = {"ok"}
  EndpointRequests = {}
  AccountRequests = {}
  NewEndpoints = {}
  NewAccounts = {}
  Deletable = {}
PROPERTIES
  PassLeavesDisabled
