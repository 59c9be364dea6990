\* Two operator requests at a time on a row of each kind (a model is to its
\* endpoints what an account is to them).
SPECIFICATION Spec
CONSTANTS
  n1 = n1
  p1 = p1
  m1 = m1
  a1 = a1
  e1 = e1
  c1 = c1
  f1 = f1
  v1 = v1
  v2 = v2
  Nodes = {n1}
  Providers = {p1}
  Models = {m1}
  Accounts = {a1}
  Endpoints = {e1}
  Consumers = {c1}
  Profiles = {f1}
  Needs <- NeedsOfAll
  Values = {v1, v2}
  Null = Null
  Unset = Unset
  Absent = Absent
  Requests = {r1, r2}
  NewRows <- NewRowsOfAll
  Patches <- PatchesOfAll
SYMMETRY Symmetry
INVARIANTS
  TypeOK
  ReferencesHold
  AuditIsCurrent
PROPERTIES
  PatchesMerge
