\* Is a rollback recorded?
SPECIFICATION Spec
CONSTANTS
  c1 = c1
  c2 = c2
  Configs = {c1, c2, c3}
  NoConfig = NoConfig
  Torn = Torn
  Requests = {r1}
  Loop = loop
  FirstFile = c1
  MasterKeys = {TRUE}
  Faults = {}
PROPERTIES
  RollbackIsRecorded
