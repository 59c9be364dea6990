\* A request and the loop deploy while writes fail, verifications raise, somebody
\* edits the file and the control plane restarts.
SPECIFICATION FairSpec
CONSTANTS
  c1 = c1
  c2 = c2
  Configs = {c1, c2}
  NoConfig = NoConfig
  Torn = Torn
  Requests = {r1}
  Loop = loop
  FirstFile = NoConfig
  MasterKeys = {TRUE, FALSE}
  Faults = {"io", "raise", "crash", "edit"}
INVARIANTS
  TypeOK
  RollbacksRestoreSuccess
  VerifiedIsOnDisk
PROPERTIES
  UndecidedIsOnDisk
  DriftIsRepaired
