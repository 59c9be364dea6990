\* A request and the loop resolve and deploy while the secret is rotated and
\* Doppler is down.
SPECIFICATION FairSpec
CONSTANTS
  N = 2
  Values = {v1,v2}
  Missing = Missing
  Fallback = Missing
  NoFile = NoFile
  Requests = {r1}
  Loop = loop
  TTL = 1
INVARIANTS
  TypeOK
  SecretsAreFresh

PROPERTIES
  RotationReachesNode
