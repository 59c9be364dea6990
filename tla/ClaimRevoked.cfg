\* Is every real key revoked with its row?
SPECIFICATION Spec
CONSTANTS
  Consumers = {c1}
  Nodes = {n1}
  Watched = {n1}
  Keys = {k1, k2, k3}
  Placeholder = Placeholder
  NoKey = NoKey
  Requests = {r1}
  Loop = loop
  Answers <- SureAnswers
  RefusingNode = NoNode
  MaxRestarts = 0
PROPERTIES
  RealKeysAreRevoked
