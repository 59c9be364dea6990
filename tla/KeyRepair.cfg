\* The loop repairs the keys of one consumer while a request changes them.
SPECIFICATION FairSpec
CONSTANTS
  Consumers = {c1}
  Nodes = {n1}
  Watched = {n1}
  Keys = {k1, k2, k3}
  Placeholder = Placeholder
  NoKey = NoKey
  Requests = {r1}
  Loop = loop
  Answers <- AllAnswers
  RefusingNode = NoNode
  MaxRestarts = 1
PROPERTIES
  ActiveConsumersGetKeys
  DisabledConsumersLoseRows
  CommitsAreIsolated
