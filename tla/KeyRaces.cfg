\* Two requests and the loop on two consumers and two nodes: do races break the rows?
SPECIFICATION Spec
CONSTANTS
  Consumers = {c1, c2}
  Nodes = {n1, n2}
  Watched = {n1}
  Keys = {k1}
  Placeholder = Placeholder
  NoKey = NoKey
  Requests = {r1, r2}
  Loop = loop
  Answers <- MixedAnswers
  RefusingNode = n2
  MaxRestarts = 0
SYMMETRY Symmetry
INVARIANTS
  TypeOK
  RowsHaveConsumers
  ActiveRowsHaveKeys
PROPERTIES
  CommitsAreIsolated
