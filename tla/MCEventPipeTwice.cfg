CONSTANTS
  Nodes <- MCNodes
  Nil = Nil
  Queues = {q1, q2, q3}
  Times <- MCTimes
  MaxTime = 3
  MaxId = 4
  MaxLength = 1
SPECIFICATION Spec
SYMMETRY QueueSymmetry
INVARIANT NeverAddedTwice
