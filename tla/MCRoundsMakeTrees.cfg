CONSTANTS
  Nodes <- MCNodes
  Nil = Nil
  Answers <- ByKey
  KeyOf <- MCKeyOf
SPECIFICATION TenSpec
INVARIANTS
  WellLinked
  WellBalanced
  InKeyOrder
  CallsAreShort
PROPERTIES
  ImplementsSortedNodes
  SameTrees
