SPECIFICATION LoopSpec
CONSTANTS
  n1 = n1  n2 = n2  n3 = n3  n4 = n4
  Nodes <- MCNodes
  Enough <- MCEnough
INVARIANTS
  NoTaskOutlivesCall
  FoldedExactlyOnce
PROPERTIES
  EndsWithoutNodes
  ImplementsTally
CHECK_DEADLOCK FALSE
