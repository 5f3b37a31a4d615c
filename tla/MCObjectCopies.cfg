SPECIFICATION Spec
CONSTANTS
  StackMax = 5
  MaxObjects = 6
  MaxRefs = 3
  Cases <- SomeCases
INVARIANTS CopiesAreFaithful RetainsAreBalanced
CHECK_DEADLOCK FALSE
