SPECIFICATION Spec
CONSTANTS
  lowest = 0
  highest = 3
  values <- Gaps
  MaxLevel = 2
INVARIANTS
  LiteralsAgree
  EnqueuedRightly
  ListMarksBounds
PROPERTIES
  ChangesTold
  NarrowsExactly
