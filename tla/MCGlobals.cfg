CONSTANTS
  Instances <- MCGlobalInstances
  Post <- postGlobal
  Meaning <- meaningGlobal
  Auxiliary <- auxiliaryGlobal
  wakeup <- wakeupGlobal
  propagate <- propagateGlobal
  priority <- priorityGlobal
  untrailed <- untrailedGlobal
  clearPropState <- clearGlobal
  checkSatisfied <- satisfiedGlobal
SPECIFICATION Spec
INVARIANTS
  ExplanationsHold
  FixedSatisfied
  NothingLost
