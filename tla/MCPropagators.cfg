CONSTANTS
  Instances <- MCInstances
  Post <- postBasic
  Meaning <- meaningBasic
  Auxiliary <- auxiliaryBasic
  wakeup <- wakeupBasic
  propagate <- propagateBasic
  priority <- priorityBasic
  untrailed <- untrailedBasic
  clearPropState <- clearPropStateBasic
  checkSatisfied <- checkSatisfiedBasic
SPECIFICATION Spec
INVARIANTS
  TypeOK
  ExplanationsHold
  FixedSatisfied
  Pruned
  NothingLost
