SPECIFICATION Spec
CONSTANTS
  Var <- Nine
  Facts = {7}
  AssumptionSeqs <- Several
  Rule <- Layered
INVARIANTS
  NogoodRight
