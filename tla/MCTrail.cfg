SPECIFICATION Spec
CONSTANTS
  Cell = {c1, c2}
  Val = {a, b}
  Var = {x, y}
  trail_inc = trail_inc
  Pad = Pad
  MaxTrail = 4
  MaxLevel = 2
INVARIANTS
  TypeOK
  LevelOfPosition
  ExplainedInItsTime
PROPERTIES
  RestoresSnapshots
SYMMETRY Symmetry
