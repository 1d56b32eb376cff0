SPECIFICATION Spec
CONSTANTS
  vx = vx
  vy = vy
  vz = vz
  vr = vr
  Var = {vx, vy, vz}
  Bool = {vr}
  Domains <- MixedDomains
  Problems <- Switching
  MaxLevel = 2
INVARIANT WokenFixed
