SPECIFICATION Spec
CONSTANTS
  Callers = {c1, c2}
  Sellers = {s1, s2}
  Invites = {i1, i2}
  NoOne = NoOne
  MaxCalls = 5
  MaxMishaps = 1
INVARIANTS
  
  EffectsPrecedeRow
PROPERTIES
  StateMachineFollowed
CHECK_DEADLOCK FALSE
