SPECIFICATION Spec
CONSTANTS
  Rows = {0, 1, 2, 3}
  ColMax = 3
  MaxTracked = 3
INVARIANT DamageCovers
INVARIANT DamageTight
