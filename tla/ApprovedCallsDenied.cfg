\* One batch of one call that asks; two tasks at a time; no crash needed.
SPECIFICATION Spec
CONSTANTS
  N = 1
  K = 1
  Gated <- AllAsk
  Drives = {d1, d2}
  MaxCrashes = 0
INVARIANT DenialIsTrue
SYMMETRY TaskSymmetry
CHECK_DEADLOCK FALSE
