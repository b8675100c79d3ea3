SPECIFICATION Spec
CONSTANTS
  c1 = c1
  c2 = c2
  Callers = {c1, c2}
  MaxTokens = 3
  Rotates = TRUE
  CliRaces = FALSE
SYMMETRY Symmetry
INVARIANTS
  RefreshIsSafe
PROPERTY
  NativeRotationKept
