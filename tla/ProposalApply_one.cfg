SPECIFICATION Spec
CONSTANTS
  Appliers = {a1}
  Rules = {r1, r2, bad}
  Edges = {e1, e2, wrong}
  Harmful = {bad, wrong}
  CanariesExist = TRUE
  MaxFailures = 2
  MaxGateCrashes = 1
INVARIANTS
  CanariesMatchRules
  NoHarmfulChangeIsKept
PROPERTIES
  ImplementsAtomicChange
