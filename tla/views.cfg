SPECIFICATION Spec
CONSTANTS
  p1 = p1
  p2 = p2
  Procs = {p1, p2}
  Settings <- MCSettings
INVARIANTS TypeInvariant ReportReproducible RelayCoherent SwitchTraceable
PROPERTIES DelayedAppendKeepsState
SYMMETRY Operators
