SPECIFICATION Spec
CONSTANTS
  DstStart <- MCDstStart
  DstEnd <- MCDstEnd
  Sessions <- ZeroDteSessions
INVARIANTS ZeroDteCapsApplied
