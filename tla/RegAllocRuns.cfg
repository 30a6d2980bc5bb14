SPECIFICATION Spec
CONSTANTS
  None = None
  Nothing = Nothing
  Junk = Junk
  Local <- MCLocals
  Functions <- MCAll
  Volatile <- MCVolatile
  Preserved <- MCPreserved
INVARIANTS LivenessIsExact NoSharing ReadsSeeWrites CallerKeepsRegisters
CHECK_DEADLOCK FALSE
