SPECIFICATION Spec
CONSTANTS
  None = None
  Fresh = Fresh
  Dead = Dead
  Bodies <- MCAll
INVARIANTS UsesOnlyTheLiving NothingLeaks DefersRunOnce PassesAgree
CHECK_DEADLOCK FALSE
