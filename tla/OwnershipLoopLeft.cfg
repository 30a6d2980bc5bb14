SPECIFICATION Spec
CONSTANTS
  None = None
  Fresh = Fresh
  Dead = Dead
  Bodies <- MCLeftBetween
INVARIANTS UsesOnlyTheLiving
CHECK_DEADLOCK FALSE
