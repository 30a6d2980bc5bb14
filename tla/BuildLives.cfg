SPECIFICATION Spec
CONSTANTS
  None = None
  Torn = Torn
  Module = {"app", "lib"}
  Lives <- MCLives
INVARIANTS FreshIsCurrent ReusedIsCurrent
PROPERTIES BodyChangeIsLocal
