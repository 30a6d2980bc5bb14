SPECIFICATION Spec
CONSTANTS
  WordBits = 4
  Fuel = 10
  MAX_ROUNDS = 4
  MAX_DATAFLOW_ROUNDS = 32
  MAX_CALLEE_STATEMENTS = 4
  MAX_CALLEE_BLOCKS = 2
  MAX_HINTED_CALLEE_STATEMENTS = 6
  MAX_HINTED_CALLEE_BLOCKS = 3
  MAX_CALLER_GROWTH = 8
  CLOSURE_HEADER = 3
  Programs <- Everything
INVARIANTS
  PassesKeepTheMeaning
  CodeKeepsTheMeaning
  OnlyTheWrongIsRefused
CHECK_DEADLOCK FALSE
