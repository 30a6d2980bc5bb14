SPECIFICATION Spec
CONSTANTS
  None = None
  builtins = {"println", "list"}
  Malformed = {}
  File <- MCFile
  ModuleOf <- MCModuleOf
  Home <- MCHome
  Package <- MCPackage
  Content <- MCContent
  Written <- MCWritten
  First <- MCFirst
  NewName = "renamed"
  MaxMessages = 4
  MaxVersion = 3
INVARIANTS
  PublishedIsCurrent
  DiagnosticsLandInTheirFile
  RenameKeepsTheProgram
  OffersWhatTheCompilerTakes
CHECK_DEADLOCK FALSE
