SPECIFICATION Spec
CONSTANTS
  None = None
  Torn = Torn
  Failed = Failed
  Session = {s1, s2}
  Name = {"app", "lib", "a", "b", "std"}
  Directory <- MCDirectory
  Manifest <- MCManifest
  Registry = {"old", "newB", "newAB", "noB1", "noB"}
  Lives <- MCLives
  Lock <- MCLock
  Select <- MCSelect
  Replay <- MCReplay
SYMMETRY MCSymmetry
INVARIANTS LockIsTheAnswer LockedPasses
PROPERTIES BuildMovesNothing
