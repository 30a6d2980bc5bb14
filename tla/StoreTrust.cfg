SPECIFICATION Spec
CONSTANTS
  Absent = Absent  Other = Other  Unavailable = Unavailable  Unsigned = Unsigned
  p1 = p1  p2 = p2  d1 = d1  d2 = d2  k1 = k1  k2 = k2
  Proc = {p1, p2}
  Pkg = {"a", "b", "g"}
  Digest = {d1, d2}
  Key = {k1, k2}
  Wants <- MCWantsTwins
  Modes <- MCOnline
  Trusted <- MCTrustRegistry
  Kind <- MCKind
  Checksum <- MCChecksum
  Serves <- MCBad
  Signs <- MCUnsigned
  Files <- MCFiles
  Readable = {d1}
  Meddling = {"fault", "edit", "delete"}
INVARIANTS TreesWhole TrustIsPerProject
PROPERTIES ImplementsCache
