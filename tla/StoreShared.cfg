SPECIFICATION FairSpec
CONSTANTS
  Absent = Absent  Other = Other  Unavailable = Unavailable  Unsigned = Unsigned
  p1 = p1  p2 = p2  d1 = d1  d2 = d2  k1 = k1  k2 = k2
  Proc = {p1, p2}
  Pkg = {"a", "t"}
  Digest = {d1, d2}
  Key = {k1, k2}
  Wants <- MCWantsToolchain
  Modes <- MCModes
  Trusted <- MCTrustOne
  Kind <- MCKind
  Checksum <- MCChecksum
  Serves <- MCHonest
  Signs <- MCSameKey
  Files <- MCFiles
  Readable = {d1, d2}
  Meddling = {"fault"}
INVARIANTS OfflineReplays
PROPERTIES StoreIsAppendOnly EveryCheckoutSucceeds
