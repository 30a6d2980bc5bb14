SPECIFICATION Spec
CONSTANTS
  None = None
  Torn = Torn
  EOL = EOL
  Gone = Gone
  p1 = p1
  p2 = p2
  r1 = r1
  r2 = r2
  Publisher = {p1, p2}
  Run = {r1, r2}
  Version = {1, 2}
  Bytes = {a, b}
  MaxKills = 2
  Crowds <- PublishersOrReaders
INVARIANTS IndexedIsServed OneEntryPerVersion CacheIsWhole OfflineFollowsOnline RunSeesOneIndex ToldIsServed
PROPERTIES PublishedIsForever
CHECK_DEADLOCK FALSE
