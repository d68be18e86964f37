\* Two directories, two ids (0 among them), a map one record large.
CONSTANTS
  Threads = {"READ", "WRITE"}
  Dirs = {p0, p1}
  Iids = {0, 1}
  Lens = {1, 2}
  MapSize = 1
  Stack = {"null", "garbage"}
  None = None
SPECIFICATION FairSpec
INVARIANTS TypeOK LocksBalanced
PROPERTIES ImplementsKVStore StopEnds
