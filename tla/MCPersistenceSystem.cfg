\* One client, a ring of two slots.
CONSTANTS
  Clients = {c1}
  BUFFER_SIZE = 2
  MAX_PAXOS_VALUE_SIZE = 1
  Messages <- MCMessages
  Nobody = Nobody
  Uninit = Uninit
  Dirs = {p0}
  Iids = {0, 1}
  Lens = {0, 1}
  MapSize = 1
  Stack = {"null", "garbage"}
  None = None
SPECIFICATION Spec
INVARIANT NothingLostOrReordered
