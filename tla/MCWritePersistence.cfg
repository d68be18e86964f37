\* Two clients and two daemons compete for the devices; a ring of two slots.
CONSTANTS
  Clients = {c1, c2}
  Daemons = {d1, d2}
  BUFFER_SIZE = 2
  MAX_PAXOS_VALUE_SIZE = 2
  Messages <- MCMessages
  Nobody = Nobody
  Uninit = Uninit
SPECIFICATION FairSpec
INVARIANTS TypeOK UsedInRange RingHoldsQueue PollInMeansMessage
PROPERTIES ReadsInOrder DropsOnlyWhenFull OldestIsRead
