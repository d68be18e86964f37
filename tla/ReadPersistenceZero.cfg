\* Requests for ids 0 and 1 through one slot, one daemon, one worker, no fault.
CONSTANTS
  Clients = {c1}
  Daemons = {d1}
  BUFFER_SIZE = 1
  N_THREADS = 1
  Iids = {0, 1}
  Lens = {1}
  MaxRequests = 2
  MaxFaults = 0
  Nobody = Nobody
  Uninit = Uninit
SPECIFICATION Spec
INVARIANT EveryHitWasPersisted
