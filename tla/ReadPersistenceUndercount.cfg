\* One request for a stored value, one daemon, one worker, no fault.
CONSTANTS
  Clients = {c1}
  Daemons = {d1}
  BUFFER_SIZE = 1
  N_THREADS = 1
  Iids = {1}
  Lens = {1}
  MaxRequests = 1
  MaxFaults = 0
  Nobody = Nobody
  Uninit = Uninit
SPECIFICATION SpecAllStored
INVARIANT FoundIsCounted
