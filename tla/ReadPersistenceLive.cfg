\* Liveness: one client, two daemons, one worker.
CONSTANTS
  Clients = {c1}
  Daemons = {d1, d2}
  BUFFER_SIZE = 2
  N_THREADS = 1
  Iids = {1}
  Lens = {1}
  MaxRequests = 1
  MaxFaults = 1
  Nobody = Nobody
  Uninit = Uninit
SPECIFICATION FairSpec
INVARIANT TypeOK
PROPERTY RequestsAnswered
