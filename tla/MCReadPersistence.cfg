\* Two daemons, two ids, nothing stored, a failed copy: closes racing with adds
\* and answers.  One request more than slots, so that the ring fills up and wraps
\* around.
CONSTANTS
  Clients = {c1}
  Daemons = {d1, d2}
  BUFFER_SIZE = 2
  N_THREADS = 1
  Iids = {1, 2}
  Lens = {}
  MaxRequests = 3
  MaxFaults = 1
  Nobody = Nobody
  Uninit = Uninit
SYMMETRY Processes
VIEW AllButWorkers
SPECIFICATION Spec
INVARIANTS UsedInRange RingHoldsRequests
