\* Two slots, two ids, any of them stored, a failed copy or lookup: an answer
\* while another request waits or is being added, or a worker still looks at
\* the slot's previous one.
CONSTANTS
  Clients = {c1}
  Daemons = {d1}
  BUFFER_SIZE = 2
  N_THREADS = 1
  Iids = {1, 2}
  Lens = {1}
  MaxRequests = 2
  MaxFaults = 1
  Nobody = Nobody
  Uninit = Uninit
VIEW AllButCounts
SPECIFICATION Spec
INVARIANTS FoundWasPersisted 
PROPERTY AnswersMatchRequests
