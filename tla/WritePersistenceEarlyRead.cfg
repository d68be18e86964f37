\* A read that overtakes an add: one client, one daemon.
CONSTANTS
  Clients = {c1}
  Daemons = {d1}
  BUFFER_SIZE = 2
  MAX_PAXOS_VALUE_SIZE = 2
  Messages <- MCMessages
  Nobody = Nobody
  Uninit = Uninit
SPECIFICATION Spec
INVARIANT ReadReturnsSomething
