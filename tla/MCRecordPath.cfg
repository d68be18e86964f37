\* Three ids, slots of three bytes of which two fit the receive buffer.
CONSTANTS
  BUFFER_SIZE = 2
  MAX_PAXOS_VALUE_SIZE = 3
  RecvRoom = 2
  totalMessages = 3
  Bytes = {0, 1}
  Values <- MCValues
  Nothing = Nothing
SPECIFICATION Spec
INVARIANTS TypeOK AnswerIsWhatWasWritten
