----------------------- MODULE WritePersistenceProofs -----------------------
(***************************************************************************)
(* Proofs about WritePersistence, for every ring size, every set of        *)
(* clients and daemons and every set of messages.                          *)
(***************************************************************************)
EXTENDS WritePersistence, RingArithmetic, SequenceTheorems, TLAPS

(***************************************************************************)
(* The inductive invariant.                                                *)
(***************************************************************************)

\* A char_mutex is held by exactly the process that has the device open.
Ownership ==
  /\ \A c \in Clients : client[c] # "closed" <=> test_mutex = c
  /\ \A d \in Daemons : daemon[d] # "closed" <=> persistence_mutex = d

\* What a process has learnt from used_buf stays true until it acts on it.
UsedInv ==
  /\ UsedInRange
  /\ \A c \in Clients : client[c] = "inc" => used_buf < BUFFER_SIZE
  /\ \A d \in Daemons :
       daemon[d] \in {"read", "dec", "err_dec"} => used_buf > 0

\* A client inside write(2) has a message to write.
ArgTyped ==
  \A c \in Clients :
    client[c] \in {"check", "inc", "clear", "copy", "advance"}
      => arg[c] \in Messages

\* The last step of an add finds the message in the slot it was copied into.
SlotWritten ==
  \A c \in Clients :
    intact /\ client[c] = "advance" => msg_buf[current_buf] = Stored(arg[c])

\* used_buf counts the finished messages, the add in progress unless a read
\* has overtaken it, and the message a read has copied and not counted down.
CountInv ==
  intact /\ ~Resetting =>
    used_buf = Len(queue) + (IF Adding /\ ~overtaken THEN 1 ELSE 0)
                          + (IF Copied THEN 1 ELSE 0)

\* The history while the ring is being reset, and after it was spoilt.
HistoryInv ==
  /\ ~intact => queue = <<>> /\ ~overtaken
  /\ overtaken => queue = <<>> /\ Adding
  /\ intact /\ Resetting =>
       used_buf = 0 /\ queue = <<>> /\ ~overtaken /\ ~Adding
  /\ \A d \in Daemons :
       /\ daemon[d] = "err_dec" => ~intact
       /\ intact /\ daemon[d] = "rel_first" => current_buf = 0

TypeInv == TypeOK /\ ArgTyped

QueueInv == SlotWritten /\ CountInv /\ HistoryInv /\ RingHoldsQueue

IInv == TypeInv /\ Ownership /\ UsedInv /\ QueueInv
-----------------------------------------------------------------------------
(***************************************************************************)
(* Facts about the ring indices.                                           *)
(***************************************************************************)

\* The successor of a slot is a slot.
LEMMA SuccSlot == ASSUME NEW i \in Slots PROVE Succ(i) \in Slots
  BY RingAssumption DEF Slots, Succ

\* Reducing a position gives a slot; reducing a slot changes nothing.
LEMMA ModSlot ==
  ASSUME NEW x \in Nat
  PROVE  /\ x % BUFFER_SIZE \in Slots
         /\ x < BUFFER_SIZE => x % BUFFER_SIZE = x
  BY RingAssumption, PositionInRing DEF Slots

LEMMA SlotMod ==
  ASSUME NEW x \in Slots
  PROVE  x % BUFFER_SIZE = x /\ (x + 0) % BUFFER_SIZE = x
  BY RingAssumption DEF Slots

\* Two positions less than a round apart are different slots.
LEMMA SlotsDiffer ==
  ASSUME NEW f \in 0 .. BUFFER_SIZE - 1, NEW h \in 0 .. 1,
         NEW l \in 0 .. BUFFER_SIZE - 1, NEW i \in 1 .. l
  PROVE  (f + h + i - 1) % BUFFER_SIZE # (f + h + l) % BUFFER_SIZE
<1> DEFINE a == f + h + i - 1
           b == f + h + l
<1>1. /\ a \in Nat /\ b \in Nat
      /\ a < b /\ b - a < BUFFER_SIZE /\ b < 2 * BUFFER_SIZE
  BY RingAssumption
<1> HIDE DEF a, b
<1>2. QED
  BY <1>1, RingAssumption, PositionsDiffer DEF a, b

\* The slot after a position's slot is the next position's slot.
LEMMA SuccMod ==
  ASSUME NEW x \in 0 .. 2 * BUFFER_SIZE - 1
  PROVE  Succ(x % BUFFER_SIZE) = (x + 1) % BUFFER_SIZE
  BY RingAssumption, NextPosition DEF Succ

\* Advancing the read index moves every position by one.
LEMMA SuccThen ==
  ASSUME NEW f \in 0 .. BUFFER_SIZE - 1, NEW k \in 0 .. BUFFER_SIZE
  PROVE  (Succ(f) + k) % BUFFER_SIZE = (f + 1 + k) % BUFFER_SIZE
  BY RingAssumption, ShiftedPosition DEF Succ
-----------------------------------------------------------------------------
\* Every variable keeps its type, and the indices stay inside the ring.
LEMMA TypeInvariant == Spec => []TypeInv
<1>1. Init => TypeInv
  <2> SUFFICES ASSUME Init PROVE TypeInv
    OBVIOUS
  <2>1. queue \in Seq(StoredMessages)
    BY EmptySeq DEF Init
  <2>2. 0 \in Slots
    BY RingAssumption DEF Slots
  <2>3. QED
    BY <2>1, <2>2 DEF Init, TypeInv, TypeOK, ArgTyped, ClientStates,
                      DaemonStates
<1>2. TypeInv /\ [Next]_vars => TypeInv'
  <2> SUFFICES ASSUME TypeInv, [Next]_vars PROVE TypeInv'
    OBVIOUS
  <2> USE DEF TypeInv, TypeOK, ArgTyped, ClientGoes, DaemonGoes, ClientStates, DaemonStates,
              ring, mutexes, history
  <2>1. ASSUME NEW c \in Clients, write_test_open(c) PROVE TypeInv'
    BY <2>1 DEF write_test_open
  <2>2. ASSUME NEW c \in Clients, write_test_release(c) PROVE TypeInv'
    BY <2>2 DEF write_test_release
  <2>3. ASSUME NEW c \in Clients, write_test_write(c) PROVE TypeInv'
    BY <2>3 DEF write_test_write
  <2>4. ASSUME NEW c \in Clients, AddStep(c) PROVE TypeInv'
    <3>1. CASE AddFull(c)  BY <3>1 DEF AddFull
    <3>2. CASE AddRoom(c)  BY <3>2 DEF AddRoom
    <3>3. CASE AddInc(c)   BY <3>3 DEF AddInc
    <3>4. CASE AddClear(c) BY <3>4 DEF AddClear
    <3>5. CASE AddCopy(c)  BY <3>5 DEF AddCopy, StoredMessages
    <3>6. CASE AddAdvance(c)
      <4>1. Append(queue, Stored(arg[c])) \in Seq(StoredMessages)
        BY <3>6, AppendProperties DEF AddAdvance, StoredMessages
      <4>2. QED
        BY <3>6, <4>1, SuccSlot DEF AddAdvance
    <3>7. QED BY <2>4, <3>1, <3>2, <3>3, <3>4, <3>5, <3>6 DEF AddStep
  <2>5. ASSUME NEW d \in Daemons, write_persistence_open(d) PROVE TypeInv'
    BY <2>5 DEF write_persistence_open
  <2>6. ASSUME NEW d \in Daemons, Close(d) PROVE TypeInv'
    BY <2>6 DEF Close
  <2>7. ASSUME NEW d \in Daemons, ReadStep(d) PROVE TypeInv'
    <3>1. CASE write_persistence_poll(d) BY <3>1 DEF write_persistence_poll
    <3>2. CASE ReadCopy(d)
      <4>1. Copies \subseteq StoredMessages \cup {Zero, Uninit}
        BY DEF Copies
      <4>2. overtaken' = TRUE \/ overtaken' = FALSE
        BY <3>2 DEF ReadCopy
      <4>3. queue' \in Seq(StoredMessages)
        BY <3>2, HeadTailProperties DEF ReadCopy
      <4>4. QED BY <3>2, <4>1, <4>2, <4>3 DEF ReadCopy
    <3>3. CASE ReadFault(d) BY <3>3, EmptySeq DEF ReadFault
    <3>4. CASE ReadDec(d) BY <3>4 DEF ReadDec
    <3>5. CASE ReadAdvance(d) BY <3>5, SuccSlot DEF ReadAdvance
    <3>6. QED BY <2>7, <3>1, <3>2, <3>3, <3>4, <3>5 DEF ReadStep
  <2>8. ASSUME NEW d \in Daemons, ReleaseStep(d) PROVE TypeInv'
    <3>1. CASE ReleaseUsed(d)
      <4>1. intact' = TRUE \/ intact' = FALSE
        BY <3>1 DEF ReleaseUsed
      <4>2. queue' \in Seq(StoredMessages)
        BY <3>1, EmptySeq DEF ReleaseUsed
      <4>3. /\ used_buf' = 0 /\ overtaken' = FALSE
            /\ daemon' = [daemon EXCEPT ![d] = "rel_current"]
            /\ UNCHANGED <<current_buf, first_buf, msg_buf, mutexes, client,
                           arg, recv>>
        BY <3>1 DEF ReleaseUsed
      <4>4. /\ used_buf' \in Int 
        BY <4>3
      <4>5. overtaken' \in BOOLEAN
        BY <4>3
      <4>6. intact' \in BOOLEAN
        BY <4>1
      <4>7. daemon' \in [Daemons -> DaemonStates]
        BY <4>3
      <4>8. ArgTyped'
        BY <4>3
      <4>9. QED
        BY <4>2, <4>3, <4>4, <4>5, <4>6, <4>7, <4>8
    <3>2. CASE ReleaseCurrent(d) BY <3>2, RingAssumption DEF ReleaseCurrent, Slots
    <3>3. CASE ReleaseFirst(d) BY <3>3, RingAssumption DEF ReleaseFirst, Slots
    <3>4. CASE ReleaseUnlock(d) BY <3>4 DEF ReleaseUnlock
    <3>5. QED BY <2>8, <3>1, <3>2, <3>3, <3>4 DEF ReleaseStep
  <2>9. CASE UNCHANGED vars
    BY <2>9 DEF vars
  <2>10. QED
    BY <2>1, <2>2, <2>3, <2>4, <2>5, <2>6, <2>7, <2>8, <2>9 DEF Next
<1>3. QED
  BY <1>1, <1>2, PTL DEF Spec
-----------------------------------------------------------------------------
\* At most one client and one daemon are past open and not yet closed.
LEMMA OwnershipInvariant == Spec => []Ownership
<1>1. Init => Ownership
  BY ProcessAssumption DEF Init, Ownership
<1>2. TypeInv /\ Ownership /\ [Next]_vars => Ownership'
  <2> SUFFICES ASSUME TypeInv, Ownership, [Next]_vars PROVE Ownership'
    OBVIOUS
  <2> USE ProcessAssumption DEF TypeInv, TypeOK, Ownership, ClientGoes,
                                DaemonGoes, mutexes
  <2>1. ASSUME NEW c \in Clients, write_test_open(c) PROVE Ownership'
    BY <2>1 DEF write_test_open
  <2>2. ASSUME NEW c \in Clients, write_test_release(c) PROVE Ownership'
    BY <2>2 DEF write_test_release
  <2>3. ASSUME NEW c \in Clients, write_test_write(c) \/ AddStep(c)
        PROVE  Ownership'
    BY <2>3 DEF write_test_write, AddStep, AddFull, AddRoom, AddInc, AddClear,
                AddCopy, AddAdvance
  <2>4. ASSUME NEW d \in Daemons, write_persistence_open(d) PROVE Ownership'
    BY <2>4 DEF write_persistence_open
  <2>5. ASSUME NEW d \in Daemons, Close(d) \/ ReadStep(d) PROVE Ownership'
    BY <2>5 DEF Close, ReadStep, write_persistence_poll, ReadCopy, ReadFault,
                ReadDec, ReadAdvance
  <2>6. ASSUME NEW d \in Daemons, ReleaseStep(d) PROVE Ownership'
    BY <2>6 DEF ReleaseStep, ReleaseUsed, ReleaseCurrent, ReleaseFirst,
                ReleaseUnlock
  <2>7. CASE UNCHANGED vars
    BY <2>7 DEF vars
  <2>8. QED
    BY <2>1, <2>2, <2>3, <2>4, <2>5, <2>6, <2>7 DEF Next
<1>3. QED
  BY <1>1, <1>2, TypeInvariant, PTL DEF Spec

\* used_buf stays in range because nobody lowers it between a client's check
\* and increment towards a larger value, nor raises it past the ring, and only
\* the daemon that holds the device lowers it after its poll.
LEMMA UsedInvariant == Spec => []UsedInv
<1>1. Init => UsedInv
  BY RingAssumption DEF Init, UsedInv, UsedInRange
<1>2. TypeInv /\ Ownership /\ UsedInv /\ [Next]_vars => UsedInv'
  <2> SUFFICES ASSUME TypeInv, Ownership, UsedInv, [Next]_vars PROVE UsedInv'
    OBVIOUS
  <2> USE RingAssumption DEF TypeInv, TypeOK, Ownership, UsedInv, UsedInRange,
                             ClientGoes, DaemonGoes, ring
  <2>1. ASSUME NEW c \in Clients,
               write_test_open(c) \/ write_test_release(c) \/ write_test_write(c)
        PROVE  UsedInv'
    BY <2>1 DEF write_test_open, write_test_release, write_test_write
  <2>2. ASSUME NEW c \in Clients, AddStep(c) PROVE UsedInv'
    BY <2>2 DEF AddStep, AddFull, AddRoom, AddInc, AddClear, AddCopy, AddAdvance
  <2>3. ASSUME NEW d \in Daemons, write_persistence_open(d) \/ Close(d)
        PROVE  UsedInv'
    BY <2>3 DEF write_persistence_open, Close
  <2>4. ASSUME NEW d \in Daemons, ReadStep(d) PROVE UsedInv'
    BY <2>4 DEF ReadStep, write_persistence_poll, ReadCopy, ReadFault, ReadDec,
                ReadAdvance
  <2>5. ASSUME NEW d \in Daemons, ReleaseStep(d) PROVE UsedInv'
    BY <2>5 DEF ReleaseStep, ReleaseUsed, ReleaseCurrent, ReleaseFirst,
                ReleaseUnlock
  <2>6. CASE UNCHANGED vars
    BY <2>6 DEF vars
  <2>7. QED
    BY <2>1, <2>2, <2>3, <2>4, <2>5, <2>6 DEF Next
<1>3. QED
  BY <1>1, <1>2, TypeInvariant, OwnershipInvariant, PTL DEF Spec

-----------------------------------------------------------------------------
(***************************************************************************)
(* The queue in the ring.                                                  *)
(***************************************************************************)

\* The ranges of the quantities the queue invariant adds up.
LEMMA Ranges ==
  ASSUME IInv
  PROVE  /\ BUFFER_SIZE \in Nat /\ BUFFER_SIZE > 0
         /\ used_buf \in 0 .. BUFFER_SIZE
         /\ first_buf \in 0 .. BUFFER_SIZE - 1
         /\ current_buf \in 0 .. BUFFER_SIZE - 1
         /\ Held \in {0, 1}
         /\ Len(queue) \in Nat
         /\ queue \in Seq(StoredMessages)
<1>1. Len(queue) \in Nat /\ queue \in Seq(StoredMessages)
  BY LenProperties DEF IInv, TypeInv, TypeOK
<1>2. QED
  BY <1>1, RingAssumption DEF IInv, TypeInv, TypeOK, UsedInv, UsedInRange,
                              Slots, Held

\* The slot an add writes holds no unread message.
LEMMA CurrentIsFree ==
  ASSUME IInv, Adding, intact, ~Resetting, NEW i \in 1 .. Len(queue)
  PROVE  (first_buf + Held + i - 1) % BUFFER_SIZE # current_buf
<1>1. queue # <<>>
  BY Ranges, EmptySeq
<1>2. ~overtaken
  BY <1>1 DEF IInv, QueueInv, HistoryInv
<1>3. Len(queue) + 1 <= BUFFER_SIZE
  BY <1>2, Ranges DEF IInv, QueueInv, CountInv
<1>4. (current_buf + 0) % BUFFER_SIZE = (first_buf + Held + Len(queue)) % BUFFER_SIZE
  BY <1>2 DEF IInv, QueueInv, RingHoldsQueue
<1>5. (first_buf + Held + i - 1) % BUFFER_SIZE
        # (first_buf + Held + Len(queue)) % BUFFER_SIZE
  <2>1. Held \in 0 .. 1 /\ Len(queue) \in 0 .. BUFFER_SIZE - 1
    BY <1>3, Ranges
  <2>2. QED
    BY <2>1, Ranges, SlotsDiffer
<1>6. (current_buf + 0) % BUFFER_SIZE = current_buf
  BY Ranges, RingAssumption
<1>7. QED
  BY <1>4, <1>5, <1>6

\* Initially the ring is empty.
LEMMA QueueInit == Init => QueueInv
<1> SUFFICES ASSUME Init PROVE QueueInv
  OBVIOUS
<1>1. ~Adding /\ ~Resetting /\ ~Copied /\ Held = 0
  BY DEF Init, Adding, Resetting, Copied, Held
<1>2. Len(queue) = 0
  BY EmptySeq DEF Init
<1>3. SlotWritten /\ HistoryInv
  BY <1>1 DEF Init, SlotWritten, HistoryInv
<1>4. CountInv
  BY <1>1, <1>2 DEF Init, CountInv
<1>5. RingHoldsQueue
  BY <1>1, <1>2, RingAssumption DEF Init, RingHoldsQueue
<1>6. QED
  BY <1>3, <1>4, <1>5 DEF QueueInv

\* Steps of a client leave what the daemons do alone, and conversely.
LEMMA DaemonsUnchanged ==
  ASSUME daemon' = daemon
  PROVE  (Resetting' <=> Resetting) /\ (Copied' <=> Copied) /\ Held' = Held
  BY DEF Resetting, Copied, Held
LEMMA ClientsUnchanged ==
  ASSUME client' = client
  PROVE  Adding' <=> Adding
  BY DEF Adding

\* Steps of a client that do not touch the ring.
LEMMA ClientQuiet ==
  ASSUME IInv, NEW c \in Clients,
         \/ write_test_open(c) \/ write_test_release(c) \/ write_test_write(c)
         \/ AddFull(c) \/ AddRoom(c)
  PROVE  QueueInv'
<1> USE DEF ClientGoes, ring, history
<1>1. /\ UNCHANGED <<ring, history, daemon>>
      /\ \A x \in Clients : x # c => client'[x] = client[x] /\ arg'[x] = arg[x]
      /\ client[c] \in {"closed", "open", "check"}
      /\ client'[c] \in {"closed", "open", "check", "inc"}
  BY DEF write_test_open, write_test_release, write_test_write, AddFull, AddRoom,
         IInv, TypeInv, TypeOK
<1>2. Adding' <=> Adding
  BY <1>1 DEF Adding
<1>3. (Resetting' <=> Resetting) /\ (Copied' <=> Copied) /\ Held' = Held
  BY <1>1, DaemonsUnchanged
<1>4. SlotWritten' /\ HistoryInv'
  BY <1>1, <1>2, <1>3 DEF IInv, QueueInv, SlotWritten, HistoryInv
<1>5. CountInv'
  BY <1>1, <1>2, <1>3 DEF IInv, QueueInv, CountInv
<1>6. RingHoldsQueue'
  BY <1>1, <1>2, <1>3 DEF IInv, QueueInv, RingHoldsQueue
<1>7. QED
  BY <1>4, <1>5, <1>6 DEF QueueInv

\* The char_mutex keeps every other process out.
LEMMA OneClient ==
  ASSUME IInv, NEW c \in Clients, client[c] # "closed"
  PROVE  \A x \in Clients : x # c => client[x] = "closed"
  BY DEF IInv, Ownership
LEMMA OneDaemon ==
  ASSUME IInv, NEW d \in Daemons, daemon[d] # "closed"
  PROVE  \A x \in Daemons : x # d => daemon[x] = "closed"
  BY DEF IInv, Ownership

\* The count goes up while the indices are not being reset, or the ring is
\* written off.
LEMMA IncStep ==
  ASSUME IInv, NEW c \in Clients, AddInc(c)
  PROVE  QueueInv'
<1>1. /\ client[c] = "inc" /\ client' = [client EXCEPT ![c] = "clear"]
      /\ used_buf' = used_buf + 1
      /\ intact' = (intact /\ ~Resetting)
      /\ UNCHANGED <<current_buf, first_buf, msg_buf, arg, daemon, queue, overtaken>>
  BY DEF AddInc, ClientGoes
<1>2. \A x \in Clients : x # c => client[x] = "closed"
  BY <1>1, OneClient
<1>3. client' \in [Clients -> ClientStates] /\ client'[c] = "clear"
  BY <1>1 DEF IInv, TypeInv, TypeOK, ClientStates
<1>4. ~Adding /\ Adding'
  BY <1>1, <1>2, <1>3 DEF Adding
<1>5. (Resetting' <=> Resetting) /\ (Copied' <=> Copied) /\ Held' = Held
  BY <1>1, DaemonsUnchanged
<1>6. ~overtaken
  BY <1>4 DEF IInv, QueueInv, HistoryInv
<1>7. intact' => intact /\ ~Resetting
  BY <1>1
<1>8. intact /\ ~intact' => Resetting
  BY <1>1
<1>9. SlotWritten'
  BY <1>1, <1>2, <1>3 DEF SlotWritten, IInv, TypeInv, TypeOK
<1>10. CountInv'
  BY <1>1, <1>4, <1>5, <1>6, <1>7, Ranges DEF IInv, QueueInv, CountInv
<1>11. RingHoldsQueue'
  BY <1>1, <1>5, <1>7 DEF IInv, QueueInv, RingHoldsQueue
<1>12. HistoryInv'
  <2>1. ~intact' => queue' = <<>> /\ ~overtaken'
    BY <1>1, <1>6, <1>8 DEF IInv, QueueInv, HistoryInv
  <2>2. \A d \in Daemons :
          /\ daemon'[d] = "err_dec" => ~intact'
          /\ intact' /\ daemon'[d] = "rel_first" => current_buf' = 0
    BY <1>1, <1>7 DEF IInv, QueueInv, HistoryInv
  <2>3. ~(intact' /\ Resetting') /\ ~overtaken'
    BY <1>1, <1>5, <1>6, <1>7
  <2>4. QED
    BY <2>1, <2>2, <2>3 DEF HistoryInv
<1>13. QED
  BY <1>9, <1>10, <1>11, <1>12 DEF QueueInv

\* Clearing and filling a slot do not touch an unread message.
LEMMA SlotStep ==
  ASSUME IInv, NEW c \in Clients, AddClear(c) \/ AddCopy(c)
  PROVE  QueueInv'
<1> DEFINE v == IF client[c] = "clear" THEN Zero ELSE Stored(arg[c])
<1>1. /\ client[c] \in {"clear", "copy"} /\ client'[c] \in {"copy", "advance"}
      /\ \A x \in Clients : x # c => client'[x] = client[x]
      /\ client'[c] = "advance" => client[c] = "copy"
      /\ msg_buf' = [msg_buf EXCEPT ![current_buf] = v]
      /\ UNCHANGED <<used_buf, current_buf, first_buf, arg, daemon, queue,
                     overtaken, intact>>
  BY DEF AddClear, AddCopy, ClientGoes, history, IInv, TypeInv, TypeOK
<1>2. \A x \in Clients : x # c => client[x] = "closed"
  BY <1>1, OneClient
<1>3. Adding /\ Adding'
  BY <1>1 DEF Adding
<1>4. (Resetting' <=> Resetting) /\ (Copied' <=> Copied) /\ Held' = Held
  BY <1>1, DaemonsUnchanged
<1>5. msg_buf'[current_buf] = v
  BY <1>1 DEF IInv, TypeInv, TypeOK
<1>6. SlotWritten'
  BY <1>1, <1>2, <1>5 DEF SlotWritten
<1>7. CountInv' /\ HistoryInv'
  BY <1>1, <1>3, <1>4 DEF IInv, QueueInv, CountInv, HistoryInv
<1>8. RingHoldsQueue'
  <2> SUFFICES ASSUME intact, ~Resetting
               PROVE  \A i \in 1 .. Len(queue) :
                        msg_buf'[(first_buf + Held + i - 1) % BUFFER_SIZE] = queue[i]
    BY <1>1, <1>4 DEF IInv, QueueInv, RingHoldsQueue
  <2> TAKE i \in 1 .. Len(queue)
  <2> DEFINE k == (first_buf + Held + i - 1) % BUFFER_SIZE
  <2>1. k # current_buf
    BY <1>3, CurrentIsFree
  <2>2. msg_buf[k] = queue[i]
    BY DEF IInv, QueueInv, RingHoldsQueue
  <2>3. k \in Slots
    <3>1. first_buf + Held + i - 1 \in Nat
      BY Ranges
    <3>2. QED
      BY <3>1, ModSlot
  <2>4. QED
    BY <1>1, <2>1, <2>2, <2>3 DEF IInv, TypeInv, TypeOK
<1>9. QED
  BY <1>6, <1>7, <1>8 DEF QueueInv

\* What the queue invariant says of a ring that is intact and not being reset.
LEMMA RingFacts ==
  ASSUME IInv, intact, ~Resetting
  PROVE  /\ Len(queue) <= BUFFER_SIZE
         /\ \A i \in 1 .. Len(queue) :
              msg_buf[(first_buf + Held + i - 1) % BUFFER_SIZE] = queue[i]
         /\ ~overtaken =>
              current_buf = (first_buf + Held + Len(queue)) % BUFFER_SIZE
         /\ overtaken =>
              Succ(current_buf) = (first_buf + Held + Len(queue)) % BUFFER_SIZE
<1>1. current_buf \in Slots
  BY DEF IInv, TypeInv, TypeOK
<1>3. (current_buf + 0) % BUFFER_SIZE = current_buf
  BY <1>1, SlotMod
<1>2. QED
  BY <1>3, Ranges DEF IInv, QueueInv, RingHoldsQueue, Succ

\* Publishing the message appends it, unless a read has already passed it.
LEMMA AdvanceStep ==
  ASSUME IInv, NEW c \in Clients, AddAdvance(c)
  PROVE  QueueInv'
<1>1. /\ client[c] = "advance" /\ client' = [client EXCEPT ![c] = "open"]
      /\ current_buf' = Succ(current_buf)
      /\ queue' = IF overtaken \/ ~intact THEN queue
                  ELSE Append(queue, Stored(arg[c]))
      /\ overtaken' = FALSE
      /\ UNCHANGED <<used_buf, first_buf, msg_buf, daemon, intact>>
  BY DEF AddAdvance, ClientGoes
<1>2. \A x \in Clients : x # c => client[x] = "closed"
  BY <1>1, OneClient
<1>3. client'[c] = "open" /\ \A x \in Clients : x # c => client'[x] = "closed"
  BY <1>1, <1>2 DEF IInv, TypeInv, TypeOK
<1>4. Adding /\ ~Adding'
  BY <1>1, <1>3 DEF Adding
<1>5. (Resetting' <=> Resetting) /\ (Copied' <=> Copied) /\ Held' = Held
  BY <1>1, DaemonsUnchanged
<1>6. ~(intact /\ Resetting)
  BY <1>4 DEF IInv, QueueInv, HistoryInv
<1>7. SlotWritten'
  BY <1>3 DEF SlotWritten
<1>8. HistoryInv'
  <2>1. ~intact' => queue' = <<>> /\ ~overtaken'
    BY <1>1 DEF IInv, QueueInv, HistoryInv
  <2>2. \A d \in Daemons : daemon'[d] = "err_dec" => ~intact'
    BY <1>1 DEF IInv, QueueInv, HistoryInv
  <2>3. \A d \in Daemons : ~(intact' /\ daemon'[d] = "rel_first")
    BY <1>1, <1>6 DEF Resetting
  <2>4. ~overtaken' /\ ~(intact' /\ Resetting')
    BY <1>1, <1>5, <1>6
  <2>5. QED
    BY <2>1, <2>2, <2>3, <2>4 DEF HistoryInv
<1> DEFINE m == Stored(arg[c])
<1>9. m \in StoredMessages
  BY <1>1 DEF IInv, TypeInv, ArgTyped, StoredMessages
<1>10. SUFFICES ASSUME intact, ~Resetting
                PROVE  CountInv' /\ RingHoldsQueue'
  <2>1. ~(intact /\ ~Resetting) => CountInv' /\ RingHoldsQueue'
    BY <1>1, <1>5 DEF CountInv, RingHoldsQueue
  <2>2. QED
    BY <1>7, <1>8, <1>10, <2>1 DEF QueueInv
<1>11. Succ(current_buf) \in Slots
  BY SuccSlot DEF IInv, TypeInv, TypeOK
<1>12. (Succ(current_buf) + 0) % BUFFER_SIZE = Succ(current_buf)
  BY <1>11, SlotMod
<1>13. CASE overtaken
  <2>1. queue' = queue
    BY <1>1, <1>13
  <2>2. CountInv'
    BY <1>1, <1>4, <1>5, <1>10, <1>13, <2>1 DEF IInv, QueueInv, CountInv
  <2>3. RingHoldsQueue'
    BY <1>1, <1>5, <1>10, <1>12, <1>13, <2>1, RingFacts DEF RingHoldsQueue
  <2>4. QED
    BY <2>2, <2>3
<1>14. CASE ~overtaken
  <2>1. queue' = Append(queue, m)
    BY <1>1, <1>10, <1>14
  <2>2. /\ Len(queue') = Len(queue) + 1
        /\ \A i \in 1 .. Len(queue) : queue'[i] = queue[i]
        /\ queue'[Len(queue) + 1] = m
    BY <1>9, <2>1, Ranges, AppendProperties
  <2>3. used_buf = Len(queue) + 1 + (IF Copied THEN 1 ELSE 0)
    BY <1>4, <1>10, <1>14 DEF IInv, QueueInv, CountInv
  <2>4. Len(queue) + 1 <= BUFFER_SIZE
    BY <2>3, Ranges
  <2>5. CountInv'
    <3> DEFINE n == IF Copied THEN 1 ELSE 0
    <3>3. n \in {0, 1} /\ n = IF Copied' THEN 1 ELSE 0
      BY <1>5
    <3>4. used_buf' = used_buf
      BY <1>1
    <3>5. used_buf = Len(queue) + 1 + n
      BY <2>3
    <3> HIDE DEF n
    <3>6. used_buf' = Len(queue') + 0 + n
      BY <2>2, <3>3, <3>4, <3>5, Ranges
    <3>1. used_buf' = Len(queue') + 0 + (IF Copied' THEN 1 ELSE 0)
      BY <3>3, <3>6
    <3>2. QED
      BY <1>4, <3>1 DEF CountInv
  <2>6. current_buf = (first_buf + Held + Len(queue)) % BUFFER_SIZE
    BY <1>10, <1>14, RingFacts
  <2>7. Succ(current_buf) = (first_buf + Held + (Len(queue) + 1)) % BUFFER_SIZE
    <3> DEFINE x == first_buf + Held + Len(queue)
    <3>1. x \in 0 .. 2 * BUFFER_SIZE - 1
          /\ x + 1 = first_buf + Held + (Len(queue) + 1)
      BY <2>4, Ranges
    <3> HIDE DEF x
    <3>2. Succ(x % BUFFER_SIZE) = (x + 1) % BUFFER_SIZE
      BY <3>1, SuccMod
    <3>3. QED
      BY <2>6, <3>1, <3>2 DEF x
  <2>8. msg_buf[current_buf] = m
    BY <1>1, <1>10 DEF IInv, QueueInv, SlotWritten
  <2>9. \A i \in 1 .. Len(queue') :
          msg_buf[(first_buf + Held + i - 1) % BUFFER_SIZE] = queue'[i]
    <3> SUFFICES ASSUME NEW i \in 1 .. Len(queue) + 1
                 PROVE  msg_buf[(first_buf + Held + i - 1) % BUFFER_SIZE] = queue'[i]
      BY <2>2
    <3>1. CASE i \in 1 .. Len(queue)
      BY <3>1, <1>10, <2>2, RingFacts
    <3>2. CASE i = Len(queue) + 1
      <4>1. first_buf + Held + i - 1 = first_buf + Held + Len(queue)
        BY <3>2, Ranges
      <4>2. QED
        BY <3>2, <4>1, <2>2, <2>6, <2>8
    <3>3. QED
      BY <3>1, <3>2, Ranges
  <2>10. RingHoldsQueue'
    <3>1. Len(queue') <= BUFFER_SIZE
      BY <2>2, <2>4
    <3>2. (current_buf' + 0) % BUFFER_SIZE
            = (first_buf' + Held' + Len(queue')) % BUFFER_SIZE
      BY <1>1, <1>5, <1>12, <2>2, <2>7
    <3>3. QED
      BY <1>1, <1>5, <2>9, <3>1, <3>2 DEF RingHoldsQueue
  <2>11. QED
    BY <2>5, <2>10
<1>15. QED
  BY <1>13, <1>14

\* With one daemon past open, its state says what the daemons are doing.
DoesReset(s) == s \in {"rel_current", "rel_first"}
Holds(s) == IF s \in {"dec", "advance"} THEN 1 ELSE 0
LEMMA DaemonStep ==
  ASSUME IInv, NEW d \in Daemons, daemon[d] # "closed",
         NEW s, daemon' = [daemon EXCEPT ![d] = s]
  PROVE  /\ daemon'[d] = s
         /\ \A x \in Daemons : x # d => daemon[x] = "closed" /\ daemon'[x] = "closed"
         /\ Resetting <=> DoesReset(daemon[d])
         /\ Copied <=> daemon[d] = "dec"
         /\ Held = Holds(daemon[d])
         /\ Resetting' <=> DoesReset(s)
         /\ Copied' <=> s = "dec"
         /\ Held' = Holds(s)
<1>1. \A x \in Daemons : x # d => daemon[x] = "closed"
  BY OneDaemon
<1>2. daemon'[d] = s /\ \A x \in Daemons : x # d => daemon'[x] = "closed"
  BY <1>1 DEF IInv, TypeInv, TypeOK
<1>3. QED
  BY <1>1, <1>2 DEF Resetting, Copied, Held, DoesReset, Holds

\* Steps of a daemon that do not touch the ring.
LEMMA DaemonQuiet ==
  ASSUME IInv, NEW d \in Daemons,
         \/ write_persistence_open(d) \/ write_persistence_poll(d) \/ Close(d)
         \/ ReleaseUnlock(d)
  PROVE  QueueInv'
<1>1. /\ UNCHANGED <<ring, history, client, arg>>
      /\ \A x \in Daemons : x # d => daemon'[x] = daemon[x]
      /\ daemon[d] \in {"closed", "poll", "read", "rel_unlock"}
      /\ daemon'[d] \in {"closed", "poll", "read", "rel_used"}
  BY DEF write_persistence_open, write_persistence_poll, Close, ReleaseUnlock,
         DaemonGoes, IInv, TypeInv, TypeOK
<1>2. (Resetting' <=> Resetting) /\ (Copied' <=> Copied) /\ Held' = Held
  BY <1>1 DEF Resetting, Copied, Held
<1>3. Adding' <=> Adding
  BY <1>1, ClientsUnchanged
<1>4. SlotWritten' /\ HistoryInv'
  BY <1>1, <1>2, <1>3 DEF IInv, QueueInv, SlotWritten, HistoryInv, ring, history
<1>5. CountInv'
  BY <1>1, <1>2, <1>3 DEF IInv, QueueInv, CountInv, ring, history
<1>6. RingHoldsQueue'
  BY <1>1, <1>2, <1>3 DEF IInv, QueueInv, RingHoldsQueue, ring, history
<1>7. QED
  BY <1>4, <1>5, <1>6 DEF QueueInv

\* A read that poll announced finds a message, or an add it overtakes.
LEMMA PollFinds ==
  ASSUME IInv, NEW d \in Daemons, daemon[d] = "read", intact
  PROVE  queue # <<>> \/ (Adding /\ ~overtaken)
<1>1. \A x \in Daemons : x # d => daemon[x] = "closed"
  BY OneDaemon
<1>2. ~Resetting /\ ~Copied
  BY <1>1 DEF Resetting, Copied
<1>3. used_buf > 0
  BY DEF IInv, UsedInv
<1>4. used_buf = Len(queue) + (IF Adding /\ ~overtaken THEN 1 ELSE 0) + 0
  BY <1>2 DEF IInv, QueueInv, CountInv
<1>5. queue = <<>> => Len(queue) = 0
  OBVIOUS
<1>6. QED
  BY <1>3, <1>4, <1>5

\* Copying out takes the oldest message from the queue, or passes the add.
LEMMA CopyStep ==
  ASSUME IInv, NEW d \in Daemons, ReadCopy(d)
  PROVE  QueueInv'
<1>1. /\ daemon[d] = "read" /\ daemon' = [daemon EXCEPT ![d] = "dec"]
      /\ queue' = IF queue = <<>> THEN queue ELSE Tail(queue)
      /\ overtaken' = (intact /\ (overtaken \/ queue = <<>>))
      /\ UNCHANGED <<ring, client, arg, intact>>
  BY DEF ReadCopy, DaemonGoes
<1>2. /\ daemon'[d] = "dec" /\ ~Resetting /\ ~Copied /\ Held = 0
      /\ ~Resetting' /\ Copied' /\ Held' = 1
      /\ \A x \in Daemons : x # d => daemon'[x] = "closed"
  BY <1>1, DaemonStep DEF DoesReset, Holds
<1>3. Adding' <=> Adding
  BY <1>1, ClientsUnchanged
<1>4. SlotWritten'
  BY <1>1 DEF IInv, QueueInv, SlotWritten, ring
<1>5. CASE ~intact
  <2>1. queue = <<>> /\ queue' = <<>> /\ ~overtaken'
    BY <1>1, <1>5 DEF IInv, QueueInv, HistoryInv
  <2>2. CountInv' /\ RingHoldsQueue'
    BY <1>1, <1>5 DEF CountInv, RingHoldsQueue
  <2>3. HistoryInv'
    BY <1>1, <1>2, <1>5, <2>1 DEF HistoryInv
  <2>4. QED
    BY <1>4, <2>2, <2>3 DEF QueueInv
<1>6. CASE intact /\ queue = <<>>
  <2>1. Adding /\ ~overtaken /\ Len(queue) = 0
    BY <1>1, <1>6, PollFinds
  <2>2. queue' = <<>> /\ overtaken' /\ Len(queue') = 0 /\ intact'
    BY <1>1, <1>6
  <2>3. used_buf = 1
    BY <1>2, <1>6, <2>1 DEF IInv, QueueInv, CountInv
  <2>4. CountInv'
    <3>1. used_buf' = 1
      BY <1>1, <2>3 DEF ring
    <3>2. used_buf' = Len(queue') + 0 + 1
      BY <2>2, <3>1
    <3>3. QED
      BY <1>2, <2>2, <3>2 DEF CountInv
  <2>5. current_buf = (first_buf + 0 + 0) % BUFFER_SIZE
    BY <1>2, <1>6, <2>1, RingFacts
  <2>6. current_buf = first_buf
    <3>1. first_buf \in Slots /\ first_buf + 0 + 0 = first_buf + 0
      BY Ranges DEF Slots
    <3>2. QED
      BY <2>5, <3>1, SlotMod
  <2>7. RingHoldsQueue'
    <3>1. (current_buf' + 1) % BUFFER_SIZE = (first_buf' + Held' + Len(queue')) % BUFFER_SIZE
      <4>1. current_buf' = first_buf /\ first_buf' = first_buf
        BY <1>1, <2>6 DEF ring
      <4>2. Held' = 1 /\ Len(queue') = 0
        BY <1>2, <2>2
      <4>3. current_buf' + 1 = first_buf' + Held' + Len(queue')
        BY <4>1, <4>2, Ranges
      <4>4. QED
        BY <4>3
    <3>2. Len(queue') <= BUFFER_SIZE /\ 1 .. Len(queue') = {}
      BY <2>2, Ranges
    <3>3. QED
      BY <2>2, <3>1, <3>2 DEF RingHoldsQueue
  <2>8. HistoryInv'
    BY <1>2, <1>3, <2>1, <2>2 DEF HistoryInv
  <2>9. QED
    BY <1>4, <2>4, <2>7, <2>8 DEF QueueInv
<1>7. CASE intact /\ queue # <<>>
  <2>1. ~overtaken
    BY <1>7 DEF IInv, QueueInv, HistoryInv
  <2>2. queue' = Tail(queue) /\ ~overtaken' /\ intact'
    BY <1>1, <1>7, <2>1
  <2>3. /\ Len(queue') = Len(queue) - 1 /\ Len(queue) > 0
        /\ \A i \in 1 .. Len(queue) - 1 : queue'[i] = queue[i + 1]
    BY <1>7, <2>2, Ranges, HeadTailProperties
  <2>4. used_buf = Len(queue) + (IF Adding THEN 1 ELSE 0) + 0
    BY <1>2, <1>7, <2>1 DEF IInv, QueueInv, CountInv
  <2>5. CountInv'
    <3> DEFINE n == IF Adding THEN 1 ELSE 0
    <3>3. n \in {0, 1} /\ n = IF Adding' THEN 1 ELSE 0
      BY <1>3
    <3>4. used_buf' = used_buf
      BY <1>1 DEF ring
    <3>5. used_buf = Len(queue) + n + 0
      BY <2>4
    <3> HIDE DEF n
    <3>6. used_buf' = Len(queue') + n + 1
      BY <2>3, <3>3, <3>4, <3>5, Ranges
    <3>1. used_buf' = Len(queue') + (IF Adding' THEN 1 ELSE 0) + 1
      BY <3>3, <3>6
    <3>2. QED
      BY <1>2, <2>2, <3>1 DEF CountInv
  <2>6. /\ Len(queue) <= BUFFER_SIZE
        /\ current_buf = (first_buf + 0 + Len(queue)) % BUFFER_SIZE
        /\ \A i \in 1 .. Len(queue) :
             msg_buf[(first_buf + 0 + i - 1) % BUFFER_SIZE] = queue[i]
    BY <1>2, <1>7, <2>1, RingFacts
  <2>7. RingHoldsQueue'
    <3>1. Len(queue') <= BUFFER_SIZE
      BY <2>3, <2>6, Ranges
    <3>2. (current_buf' + 0) % BUFFER_SIZE
            = (first_buf' + Held' + Len(queue')) % BUFFER_SIZE
      <4>1. first_buf' + Held' + Len(queue') = first_buf + 0 + Len(queue)
        BY <1>1, <1>2, <2>3, Ranges DEF ring
      <4>2. current_buf \in Slots
        BY DEF IInv, TypeInv, TypeOK
      <4>3. QED
        BY <1>1, <2>6, <4>1, <4>2, SlotMod DEF ring
    <3>3. \A i \in 1 .. Len(queue') :
            msg_buf'[(first_buf' + Held' + i - 1) % BUFFER_SIZE] = queue'[i]
      <4> SUFFICES ASSUME NEW i \in 1 .. Len(queue) - 1
                   PROVE  msg_buf[(first_buf + 1 + i - 1) % BUFFER_SIZE] = queue[i + 1]
        BY <1>1, <1>2, <2>3 DEF ring
      <4>1. i + 1 \in 1 .. Len(queue)
            /\ first_buf + 0 + (i + 1) - 1 = first_buf + 1 + i - 1
        BY <2>3, Ranges
      <4>2. QED
        BY <2>6, <4>1
    <3>4. QED
      BY <2>2, <3>1, <3>2, <3>3 DEF RingHoldsQueue
  <2>8. HistoryInv'
    BY <1>2, <2>2 DEF HistoryInv
  <2>9. QED
    BY <1>4, <2>5, <2>7, <2>8 DEF QueueInv
<1>8. QED
  BY <1>5, <1>6, <1>7

\* A failed copy writes the ring off.
LEMMA FaultStep ==
  ASSUME IInv, NEW d \in Daemons, ReadFault(d)
  PROVE  QueueInv'
<1>1. ~intact' /\ queue' = <<>> /\ ~overtaken'
  BY DEF ReadFault
<1>2. QED
  BY <1>1 DEF QueueInv, SlotWritten, CountInv, HistoryInv, RingHoldsQueue

\* Counting down a message that was copied out.
LEMMA DecStep ==
  ASSUME IInv, NEW d \in Daemons, ReadDec(d)
  PROVE  QueueInv'
<1>1. /\ used_buf' = used_buf - 1
      /\ UNCHANGED <<current_buf, first_buf, msg_buf, client, arg, queue,
                     overtaken, intact>>
  BY DEF ReadDec, history
<1>2. Adding' <=> Adding
  BY <1>1, ClientsUnchanged
<1>3. SlotWritten'
  BY <1>1 DEF IInv, QueueInv, SlotWritten
<1>4. CASE DaemonGoes(d, "err_dec", "poll")
  <2>1. /\ daemon[d] = "err_dec" /\ daemon'[d] = "poll" /\ ~Resetting'
        /\ \A x \in Daemons : x # d => daemon'[x] = "closed"
    BY <1>4, DaemonStep DEF DaemonGoes, DoesReset
  <2>2. ~intact /\ queue = <<>> /\ ~overtaken
    BY <2>1 DEF IInv, QueueInv, HistoryInv
  <2>3. ~intact' /\ queue' = <<>> /\ ~overtaken'
    BY <1>1, <2>2
  <2>4. QED
    BY <1>3, <2>3 DEF QueueInv, CountInv, HistoryInv, RingHoldsQueue
<1>5. CASE DaemonGoes(d, "dec", "advance")
  <2>1. /\ daemon'[d] = "advance" /\ ~Resetting /\ Copied /\ Held = 1
        /\ ~Resetting' /\ ~Copied' /\ Held' = 1
        /\ \A x \in Daemons : x # d => daemon'[x] = "closed"
    BY <1>5, DaemonStep DEF DaemonGoes, DoesReset, Holds
  <2>2. HistoryInv'
    BY <1>1, <1>2, <2>1 DEF IInv, QueueInv, HistoryInv
  <2>3. RingHoldsQueue'
    BY <1>1, <2>1 DEF IInv, QueueInv, RingHoldsQueue
  <2>4. CountInv'
    <3> DEFINE n == IF Adding /\ ~overtaken THEN 1 ELSE 0
    <3>1. n \in {0, 1} /\ n = IF Adding' /\ ~overtaken' THEN 1 ELSE 0
      BY <1>1, <1>2
    <3>2. intact => used_buf = Len(queue) + n + 1
      BY <2>1 DEF IInv, QueueInv, CountInv
    <3>3. (intact' <=> intact) /\ Len(queue') = Len(queue)
      BY <1>1
    <3> HIDE DEF n
    <3>4. intact' => used_buf' = Len(queue') + n + 0
      BY <1>1, <3>1, <3>2, <3>3, Ranges
    <3>5. QED
      BY <2>1, <3>1, <3>4 DEF CountInv
  <2>5. QED
    BY <1>3, <2>2, <2>3, <2>4 DEF QueueInv
<1>6. QED
  BY <1>4, <1>5 DEF ReadDec

\* Moving the read index behind the slot that was copied out.
LEMMA ReadAdvanceStep ==
  ASSUME IInv, NEW d \in Daemons, ReadAdvance(d)
  PROVE  QueueInv'
<1>1. /\ daemon[d] = "advance" /\ daemon' = [daemon EXCEPT ![d] = "poll"]
      /\ first_buf' = Succ(first_buf)
      /\ UNCHANGED <<used_buf, current_buf, msg_buf, client, arg, queue,
                     overtaken, intact>>
  BY DEF ReadAdvance, DaemonGoes, history
<1>2. /\ daemon'[d] = "poll" /\ ~Resetting /\ ~Copied /\ Held = 1
      /\ ~Resetting' /\ ~Copied' /\ Held' = 0
      /\ \A x \in Daemons : x # d => daemon'[x] = "closed"
  BY <1>1, DaemonStep DEF DoesReset, Holds
<1>3. Adding' <=> Adding
  BY <1>1, ClientsUnchanged
<1>4. SlotWritten'
  BY <1>1 DEF IInv, QueueInv, SlotWritten
<1>5. HistoryInv'
  BY <1>1, <1>2, <1>3 DEF IInv, QueueInv, HistoryInv
<1>6. CountInv'
  BY <1>1, <1>2, <1>3 DEF IInv, QueueInv, CountInv
<1>7. RingHoldsQueue'
  <2> SUFFICES ASSUME intact PROVE RingHoldsQueue'
    BY <1>1 DEF RingHoldsQueue
  <2>1. Len(queue) <= BUFFER_SIZE
    BY <1>2, RingFacts
  <2>2. \A k \in 0 .. BUFFER_SIZE :
          (first_buf' + k) % BUFFER_SIZE = (first_buf + 1 + k) % BUFFER_SIZE
    BY <1>1, Ranges, SuccThen
  <2>3. Succ(first_buf) \in Slots
    BY SuccSlot DEF IInv, TypeInv, TypeOK
  <2>4. first_buf' \in Nat
    BY <1>1, <2>3, RingAssumption DEF Slots
  <2>5. (first_buf' + Held' + Len(queue')) % BUFFER_SIZE
          = (first_buf + Held + Len(queue)) % BUFFER_SIZE
    <3>1. Len(queue) \in 0 .. BUFFER_SIZE
      BY <2>1, Ranges
    <3>2. (first_buf' + Len(queue)) % BUFFER_SIZE
            = (first_buf + 1 + Len(queue)) % BUFFER_SIZE
      BY <2>2, <3>1
    <3>3. first_buf' + Held' + Len(queue') = first_buf' + Len(queue)
      BY <1>1, <1>2, <2>4, Ranges
    <3>4. Held = 1
      BY <1>2
    <3>5. QED
      BY <3>2, <3>3, <3>4
  <2>6. \A i \in 1 .. Len(queue) :
          (first_buf' + Held' + i - 1) % BUFFER_SIZE
            = (first_buf + Held + i - 1) % BUFFER_SIZE
    <3> TAKE i \in 1 .. Len(queue)
    <3>1. i - 1 \in 0 .. BUFFER_SIZE
      BY <2>1, Ranges
    <3>2. (first_buf' + (i - 1)) % BUFFER_SIZE
            = (first_buf + 1 + (i - 1)) % BUFFER_SIZE
      BY <2>2, <3>1
    <3>3. Held' = 0 /\ Held = 1
      BY <1>2
    <3>4. /\ first_buf' + Held' + i - 1 = first_buf' + (i - 1)
          /\ first_buf + Held + i - 1 = first_buf + 1 + (i - 1)
      BY <2>4, <3>3, Ranges
    <3>5. QED
      BY <3>2, <3>4
  <2>7. QED
    BY <1>1, <1>2, <2>5, <2>6 DEF IInv, QueueInv, RingHoldsQueue
<1>8. QED
  BY <1>4, <1>5, <1>6, <1>7 DEF QueueInv

\* The steps of close, in their order: counter, write index, read index.
LEMMA ReleaseUsedStep ==
  ASSUME IInv, NEW d \in Daemons, ReleaseUsed(d)
  PROVE  QueueInv'
<1>1. /\ daemon[d] = "rel_used" /\ daemon' = [daemon EXCEPT ![d] = "rel_current"]
      /\ used_buf' = 0 /\ queue' = <<>> /\ ~overtaken'
      /\ UNCHANGED <<current_buf, first_buf, msg_buf, client, arg>>
  BY DEF ReleaseUsed, DaemonGoes
<1>2. intact' <=> ~Adding
  BY DEF ReleaseUsed
<1>3. /\ daemon'[d] = "rel_current" /\ Resetting'
      /\ \A x \in Daemons : x # d => daemon'[x] = "closed"
  BY <1>1, DaemonStep DEF DoesReset
<1>4. Adding' <=> Adding
  BY <1>1, ClientsUnchanged
<1>5. SlotWritten'
  BY <1>1, <1>2 DEF SlotWritten, Adding
<1>6. CountInv' /\ RingHoldsQueue'
  BY <1>3 DEF CountInv, RingHoldsQueue
<1>7. HistoryInv'
  BY <1>1, <1>2, <1>3, <1>4 DEF HistoryInv
<1>8. QED
  BY <1>5, <1>6, <1>7 DEF QueueInv

LEMMA ReleaseCurrentStep ==
  ASSUME IInv, NEW d \in Daemons, ReleaseCurrent(d)
  PROVE  QueueInv'
<1>1. /\ daemon[d] = "rel_current" /\ daemon' = [daemon EXCEPT ![d] = "rel_first"]
      /\ current_buf' = 0
      /\ UNCHANGED <<used_buf, first_buf, msg_buf, client, arg, queue,
                     overtaken, intact>>
  BY DEF ReleaseCurrent, DaemonGoes, history
<1>2. /\ daemon'[d] = "rel_first" /\ Resetting /\ Resetting'
      /\ \A x \in Daemons : x # d => daemon'[x] = "closed"
  BY <1>1, DaemonStep DEF DoesReset
<1>3. Adding' <=> Adding
  BY <1>1, ClientsUnchanged
<1>4. SlotWritten'
  BY <1>1, <1>2 DEF IInv, QueueInv, HistoryInv, SlotWritten, Adding
<1>5. CountInv' /\ RingHoldsQueue'
  BY <1>2 DEF CountInv, RingHoldsQueue
<1>6. HistoryInv'
  BY <1>1, <1>2, <1>3 DEF IInv, QueueInv, HistoryInv
<1>7. QED
  BY <1>4, <1>5, <1>6 DEF QueueInv

LEMMA ReleaseFirstStep ==
  ASSUME IInv, NEW d \in Daemons, ReleaseFirst(d)
  PROVE  QueueInv'
<1>1. /\ daemon[d] = "rel_first" /\ daemon' = [daemon EXCEPT ![d] = "rel_unlock"]
      /\ first_buf' = 0
      /\ UNCHANGED <<used_buf, current_buf, msg_buf, client, arg, queue,
                     overtaken, intact>>
  BY DEF ReleaseFirst, DaemonGoes, history
<1>2. /\ daemon'[d] = "rel_unlock" /\ Resetting /\ ~Resetting' /\ ~Copied'
      /\ Held' = 0
      /\ \A x \in Daemons : x # d => daemon'[x] = "closed"
  BY <1>1, DaemonStep DEF DoesReset, Holds
<1>3. Adding' <=> Adding
  BY <1>1, ClientsUnchanged
<1>4. intact => /\ used_buf = 0 /\ queue = <<>> /\ ~overtaken /\ ~Adding
                /\ current_buf = 0
  BY <1>1, <1>2 DEF IInv, QueueInv, HistoryInv
<1>5. SlotWritten'
  BY <1>1, <1>4 DEF SlotWritten, Adding
<1>6. HistoryInv'
  BY <1>1, <1>2, <1>3 DEF IInv, QueueInv, HistoryInv
<1>7. intact' => Len(queue') = 0 /\ used_buf' = 0 /\ current_buf' = 0
  BY <1>1, <1>4
<1>8. intact' => ~Adding' /\ ~overtaken'
  BY <1>1, <1>3, <1>4
<1>9. CountInv'
  BY <1>2, <1>7, <1>8 DEF CountInv
<1>10. RingHoldsQueue'
  BY <1>1, <1>2, <1>7, <1>8, RingAssumption DEF RingHoldsQueue
<1>11. QED
  BY <1>5, <1>6, <1>9, <1>10 DEF QueueInv
-----------------------------------------------------------------------------
\* The queue invariant, hence the whole inductive invariant, always holds.
LEMMA QueueInvariant == Spec => []IInv
<1>1. Init => QueueInv
  BY QueueInit
<1>2. IInv /\ [Next]_vars => QueueInv'
  <2> SUFFICES ASSUME IInv, [Next]_vars PROVE QueueInv'
    OBVIOUS
  <2>1. ASSUME NEW c \in Clients,
               \/ write_test_open(c) \/ write_test_release(c)
               \/ write_test_write(c) \/ AddStep(c)
        PROVE  QueueInv'
    BY <2>1, ClientQuiet, IncStep, SlotStep, AdvanceStep DEF AddStep
  <2>2. ASSUME NEW d \in Daemons,
               write_persistence_open(d) \/ Close(d) \/ ReadStep(d)
        PROVE  QueueInv'
    BY <2>2, DaemonQuiet, CopyStep, FaultStep, DecStep, ReadAdvanceStep
       DEF ReadStep
  <2>3. ASSUME NEW d \in Daemons, ReleaseStep(d) PROVE QueueInv'
    BY <2>3, DaemonQuiet, ReleaseUsedStep, ReleaseCurrentStep, ReleaseFirstStep
       DEF ReleaseStep
  <2>4. CASE UNCHANGED vars
    <3>1. UNCHANGED <<used_buf, current_buf, first_buf, msg_buf, client, arg,
                      daemon, queue, overtaken, intact>>
      BY <2>4 DEF vars, ring, history
    <3>2. QED
      BY <3>1 DEF IInv, QueueInv, SlotWritten, CountInv, HistoryInv,
                  RingHoldsQueue, Adding, Resetting, Copied, Held
  <2>5. QED
    BY <2>1, <2>2, <2>3, <2>4 DEF Next
<1>3. QED
  BY <1>1, <1>2, TypeInvariant, OwnershipInvariant, UsedInvariant, PTL
     DEF Spec, IInv
-----------------------------------------------------------------------------
\* The indices stay inside the ring and every variable keeps its type.
THEOREM TypeCorrect == Spec => []TypeOK
  BY TypeInvariant, PTL DEF TypeInv

\* The counter poll relies on stays within the ring, whatever closes, failed
\* copies and adds interleave.
THEOREM UsedBounded == Spec => []UsedInRange
  BY UsedInvariant, PTL DEF UsedInv

\* The finished unread messages lie in the ring in order, behind the read
\* index and before the write index, unless a close raced with an add or a
\* copy failed since the last clean close.
THEOREM RingCorrect == Spec => []RingHoldsQueue
  BY QueueInvariant, PTL DEF IInv, QueueInv

\* POLLIN on an intact ring means that a read finds a finished message, or
\* passes over an add in progress, which can happen once per add.
THEOREM PollCorrect == Spec => []PollInMeansMessage
<1>1. IInv => PollInMeansMessage
  BY PollFinds DEF PollInMeansMessage
<1>2. QED
  BY <1>1, QueueInvariant, PTL

\* What a read of an intact ring copies out is the oldest finished message, and
\* no add is writing its slot.
LEMMA CopyIsOldest ==
  ASSUME IInv, NEW d \in Daemons, ReadCopy(d), intact, queue # <<>>
  PROVE  recv'[d] = Head(queue)
<1>1. \A x \in Daemons : x # d => daemon[x] = "closed"
  BY OneDaemon DEF ReadCopy, DaemonGoes
<1>2. Held = 0 /\ ~Resetting
  BY <1>1 DEF Held, Resetting, ReadCopy, DaemonGoes
<1>3. Len(queue) > 0 /\ Head(queue) = queue[1]
  BY Ranges, HeadTailProperties
<1>4. first_buf \in Slots /\ first_buf + Held + 1 - 1 = first_buf + 0
  BY <1>2, Ranges DEF Slots
<1>5. 1 \in 1 .. Len(queue)
  BY <1>3, Ranges
<1>6. msg_buf[first_buf] = Head(queue)
  BY <1>2, <1>3, <1>4, <1>5, RingFacts, SlotMod
<1>7. Adding => first_buf # current_buf
  BY <1>2, <1>4, <1>5, CurrentIsFree, SlotMod
<1>8. Copies = {Head(queue)}
  BY <1>6, <1>7 DEF Copies, Adding
<1>9. QED
  BY <1>8 DEF ReadCopy, IInv, TypeInv, TypeOK

\* A read hands out the oldest finished message, and no add is writing the
\* slot it copies.
THEOREM ReadsFIFO == Spec => ReadsInOrder
<1>1. IInv /\ [Next]_vars =>
        [\A d \in Daemons :
           daemon[d] = "read" /\ daemon'[d] = "dec" /\ intact /\ queue # <<>>
             => recv'[d] = Head(queue)]_vars
  <2> SUFFICES ASSUME IInv, Next, NEW d \in Daemons, daemon[d] = "read",
                      daemon'[d] = "dec", intact, queue # <<>>
               PROVE  recv'[d] = Head(queue)
    OBVIOUS
  <2>1. \A x \in Daemons : x # d => daemon[x] = "closed"
    BY OneDaemon
  <2>2. ReadCopy(d)
    <3>1. ASSUME NEW c \in Clients,
                 \/ write_test_open(c) \/ write_test_release(c)
                 \/ write_test_write(c) \/ AddStep(c)
          PROVE  daemon' = daemon
      BY <3>1 DEF write_test_open, write_test_release, write_test_write,
                  AddStep, AddFull, AddRoom, AddInc, AddClear, AddCopy, AddAdvance
    <3>2. PICK x \in Daemons : write_persistence_open(x) \/ Close(x)
                               \/ ReadStep(x) \/ ReleaseStep(x)
      BY <3>1 DEF Next
    <3>3. x = d
      BY <2>1, <3>2 DEF write_persistence_open, Close, ReadStep, ReleaseStep,
           write_persistence_poll, ReadCopy, ReadFault, ReadDec, ReadAdvance,
           ReleaseUsed, ReleaseCurrent, ReleaseFirst, ReleaseUnlock, DaemonGoes,
           IInv, TypeInv, TypeOK
    <3>4. QED
      BY <3>2, <3>3 DEF write_persistence_open, Close, ReadStep, ReleaseStep,
           write_persistence_poll, ReadCopy, ReadFault, ReadDec, ReadAdvance,
           ReleaseUsed, ReleaseCurrent, ReleaseFirst, ReleaseUnlock, DaemonGoes,
           IInv, TypeInv, TypeOK
  <2>3. QED
    BY <2>2, CopyIsOldest
<1>2. QED
  BY <1>1, QueueInvariant, PTL DEF Spec, ReadsInOrder

\* A value is dropped only when BUFFER_SIZE messages are waiting, unless a
\* close raced with an add or a copy failed since the last clean close.
THEOREM DropsJustified == Spec => DropsOnlyWhenFull
<1>1. IInv /\ [Next]_vars =>
        [\A c \in Clients :
           client[c] = "check" /\ client'[c] = "open" /\ intact
             => Len(queue) + (IF Copied THEN 1 ELSE 0) = BUFFER_SIZE]_vars
  <2> SUFFICES ASSUME IInv, Next, NEW c \in Clients, client[c] = "check",
                      client'[c] = "open", intact
               PROVE  Len(queue) + (IF Copied THEN 1 ELSE 0) = BUFFER_SIZE
    OBVIOUS
  <2>1. \A x \in Clients : x # c => client[x] = "closed"
    BY OneClient
  <2>2. AddFull(c)
    <3>1. ASSUME NEW d \in Daemons,
                 \/ write_persistence_open(d) \/ Close(d)
                 \/ ReadStep(d) \/ ReleaseStep(d)
          PROVE  client' = client
      BY <3>1 DEF write_persistence_open, Close, ReadStep, ReleaseStep,
           write_persistence_poll, ReadCopy, ReadFault, ReadDec, ReadAdvance,
           ReleaseUsed, ReleaseCurrent, ReleaseFirst, ReleaseUnlock
    <3>2. PICK x \in Clients : write_test_open(x) \/ write_test_release(x)
                               \/ write_test_write(x) \/ AddStep(x)
      BY <3>1 DEF Next
    <3>3. x = c
      BY <2>1, <3>2 DEF write_test_open, write_test_release, write_test_write,
           AddStep, AddFull, AddRoom, AddInc, AddClear, AddCopy, AddAdvance,
           ClientGoes, IInv, TypeInv, TypeOK
    <3>4. QED
      BY <3>2, <3>3 DEF write_test_open, write_test_release, write_test_write,
           AddStep, AddFull, AddRoom, AddInc, AddClear, AddCopy, AddAdvance,
           ClientGoes, IInv, TypeInv, TypeOK
  <2>3. used_buf = BUFFER_SIZE
    BY <2>2, RingAssumption DEF AddFull, IInv, UsedInv, UsedInRange
  <2>4. ~Adding
    BY <2>1 DEF Adding
  <2>5. ~Resetting
    BY <2>3, RingAssumption DEF IInv, QueueInv, HistoryInv
  <2>6. used_buf = Len(queue) + (IF Copied THEN 1 ELSE 0)
    BY <2>4, <2>5, Ranges DEF IInv, QueueInv, CountInv
  <2>7. QED
    BY <2>3, <2>6
<1>2. QED
  BY <1>1, QueueInvariant, PTL DEF Spec, DropsOnlyWhenFull
=============================================================================
