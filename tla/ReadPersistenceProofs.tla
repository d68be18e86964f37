------------------------ MODULE ReadPersistenceProofs ------------------------
(***************************************************************************)
(* Proofs about ReadPersistence, for every ring size, every number of      *)
(* worker threads and every set of clients, daemons and instance ids.      *)
(***************************************************************************)
EXTENDS ReadPersistence, RingArithmetic, SequenceTheorems, TLAPS

(***************************************************************************)
(* The inductive invariant.                                                *)
(***************************************************************************)

\* A daemon between its poll and the end of the answer, and one that has
\* nothing under way.
Busy == {"read", "request", "request_err", "lookup", "write", "copy",
         "advance", "dec"}
Quiet == {"closed", "poll"} \cup Releasing

\* What read_persistence_read has put into the daemon's buffer so far.
RecvAssigned(d) ==
  /\ daemon[d] \in Busy \ {"read"} => recv[d].bufferId \in Slots
  /\ daemon[d] \in Busy \ {"read", "request", "request_err"}
       => recv[d].iid \in Requests

\* What a process or thread uses has been assigned: the client's request, the
\* daemon's request, the worker's work item.
LocalsAssigned ==
  /\ \A c \in Clients : client[c] \notin {"closed", "open"} => arg[c] \in Iids
  /\ \A d \in Daemons : RecvAssigned(d)
  /\ \A w \in Threads : worker[w] # "idle" => works[w] # <<>>

TypeInv == TypeOK /\ LocalsAssigned

\* A char_mutex is held by the client that has the device open, and by the
\* daemon that has it open and has not begun to release it.
Ownership ==
  /\ \A c \in Clients : client[c] # "closed" <=> test_mutex = c
  /\ \A d \in Daemons :
       daemon[d] \in {"poll"} \cup Busy <=> persistence_mutex = d

\* A client that saw room has it; a daemon that saw a request can at worst
\* count one down that a reset has forgotten.
UsedInv ==
  /\ UsedInRange
  /\ \A c \in Clients : client[c] = "inc" => used_buf < BUFFER_SIZE
  /\ \A d \in Daemons : daemon[d] \in Busy => used_buf >= 0

\* Whatever the daemon or a callback holds was stored, or is not-found.
StoredInv ==
  /\ \A s \in Slots : callback_buf[s].response.iid \in DOMAIN db \cup {0}
  /\ \A d \in Daemons : out[d].iid \in DOMAIN db \cup {0}
  /\ \A w \in Threads : worker[w] \in {"len", "load", "store"}
       => Head(works[w]).iid \in DOMAIN db \cup {0}

\* What a client has put into the current slot is still there.
SlotWritten ==
  \A c \in Clients :
    intact => /\ client[c] \in {"callback", "advance"}
                   => msg_buf[current_buf] = arg[c]
              /\ client[c] = "advance" => callback_buf[current_buf].iid = arg[c]

\* An answer that has freed its slot and not yet counted it down.
Freed == \E d \in Daemons : daemon[d] = "dec"

\* used_buf counts the finished requests, the add in progress unless an answer
\* has overtaken it, and the slot that is free and not yet counted down.
CountInv ==
  intact /\ ~Resetting =>
    used_buf = Len(queue) + (IF Adding /\ ~overtaken THEN 1 ELSE 0)
                          + (IF Freed THEN 1 ELSE 0)

\* The history while the ring is being reset, and after a race spoilt it.
HistoryInv ==
  /\ ~intact => queue = <<>> /\ ~overtaken
  /\ overtaken => queue = <<>> /\ Adding
  /\ intact => \A d \in Daemons : daemon[d] \in Busy => used_buf > 0
  /\ intact /\ Resetting =>
       /\ used_buf = 0 /\ queue = <<>> /\ ~overtaken /\ ~Adding
       /\ \A d \in Daemons : daemon[d] \in Quiet
       /\ current_buf = 0 \/ \E d \in Daemons : daemon[d] = "rel_current"

\* The daemon that read a finished request is answering that request.
Answers(d) ==
  fresh => /\ daemon[d] \in {"lookup", "write", "copy", "advance"}
                => /\ queue # <<>> /\ recv[d].bufferId = first_buf
                   /\ recv[d].iid = Head(queue)
           /\ daemon[d] \in {"write", "copy", "advance"}
                => out[d].iid \in {0, Head(queue)}
           /\ daemon[d] = "advance" => callback_buf[first_buf].response = out[d]

FreshInv == \A d \in Daemons : Answers(d)

QueueInv == SlotWritten /\ CountInv /\ HistoryInv /\ RingHoldsRequests

\* Between its two copies, the daemon holds the number of the slot it will copy.
SlotNumberInv ==
  \A d \in Daemons :
    daemon[d] = "request" /\ intact => recv[d].bufferId = first_buf

IInv ==
  /\ TypeInv /\ Ownership /\ UsedInv /\ StoredInv
  /\ QueueInv /\ SlotNumberInv /\ FreshInv
-----------------------------------------------------------------------------
(***************************************************************************)
(* Types.                                                                  *)
(***************************************************************************)
LEMMA ZeroSlot == 0 \in Slots /\ 0 \in Threads
  BY SizeAssumption DEF Slots, Threads

LEMMA SuccSlot == ASSUME NEW i \in Slots PROVE Succ(i) \in Slots
  BY SizeAssumption DEF Slots, Succ

\* An id is never mistaken for memory nobody has written.
LEMMA IdsAssigned == Requests \subseteq Nat /\ Uninit \notin Requests \cup Slots
<1>1. Requests \subseteq Nat
  BY DataAssumption DEF Requests
<1>2. Slots \subseteq Nat
  BY SizeAssumption DEF Slots
<1>3. QED
  BY <1>1, <1>2, DataAssumption

\* Reading a slot yields an id.
LEMMA ReadsIds ==
  ASSUME NEW v \in Requests \cup {Uninit}
  PROVE  Reads(v) \subseteq Requests
  BY DEF Reads

LEMMA ReadsSlots ==
  ASSUME NEW v \in Slots \cup {Uninit}
  PROVE  ReadsSlot(v) \subseteq Slots
  BY DEF ReadsSlot

LEMMA CopiesIds == ASSUME TypeOK PROVE Copies \subseteq Requests
<1>1. msg_buf[first_buf] \in Requests \cup {Uninit}
  BY DEF TypeOK
<1>2. Reads(msg_buf[first_buf]) \subseteq Requests
  BY <1>1, ReadsIds
<1>3. \A c \in Clients : {0, arg[c]} \subseteq Requests
  BY DEF TypeOK, Requests
<1>4. QED
  BY <1>2, <1>3 DEF Copies

\* The parts of the types, by who changes them.
RingTyped ==
  /\ used_buf \in Int /\ current_buf \in Slots /\ first_buf \in Slots
  /\ msg_buf \in [Slots -> Requests \cup {Uninit}]
  /\ callback_buf \in [Slots -> [iid : Requests \cup {Uninit},
                                is_done : BOOLEAN, response : Records]]
ClientTyped ==
  /\ test_mutex \in Clients \cup {Nobody}
  /\ client \in [Clients -> ClientStates]
  /\ arg \in [Clients -> Requests] /\ callback \in [Clients -> Slots]
  /\ requests \in 0 .. MaxRequests
  /\ \A c \in Clients : client[c] \notin {"closed", "open"} => arg[c] \in Iids
DaemonTyped ==
  /\ persistence_mutex \in Daemons \cup {Nobody}
  /\ daemon \in [Daemons -> DaemonStates]
  /\ recv \in [Daemons -> [bufferId : Slots \cup {Uninit},
                            iid : Requests \cup {Uninit}]]
  /\ out \in [Daemons -> Records]
  /\ \A d \in Daemons : RecvAssigned(d)
PoolTyped ==
  /\ messagesReceived \in Nat /\ messagesFound \in Nat
  /\ current_worker \in Threads
  /\ works \in [Threads -> Seq([slot : Slots, iid : Requests \cup {Uninit}])]
  /\ worker \in [Threads -> WorkerStates] /\ found \in [Threads -> Nat]
  /\ \A w \in Threads : worker[w] # "idle" => works[w] # <<>>
StoreTyped ==
  /\ DOMAIN db \subseteq Iids /\ db \in [DOMAIN db -> Lens]
  /\ faults \in 0 .. MaxFaults
HistoryTyped ==
  /\ intact \in BOOLEAN /\ overtaken \in BOOLEAN /\ fresh \in BOOLEAN
  /\ queue \in Seq(Iids)

LEMMA TypeParts ==
  /\ TypeInv <=> /\ RingTyped /\ ClientTyped /\ DaemonTyped /\ PoolTyped
                 /\ StoreTyped /\ HistoryTyped
  /\ TypeInv' <=> /\ RingTyped' /\ ClientTyped' /\ DaemonTyped' /\ PoolTyped'
                  /\ StoreTyped' /\ HistoryTyped'
<1>1. TypeInv <=> /\ RingTyped /\ ClientTyped /\ DaemonTyped /\ PoolTyped
                  /\ StoreTyped /\ HistoryTyped
  BY Zenon DEF TypeInv, TypeOK, LocalsAssigned, RingTyped, ClientTyped, DaemonTyped,
         PoolTyped, StoreTyped, HistoryTyped
<1>2. QED
  BY <1>1, PTL

LEMMA TypeInit == Init => TypeInv
<1> SUFFICES ASSUME Init PROVE TypeInv
  OBVIOUS
<1>1. RingTyped
  BY ZeroSlot DEF Init, RingTyped, Records, Zero
<1>2. ClientTyped
  BY ZeroSlot, SizeAssumption DEF Init, ClientTyped, ClientStates, Requests
<1>3. DaemonTyped
  BY DEF Init, DaemonTyped, RecvAssigned, NoRequest, DaemonStates, Busy, Records
<1>4. PoolTyped
  BY ZeroSlot, EmptySeq DEF Init, PoolTyped, WorkerStates
<1>5. StoreTyped
  BY SizeAssumption DEF Init, StoreTyped
<1>6. HistoryTyped
  BY EmptySeq DEF Init, HistoryTyped
<1>7. QED
  BY <1>1, <1>2, <1>3, <1>4, <1>5, <1>6, TypeParts

\* Parts that a step leaves alone.
LEMMA TypeFrame ==
  ASSUME TypeInv
  PROVE  /\ UNCHANGED <<ring, slots>> => RingTyped'
         /\ UNCHANGED clients => ClientTyped'
         /\ UNCHANGED daemons => DaemonTyped'
         /\ UNCHANGED <<counts, pool>> => PoolTyped'
         /\ UNCHANGED <<db, faults>> => StoreTyped'
         /\ UNCHANGED history => HistoryTyped'
<1>1. UNCHANGED <<ring, slots>> => RingTyped'
  BY TypeParts DEF RingTyped, ring, slots
<1>2. UNCHANGED clients => ClientTyped'
  BY TypeParts DEF ClientTyped, clients
<1>3. UNCHANGED daemons => DaemonTyped'
  BY TypeParts DEF DaemonTyped, RecvAssigned, daemons
<1>4. UNCHANGED <<counts, pool>> => PoolTyped'
  BY TypeParts DEF PoolTyped, counts, pool
<1>5. UNCHANGED <<db, faults>> => StoreTyped'
  BY TypeParts DEF StoreTyped
<1>6. UNCHANGED history => HistoryTyped'
  BY TypeParts DEF HistoryTyped, history
<1>7. QED
  BY <1>1, <1>2, <1>3, <1>4, <1>5, <1>6

LEMMA ClientType ==
  ASSUME TypeInv, NEW c \in Clients,
         read_test_open(c) \/ read_test_release(c) \/ read_test_write(c) \/ AddStep(c)
  PROVE  TypeInv'
<1>1. /\ RingTyped /\ ClientTyped /\ DaemonTyped /\ PoolTyped
      /\ StoreTyped /\ HistoryTyped
  BY TypeParts
<1> USE DEF ClientGoes, ClientReturns
<1>2. UNCHANGED <<daemons, db>>
  BY DEF read_test_open, read_test_release, read_test_write, AddStep, AddFull,
         AddRoom, AddInc, AddClear, AddCopy, AddCallback, AddAdvance, NoWork,
         add_work, CountReceived
<1>3. ClientTyped'
  <2>1. CASE read_test_open(c) \/ read_test_release(c) \/ read_test_write(c)
    BY <1>1, <2>1, SizeAssumption
    DEF read_test_open, read_test_release, read_test_write, ClientTyped, ClientStates,
        Requests
  <2>2. CASE AddFull(c) \/ NoWork(c) \/ CountReceived(c)
    BY <1>1, <2>2, ZeroSlot DEF AddFull, NoWork, CountReceived, ClientTyped, ClientStates,
                      Requests
  <2>3. CASE AddRoom(c) \/ AddInc(c) \/ AddClear(c) \/ AddCopy(c)
             \/ AddAdvance(c) \/ add_work(c)
    BY <1>1, <2>3
    DEF AddRoom, AddInc, AddClear, AddCopy, AddAdvance, add_work, ClientTyped, ClientStates
  <2>4. CASE AddCallback(c)
    BY <1>1, <2>4 DEF AddCallback, ClientTyped, ClientStates, RingTyped
  <2>5. QED
    BY <2>1, <2>2, <2>3, <2>4 DEF AddStep
<1>4. RingTyped'
  <2>1. CASE AddInc(c)
    BY <1>1, <2>1 DEF AddInc, RingTyped, slots
  <2>2. CASE AddClear(c)
    BY <1>1, <2>2 DEF AddClear, RingTyped, Requests, ring
  <2>3. CASE AddCopy(c)
    BY <1>1, <2>3 DEF AddCopy, RingTyped, ClientTyped, ring
  <2>4. CASE AddCallback(c)
    <3>1. msg_buf[current_buf] \in Requests \cup {Uninit}
      BY <1>1 DEF RingTyped
    <3>2. PICK i \in Reads(msg_buf[current_buf]) :
            callback_buf' = [callback_buf EXCEPT ![current_buf].iid = i,
                                                 ![current_buf].is_done = FALSE]
      BY <2>4 DEF AddCallback
    <3>3. i \in Requests
      BY <3>1, ReadsIds
    <3>4. QED
      BY <1>1, <2>4, <3>2, <3>3 DEF AddCallback, RingTyped, ring
  <2>5. CASE AddAdvance(c)
    BY <1>1, <2>5, SuccSlot DEF AddAdvance, RingTyped, slots
  <2>6. CASE \/ read_test_open(c) \/ read_test_release(c) \/ read_test_write(c)
             \/ AddFull(c) \/ AddRoom(c) \/ NoWork(c) \/ add_work(c) \/ CountReceived(c)
    BY <2>6, TypeFrame DEF read_test_open, read_test_release, read_test_write,
      AddFull, AddRoom, NoWork, add_work, CountReceived
  <2>7. QED
    BY <2>1, <2>2, <2>3, <2>4, <2>5, <2>6 DEF AddStep
<1>5. PoolTyped'
  <2>1. CASE add_work(c)
    <3> DEFINE item == [slot |-> callback[c], iid |-> callback_buf[callback[c]].iid]
    <3>1. item \in [slot : Slots, iid : Requests \cup {Uninit}]
      BY <1>1 DEF RingTyped, ClientTyped
    <3>2. works[current_worker] \in Seq([slot : Slots, iid : Requests \cup {Uninit}])
      BY <1>1 DEF PoolTyped
    <3>3. /\ Append(works[current_worker], item)
               \in Seq([slot : Slots, iid : Requests \cup {Uninit}])
          /\ Append(works[current_worker], item) # <<>>
      BY <3>1, <3>2, AppendProperties
    <3>4. current_worker' \in Threads
      BY <1>1, <2>1, SizeAssumption DEF add_work, PoolTyped, Threads
    <3>5. works' = [works EXCEPT ![current_worker] = Append(works[current_worker], item)]
      BY <2>1 DEF add_work
    <3> HIDE DEF item
    <3>6. QED
      BY <1>1, <2>1, <3>3, <3>4, <3>5 DEF add_work, PoolTyped, counts
  <2>2. CASE CountReceived(c) \/ read_test_open(c)
    <3>1. UNCHANGED pool /\ messagesReceived' \in Nat /\ messagesFound' \in Nat
      BY <1>1, <2>2 DEF CountReceived, read_test_open, PoolTyped
    <3>2. QED
      BY <1>1, <3>1 DEF PoolTyped, pool
  <2>3. CASE \/ read_test_release(c) \/ read_test_write(c)
             \/ AddFull(c) \/ AddRoom(c) \/ AddInc(c) \/ AddClear(c) \/ AddCopy(c)
             \/ AddCallback(c) \/ AddAdvance(c) \/ NoWork(c)
    BY <2>3, TypeFrame DEF read_test_release, read_test_write, AddFull, AddRoom,
      AddInc, AddClear, AddCopy, AddCallback, AddAdvance, NoWork
  <2>4. QED
    BY <2>1, <2>2, <2>3 DEF AddStep
<1>6. StoreTyped'
  <2>1. CASE NoWork(c)
    BY <1>1, <1>2, <2>1, SizeAssumption DEF NoWork, StoreTyped
  <2>2. CASE ~NoWork(c)
    <3>1. faults' = faults
      BY <2>2 DEF read_test_open, read_test_release, read_test_write, AddStep, AddFull,
         AddRoom, AddInc, AddClear, AddCopy, AddCallback, AddAdvance,
         add_work, CountReceived
    <3>2. QED
      BY <1>2, <3>1, TypeFrame
  <2>3. QED
    BY <2>1, <2>2
<1>7. HistoryTyped'
  <2>1. CASE AddInc(c)
    <3>1. UNCHANGED <<queue, overtaken, fresh>> /\ intact' \in BOOLEAN
      BY <2>1 DEF AddInc
    <3>2. QED
      BY <1>1, <3>1 DEF HistoryTyped
  <2>2. CASE AddAdvance(c)
    <3>1. arg[c] \in Iids
      BY <1>1, <2>2 DEF AddAdvance, ClientTyped
    <3>2. Append(queue, arg[c]) \in Seq(Iids)
      BY <1>1, <3>1, AppendProperties DEF HistoryTyped
    <3>3. QED
      BY <1>1, <2>2, <3>2 DEF AddAdvance, HistoryTyped
  <2>3. CASE ~AddInc(c) /\ ~AddAdvance(c)
    BY <2>3, TypeFrame DEF read_test_open, read_test_release, read_test_write, AddStep,
       AddFull, AddRoom, AddClear, AddCopy, AddCallback, NoWork, add_work, CountReceived
  <2>4. QED
    BY <2>1, <2>2, <2>3
<1>8. DaemonTyped'
  BY <1>2, TypeFrame
<1>9. QED
  BY <1>3, <1>4, <1>5, <1>6, <1>7, <1>8, TypeParts

LEMMA WorkerType ==
  ASSUME TypeInv, NEW w \in Threads, WorkerStep(w) PROVE TypeInv'
<1>1. RingTyped /\ PoolTyped
  BY TypeParts
<1>2. UNCHANGED <<ring, msg_buf, clients, daemons, db, faults, history>>
  BY DEF WorkerStep, WaitDone, WaitIid, WaitLen, FoundLoad, FoundStore, WaitEnd, slots
<1>3. CASE WaitDone(w) \/ WaitIid(w) \/ WaitLen(w)
  <2>1. UNCHANGED <<slots, counts, current_worker, works, found>>
    BY <1>3 DEF WaitDone, WaitIid, WaitLen
  <2>2. /\ worker' \in [Threads -> WorkerStates]
        /\ \A x \in Threads : worker'[x] # "idle" => works[x] # <<>>
    BY <1>1, <1>3 DEF WaitDone, WaitIid, WaitLen, WorkerGoes, PoolTyped, WorkerStates
  <2>3. QED
    BY <1>1, <1>2, <2>1, <2>2, TypeFrame, TypeParts DEF PoolTyped, counts
<1>4. CASE FoundLoad(w)
  <2>1. PoolTyped'
    BY <1>1, <1>4 DEF FoundLoad, WorkerGoes, PoolTyped, WorkerStates, counts
  <2>2. QED
    BY <1>2, <1>4, <2>1, TypeFrame, TypeParts DEF FoundLoad
<1>5. CASE FoundStore(w)
  <2>1. PoolTyped'
    <3>1. messagesFound' \in Nat /\ found' \in [Threads -> Nat]
      BY <1>1, <1>5 DEF FoundStore, PoolTyped
    <3>2. /\ worker' \in [Threads -> WorkerStates]
          /\ \A x \in Threads : worker'[x] # "idle" => works[x] # <<>>
      BY <1>1, <1>5 DEF FoundStore, WorkerGoes, PoolTyped, WorkerStates
    <3>3. UNCHANGED <<messagesReceived, current_worker, works>>
      BY <1>5 DEF FoundStore
    <3>4. QED
      BY <1>1, <3>1, <3>2, <3>3 DEF PoolTyped
  <2>2. QED
    BY <1>2, <1>5, <2>1, TypeFrame, TypeParts DEF FoundStore
<1>6. CASE WaitEnd(w)
  <2>1. works[w] # <<>> /\ works[w] \in Seq([slot : Slots, iid : Requests \cup {Uninit}])
    BY <1>1, <1>6 DEF WaitEnd, WorkerGoes, PoolTyped
  <2>2. /\ Head(works[w]) \in [slot : Slots, iid : Requests \cup {Uninit}]
        /\ Tail(works[w]) \in Seq([slot : Slots, iid : Requests \cup {Uninit}])
    BY <2>1, HeadTailProperties
  <2>3. Slot(w) \in Slots
    BY <2>2 DEF Slot
  <2>4. RingTyped'
    BY <1>1, <1>2, <1>6, <2>3 DEF WaitEnd, RingTyped, ring
  <2>5. PoolTyped'
    BY <1>1, <1>6, <2>2 DEF WaitEnd, WorkerGoes, PoolTyped, WorkerStates, counts
  <2>6. QED
    BY <1>2, <2>4, <2>5, TypeFrame, TypeParts
<1>7. QED
  BY <1>3, <1>4, <1>5, <1>6 DEF WorkerStep

\* Where a daemon is and what it holds after a step.
LEMMA DaemonMoves ==
  ASSUME DaemonTyped, NEW d \in Daemons, NEW s \in DaemonStates,
         daemon' = [daemon EXCEPT ![d] = s],
         UNCHANGED <<persistence_mutex, recv>>, out' \in [Daemons -> Records],
         RecvAssigned(d)'
  PROVE  DaemonTyped'
  BY DEF DaemonTyped, RecvAssigned

\* What a failed copy of a record leaves is a record of the same id, or none.
LEMMA PartialRecords ==
  ASSUME NEW r \in Records
  PROVE  /\ Partial(r) \subseteq Records
         /\ \A p \in Partial(r) : p.iid \in {0, r.iid}
  BY DEF Partial, Records, Zero

LEMMA LoopType ==
  ASSUME TypeInv, NEW d \in Daemons, LoopStep(d) PROVE TypeInv'
<1>1. /\ RingTyped /\ DaemonTyped /\ StoreTyped /\ HistoryTyped /\ TypeOK
      /\ 0 \in Requests
  BY TypeParts DEF TypeInv, Requests
<1>2. UNCHANGED <<counts, pool, clients, db, msg_buf>>
  BY DEF LoopStep, read_persistence_poll, ReadSlotNumber, ReadRequest,
    ReadFault, ReadAfterError, storage_get, LookupFault, WriteClear, WriteCopy,
    WriteFault, WriteAdvance, WriteDec, others, slots
<1>3. ClientTyped' /\ PoolTyped'
  BY <1>2, TypeFrame
<1> USE DEF DaemonGoes
<1>4. StoreTyped'
  <2>1. db' = db
    BY <1>2
  <2>2. faults' = faults \/ (faults < MaxFaults /\ faults' = faults + 1)
    BY DEF LoopStep, read_persistence_poll, ReadSlotNumber, ReadRequest,
    ReadFault, ReadAfterError, storage_get, LookupFault, WriteClear, WriteCopy,
    WriteFault, WriteAdvance, WriteDec
  <2>3. QED
    BY <1>1, <2>1, <2>2, SizeAssumption DEF StoreTyped
<1>5. CASE read_persistence_poll(d)
  BY <1>1, <1>3, <1>4, <1>5, TypeFrame, TypeParts, DaemonMoves
  DEF read_persistence_poll, DaemonTyped, RecvAssigned, DaemonStates, Busy
<1>6. CASE ReadSlotNumber(d) \/ ReadRequest(d) \/ ReadFault(d) \/ ReadAfterError(d)
  <2> USE DEF ReadSlotNumber, ReadRequest, ReadFault, ReadAfterError
  <2>1. /\ fresh' \in BOOLEAN
        /\ UNCHANGED <<ring, slots, persistence_mutex, out, intact, queue, overtaken>>
    BY <1>1, <1>6 DEF HistoryTyped, history
  <2>2. Copies \subseteq Requests /\ first_buf \in Slots
    BY <1>1, CopiesIds DEF RingTyped
  <2>3. DaemonTyped'
    <3>1. CASE daemon[d] = "read"
      <4>1. /\ daemon' = [daemon EXCEPT ![d] = "request"]
               \/ daemon' = [daemon EXCEPT ![d] = "request_err"]
            /\ \E b \in ReadsSlot(recv[d].bufferId) \cup {first_buf} :
                 recv' = [recv EXCEPT ![d].bufferId = b]
        BY <1>6, <3>1
      <4>2. ReadsSlot(recv[d].bufferId) \cup {first_buf} \subseteq Slots
        BY <1>1, <2>2, ReadsSlots DEF DaemonTyped
      <4>3. PICK b \in Slots : recv' = [recv EXCEPT ![d].bufferId = b]
        BY <4>1, <4>2
      <4>4. QED
        BY <1>1, <2>1, <4>1, <4>3 DEF DaemonTyped, RecvAssigned, DaemonStates, Busy
    <3>2. CASE daemon[d] \in {"request", "request_err"}
      <4>1. /\ daemon' = [daemon EXCEPT ![d] = "lookup"]
            /\ \E i \in Reads(recv[d].iid) \cup Copies :
                 recv' = [recv EXCEPT ![d].iid = i]
        BY <1>6, <3>2
      <4>2. Reads(recv[d].iid) \cup Copies \subseteq Requests
        BY <1>1, <2>2, ReadsIds DEF DaemonTyped
      <4>3. PICK i \in Requests : recv' = [recv EXCEPT ![d].iid = i]
        BY <4>1, <4>2
      <4>4. recv[d].bufferId \in Slots
        BY <1>1, <3>2 DEF DaemonTyped, RecvAssigned, Busy
      <4>5. QED
        BY <1>1, <2>1, <4>1, <4>3, <4>4
        DEF DaemonTyped, RecvAssigned, DaemonStates, Busy
    <3>3. QED
      BY <1>6, <3>1, <3>2
  <2>4. HistoryTyped'
    BY <1>1, <2>1 DEF HistoryTyped
  <2>5. QED
    BY <1>3, <1>4, <2>1, <2>3, <2>4, TypeFrame, TypeParts
<1>7. CASE storage_get(d) \/ LookupFault(d)
  <2>1. /\ daemon[d] = "lookup" /\ daemon' = [daemon EXCEPT ![d] = "write"]
        /\ UNCHANGED <<ring, slots, persistence_mutex, recv, history>>
    BY <1>7 DEF storage_get, LookupFault
  <2>2. out' \in [Daemons -> Records]
    <3>1. CASE LookupFault(d)
      BY <1>1, <3>1 DEF LookupFault, DaemonTyped, Records
    <3>2. CASE storage_get(d)
      <4>1. recv[d].iid \in DOMAIN db
              => [iid |-> recv[d].iid, len |-> db[recv[d].iid]] \in Records
        BY <1>1 DEF StoreTyped, Records
      <4>2. QED
        BY <1>1, <3>2, <4>1 DEF storage_get, DaemonTyped, Records
    <3>3. QED
      BY <1>7, <3>1, <3>2
  <2>3. DaemonTyped'
    BY <1>1, <2>1, <2>2 DEF DaemonTyped, RecvAssigned, DaemonStates, Busy
  <2>4. QED
    BY <1>3, <1>4, <2>1, <2>3, TypeFrame, TypeParts
<1>8. CASE WriteClear(d) \/ WriteCopy(d) \/ WriteFault(d)
  <2>1. UNCHANGED <<ring, msg_buf, persistence_mutex, recv, out, history>>
    BY <1>8 DEF WriteClear, WriteCopy, WriteFault
  <2>2. recv[d].bufferId \in Slots /\ out[d] \in Records /\ Zero \in Records
    BY <1>1, <1>8 DEF WriteClear, WriteCopy, WriteFault, DaemonTyped, RecvAssigned,
                      Busy, Records
  <2>3. Partial(out[d]) \subseteq Records
    BY <2>2, PartialRecords
  <2>4. UNCHANGED callback_buf \/ \E r \in Records : Answer(d, r)
    BY <1>8, <2>2, <2>3 DEF WriteClear, WriteCopy, WriteFault
  <2>5. RingTyped'
    BY <1>1, <2>1, <2>2, <2>4 DEF RingTyped, Answer, ring
  <2>6. DaemonTyped'
    BY <1>1, <1>8, <2>1 DEF WriteClear, WriteCopy, WriteFault, DaemonTyped,
                           RecvAssigned, DaemonStates, Busy
  <2>7. QED
    BY <1>3, <1>4, <2>1, <2>5, <2>6, TypeFrame, TypeParts
<1>9. CASE WriteAdvance(d)
  <2>1. RingTyped'
    BY <1>1, <1>9, SuccSlot DEF WriteAdvance, RingTyped, slots
  <2>2. DaemonTyped'
    BY <1>1, <1>9 DEF WriteAdvance, DaemonTyped, RecvAssigned, DaemonStates, Busy
  <2>3. queue' \in Seq(Iids)
    BY <1>1, <1>9, HeadTailProperties DEF WriteAdvance, HistoryTyped
  <2>4. overtaken' \in BOOLEAN /\ UNCHANGED <<intact, fresh>>
    BY <1>9 DEF WriteAdvance
  <2>5. HistoryTyped'
    BY <1>1, <2>3, <2>4 DEF HistoryTyped
  <2>6. QED
    BY <1>3, <1>4, <2>1, <2>2, <2>5, TypeParts
<1>10. CASE WriteDec(d)
  <2>1. RingTyped'
    BY <1>1, <1>10 DEF WriteDec, RingTyped, slots
  <2>2. DaemonTyped'
    BY <1>1, <1>10 DEF WriteDec, DaemonTyped, RecvAssigned, DaemonStates, Busy
  <2>3. HistoryTyped'
    BY <1>10, TypeFrame DEF WriteDec
  <2>4. QED
    BY <1>3, <1>4, <2>1, <2>2, <2>3, TypeParts
<1>11. QED
  BY <1>5, <1>6, <1>7, <1>8, <1>9, <1>10 DEF LoopStep

LEMMA CloseType ==
  ASSUME TypeInv, NEW d \in Daemons,
         read_persistence_open(d) \/ Close(d) \/ ReleaseStep(d)
  PROVE  TypeInv'
<1>1. RingTyped /\ DaemonTyped /\ HistoryTyped
  BY TypeParts
<1>2. UNCHANGED <<counts, pool, clients, db, faults, slots>>
  BY DEF read_persistence_open, Close, ReleaseStep, ReleaseUsed, ReleaseCurrent,
    ReleaseFirst, others
<1>3. ClientTyped' /\ PoolTyped' /\ StoreTyped'
  BY <1>2, TypeFrame
<1>4. DaemonTyped'
  <2>1. CASE Close(d)
    <3>1. /\ recv' \in [Daemons -> [bufferId : Slots \cup {Uninit},
                                    iid : Requests \cup {Uninit}]]
          /\ out' \in [Daemons -> Records]
      BY <1>1, <2>1 DEF Close, NoRequest, DaemonTyped, Records
    <3>2. /\ daemon' \in [Daemons -> DaemonStates] /\ daemon'[d] \notin Busy
          /\ \A x \in Daemons :
               x # d => daemon'[x] = daemon[x] /\ recv'[x] = recv[x]
      BY <1>1, <2>1 DEF Close, DaemonTyped, DaemonStates, Releasing, Busy
    <3>3. persistence_mutex' \in Daemons \cup {Nobody}
      BY <2>1 DEF Close
    <3>4. QED
      BY <1>1, <3>1, <3>2, <3>3 DEF DaemonTyped, RecvAssigned
  <2>2. CASE read_persistence_open(d) \/ ReleaseStep(d)
    <3>1. /\ UNCHANGED <<recv, out>>
          /\ persistence_mutex' \in {d, persistence_mutex}
          /\ \E s \in {"poll", "closed"} \cup Releasing :
               daemon' = [daemon EXCEPT ![d] = s]
      BY <2>2 DEF read_persistence_open, ReleaseStep, ReleaseUsed, ReleaseCurrent,
        ReleaseFirst, DaemonGoes, Releasing
    <3>2. QED
      BY <1>1, <3>1 DEF DaemonTyped, RecvAssigned, DaemonStates, Releasing, Busy
  <2>3. QED
    BY <2>1, <2>2
<1>5. RingTyped'
  <2>1. /\ used_buf' \in {0, used_buf} /\ current_buf' \in {0, current_buf}
        /\ first_buf' \in {0, first_buf}
    BY DEF read_persistence_open, Close, ReleaseStep, ReleaseUsed, ReleaseCurrent,
           ReleaseFirst, ring
  <2>2. QED
    BY <1>1, <1>2, <2>1, ZeroSlot DEF RingTyped, slots
<1>6. HistoryTyped'
  <2>1. CASE ReleaseUsed(d)
    <3>1. queue' \in Seq(Iids) /\ overtaken' \in BOOLEAN /\ fresh' \in BOOLEAN
      BY <2>1, EmptySeq DEF ReleaseUsed
    <3>2. intact' \in BOOLEAN
      BY <2>1 DEF ReleaseUsed
    <3>3. QED
      BY <3>1, <3>2 DEF HistoryTyped
  <2>2. CASE ~ReleaseUsed(d)
    <3>1. UNCHANGED history
      BY <2>2 DEF read_persistence_open, Close, ReleaseStep, ReleaseCurrent, ReleaseFirst
    <3>2. QED
      BY <3>1, TypeFrame
  <2>3. QED
    BY <2>1, <2>2
<1>7. QED
  BY <1>3, <1>4, <1>5, <1>6, TypeParts

LEMMA PutType == ASSUME TypeInv, storage_put PROVE TypeInv'
<1>1. StoreTyped'
  BY TypeParts DEF storage_put, StoreTyped
<1>2. QED
  BY <1>1, TypeFrame, TypeParts DEF storage_put

LEMMA TypeInvariant == Spec => []TypeInv
<1>1. ASSUME TypeInv, [Next]_vars PROVE TypeInv'
  <2>1. CASE UNCHANGED vars
    BY <1>1, <2>1, TypeFrame, TypeParts DEF vars
  <2>2. QED
    BY <1>1, <2>1, ClientType, WorkerType, LoopType, CloseType, PutType DEF Next
<1>2. QED
  BY <1>1, TypeInit, PTL DEF Spec
-----------------------------------------------------------------------------
(***************************************************************************)
(* Who holds the devices, and the counter.                                 *)
(***************************************************************************)
LEMMA OwnershipInvariant == Spec => []Ownership
<1>1. Init => Ownership
  BY HolderAssumption DEF Init, Ownership, Busy
<1>2. TypeInv /\ Ownership /\ [Next]_vars => Ownership'
  <2> SUFFICES ASSUME TypeInv, Ownership, [Next]_vars PROVE Ownership'
    OBVIOUS
  <2>1. /\ client \in [Clients -> ClientStates] /\ daemon \in [Daemons -> DaemonStates]
        /\ test_mutex \in Clients \cup {Nobody}
        /\ persistence_mutex \in Daemons \cup {Nobody}
    BY DEF TypeInv, TypeOK
  <2> USE <2>1, HolderAssumption DEF Ownership, ClientGoes, ClientReturns, DaemonGoes, Busy
  <2>2. ASSUME NEW c \in Clients, read_test_open(c) \/ read_test_release(c)
        PROVE  Ownership'
    BY <2>2 DEF read_test_open, read_test_release, daemons
  <2>3. ASSUME NEW c \in Clients, read_test_write(c) \/ AddStep(c)
        PROVE  Ownership'
    <3>1. UNCHANGED <<test_mutex, persistence_mutex, daemon>>
      BY <2>3 DEF read_test_write, AddStep, AddFull, AddRoom, AddInc, AddClear, AddCopy,
        AddCallback, AddAdvance, NoWork, add_work, CountReceived, daemons
    <3>2. \A x \in Clients : client'[x] # "closed" <=> client[x] # "closed"
      BY <2>3 DEF read_test_write, AddStep, AddFull, AddRoom, AddInc, AddClear, AddCopy,
        AddCallback, AddAdvance, NoWork, add_work, CountReceived
    <3>3. QED
      BY <3>1, <3>2
  <2>4. ASSUME NEW w \in Threads, WorkerStep(w) PROVE Ownership'
    BY <2>4 DEF WorkerStep, WaitDone, WaitIid, WaitLen, FoundLoad, FoundStore, WaitEnd,
      clients, daemons
  <2>5. ASSUME NEW d \in Daemons, read_persistence_open(d) \/ Close(d) PROVE Ownership'
    BY <2>5 DEF read_persistence_open, Close, others, clients
  <2>6. ASSUME NEW d \in Daemons, LoopStep(d) \/ ReleaseStep(d) PROVE Ownership'
    <3>1. UNCHANGED <<test_mutex, persistence_mutex, client>>
      BY <2>6 DEF LoopStep, read_persistence_poll, ReadSlotNumber, ReadRequest,
        ReadFault, ReadAfterError, storage_get, LookupFault, WriteClear, WriteCopy,
        WriteFault, WriteAdvance, WriteDec, ReleaseStep, ReleaseUsed, ReleaseCurrent,
        ReleaseFirst, others, clients
    <3>2. \A x \in Daemons :
            daemon'[x] \in {"poll"} \cup Busy <=> daemon[x] \in {"poll"} \cup Busy
      BY <2>6 DEF LoopStep, read_persistence_poll, ReadSlotNumber, ReadRequest,
        ReadFault, ReadAfterError, storage_get, LookupFault, WriteClear, WriteCopy,
        WriteFault, WriteAdvance, WriteDec, ReleaseStep, ReleaseUsed, ReleaseCurrent,
        ReleaseFirst
    <3>3. QED
      BY <3>1, <3>2
  <2>7. CASE storage_put \/ UNCHANGED vars
    BY <2>7 DEF storage_put, vars, clients, daemons
  <2>8. QED
    BY <2>2, <2>3, <2>4, <2>5, <2>6, <2>7 DEF Next
<1>3. QED
  BY <1>1, <1>2, TypeInvariant, PTL DEF Spec

\* Only the client that holds read-test counts up and only the daemon that
\* holds read-persistence counts down; a late reset can come between its poll
\* and its count, and then it is the last one below zero.
LEMMA UsedInvariant == Spec => []UsedInv
<1>1. Init => UsedInv
  BY SizeAssumption DEF Init, UsedInv, UsedInRange, Busy
<1>2. TypeInv /\ Ownership /\ UsedInv /\ [Next]_vars => UsedInv'
  <2> SUFFICES ASSUME TypeInv, Ownership, UsedInv, [Next]_vars PROVE UsedInv'
    OBVIOUS
  <2>1. /\ client \in [Clients -> ClientStates] /\ daemon \in [Daemons -> DaemonStates]
        /\ used_buf \in Int /\ BUFFER_SIZE \in Nat \ {0}
    BY SizeAssumption DEF TypeInv, TypeOK
  <2> USE <2>1 DEF UsedInv, UsedInRange, ClientGoes, ClientReturns, DaemonGoes
  <2>2. ASSUME NEW c \in Clients, AddInc(c) PROVE UsedInv'
    <3>1. \A x \in Clients : x # c => client[x] = "closed"
      BY <2>2 DEF AddInc, Ownership
    <3>2. QED
      BY <2>2, <3>1 DEF AddInc, daemons, Busy
  <2>3. ASSUME NEW c \in Clients,
               \/ read_test_open(c) \/ read_test_release(c) \/ read_test_write(c)
               \/ (AddStep(c) /\ ~AddInc(c))
        PROVE  UsedInv'
    <3>1. /\ UNCHANGED <<used_buf, daemon>>
      BY <2>3 DEF read_test_open, read_test_release, read_test_write, AddStep, AddFull,
        AddRoom, AddClear, AddCopy, AddCallback, AddAdvance, NoWork, add_work,
        CountReceived, ring, daemons
    <3>2. \A x \in Clients :
            client'[x] = "inc" => client[x] = "inc" \/ used_buf < BUFFER_SIZE
      BY <2>3 DEF read_test_open, read_test_release, read_test_write, AddStep, AddFull,
        AddRoom, AddClear, AddCopy, AddCallback, AddAdvance, NoWork, add_work,
        CountReceived
    <3>3. QED
      BY <3>1, <3>2
  <2>4. ASSUME NEW d \in Daemons, WriteDec(d) PROVE UsedInv'
    <3>1. \A x \in Daemons : x # d => daemon[x] \notin Busy
      BY <2>4 DEF WriteDec, Ownership, Busy
    <3>2. QED
      BY <2>4, <3>1 DEF WriteDec, others, clients, Busy
  <2>5. ASSUME NEW d \in Daemons, ReleaseUsed(d) PROVE UsedInv'
    BY <2>5 DEF ReleaseUsed, others, clients, Busy
  <2>6. ASSUME NEW d \in Daemons,
               \/ read_persistence_open(d) \/ Close(d) \/ ReleaseCurrent(d)
               \/ ReleaseFirst(d) \/ (LoopStep(d) /\ ~WriteDec(d))
        PROVE  UsedInv'
    <3>1. UNCHANGED <<used_buf, client>>
      BY <2>6 DEF read_persistence_open, Close, ReleaseCurrent, ReleaseFirst, LoopStep,
        read_persistence_poll, ReadSlotNumber, ReadRequest, ReadFault,
        ReadAfterError, storage_get, LookupFault,
        WriteClear, WriteCopy, WriteFault, WriteAdvance, others, clients, ring
    <3>2. \A x \in Daemons :
            daemon'[x] \in Busy => daemon[x] \in Busy \/ used_buf > 0
      BY <2>6 DEF read_persistence_open, Close, ReleaseCurrent, ReleaseFirst, LoopStep,
        read_persistence_poll, ReadSlotNumber, ReadRequest, ReadFault,
        ReadAfterError, storage_get, LookupFault,
        WriteClear, WriteCopy, WriteFault, WriteAdvance, Busy
    <3>3. QED
      BY <3>1, <3>2
  <2>7. CASE storage_put \/ UNCHANGED vars \/ \E w \in Threads : WorkerStep(w)
    BY <2>7 DEF WorkerStep, WaitDone, WaitIid, WaitLen, FoundLoad, FoundStore, WaitEnd,
      storage_put, vars, clients, daemons, ring
  <2>8. QED
    BY <2>2, <2>3, <2>4, <2>5, <2>6, <2>7 DEF Next, AddStep, LoopStep, ReleaseStep
<1>3. QED
  BY <1>1, <1>2, TypeInvariant, OwnershipInvariant, PTL DEF Spec
-----------------------------------------------------------------------------
(***************************************************************************)
(* What is found was stored.                                               *)
(***************************************************************************)

\* Queueing another work item leaves the one a worker is at.
LEMMA HeadKept ==
  ASSUME NEW S, NEW q \in Seq(S), q # <<>>, NEW e \in S
  PROVE  Head(Append(q, e)) = Head(q)
  BY AppendProperties, HeadTailProperties

LEMMA StoredInvariant == Spec => []StoredInv
<1>1. Init => StoredInv
  BY DEF Init, StoredInv, Zero
<1>2. TypeInv /\ StoredInv /\ [Next]_vars => StoredInv'
  <2> SUFFICES ASSUME TypeInv, StoredInv, [Next]_vars PROVE StoredInv'
    OBVIOUS
  <2>1. /\ callback_buf \in [Slots -> [iid : Requests \cup {Uninit},
                                      is_done : BOOLEAN, response : Records]]
        /\ works \in [Threads -> Seq([slot : Slots, iid : Requests \cup {Uninit}])]
        /\ worker \in [Threads -> WorkerStates]
        /\ out \in [Daemons -> Records] /\ current_buf \in Slots
        /\ \A d \in Daemons : RecvAssigned(d)
        /\ \A w \in Threads : worker[w] # "idle" => works[w] # <<>>
    BY DEF TypeInv, TypeOK, LocalsAssigned
  <2>2. ASSUME NEW w \in Threads, works[w] # <<>>
        PROVE  Head(works[w]) \in [slot : Slots, iid : Requests \cup {Uninit}]
    BY <2>1, <2>2, HeadTailProperties
  <2>3. ASSUME NEW c \in Clients, AddCallback(c) PROVE StoredInv'
    <3>1. UNCHANGED <<works, worker, out, db>>
      BY <2>3 DEF AddCallback, pool, daemons
    <3>2. \A s \in Slots : callback_buf'[s].response = callback_buf[s].response
      BY <2>1, <2>3 DEF AddCallback
    <3>3. QED
      BY <3>1, <3>2 DEF StoredInv
  <2>4. ASSUME NEW c \in Clients, add_work(c) PROVE StoredInv'
    <3>1. UNCHANGED <<callback_buf, worker, out, db>>
      BY <2>4 DEF add_work, slots, daemons
    <3>2. ASSUME NEW w \in Threads, works[w] # <<>>
          PROVE  Head(works'[w]) = Head(works[w])
      <4> DEFINE item == [slot |-> callback[c], iid |-> callback_buf[callback[c]].iid]
      <4>1. item \in [slot : Slots, iid : Requests \cup {Uninit}]
        BY DEF TypeInv, TypeOK
      <4>2. works' = [works EXCEPT ![current_worker] = Append(works[current_worker], item)]
        BY <2>4 DEF add_work
      <4> HIDE DEF item
      <4>3. works'[w] = works[w] \/ works'[w] = Append(works[w], item)
        BY <2>1, <4>2
      <4>4. QED
        BY <2>1, <3>2, <4>1, <4>3, HeadKept
    <3>3. QED
      BY <2>1, <3>1, <3>2 DEF StoredInv
  <2>5. ASSUME NEW c \in Clients,
               \/ read_test_open(c) \/ read_test_release(c) \/ read_test_write(c)
               \/ (AddStep(c) /\ ~AddCallback(c) /\ ~add_work(c))
        PROVE  StoredInv'
    <3>1. UNCHANGED <<callback_buf, works, worker, out, db>>
      BY <2>5 DEF read_test_open, read_test_release, read_test_write, AddStep, AddFull,
        AddRoom, AddInc, AddClear, AddCopy, AddAdvance, NoWork, CountReceived,
        slots, pool, daemons
    <3>2. QED
      BY <3>1 DEF StoredInv
  <2>6. ASSUME NEW w \in Threads, WaitIid(w) PROVE StoredInv'
    <3>1. UNCHANGED <<callback_buf, works, out, db>>
      BY <2>6 DEF WaitIid, slots, daemons
    <3>2. Slot(w) \in Slots
      BY <2>1, <2>2, <2>6 DEF WaitIid, WorkerGoes, Slot
    <3>3. worker'[w] = "len" => Head(works[w]).iid \in DOMAIN db \cup {0}
      BY <2>1, <2>6, <3>2 DEF WaitIid, WorkerGoes, StoredInv
    <3>4. /\ worker'[w] \in {"len", "end"}
          /\ \A x \in Threads : x # w => worker'[x] = worker[x]
      BY <2>1, <2>6 DEF WaitIid, WorkerGoes
    <3>5. QED
      BY <3>1, <3>3, <3>4 DEF StoredInv
  <2>7. ASSUME NEW w \in Threads,
               WaitDone(w) \/ WaitLen(w) \/ FoundLoad(w) \/ FoundStore(w)
        PROVE  StoredInv'
    <3>1. UNCHANGED <<callback_buf, works, out, db>>
      BY <2>7 DEF WaitDone, WaitLen, FoundLoad, FoundStore, slots, daemons
    <3>2. \A x \in Threads : worker'[x] \in {"len", "load", "store"}
                                => worker[x] \in {"len", "load", "store"}
      BY <2>1, <2>7 DEF WaitDone, WaitLen, FoundLoad, FoundStore, WorkerGoes
    <3>3. QED
      BY <3>1, <3>2 DEF StoredInv
  <2>8. ASSUME NEW w \in Threads, WaitEnd(w) PROVE StoredInv'
    <3>1. UNCHANGED <<out, db>>
      BY <2>8 DEF WaitEnd, daemons
    <3>2. Slot(w) \in Slots
      BY <2>1, <2>2, <2>8 DEF WaitEnd, WorkerGoes, Slot
    <3>3. \A s \in Slots : callback_buf'[s].response = callback_buf[s].response
      BY <2>1, <2>8, <3>2 DEF WaitEnd
    <3>4. /\ worker'[w] = "idle"
          /\ \A x \in Threads : x # w => worker'[x] = worker[x] /\ works'[x] = works[x]
      BY <2>1, <2>8 DEF WaitEnd, WorkerGoes
    <3>5. QED
      BY <3>1, <3>3, <3>4 DEF StoredInv
  <2>9. ASSUME NEW d \in Daemons,
               storage_get(d) \/ LookupFault(d) \/ Close(d)
        PROVE  StoredInv'
    <3>1. UNCHANGED <<callback_buf, works, worker, db>>
      BY <2>9 DEF storage_get, LookupFault, Close, slots, others, pool
    <3>2. \A x \in Daemons : out'[x].iid \in DOMAIN db \cup {0}
      BY <2>1, <2>9 DEF storage_get, LookupFault, Close, StoredInv, Zero
    <3>3. QED
      BY <3>1, <3>2 DEF StoredInv
  <2>10. ASSUME NEW d \in Daemons, WriteClear(d) \/ WriteCopy(d) \/ WriteFault(d)
         PROVE  StoredInv'
    <3>1. UNCHANGED <<works, worker, out, db>>
      BY <2>10 DEF WriteClear, WriteCopy, WriteFault, others, pool
    <3>2. recv[d].bufferId \in Slots
      BY <2>1, <2>10 DEF WriteClear, WriteCopy, WriteFault, DaemonGoes, RecvAssigned,
                         Busy
    <3>3. \/ UNCHANGED callback_buf
          \/ \E r \in {Zero} \cup Partial(out[d]) : Answer(d, r)
      BY <2>10 DEF WriteClear, WriteCopy, WriteFault, Partial
    <3>4. \A r \in {Zero} \cup Partial(out[d]) : r.iid \in DOMAIN db \cup {0}
      BY <2>1, PartialRecords DEF Zero, StoredInv
    <3>5. \A s \in Slots : callback_buf'[s].response.iid \in DOMAIN db \cup {0}
      BY <2>1, <3>2, <3>3, <3>4 DEF Answer, StoredInv
    <3>6. QED
      BY <3>1, <3>5 DEF StoredInv
  <2>11. ASSUME NEW d \in Daemons,
                \/ read_persistence_open(d) \/ ReleaseStep(d) \/ read_persistence_poll(d)
                \/ ReadSlotNumber(d) \/ ReadRequest(d) \/ ReadFault(d)
                \/ ReadAfterError(d) \/ WriteAdvance(d) \/ WriteDec(d)
         PROVE  StoredInv'
    <3>1. UNCHANGED <<callback_buf, works, worker, out, db>>
      BY <2>11 DEF read_persistence_open, ReleaseStep, ReleaseUsed, ReleaseCurrent,
        ReleaseFirst, read_persistence_poll, ReadSlotNumber, ReadRequest,
        ReadFault, ReadAfterError, WriteAdvance, WriteDec, slots, others, pool
    <3>2. QED
      BY <3>1 DEF StoredInv
  <2>12. CASE storage_put
    <3>1. UNCHANGED <<callback_buf, works, worker, out>> /\ DOMAIN db \subseteq DOMAIN db'
      BY <2>12 DEF storage_put, slots, pool, daemons
    <3>2. QED
      BY <3>1 DEF StoredInv
  <2>13. CASE UNCHANGED vars
    BY <2>13 DEF vars, slots, pool, daemons, StoredInv
  <2>14. QED
    BY <2>3, <2>4, <2>5, <2>6, <2>7, <2>8, <2>9, <2>10, <2>11, <2>12, <2>13
    DEF Next, AddStep, WorkerStep, LoopStep
<1>3. QED
  BY <1>1, <1>2, TypeInvariant, PTL DEF Spec
-----------------------------------------------------------------------------
(***************************************************************************)
(* The requests in the ring.                                               *)
(***************************************************************************)

\* The ranges of the quantities the invariants add up.
LEMMA Ranges ==
  ASSUME IInv
  PROVE  /\ BUFFER_SIZE \in Nat \ {0} /\ BUFFER_SIZE \in Nat /\ BUFFER_SIZE > 0
         /\ used_buf \in -1 .. BUFFER_SIZE
         /\ first_buf \in 0 .. BUFFER_SIZE - 1
         /\ current_buf \in 0 .. BUFFER_SIZE - 1
         /\ queue \in Seq(Iids) /\ Len(queue) \in Nat
         /\ client \in [Clients -> ClientStates]
         /\ daemon \in [Daemons -> DaemonStates]
<1>1. Len(queue) \in Nat /\ queue \in Seq(Iids)
  BY LenProperties DEF IInv, TypeInv, TypeOK
<1>2. /\ first_buf \in Slots /\ current_buf \in Slots
      /\ client \in [Clients -> ClientStates] /\ daemon \in [Daemons -> DaemonStates]
  BY DEF IInv, TypeInv, TypeOK
<1>3. used_buf \in -1 .. BUFFER_SIZE
  BY DEF IInv, UsedInv, UsedInRange
<1>4. QED
  BY <1>1, <1>2, <1>3, SizeAssumption DEF Slots

\* The char_mutexes keep the other processes out.
LEMMA OneClient ==
  ASSUME IInv, NEW c \in Clients, client[c] # "closed"
  PROVE  \A x \in Clients : x # c => client[x] = "closed"
  BY DEF IInv, Ownership
LEMMA OneDaemon ==
  ASSUME IInv, NEW d \in Daemons, daemon[d] \in {"poll"} \cup Busy
  PROVE  \A x \in Daemons : x # d => daemon[x] \notin {"poll"} \cup Busy
  BY DEF IInv, Ownership

LEMMA SlotMod ==
  ASSUME NEW x \in 0 .. BUFFER_SIZE - 1
  PROVE  x % BUFFER_SIZE = x /\ (x + 0) % BUFFER_SIZE = x
  BY SizeAssumption, PositionInRing

\* What the invariant says of a ring that is intact and not being reset.
LEMMA RingFacts ==
  ASSUME IInv, intact, ~Resetting
  PROVE  /\ Len(queue) <= BUFFER_SIZE
         /\ \A i \in 1 .. Len(queue) :
              /\ msg_buf[(first_buf + i - 1) % BUFFER_SIZE] = queue[i]
              /\ callback_buf[(first_buf + i - 1) % BUFFER_SIZE].iid = queue[i]
         /\ ~overtaken => current_buf = (first_buf + Len(queue)) % BUFFER_SIZE
         /\ overtaken => Succ(current_buf) = (first_buf + Len(queue)) % BUFFER_SIZE
<1>1. (current_buf + 0) % BUFFER_SIZE = current_buf
  BY Ranges, SlotMod
<1>2. QED
  BY <1>1, Ranges DEF IInv, QueueInv, RingHoldsRequests, Succ

\* The slot an add writes holds no request that waits for its answer.
LEMMA CurrentIsFree ==
  ASSUME IInv, Adding, intact, ~Resetting, NEW i \in 1 .. Len(queue)
  PROVE  /\ (first_buf + i - 1) % BUFFER_SIZE # current_buf
         /\ (first_buf + i - 1) % BUFFER_SIZE \in Slots
<1>1. queue # <<>>
  BY Ranges, EmptySeq
<1>2. ~overtaken
  BY <1>1 DEF IInv, QueueInv, HistoryInv
<1>3. Len(queue) + 1 <= BUFFER_SIZE
  <2>1. used_buf = Len(queue) + 1 + (IF Freed THEN 1 ELSE 0)
    BY <1>2 DEF IInv, QueueInv, CountInv
  <2>2. QED
    BY <2>1, Ranges
<1> DEFINE a == first_buf + i - 1
           b == first_buf + Len(queue)
<1>4. /\ a \in Nat /\ b \in Nat /\ a < b /\ b - a < BUFFER_SIZE
      /\ b < 2 * BUFFER_SIZE
  <2>1. /\ BUFFER_SIZE \in Nat /\ first_buf \in 0 .. BUFFER_SIZE - 1
        /\ Len(queue) \in Nat /\ i \in 1 .. Len(queue)
    BY Ranges
  <2>2. QED
    BY <1>3, <2>1
<1>5. current_buf = b % BUFFER_SIZE
  BY <1>2, RingFacts
<1> HIDE DEF a, b
<1>6. a % BUFFER_SIZE # b % BUFFER_SIZE /\ a % BUFFER_SIZE \in 0 .. BUFFER_SIZE - 1
  BY <1>4, Ranges, PositionsDiffer, PositionInRing
<1>7. QED
  BY <1>5, <1>6 DEF a, Slots

\* Initially the ring is empty.
LEMMA QueueInit == Init => QueueInv
<1> SUFFICES ASSUME Init PROVE QueueInv
  OBVIOUS
<1>1. ~Adding /\ ~Resetting /\ ~Freed
  BY DEF Init, Adding, Resetting, Freed
<1>2. Len(queue) = 0
  BY EmptySeq DEF Init
<1>3. SlotWritten /\ HistoryInv
  BY <1>1 DEF Init, SlotWritten, HistoryInv, Busy
<1>4. CountInv
  BY <1>1, <1>2 DEF Init, CountInv
<1>5. RingHoldsRequests
  BY <1>1, <1>2, SizeAssumption DEF Init, RingHoldsRequests
<1>6. QED
  BY <1>3, <1>4, <1>5 DEF QueueInv

\* Steps that leave the indices, the requests and the ids of the callbacks
\* alone, and begin or end neither an add nor a reset nor a count-down.
LEMMA QueueFrame ==
  ASSUME IInv, UNCHANGED <<ring, msg_buf, intact, queue, overtaken>>,
         \A s \in Slots : callback_buf'[s].iid = callback_buf[s].iid,
         Adding' <=> Adding, Resetting' <=> Resetting, Freed' <=> Freed,
         \A c \in Clients : client'[c] \in {"callback", "advance"}
                              => client'[c] = client[c] /\ arg'[c] = arg[c],
         \A d \in Daemons :
           /\ daemon'[d] \in Busy => daemon[d] \in Busy \/ used_buf > 0
           /\ daemon[d] \in Quiet => daemon'[d] \in Quiet \/ used_buf > 0
           /\ daemon[d] = "rel_current" => daemon'[d] = "rel_current"
  PROVE  QueueInv'
<1> USE DEF IInv, QueueInv, ring
<1>1. SlotWritten'
  BY DEF SlotWritten, TypeInv, TypeOK
<1>2. CountInv'
  BY DEF CountInv
<1>3. HistoryInv'
  <2>1. (~intact' => queue' = <<>> /\ ~overtaken') /\ (overtaken' => queue' = <<>> /\ Adding')
    BY DEF HistoryInv
  <2>2. intact' => \A d \in Daemons : daemon'[d] \in Busy => used_buf' > 0
    BY DEF HistoryInv
  <2>3. ASSUME intact', Resetting'
        PROVE  /\ used_buf' = 0 /\ queue' = <<>> /\ ~overtaken' /\ ~Adding'
               /\ \A d \in Daemons : daemon'[d] \in Quiet
               /\ current_buf' = 0 \/ \E d \in Daemons : daemon'[d] = "rel_current"
    BY <2>3 DEF HistoryInv
  <2>4. QED
    BY <2>1, <2>2, <2>3 DEF HistoryInv
<1>4. RingHoldsRequests'
  <2> SUFFICES ASSUME intact, ~Resetting PROVE RingHoldsRequests'
    BY DEF RingHoldsRequests
  <2>1. \A i \in 1 .. Len(queue) : (first_buf + i - 1) % BUFFER_SIZE \in Slots
    <3> TAKE i \in 1 .. Len(queue)
    <3>1. first_buf + i - 1 \in Nat
      BY Ranges
    <3>2. QED
      BY <3>1, Ranges, PositionInRing DEF Slots
  <2>2. QED
    BY <2>1 DEF RingHoldsRequests
<1>5. QED
  BY <1>1, <1>2, <1>3, <1>4

\* Marking a callback done, or answering it, leaves its id.
LEMMA CallbackIds ==
  ASSUME TypeInv, NEW k,
         \/ callback_buf' = [callback_buf EXCEPT ![k].is_done = TRUE]
         \/ \E r : callback_buf' = [callback_buf EXCEPT ![k].response = r]
  PROVE  \A s \in Slots : callback_buf'[s].iid = callback_buf[s].iid
<1>1. callback_buf \in [Slots -> [iid : Requests \cup {Uninit},
                                 is_done : BOOLEAN, response : Records]]
  BY DEF TypeInv, TypeOK
<1>2. TAKE s \in Slots
<1>3. CASE s = k
  BY <1>1, <1>3
<1>4. CASE s # k
  BY <1>1, <1>4
<1>5. QED
  BY <1>3, <1>4

LEMMA ClientQuiet ==
  ASSUME IInv, NEW c \in Clients,
         \/ read_test_open(c) \/ read_test_release(c) \/ read_test_write(c)
         \/ AddFull(c) \/ AddRoom(c) \/ NoWork(c) \/ add_work(c) \/ CountReceived(c)
  PROVE  QueueInv'
<1>1. UNCHANGED <<ring, slots, daemon, intact, queue, overtaken>>
  BY DEF read_test_open, read_test_release, read_test_write, AddFull, AddRoom,
         NoWork, add_work, CountReceived, daemons, history
<1>2. /\ \A x \in Clients : x # c => client'[x] = client[x] /\ arg'[x] = arg[x]
      /\ client[c] \notin {"clear", "copy", "callback", "advance"}
      /\ client'[c] \notin {"clear", "copy", "callback", "advance"}
  BY DEF read_test_open, read_test_release, read_test_write, AddFull, AddRoom,
         NoWork, add_work, CountReceived, ClientGoes, ClientReturns, IInv, TypeInv, TypeOK
<1>3. Adding' <=> Adding
  BY <1>2 DEF Adding
<1>4. (Resetting' <=> Resetting) /\ (Freed' <=> Freed)
  BY <1>1 DEF Resetting, Freed
<1>5. QED
  BY <1>1, <1>2, <1>3, <1>4, QueueFrame DEF slots

LEMMA WorkerQuiet ==
  ASSUME IInv, NEW w \in Threads, WorkerStep(w) PROVE QueueInv'
<1>1. UNCHANGED <<ring, msg_buf, client, arg, daemon, intact, queue, overtaken>>
  BY DEF WorkerStep, WaitDone, WaitIid, WaitLen, FoundLoad, FoundStore, WaitEnd,
         slots, clients, daemons, history
<1>2. \A s \in Slots : callback_buf'[s].iid = callback_buf[s].iid
  <2>1. \/ callback_buf' = callback_buf
        \/ callback_buf' = [callback_buf EXCEPT ![Slot(w)].is_done = TRUE]
    BY DEF WorkerStep, WaitDone, WaitIid, WaitLen, FoundLoad, FoundStore, WaitEnd, slots
  <2>2. QED
    BY <2>1, CallbackIds DEF IInv
<1>3. (Adding' <=> Adding) /\ (Resetting' <=> Resetting) /\ (Freed' <=> Freed)
  BY <1>1 DEF Adding, Resetting, Freed
<1>4. QED
  BY <1>1, <1>2, <1>3, QueueFrame

LEMMA DaemonQuiet ==
  ASSUME IInv, NEW d \in Daemons,
         \/ read_persistence_open(d) \/ Close(d) \/ read_persistence_poll(d)
         \/ ReadSlotNumber(d) \/ ReadRequest(d) \/ ReadFault(d)
         \/ ReadAfterError(d) \/ storage_get(d) \/ LookupFault(d) \/ WriteClear(d)
         \/ WriteCopy(d) \/ WriteFault(d)
  PROVE  QueueInv'
<1> USE DEF read_persistence_open, Close, read_persistence_poll, ReadSlotNumber,
      ReadRequest, ReadFault, ReadAfterError, storage_get, LookupFault, WriteClear,
      WriteCopy, WriteFault
<1>1. UNCHANGED <<ring, msg_buf, client, arg, intact, queue, overtaken>>
  BY DEF slots, others, clients, history
<1>2. \A s \in Slots : callback_buf'[s].iid = callback_buf[s].iid
  <2>1. \/ callback_buf' = callback_buf
        \/ \E r \in {Zero} \cup Partial(out[d]) : Answer(d, r)
    BY DEF slots, Partial
  <2>2. QED
    BY <2>1, CallbackIds DEF Answer, IInv
<1>3. /\ \A x \in Daemons : x # d => daemon'[x] = daemon[x]
      /\ daemon[d] \in {"closed", "poll", "read", "request", "request_err", "lookup",
                         "write", "copy"}
      /\ daemon'[d] \in {"poll", "read", "request", "request_err", "lookup", "write",
                         "copy", "advance", "rel_used"}
      /\ daemon'[d] \in Busy => daemon[d] \in Busy \/ used_buf > 0
      /\ daemon[d] \in Quiet => daemon'[d] \in Quiet \/ used_buf > 0
  BY DEF DaemonGoes, IInv, TypeInv, TypeOK, Busy, Quiet, Releasing
<1>4. Adding' <=> Adding
  BY <1>1 DEF Adding
<1>5. (Resetting' <=> Resetting) /\ (Freed' <=> Freed)
  BY <1>3 DEF Resetting, Freed
<1>6. QED
  BY <1>1, <1>2, <1>3, <1>4, <1>5, QueueFrame

\* The count goes up while the indices are not being reset, or the ring is
\* written off.
LEMMA IncStep ==
  ASSUME IInv, NEW c \in Clients, AddInc(c) PROVE QueueInv'
<1>1. /\ client[c] = "inc" /\ client' = [client EXCEPT ![c] = "clear"]
      /\ used_buf' = used_buf + 1
      /\ intact' = (intact /\ ~Resetting)
      /\ UNCHANGED <<current_buf, first_buf, slots, arg, daemon, queue, overtaken>>
  BY DEF AddInc, ClientGoes, daemons
<1>2. \A x \in Clients : x # c => client[x] = "closed"
  BY <1>1, OneClient
<1>3. client'[c] = "clear" /\ \A x \in Clients : x # c => client'[x] = "closed"
  BY <1>1, <1>2, Ranges
<1>4. ~Adding /\ Adding'
  BY <1>1, <1>2, <1>3 DEF Adding
<1>5. (Resetting' <=> Resetting) /\ (Freed' <=> Freed)
  BY <1>1 DEF Resetting, Freed
<1>6. ~overtaken
  BY <1>4 DEF IInv, QueueInv, HistoryInv
<1>7. (intact' => intact /\ ~Resetting) /\ (intact /\ ~intact' => Resetting)
  BY <1>1
<1>8. SlotWritten'
  BY <1>3 DEF SlotWritten
<1>9. CountInv'
  <2> DEFINE n == IF Freed THEN 1 ELSE 0
  <2>1. n \in {0, 1} /\ n = IF Freed' THEN 1 ELSE 0
    BY <1>5
  <2>2. intact' => used_buf = Len(queue) + 0 + n
    BY <1>4, <1>7 DEF IInv, QueueInv, CountInv
  <2>3. Len(queue') = Len(queue)
    BY <1>1
  <2> HIDE DEF n
  <2>4. intact' => used_buf' = Len(queue') + 1 + n
    BY <1>1, <2>1, <2>2, <2>3, Ranges
  <2>5. ~overtaken'
    BY <1>1, <1>6
  <2>6. QED
    BY <1>4, <2>1, <2>4, <2>5 DEF CountInv
<1>10. RingHoldsRequests'
  BY <1>1, <1>5, <1>7 DEF IInv, QueueInv, RingHoldsRequests, slots
<1>11. HistoryInv'
  <2>1. ~intact' => queue' = <<>>
    BY <1>1, <1>7 DEF IInv, QueueInv, HistoryInv
  <2>2. intact' => \A d \in Daemons : daemon'[d] \in Busy => used_buf' > 0
    BY <1>1, <1>7, Ranges DEF IInv, QueueInv, HistoryInv
  <2>3. ~(intact' /\ Resetting') /\ ~overtaken'
    BY <1>1, <1>5, <1>6, <1>7
  <2>4. QED
    BY <2>1, <2>2, <2>3 DEF HistoryInv
<1>12. QED
  BY <1>8, <1>9, <1>10, <1>11 DEF QueueInv

\* Clearing, filling and registering the current slot leave the requests that
\* wait for their answers alone.
LEMMA SlotStep ==
  ASSUME IInv, NEW c \in Clients, AddClear(c) \/ AddCopy(c) \/ AddCallback(c)
  PROVE  QueueInv'
<1>1. /\ client[c] \in {"clear", "copy", "callback"}
      /\ client'[c] \in {"copy", "callback", "advance"}
      /\ \A x \in Clients : x # c => client'[x] = client[x]
      /\ UNCHANGED <<ring, arg, daemon, intact, queue, overtaken>>
  BY Ranges DEF AddClear, AddCopy, AddCallback, ClientGoes, daemons, history
<1>2. \A x \in Clients : x # c => client'[x] = "closed"
  BY <1>1, OneClient
<1>3. Adding /\ Adding'
  BY <1>1 DEF Adding
<1>4. (Resetting' <=> Resetting) /\ (Freed' <=> Freed)
  BY <1>1 DEF Resetting, Freed
<1>5. \A s \in Slots : s # current_buf =>
         msg_buf'[s] = msg_buf[s] /\ callback_buf'[s].iid = callback_buf[s].iid
  BY DEF AddClear, AddCopy, AddCallback, IInv, TypeInv, TypeOK
<1>6. SlotWritten'
  <2>1. CASE AddClear(c)
    BY <1>2, <2>1, Ranges DEF AddClear, ClientGoes, SlotWritten
  <2>2. CASE AddCopy(c)
    <3>1. client'[c] = "callback" /\ msg_buf'[current_buf] = arg[c]
      BY <2>2 DEF AddCopy, ClientGoes, IInv, TypeInv, TypeOK
    <3>2. QED
      BY <1>1, <1>2, <3>1 DEF SlotWritten, ring
  <2>3. CASE AddCallback(c)
    <3> SUFFICES ASSUME intact
                 PROVE  /\ msg_buf'[current_buf'] = arg'[c]
                        /\ callback_buf'[current_buf'].iid = arg'[c]
      BY <1>1, <1>2 DEF SlotWritten
    <3>1. msg_buf[current_buf] = arg[c] /\ msg_buf' = msg_buf
      BY <2>3 DEF AddCallback, ClientGoes, IInv, QueueInv, SlotWritten
    <3>2. arg[c] # Uninit
      BY IdsAssigned DEF IInv, TypeInv, TypeOK
    <3>3. Reads(msg_buf[current_buf]) = {arg[c]}
      BY <3>1, <3>2 DEF Reads
    <3>4. callback_buf' = [callback_buf EXCEPT ![current_buf].iid = arg[c],
                                               ![current_buf].is_done = FALSE]
      BY <2>3, <3>3 DEF AddCallback
    <3>5. callback_buf'[current_buf].iid = arg[c]
      BY <3>4 DEF IInv, TypeInv, TypeOK
    <3>6. QED
      BY <1>1, <3>1, <3>5 DEF ring
  <2>4. QED
    BY <2>1, <2>2, <2>3
<1>7. CountInv'
  BY <1>1, <1>3, <1>4 DEF IInv, QueueInv, CountInv, ring
<1>8. HistoryInv'
  BY <1>1, <1>3, <1>4 DEF IInv, QueueInv, HistoryInv, ring
<1>9. RingHoldsRequests'
  <2> SUFFICES ASSUME intact, ~Resetting PROVE RingHoldsRequests'
    BY <1>1, <1>4 DEF RingHoldsRequests
  <2>1. \A i \in 1 .. Len(queue) :
          /\ msg_buf'[(first_buf + i - 1) % BUFFER_SIZE] = queue[i]
          /\ callback_buf'[(first_buf + i - 1) % BUFFER_SIZE].iid = queue[i]
    <3> TAKE i \in 1 .. Len(queue)
    <3> DEFINE k == (first_buf + i - 1) % BUFFER_SIZE
    <3>1. k # current_buf /\ k \in Slots
      BY <1>3, CurrentIsFree
    <3>2. msg_buf[k] = queue[i] /\ callback_buf[k].iid = queue[i]
      BY RingFacts
    <3> HIDE DEF k
    <3>3. msg_buf'[k] = queue[i] /\ callback_buf'[k].iid = queue[i]
      BY <1>5, <3>1, <3>2
    <3>4. QED
      BY <3>3 DEF k
  <2>2. QED
    BY <1>1, <2>1 DEF IInv, QueueInv, RingHoldsRequests, ring
<1>10. QED
  BY <1>6, <1>7, <1>8, <1>9 DEF QueueInv

\* Publishing the request appends it, unless an answer has already passed it.
LEMMA AdvanceStep ==
  ASSUME IInv, NEW c \in Clients, AddAdvance(c) PROVE QueueInv'
<1>1. /\ client[c] = "advance" /\ client' = [client EXCEPT ![c] = "work"]
      /\ current_buf' = Succ(current_buf)
      /\ queue' = IF overtaken \/ ~intact THEN queue ELSE Append(queue, arg[c])
      /\ overtaken' = FALSE
      /\ UNCHANGED <<used_buf, first_buf, msg_buf, callback_buf, daemon, intact>>
  BY DEF AddAdvance, ClientGoes, daemons, slots
<1>2. client'[c] = "work" /\ \A x \in Clients : x # c => client'[x] = "closed"
  BY <1>1, OneClient, Ranges
<1>3. Adding /\ ~Adding'
  BY <1>1, <1>2 DEF Adding
<1>4. (Resetting' <=> Resetting) /\ (Freed' <=> Freed)
  BY <1>1 DEF Resetting, Freed
<1>5. ~(intact /\ Resetting)
  BY <1>3 DEF IInv, QueueInv, HistoryInv
<1>6. SlotWritten'
  BY <1>2 DEF SlotWritten
<1>7. HistoryInv'
  <2>1. ~intact' => queue' = <<>>
    BY <1>1 DEF IInv, QueueInv, HistoryInv
  <2>2. intact' => \A d \in Daemons : daemon'[d] \in Busy => used_buf' > 0
    BY <1>1 DEF IInv, QueueInv, HistoryInv
  <2>3. ~overtaken' /\ ~(intact' /\ Resetting')
    BY <1>1, <1>4, <1>5
  <2>4. QED
    BY <2>1, <2>2, <2>3 DEF HistoryInv
<1>8. SUFFICES ASSUME intact, ~Resetting
               PROVE  CountInv' /\ RingHoldsRequests'
  <2>1. ~(intact /\ ~Resetting) => CountInv' /\ RingHoldsRequests'
    BY <1>1, <1>4 DEF CountInv, RingHoldsRequests
  <2>2. QED
    BY <1>6, <1>7, <1>8, <2>1 DEF QueueInv
<1>9. Succ(current_buf) \in 0 .. BUFFER_SIZE - 1
  BY SuccSlot DEF IInv, TypeInv, TypeOK, Slots
<1>10. (Succ(current_buf) + 0) % BUFFER_SIZE = Succ(current_buf)
  BY <1>9, SlotMod
<1>11. CASE overtaken
  <2>1. queue' = queue
    BY <1>1, <1>11
  <2>2. CountInv'
    BY <1>1, <1>3, <1>4, <1>8, <1>11, <2>1 DEF IInv, QueueInv, CountInv
  <2>3. RingHoldsRequests'
    BY <1>1, <1>4, <1>8, <1>10, <1>11, <2>1, RingFacts DEF RingHoldsRequests
  <2>4. QED
    BY <2>2, <2>3
<1>12. CASE ~overtaken
  <2>1. queue' = Append(queue, arg[c]) /\ arg[c] \in Iids
    BY <1>1, <1>8, <1>12 DEF IInv, TypeInv, LocalsAssigned
  <2>2. /\ Len(queue') = Len(queue) + 1
        /\ \A i \in 1 .. Len(queue) : queue'[i] = queue[i]
        /\ queue'[Len(queue) + 1] = arg[c]
    BY <2>1, Ranges, AppendProperties
  <2> DEFINE n == IF Freed THEN 1 ELSE 0
  <2>3. used_buf = Len(queue) + 1 + n
    BY <1>3, <1>8, <1>12 DEF IInv, QueueInv, CountInv
  <2>4. n \in {0, 1} /\ n = IF Freed' THEN 1 ELSE 0
    BY <1>4
  <2> HIDE DEF n
  <2>5. Len(queue) + 1 <= BUFFER_SIZE
    BY <2>3, <2>4, Ranges
  <2>6. CountInv'
    <3>1. used_buf' = used_buf /\ Len(queue') = Len(queue) + 1
      BY <1>1, <2>2
    <3>2. used_buf' = Len(queue') + 0 + n
      BY <2>3, <2>4, <3>1, Ranges
    <3>3. QED
      BY <1>3, <2>4, <3>2 DEF CountInv
  <2>7. current_buf = (first_buf + Len(queue)) % BUFFER_SIZE
    BY <1>8, <1>12, RingFacts
  <2>8. Succ(current_buf) = (first_buf + (Len(queue) + 1)) % BUFFER_SIZE
    <3> DEFINE x == first_buf + Len(queue)
    <3>1. x \in 0 .. 2 * BUFFER_SIZE - 1 /\ x + 1 = first_buf + (Len(queue) + 1)
      BY <2>5, Ranges
    <3> HIDE DEF x
    <3>2. ((x % BUFFER_SIZE) + 1) % BUFFER_SIZE = (x + 1) % BUFFER_SIZE
      BY <3>1, Ranges, NextPosition
    <3>3. QED
      BY <2>7, <3>1, <3>2 DEF x, Succ
  <2>9. msg_buf[current_buf] = arg[c] /\ callback_buf[current_buf].iid = arg[c]
    BY <1>1, <1>8 DEF IInv, QueueInv, SlotWritten
  <2>10. \A i \in 1 .. Len(queue') :
           /\ msg_buf[(first_buf + i - 1) % BUFFER_SIZE] = queue'[i]
           /\ callback_buf[(first_buf + i - 1) % BUFFER_SIZE].iid = queue'[i]
    <3> SUFFICES ASSUME NEW i \in 1 .. Len(queue) + 1
                 PROVE  /\ msg_buf[(first_buf + i - 1) % BUFFER_SIZE] = queue'[i]
                        /\ callback_buf[(first_buf + i - 1) % BUFFER_SIZE].iid = queue'[i]
      BY <2>2
    <3>1. CASE i \in 1 .. Len(queue)
      BY <3>1, <1>8, <2>2, RingFacts
    <3>2. CASE i = Len(queue) + 1
      <4>1. first_buf + i - 1 = first_buf + Len(queue)
        BY <3>2, Ranges
      <4>2. QED
        BY <3>2, <4>1, <2>2, <2>7, <2>9
    <3>3. QED
      BY <3>1, <3>2, Ranges
  <2>11. RingHoldsRequests'
    <3>1. Len(queue') <= BUFFER_SIZE
      BY <2>2, <2>5
    <3>2. (current_buf' + 0) % BUFFER_SIZE = (first_buf' + Len(queue')) % BUFFER_SIZE
      BY <1>1, <1>10, <2>2, <2>8
    <3>3. QED
      BY <1>1, <1>4, <2>10, <3>1, <3>2 DEF RingHoldsRequests
  <2>12. QED
    BY <2>6, <2>11
<1>13. QED
  BY <1>11, <1>12

\* A daemon at work on an intact ring has a finished request, or is about to
\* overtake an add.
LEMMA PollFinds ==
  ASSUME IInv, NEW d \in Daemons, daemon[d] = "advance", intact
  PROVE  ~Resetting /\ ~Freed /\ (queue # <<>> \/ (Adding /\ ~overtaken))
<1>1. \A x \in Daemons : x # d => daemon[x] \notin {"poll"} \cup Busy
  BY OneDaemon DEF Busy
<1>2. ~Freed
  BY <1>1 DEF Freed, Busy
<1>3. ~Resetting /\ used_buf > 0
  BY DEF IInv, QueueInv, HistoryInv, Busy, Quiet, Releasing
<1>4. used_buf = Len(queue) + (IF Adding /\ ~overtaken THEN 1 ELSE 0) + 0
  BY <1>2, <1>3 DEF IInv, QueueInv, CountInv
<1>5. queue = <<>> => Len(queue) = 0
  OBVIOUS
<1>6. QED
  BY <1>2, <1>3, <1>4, <1>5

\* Freeing the slot takes the oldest request from the queue, or passes the add.
LEMMA WriteAdvanceStep ==
  ASSUME IInv, NEW d \in Daemons, WriteAdvance(d) PROVE QueueInv'
<1>1. /\ daemon[d] = "advance" /\ daemon' = [daemon EXCEPT ![d] = "dec"]
      /\ first_buf' = Succ(first_buf)
      /\ queue' = IF queue = <<>> THEN queue ELSE Tail(queue)
      /\ overtaken' = (intact /\ (overtaken \/ queue = <<>>))
      /\ UNCHANGED <<used_buf, current_buf, msg_buf, callback_buf, client, arg, intact>>
  BY DEF WriteAdvance, DaemonGoes, slots, others, clients
<1>2. daemon'[d] = "dec" /\ \A x \in Daemons : x # d => daemon'[x] = daemon[x]
  BY <1>1, Ranges
<1>3. (Resetting' <=> Resetting) /\ Freed'
  BY <1>1, <1>2 DEF Resetting, Freed
<1>4. Adding' <=> Adding
  BY <1>1 DEF Adding
<1>5. SlotWritten'
  BY <1>1 DEF IInv, QueueInv, SlotWritten
<1>6. intact' => \A x \in Daemons : daemon'[x] \in Busy => used_buf' > 0
  BY <1>1, <1>2 DEF IInv, QueueInv, HistoryInv, Busy
<1>7. CASE ~intact
  <2>1. queue' = <<>> /\ ~overtaken' /\ ~intact'
    BY <1>1, <1>7 DEF IInv, QueueInv, HistoryInv
  <2>2. CountInv' /\ RingHoldsRequests' /\ HistoryInv'
    BY <2>1 DEF CountInv, RingHoldsRequests, HistoryInv
  <2>3. QED
    BY <1>5, <2>2 DEF QueueInv
<1>8. CASE intact
  <2>1. ~Resetting /\ ~Freed /\ (queue # <<>> \/ (Adding /\ ~overtaken))
    BY <1>1, <1>8, PollFinds
  <2>2. \A k \in 0 .. BUFFER_SIZE :
          (first_buf' + k) % BUFFER_SIZE = (first_buf + 1 + k) % BUFFER_SIZE
    BY <1>1, Ranges, ShiftedPosition DEF Succ
  <2>3. first_buf' \in Nat
    BY <1>1, SuccSlot, Ranges DEF Slots
  <2>4. CASE queue = <<>>
    <3>1. Adding /\ ~overtaken /\ Len(queue) = 0
      BY <2>1, <2>4
    <3>2. queue' = <<>> /\ overtaken' /\ Len(queue') = 0 /\ intact'
      BY <1>1, <1>8, <2>4
    <3>3. CountInv'
      <4>1. used_buf = 1
        BY <1>8, <2>1, <3>1 DEF IInv, QueueInv, CountInv
      <4>2. used_buf' = Len(queue') + 0 + 1
        BY <1>1, <3>2, <4>1
      <4>3. QED
        BY <1>3, <3>2, <4>2 DEF CountInv
    <3>4. current_buf = first_buf
      <4>1. current_buf = (first_buf + 0) % BUFFER_SIZE
        BY <1>8, <2>1, <3>1, RingFacts
      <4>2. QED
        BY <4>1, Ranges, SlotMod
    <3>5. RingHoldsRequests'
      <4>1. (first_buf' + 0) % BUFFER_SIZE = (first_buf + 1 + 0) % BUFFER_SIZE
        BY <2>2, Ranges
      <4>2. first_buf + 1 + 0 = current_buf + 1
        BY <3>4, Ranges
      <4>3. (current_buf' + 1) % BUFFER_SIZE = (first_buf' + Len(queue')) % BUFFER_SIZE
        BY <1>1, <3>2, <4>1, <4>2
      <4>4. Len(queue') <= BUFFER_SIZE /\ 1 .. Len(queue') = {}
        BY <3>2, Ranges
      <4>5. QED
        BY <3>2, <4>3, <4>4 DEF RingHoldsRequests
    <3>6. HistoryInv'
      BY <1>3, <1>4, <1>6, <2>1, <3>1, <3>2 DEF HistoryInv
    <3>7. QED
      BY <1>5, <3>3, <3>5, <3>6 DEF QueueInv
  <2>5. CASE queue # <<>>
    <3>1. ~overtaken
      BY <2>5 DEF IInv, QueueInv, HistoryInv
    <3>2. queue' = Tail(queue) /\ ~overtaken' /\ intact'
      BY <1>1, <1>8, <2>5, <3>1
    <3>3. /\ Len(queue') = Len(queue) - 1 /\ Len(queue) > 0
          /\ \A i \in 1 .. Len(queue) - 1 : queue'[i] = queue[i + 1]
      BY <2>5, <3>2, Ranges, HeadTailProperties
    <3> DEFINE n == IF Adding THEN 1 ELSE 0
    <3>4. n \in {0, 1} /\ n = IF Adding' THEN 1 ELSE 0
      BY <1>4
    <3>5. used_buf = Len(queue) + n + 0
      BY <1>8, <2>1, <3>1 DEF IInv, QueueInv, CountInv
    <3> HIDE DEF n
    <3>6. CountInv'
      <4>1. used_buf' = used_buf /\ Len(queue') = Len(queue) - 1
        BY <1>1, <3>3
      <4>2. used_buf' = Len(queue') + n + 1
        BY <3>4, <3>5, <4>1, Ranges
      <4>3. QED
        BY <1>3, <3>2, <3>4, <4>2 DEF CountInv
    <3>7. /\ Len(queue) <= BUFFER_SIZE
          /\ current_buf = (first_buf + Len(queue)) % BUFFER_SIZE
          /\ \A i \in 1 .. Len(queue) :
               /\ msg_buf[(first_buf + i - 1) % BUFFER_SIZE] = queue[i]
               /\ callback_buf[(first_buf + i - 1) % BUFFER_SIZE].iid = queue[i]
      BY <1>8, <2>1, <3>1, RingFacts
    <3>8. RingHoldsRequests'
      <4>1. Len(queue') <= BUFFER_SIZE
        BY <3>3, <3>7, Ranges
      <4>2. (current_buf' + 0) % BUFFER_SIZE = (first_buf' + Len(queue')) % BUFFER_SIZE
        <5>1. Len(queue') \in 0 .. BUFFER_SIZE
              /\ first_buf + 1 + Len(queue') = first_buf + Len(queue)
          BY <3>3, <3>7, Ranges
        <5>2. (first_buf' + Len(queue')) % BUFFER_SIZE = current_buf
          BY <2>2, <3>7, <5>1
        <5>3. QED
          BY <1>1, <5>2, Ranges, SlotMod
      <4>3. \A i \in 1 .. Len(queue') :
              /\ msg_buf'[(first_buf' + i - 1) % BUFFER_SIZE] = queue'[i]
              /\ callback_buf'[(first_buf' + i - 1) % BUFFER_SIZE].iid = queue'[i]
        <5> SUFFICES ASSUME NEW i \in 1 .. Len(queue) - 1
                     PROVE  /\ msg_buf[(first_buf' + i - 1) % BUFFER_SIZE] = queue[i + 1]
                            /\ callback_buf[(first_buf' + i - 1) % BUFFER_SIZE].iid
                                 = queue[i + 1]
          BY <1>1, <3>3
        <5>1. Len(queue) <= BUFFER_SIZE
          BY <3>7
        <5>2. /\ i - 1 \in 0 .. BUFFER_SIZE /\ i + 1 \in 1 .. Len(queue)
              /\ first_buf' + i - 1 = first_buf' + (i - 1)
              /\ first_buf + 1 + (i - 1) = first_buf + (i + 1) - 1
          BY <2>3, <5>1, Ranges
        <5>3. (first_buf' + (i - 1)) % BUFFER_SIZE = (first_buf + 1 + (i - 1)) % BUFFER_SIZE
          BY <2>2, <5>2
        <5>4. QED
          BY <3>7, <5>2, <5>3
      <4>4. QED
        BY <3>2, <4>1, <4>2, <4>3 DEF RingHoldsRequests
    <3>9. HistoryInv'
      BY <1>3, <1>6, <2>1, <3>2 DEF HistoryInv
    <3>10. QED
      BY <1>5, <3>6, <3>8, <3>9 DEF QueueInv
  <2>6. QED
    BY <2>4, <2>5
<1>9. QED
  BY <1>7, <1>8

\* Counting down the slot that was freed.
LEMMA DecStep ==
  ASSUME IInv, NEW d \in Daemons, WriteDec(d) PROVE QueueInv'
<1>1. /\ daemon[d] = "dec" /\ daemon' = [daemon EXCEPT ![d] = "poll"]
      /\ used_buf' = used_buf - 1
      /\ UNCHANGED <<current_buf, first_buf, msg_buf, callback_buf, client, arg,
                     intact, queue, overtaken>>
  BY DEF WriteDec, DaemonGoes, slots, others, clients, history
<1>2. /\ daemon'[d] = "poll" /\ \A x \in Daemons : x # d => daemon'[x] = daemon[x]
      /\ \A x \in Daemons : daemon'[x] \notin Busy
  BY <1>1, Ranges, OneDaemon DEF Busy
<1>3. (Resetting' <=> Resetting) /\ Freed /\ ~Freed'
  BY <1>1, <1>2 DEF Resetting, Freed, Busy
<1>4. Adding' <=> Adding
  BY <1>1 DEF Adding
<1>5. ~(intact /\ Resetting)
  BY <1>1 DEF IInv, QueueInv, HistoryInv, Quiet, Releasing
<1>6. SlotWritten'
  BY <1>1 DEF IInv, QueueInv, SlotWritten
<1>7. RingHoldsRequests'
  BY <1>1, <1>3 DEF IInv, QueueInv, RingHoldsRequests
<1>8. HistoryInv'
  BY <1>1, <1>2, <1>3, <1>4, <1>5 DEF IInv, QueueInv, HistoryInv
<1>9. CountInv'
  <2> DEFINE n == IF Adding /\ ~overtaken THEN 1 ELSE 0
  <2>1. n \in {0, 1} /\ n = IF Adding' /\ ~overtaken' THEN 1 ELSE 0
    BY <1>1, <1>4
  <2>2. intact /\ ~Resetting => used_buf = Len(queue) + n + 1
    BY <1>3 DEF IInv, QueueInv, CountInv
  <2>3. (intact' <=> intact) /\ Len(queue') = Len(queue)
    BY <1>1
  <2> HIDE DEF n
  <2>4. intact' /\ ~Resetting' => used_buf' = Len(queue') + n + 0
    BY <1>1, <1>3, <2>1, <2>2, <2>3, Ranges
  <2>5. QED
    BY <1>3, <2>1, <2>4 DEF CountInv
<1>10. QED
  BY <1>6, <1>7, <1>8, <1>9 DEF QueueInv

\* The steps of close, in their order: counter, write index, read index.  Other
\* closes may be under way, and the next daemon may have the device open.
LEMMA ReleaseUsedStep ==
  ASSUME IInv, NEW d \in Daemons, ReleaseUsed(d) PROVE QueueInv'
<1>1. /\ daemon[d] = "rel_used" /\ daemon' = [daemon EXCEPT ![d] = "rel_current"]
      /\ used_buf' = 0 /\ queue' = <<>> /\ ~overtaken'
      /\ UNCHANGED <<current_buf, first_buf, client, arg>>
  BY DEF ReleaseUsed, DaemonGoes, others, clients
<1>2. intact' <=> (~Adding /\ \A x \in Daemons : daemon[x] \in Quiet)
  BY DEF ReleaseUsed, Quiet
<1>3. daemon'[d] = "rel_current" /\ \A x \in Daemons : x # d => daemon'[x] = daemon[x]
  BY <1>1, Ranges
<1>4. Resetting' /\ (Adding' <=> Adding)
  BY <1>1, <1>3 DEF Resetting, Adding
<1>5. SlotWritten'
  BY <1>1, <1>2 DEF SlotWritten, Adding
<1>6. CountInv' /\ RingHoldsRequests'
  BY <1>4 DEF CountInv, RingHoldsRequests
<1>7. intact' => \A x \in Daemons : daemon'[x] \in Quiet /\ daemon'[x] \notin Busy
  BY <1>2, <1>3 DEF Quiet, Releasing, Busy
<1>8. HistoryInv'
  BY <1>1, <1>2, <1>3, <1>4, <1>7 DEF HistoryInv
<1>9. QED
  BY <1>5, <1>6, <1>8 DEF QueueInv

LEMMA ReleaseCurrentStep ==
  ASSUME IInv, NEW d \in Daemons, ReleaseCurrent(d) PROVE QueueInv'
<1>1. /\ daemon[d] = "rel_current" /\ daemon' = [daemon EXCEPT ![d] = "rel_first"]
      /\ current_buf' = 0
      /\ UNCHANGED <<used_buf, first_buf, client, arg, queue, overtaken, intact>>
  BY DEF ReleaseCurrent, DaemonGoes, others, clients, history
<1>2. daemon'[d] = "rel_first" /\ \A x \in Daemons : x # d => daemon'[x] = daemon[x]
  BY <1>1, Ranges
<1>3. Resetting /\ Resetting' /\ (Adding' <=> Adding)
  BY <1>1, <1>2 DEF Resetting, Adding
<1>4. SlotWritten'
  BY <1>1, <1>3 DEF IInv, QueueInv, HistoryInv, SlotWritten, Adding
<1>5. CountInv' /\ RingHoldsRequests'
  BY <1>3 DEF CountInv, RingHoldsRequests
<1>6. \A x \in Daemons :
        /\ daemon'[x] \in Busy <=> daemon[x] \in Busy
        /\ daemon'[x] \in Quiet <=> daemon[x] \in Quiet
  BY <1>1, <1>2 DEF Busy, Quiet, Releasing
<1>7. HistoryInv'
  BY <1>1, <1>3, <1>6 DEF IInv, QueueInv, HistoryInv
<1>8. QED
  BY <1>4, <1>5, <1>7 DEF QueueInv

LEMMA ReleaseFirstStep ==
  ASSUME IInv, NEW d \in Daemons, ReleaseFirst(d) PROVE QueueInv'
<1>1. /\ daemon[d] = "rel_first" /\ daemon' = [daemon EXCEPT ![d] = "closed"]
      /\ first_buf' = 0
      /\ UNCHANGED <<used_buf, current_buf, msg_buf, callback_buf, client, arg,
                     queue, overtaken, intact>>
  BY DEF ReleaseFirst, DaemonGoes, slots, others, clients, history
<1>2. daemon'[d] = "closed" /\ \A x \in Daemons : x # d => daemon'[x] = daemon[x]
  BY <1>1, Ranges
<1>3. /\ Resetting /\ (Adding' <=> Adding) /\ (Freed' <=> Freed)
      /\ (\E x \in Daemons : daemon[x] = "rel_current")
           <=> (\E x \in Daemons : daemon'[x] = "rel_current")
  BY <1>1, <1>2 DEF Resetting, Adding, Freed
<1>4. SlotWritten'
  BY <1>1 DEF IInv, QueueInv, SlotWritten
<1>5. \A x \in Daemons :
        /\ daemon'[x] \in Busy <=> daemon[x] \in Busy
        /\ daemon'[x] \in Quiet <=> daemon[x] \in Quiet
  BY <1>1, <1>2 DEF Busy, Quiet, Releasing
<1>6. HistoryInv'
  <2>1. (~intact' => queue' = <<>> /\ ~overtaken') /\ (overtaken' => queue' = <<>> /\ Adding')
    BY <1>1, <1>3 DEF IInv, QueueInv, HistoryInv
  <2>2. intact' => \A x \in Daemons : daemon'[x] \in Busy => used_buf' > 0
    BY <1>1, <1>5 DEF IInv, QueueInv, HistoryInv
  <2>3. ASSUME intact'
        PROVE  /\ used_buf' = 0 /\ queue' = <<>> /\ ~overtaken' /\ ~Adding'
               /\ \A x \in Daemons : daemon'[x] \in Quiet
               /\ current_buf' = 0 \/ \E x \in Daemons : daemon'[x] = "rel_current"
    BY <1>1, <1>3, <1>5, <2>3 DEF IInv, QueueInv, HistoryInv
  <2>4. QED
    BY <2>1, <2>2, <2>3 DEF HistoryInv
<1>7. CountInv' /\ RingHoldsRequests'
  <2> SUFFICES ASSUME intact, ~Resetting' PROVE CountInv' /\ RingHoldsRequests'
    BY <1>1 DEF CountInv, RingHoldsRequests
  <2>1. /\ used_buf' = 0 /\ queue' = <<>> /\ ~overtaken' /\ ~Adding'
        /\ \A x \in Daemons : daemon[x] \in Quiet
        /\ current_buf' = 0 \/ \E x \in Daemons : daemon'[x] = "rel_current"
    BY <1>1, <1>3 DEF IInv, QueueInv, HistoryInv
  <2>2. current_buf' = 0 /\ ~Freed' /\ Len(queue') = 0
    BY <1>3, <2>1 DEF Resetting, Freed, Quiet, Releasing
  <2>3. CountInv'
    BY <2>1, <2>2 DEF CountInv
  <2>4. RingHoldsRequests'
    BY <1>1, <2>1, <2>2, Ranges DEF RingHoldsRequests
  <2>5. QED
    BY <2>3, <2>4
<1>8. QED
  BY <1>4, <1>6, <1>7 DEF QueueInv
-----------------------------------------------------------------------------
(***************************************************************************)
(* Answers.                                                                *)
(***************************************************************************)

\* A request is in the ring only while the ring is intact and not being reset.
LEMMA QueueMeansIntact ==
  ASSUME IInv, queue # <<>> PROVE intact /\ ~Resetting /\ ~overtaken
  BY DEF IInv, QueueInv, HistoryInv

\* Reading the slot of a finished request yields that request: no add is at
\* that slot.
LEMMA CopiesOldest ==
  ASSUME IInv, queue # <<>> PROVE Copies = {Head(queue)}
<1>1. intact /\ ~Resetting /\ ~overtaken /\ Len(queue) > 0
  BY QueueMeansIntact, Ranges, EmptySeq
<1>2. 1 \in 1 .. Len(queue) /\ first_buf + 1 - 1 = first_buf
  BY <1>1, Ranges
<1>3. (first_buf + 1 - 1) % BUFFER_SIZE = first_buf
  BY <1>2, Ranges, SlotMod
<1>4. msg_buf[first_buf] = queue[1] /\ queue[1] = Head(queue) /\ queue[1] \in Iids
  <2>1. msg_buf[first_buf] = queue[1]
    BY <1>1, <1>2, <1>3, RingFacts
  <2>2. QED
    BY <1>1, <1>2, <2>1, Ranges, HeadTailProperties, ElementOfSeq
<1>5. Reads(msg_buf[first_buf]) = {Head(queue)}
  BY <1>4, IdsAssigned DEF Reads, Requests
<1>6. Adding => current_buf # first_buf
  BY <1>1, <1>2, <1>3, CurrentIsFree
<1>7. {x \in Clients : client[x] \in {"clear", "copy"} /\ current_buf = first_buf} = {}
  BY <1>6 DEF Adding
<1>8. QED
  BY <1>5, <1>7 DEF Copies

\* A step that leaves what a daemon answers alone.
LEMMA AnswersKept ==
  ASSUME NEW d \in Daemons, Answers(d), fresh' => fresh, first_buf' = first_buf,
         daemon'[d] = daemon[d], recv'[d] = recv[d], out'[d] = out[d],
         queue # <<>> => queue' # <<>> /\ Head(queue') = Head(queue),
         callback_buf'[first_buf].response = callback_buf[first_buf].response
  PROVE  Answers(d)'
  BY DEF Answers

LEMMA NotAnswering ==
  ASSUME NEW d, ~fresh' \/ daemon'[d] \notin {"lookup", "write", "copy", "advance"}
  PROVE  Answers(d)'
  BY DEF Answers

LEMMA FreshClient ==
  ASSUME IInv, NEW c \in Clients,
         read_test_open(c) \/ read_test_release(c) \/ read_test_write(c) \/ AddStep(c)
  PROVE  FreshInv'
<1>1. UNCHANGED <<first_buf, daemon, recv, out, fresh>>
  BY DEF read_test_open, read_test_release, read_test_write, AddStep, AddFull,
    AddRoom, AddInc, AddClear, AddCopy, AddCallback, AddAdvance, NoWork, add_work,
    CountReceived, ring, daemons, history
<1>2. callback_buf'[first_buf].response = callback_buf[first_buf].response
  <2>1. CASE AddCallback(c)
    BY <2>1 DEF AddCallback, IInv, TypeInv, TypeOK
  <2>2. CASE ~AddCallback(c)
    BY <2>2 DEF read_test_open, read_test_release, read_test_write, AddStep, AddFull,
      AddRoom, AddInc, AddClear, AddCopy, AddAdvance, NoWork, add_work, CountReceived,
      slots
  <2>3. QED
    BY <2>1, <2>2
<1>3. queue # <<>> => queue' # <<>> /\ Head(queue') = Head(queue)
  <2>1. CASE AddAdvance(c)
    <3>1. queue' = queue \/ queue' = Append(queue, arg[c])
      BY <2>1 DEF AddAdvance
    <3>2. arg[c] \in Iids
      BY <2>1 DEF AddAdvance, ClientGoes, IInv, TypeInv, LocalsAssigned
    <3>3. QED
      BY <3>1, <3>2, Ranges, AppendProperties, HeadKept
  <2>2. CASE ~AddAdvance(c)
    BY <2>2 DEF read_test_open, read_test_release, read_test_write, AddStep, AddFull,
      AddRoom, AddInc, AddClear, AddCopy, AddCallback, NoWork, add_work, CountReceived,
      history
  <2>3. QED
    BY <2>1, <2>2
<1>4. QED
  BY <1>1, <1>2, <1>3, AnswersKept DEF IInv, FreshInv

LEMMA FreshWorker ==
  ASSUME IInv, NEW w \in Threads, WorkerStep(w) PROVE FreshInv'
<1>1. UNCHANGED <<first_buf, daemon, recv, out, queue, fresh>>
  BY DEF WorkerStep, WaitDone, WaitIid, WaitLen, FoundLoad, FoundStore, WaitEnd,
    ring, daemons, history
<1>2. callback_buf'[first_buf].response = callback_buf[first_buf].response
  <2>1. \/ callback_buf' = callback_buf
        \/ callback_buf' = [callback_buf EXCEPT ![Slot(w)].is_done = TRUE]
    BY DEF WorkerStep, WaitDone, WaitIid, WaitLen, FoundLoad, FoundStore, WaitEnd, slots
  <2>2. first_buf \in Slots
        /\ callback_buf \in [Slots -> [iid : Requests \cup {Uninit},
                                      is_done : BOOLEAN, response : Records]]
    BY DEF IInv, TypeInv, TypeOK
  <2>3. CASE first_buf = Slot(w)
    BY <2>1, <2>2, <2>3
  <2>4. CASE first_buf # Slot(w)
    BY <2>1, <2>2, <2>4
  <2>5. QED
    BY <2>3, <2>4
<1>3. QED
  BY <1>1, <1>2, AnswersKept DEF IInv, FreshInv

LEMMA FreshDaemon ==
  ASSUME IInv, NEW d \in Daemons,
         read_persistence_open(d) \/ Close(d) \/ LoopStep(d) \/ ReleaseStep(d)
  PROVE  FreshInv'
<1> USE DEF DaemonGoes
<1>1. \A x \in Daemons :
        x # d => daemon'[x] = daemon[x] /\ recv'[x] = recv[x] /\ out'[x] = out[x]
  <2>1. /\ \E s \in DaemonStates : daemon' = [daemon EXCEPT ![d] = s]
        /\ recv' = recv \/ \E r : recv' = [recv EXCEPT ![d] = r]
        /\ out' = out \/ \E r : out' = [out EXCEPT ![d] = r]
    BY DEF read_persistence_open, Close, LoopStep, read_persistence_poll,
      ReadSlotNumber, ReadRequest, ReadFault, ReadAfterError, storage_get, LookupFault,
      WriteClear, WriteCopy, WriteFault, WriteAdvance, WriteDec, ReleaseStep,
      ReleaseUsed, ReleaseCurrent, ReleaseFirst, DaemonStates, Releasing
  <2>2. QED
    BY <2>1 DEF IInv, TypeInv, TypeOK
<1>2. \A x \in Daemons : Answers(x)
  BY DEF IInv, FreshInv
<1>3. daemon \in [Daemons -> DaemonStates] /\ first_buf \in Slots
  BY DEF IInv, TypeInv, TypeOK
\* The other daemons have nothing under way while d does.
<1>4. ASSUME NEW x \in Daemons, x # d, daemon[d] \in Busy PROVE Answers(x)'
  BY <1>1, <1>4, OneDaemon, NotAnswering DEF Busy
<1>5. CASE read_persistence_open(d) \/ read_persistence_poll(d) \/ Close(d)
  <2>1. /\ UNCHANGED <<first_buf, callback_buf, queue, fresh>>
        /\ daemon'[d] \in {"poll", "read", "rel_used"}
    BY <1>3, <1>5 DEF read_persistence_open, read_persistence_poll, Close, ring, slots,
      history
  <2>2. ASSUME NEW x \in Daemons PROVE Answers(x)'
    BY <1>1, <1>2, <2>1, <2>2, AnswersKept, NotAnswering
  <2>3. QED
    BY <2>2 DEF FreshInv
<1>6. CASE ReadRequest(d)
  <2>1. daemon[d] = "request" /\ daemon'[d] = "lookup"
    BY <1>3, <1>6 DEF ReadRequest
  <2>2. PICK i \in Copies : recv' = [recv EXCEPT ![d].iid = i]
    BY <1>6 DEF ReadRequest
  <2>3. recv'[d].bufferId = recv[d].bufferId /\ recv'[d].iid = i
    BY <2>2 DEF IInv, TypeInv, TypeOK
  <2>4. UNCHANGED <<first_buf, queue>> /\ (fresh' => queue # <<>>)
    BY <1>6 DEF ReadRequest, ring
  <2>5. queue # <<>> => recv[d].bufferId = first_buf
    BY <2>1, QueueMeansIntact DEF IInv, SlotNumberInv
  <2>6. fresh' => i = Head(queue)
    BY <2>4, CopiesOldest
  <2>7. Answers(d)'
    BY <2>1, <2>3, <2>4, <2>5, <2>6 DEF Answers
  <2>8. QED
    BY <1>4, <2>1, <2>7 DEF FreshInv, Busy
<1>7. CASE ReadSlotNumber(d) \/ ReadFault(d) \/ ReadAfterError(d)
  <2>1. daemon[d] \in Busy
    BY <1>7 DEF ReadSlotNumber, ReadFault, ReadAfterError, Busy
  <2>2. ~fresh' \/ daemon'[d] \in {"request", "request_err"}
    BY <1>3, <1>7 DEF ReadSlotNumber, ReadFault, ReadAfterError
  <2>3. Answers(d)'
    BY <2>2, NotAnswering
  <2>4. QED
    BY <1>4, <2>1, <2>3 DEF FreshInv
<1>8. CASE storage_get(d) \/ LookupFault(d)
  <2>1. daemon[d] = "lookup" /\ daemon'[d] = "write"
    BY <1>3, <1>8 DEF storage_get, LookupFault
  <2>2. UNCHANGED <<first_buf, callback_buf, recv, queue, fresh>>
    BY <1>8 DEF storage_get, LookupFault, ring, slots, history
  <2>3. out'[d].iid \in {0, recv[d].iid}
    BY <1>8 DEF storage_get, LookupFault, Zero, IInv, TypeInv, TypeOK
  <2>4. Answers(d)'
    BY <1>2, <2>1, <2>2, <2>3 DEF Answers
  <2>5. QED
    BY <1>4, <2>1, <2>4 DEF FreshInv, Busy
<1>9. CASE WriteClear(d)
  <2>1. daemon[d] = "write" /\ daemon'[d] = "copy"
    BY <1>3, <1>9 DEF WriteClear
  <2>2. UNCHANGED <<first_buf, recv, out, queue, fresh>>
    BY <1>9 DEF WriteClear, ring, history
  <2>3. Answers(d)'
    BY <1>2, <2>1, <2>2 DEF Answers
  <2>4. QED
    BY <1>4, <2>1, <2>3 DEF FreshInv, Busy
<1>10. CASE WriteCopy(d)
  <2>1. daemon[d] = "copy" /\ daemon'[d] = "advance"
    BY <1>3, <1>10 DEF WriteCopy
  <2>2. UNCHANGED <<first_buf, recv, out, queue, fresh>>
    BY <1>10 DEF WriteCopy, ring, history
  <2>3. recv[d].bufferId = first_buf => callback_buf'[first_buf].response = out[d]
    BY <1>3, <1>10 DEF WriteCopy, Answer, IInv, TypeInv, TypeOK
  <2>4. Answers(d)'
    BY <1>2, <2>1, <2>2, <2>3 DEF Answers
  <2>5. QED
    BY <1>4, <2>1, <2>4 DEF FreshInv, Busy
<1>11. CASE WriteFault(d) \/ WriteAdvance(d) \/ WriteDec(d)
  <2>1. daemon[d] \in Busy /\ daemon'[d] \in {"poll", "dec"}
    BY <1>3, <1>11 DEF WriteFault, WriteAdvance, WriteDec, Busy
  <2>2. Answers(d)'
    BY <2>1, NotAnswering
  <2>3. QED
    BY <1>4, <2>1, <2>2 DEF FreshInv
<1>12. CASE ReleaseCurrent(d) \/ ReleaseFirst(d)
  <2>1. /\ daemon[d] \in {"rel_current", "rel_first"}
        /\ daemon'[d] \in {"rel_first", "closed"}
        /\ UNCHANGED <<callback_buf, queue, fresh>>
    BY <1>3, <1>12 DEF ReleaseCurrent, ReleaseFirst, slots, history
  <2>2. queue = <<>>
    BY <2>1, QueueMeansIntact DEF Resetting
  <2>3. ASSUME NEW x \in Daemons, x # d PROVE Answers(x)'
    BY <1>1, <1>2, <2>1, <2>2, <2>3 DEF Answers
  <2>4. QED
    BY <2>1, <2>3, NotAnswering DEF FreshInv
<1>13. CASE ReleaseUsed(d)
  BY <1>13, NotAnswering DEF ReleaseUsed, FreshInv
<1>14. QED
  BY <1>5, <1>6, <1>7, <1>8, <1>9, <1>10, <1>11, <1>12, <1>13
  DEF LoopStep, ReleaseStep

\* While the ring stays intact the slot number the daemon copied stays the
\* number of the oldest slot: only the daemon that holds the device could free
\* it, and a late reset spoils the ring.
LEMMA SlotNumberNext ==
  ASSUME IInv, [Next]_vars PROVE SlotNumberInv'
<1> SUFFICES ASSUME NEW x \in Daemons, daemon'[x] = "request", intact'
             PROVE  recv'[x].bufferId = first_buf'
  BY DEF SlotNumberInv
<1> USE DEF DaemonGoes
<1>1. /\ daemon \in [Daemons -> DaemonStates]
      /\ recv \in [Daemons -> [bufferId : Slots \cup {Uninit},
                                iid : Requests \cup {Uninit}]]
  BY DEF IInv, TypeInv, TypeOK
<1>2. daemon[x] = "request" /\ intact => recv[x].bufferId = first_buf
  BY DEF IInv, SlotNumberInv
<1>3. CASE ReadSlotNumber(x)
  BY <1>1, <1>3 DEF ReadSlotNumber, ring
<1>4. ASSUME NEW c \in Clients,
             read_test_open(c) \/ read_test_release(c) \/ read_test_write(c) \/ AddStep(c)
      PROVE  UNCHANGED <<first_buf, daemon, recv>> /\ intact
  BY <1>4 DEF read_test_open, read_test_release, read_test_write, AddStep, AddFull,
    AddRoom, AddInc, AddClear, AddCopy, AddCallback, AddAdvance, NoWork, add_work,
    CountReceived, ring, daemons, history
<1>5. ASSUME NEW w \in Threads, WorkerStep(w)
      PROVE  UNCHANGED <<first_buf, daemon, recv>> /\ intact
  BY <1>5 DEF WorkerStep, WaitDone, WaitIid, WaitLen, FoundLoad, FoundStore, WaitEnd,
    ring, daemons, history
<1>6. ASSUME NEW d \in Daemons,
             read_persistence_open(d) \/ Close(d) \/ LoopStep(d) \/ ReleaseStep(d),
             ~ReadSlotNumber(x)
      PROVE  recv'[x].bufferId = first_buf'
  <2>1. daemon[x] = "request" /\ recv'[x] = recv[x]
    BY <1>1, <1>6 DEF read_persistence_open, Close, LoopStep, read_persistence_poll,
      ReadSlotNumber, ReadRequest, ReadFault, ReadAfterError, storage_get, LookupFault,
      WriteClear, WriteCopy, WriteFault, WriteAdvance, WriteDec, ReleaseStep,
      ReleaseUsed, ReleaseCurrent, ReleaseFirst
  <2>2. intact
    <3>1. ~ReleaseUsed(d)
      BY <2>1 DEF ReleaseUsed, Releasing
    <3>2. QED
      BY <1>6, <3>1 DEF read_persistence_open, Close, LoopStep, read_persistence_poll,
        ReadSlotNumber, ReadRequest, ReadFault, ReadAfterError, storage_get, LookupFault,
        WriteClear, WriteCopy, WriteFault, WriteAdvance, WriteDec, ReleaseStep,
        ReleaseCurrent, ReleaseFirst, history
  <2>3. ~ReleaseFirst(d)
    BY <2>1, <2>2
    DEF ReleaseFirst, Resetting, IInv, QueueInv, HistoryInv, Quiet, Releasing
  <2>4. ~WriteAdvance(d)
    BY <2>1, OneDaemon DEF WriteAdvance, Busy
  <2>5. first_buf' = first_buf
    BY <1>6, <2>3, <2>4 DEF read_persistence_open, Close, LoopStep, read_persistence_poll,
      ReadSlotNumber, ReadRequest, ReadFault, ReadAfterError, storage_get, LookupFault,
      WriteClear, WriteCopy, WriteFault, WriteDec, ReleaseStep,
      ReleaseUsed, ReleaseCurrent, ring
  <2>6. QED
    BY <1>2, <2>1, <2>2, <2>5
<1>7. CASE storage_put \/ UNCHANGED vars
  BY <1>2, <1>7 DEF storage_put, vars, ring, daemons, history
<1>8. QED
  BY <1>2, <1>3, <1>4, <1>5, <1>6, <1>7 DEF Next
-----------------------------------------------------------------------------
\* The requests in the ring and the answers, step by step.
LEMMA QueueNext ==
  ASSUME IInv, [Next]_vars PROVE QueueInv' /\ SlotNumberInv' /\ FreshInv'
<1>1. ASSUME NEW c \in Clients,
             read_test_open(c) \/ read_test_release(c) \/ read_test_write(c) \/ AddStep(c)
      PROVE  QueueInv' /\ FreshInv'
  BY <1>1, ClientQuiet, IncStep, SlotStep, AdvanceStep, FreshClient DEF AddStep
<1>2. ASSUME NEW w \in Threads, WorkerStep(w) PROVE QueueInv' /\ FreshInv'
  BY <1>2, WorkerQuiet, FreshWorker
<1>3. ASSUME NEW d \in Daemons,
             read_persistence_open(d) \/ Close(d) \/ LoopStep(d) \/ ReleaseStep(d)
      PROVE  QueueInv' /\ FreshInv'
  BY <1>3, DaemonQuiet, WriteAdvanceStep, DecStep, ReleaseUsedStep, ReleaseCurrentStep,
     ReleaseFirstStep, FreshDaemon DEF LoopStep, ReleaseStep
<1>4. CASE storage_put \/ UNCHANGED vars
  <2>1. UNCHANGED <<ring, slots, client, arg, daemon, recv, out, history>>
    BY <1>4 DEF storage_put, vars, clients, daemons
  <2>2. (Adding' <=> Adding) /\ (Resetting' <=> Resetting) /\ (Freed' <=> Freed)
    BY <2>1 DEF Adding, Resetting, Freed
  <2>3. QueueInv'
    BY <2>1, <2>2, QueueFrame DEF slots, history
  <2>4. FreshInv'
    BY <2>1, AnswersKept DEF IInv, FreshInv, ring, slots, history
  <2>5. QED
    BY <2>3, <2>4, SlotNumberNext
<1>5. QED
  BY <1>1, <1>2, <1>3, <1>4, SlotNumberNext DEF Next

LEMMA Inductive == Spec => []IInv
<1>1. Init => QueueInv /\ SlotNumberInv /\ FreshInv
  BY QueueInit DEF Init, SlotNumberInv, FreshInv, Answers
<1>2. TypeInv /\ Ownership /\ UsedInv /\ StoredInv /\ QueueInv /\ SlotNumberInv
        /\ FreshInv /\ [Next]_vars => QueueInv' /\ SlotNumberInv' /\ FreshInv'
  BY QueueNext DEF IInv
<1>3. Spec => [](TypeInv /\ Ownership /\ UsedInv /\ StoredInv)
  BY TypeInvariant, OwnershipInvariant, UsedInvariant, StoredInvariant, PTL
<1>4. Spec => [](QueueInv /\ SlotNumberInv /\ FreshInv)
  BY <1>1, <1>2, <1>3, PTL DEF Spec
<1>5. QED
  BY <1>3, <1>4, PTL DEF IInv
-----------------------------------------------------------------------------
(***************************************************************************)
(* The theorems.                                                           *)
(***************************************************************************)

\* Every variable has its type: the indices of the ring and the turn of the
\* pool stay in range, no worker runs without a work item and no daemon
\* answers into a slot number it has not read.
THEOREM TypeCorrect == Spec => []TypeOK
  BY TypeInvariant, PTL DEF TypeInv

\* used_buf never exceeds the ring and never goes below -1, for any number of
\* daemons whose read_persistence_release unlocks before it resets.
THEOREM UsedStaysInRange == Spec => []UsedInRange
  BY UsedInvariant, PTL DEF UsedInv

\* While no close races, the ring that read_persistence_add_message fills and
\* read_persistence_write empties holds exactly the unanswered requests, in
\* order, each with its own callback.
THEOREM RequestsInRing == Spec => []RingHoldsRequests
<1>1. IInv => RingHoldsRequests
  BY DEF IInv, QueueInv
<1>2. QED
  BY <1>1, Inductive, PTL

\* wait_response counts a message whose id is not 0 as found only if its id is
\* in the database, however slots are reused while it compares.  (For id 0 it
\* does not hold: TLC refutes EveryHitWasPersisted.)
THEOREM FoundMeansPersisted == Spec => []FoundWasPersisted
<1>1. IInv => FoundWasPersisted
  BY DEF IInv, StoredInv, FoundWasPersisted
<1>2. QED
  BY <1>1, Inductive, PTL

\* When read_persistence_write frees a slot for a finished request, that slot's
\* callback holds the answer to that request.
THEOREM AnswersAreForRequests == Spec => AnswersMatchRequests
<1>1. ASSUME IInv, NEW d \in Daemons, daemon[d] = "advance", fresh
      PROVE  /\ recv[d].bufferId = first_buf /\ queue # <<>>
             /\ callback_buf[first_buf].response = out[d]
             /\ out[d].iid \in {0, Head(queue)}
  BY <1>1 DEF IInv, FreshInv, Answers
<1>2. IInv /\ [Next]_vars =>
        [\A d \in Daemons :
           daemon[d] = "advance" /\ daemon'[d] = "dec" /\ intact /\ fresh
             => /\ recv[d].bufferId = first_buf
                /\ queue # <<>>
                /\ callback_buf[first_buf].response = out[d]
                /\ out[d].iid \in {0, Head(queue)}]_vars
  BY <1>1
<1>3. QED
  BY <1>2, Inductive, PTL DEF Spec, AnswersMatchRequests
=============================================================================
