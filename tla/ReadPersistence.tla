--------------------------- MODULE ReadPersistence ---------------------------
(***************************************************************************)
(* The read path of the kernel module: a client writes requests (instance  *)
(* ids) to /dev/paxos/read-test (kpaxos/read_test_device_operations.c),    *)
(* each is put into the ring of the read-persistence device                *)
(* (kpaxos/read_persistence_device_operations.c) and a work item for it is *)
(* queued on a pool of kernel threads (kpaxos/workers_pool.c).  The read   *)
(* thread of a user_storage daemon reads the request, looks it up in LMDB  *)
(* and writes the answer back, into the callback of the request's slot; a  *)
(* worker thread compares that answer with its work item and counts hits.  *)
(*                                                                         *)
(* The client, the daemons and the workers share the ring, the callbacks   *)
(* and the counters without a lock, so every access to one of them is a    *)
(* step of its own.                                                        *)
(***************************************************************************)
EXTENDS Integers, Sequences

CONSTANTS
  Clients,       \* processes that open /dev/paxos/read-test
  Daemons,       \* user_storage processes
  BUFFER_SIZE,   \* slots of the ring (1000 in kernel_device.h)
  N_THREADS,     \* worker threads (10 in read_test_device_operations.c)
  Iids,          \* instance ids clients ask for
  Lens,          \* lengths of stored values
  MaxRequests,   \* bound: write(2) calls on read-test
  MaxFaults,     \* bound: failed copies and lookups
  Nobody,        \* no holder of a char_mutex
  Uninit         \* memory nobody has written

ASSUME SizeAssumption ==
  /\ BUFFER_SIZE \in Nat \ {0} /\ N_THREADS \in Nat \ {0}
  /\ MaxRequests \in Nat /\ MaxFaults \in Nat
ASSUME DataAssumption ==
  /\ Iids \subseteq Nat /\ Lens \subseteq Nat /\ Uninit \notin Nat
ASSUME HolderAssumption == Nobody \notin Clients \cup Daemons

VARIABLES
  \* the read-persistence device
  used_buf, current_buf, first_buf, msg_buf, callback_buf,
  persistence_mutex,
  \* the read-test device and its pool
  test_mutex, messagesReceived, messagesFound, current_worker, works,
  \* the processes and threads
  client, arg, callback,   \* where a client is, its request, its callback
  daemon, recv, out,       \* where a daemon is, its buffers
  worker, found,           \* where a worker is, its copy of messagesFound
  \* LMDB, and the bounds
  db, requests, faults,
  \* history, not in the code
  intact,        \* no close has raced since the last one that did not
  queue,         \* while intact: finished requests not yet answered
  overtaken,     \* while intact: an answer has passed over the add in progress
  fresh          \* the daemon's request is the oldest finished one

ring == <<used_buf, current_buf, first_buf>>
slots == <<msg_buf, callback_buf>>
counts == <<messagesReceived, messagesFound>>
pool == <<current_worker, works, worker, found>>
clients == <<test_mutex, client, arg, callback, requests>>
daemons == <<persistence_mutex, daemon, recv, out>>
history == <<intact, queue, overtaken, fresh>>
vars == <<ring, slots, counts, pool, clients, daemons, db, faults, history>>

Slots == 0 .. BUFFER_SIZE - 1
Threads == 0 .. N_THREADS - 1
Succ(i) == (i + 1) % BUFFER_SIZE
Requests == Iids \cup {0}

\* clearPaxosAccepted, and the answer to a request nothing was found for.
Zero == [iid |-> 0, len |-> 0]
Records == {Zero} \cup [iid : Iids, len : Lens \cup {0}]
\* The receive buffer before the first read.
NoRequest == [bufferId |-> Uninit, iid |-> Uninit]

\* What reading an id, or a slot number, may yield: indeterminate memory reads
\* as any of them.
Reads(v) == IF v = Uninit THEN Requests ELSE {v}
ReadsSlot(v) == IF v = Uninit THEN Slots ELSE {v}

\* An add that used_buf already counts but current_buf does not.
Adding ==
  \E c \in Clients : client[c] \in {"clear", "copy", "callback", "advance"}
\* A close that has reset used_buf and not yet the indices.
Resetting == \E d \in Daemons : daemon[d] \in {"rel_current", "rel_first"}
Releasing == {"rel_used", "rel_current", "rel_first"}

ClientGoes(c, from, to) ==
  /\ client[c] = from
  /\ client' = [client EXCEPT ![c] = to]
DaemonGoes(d, from, to) ==
  /\ daemon[d] = from
  /\ daemon' = [daemon EXCEPT ![d] = to]
\* write(2) returns: the client's locals are gone.
ClientReturns(c, from) ==
  /\ ClientGoes(c, from, "open")
  /\ arg' = [arg EXCEPT ![c] = 0]
  /\ callback' = [callback EXCEPT ![c] = 0]
WorkerGoes(w, from, to) ==
  /\ worker[w] = from
  /\ worker' = [worker EXCEPT ![w] = to]

\* The database outlives the daemon: it may hold anything at the start.
Init ==
  /\ used_buf = 0 /\ current_buf = 0 /\ first_buf = 0
  /\ msg_buf = [i \in Slots |-> Uninit]
  /\ callback_buf =
       [i \in Slots |-> [iid |-> Uninit, is_done |-> FALSE, response |-> Zero]]
  /\ persistence_mutex = Nobody /\ test_mutex = Nobody
  /\ messagesReceived = 0 /\ messagesFound = 0
  /\ current_worker = 0 /\ works = [w \in Threads |-> <<>>]
  /\ client = [c \in Clients |-> "closed"]
  /\ arg = [c \in Clients |-> 0] /\ callback = [c \in Clients |-> 0]
  /\ daemon = [d \in Daemons |-> "closed"]
  /\ recv = [d \in Daemons |-> NoRequest] /\ out = [d \in Daemons |-> Zero]
  /\ worker = [w \in Threads |-> "idle"] /\ found = [w \in Threads |-> 0]
  /\ \E S \in SUBSET Iids : db \in [S -> Lens]
  /\ requests = 0 /\ faults = 0
  /\ intact = TRUE /\ queue = <<>> /\ overtaken = FALSE /\ fresh = FALSE
-----------------------------------------------------------------------------
(***************************************************************************)
(* The client.                                                             *)
(***************************************************************************)
read_test_open(c) ==
  /\ test_mutex = Nobody
  /\ ClientGoes(c, "closed", "open")
  /\ test_mutex' = c
  /\ messagesFound' = 0 /\ messagesReceived' = 0
  /\ UNCHANGED <<ring, slots, pool, arg, callback, requests, daemons, db,
                 faults, history>>

read_test_release(c) ==
  /\ ClientGoes(c, "open", "closed")
  /\ test_mutex' = Nobody
  /\ UNCHANGED <<ring, slots, counts, pool, arg, callback, requests, daemons,
                 db, faults, history>>

read_test_write(c) ==
  /\ requests < MaxRequests
  /\ ClientGoes(c, "open", "check")
  /\ \E i \in Iids : arg' = [arg EXCEPT ![c] = i]
  /\ requests' = requests + 1
  /\ UNCHANGED <<ring, slots, counts, pool, test_mutex, callback, daemons, db,
                 faults, history>>

(***************************************************************************)
(* read_persistence_add_message, step by step; the counter goes up before  *)
(* the slot is written.                                                    *)
(***************************************************************************)
AddFull(c) ==
  /\ used_buf >= BUFFER_SIZE
  /\ ClientReturns(c, "check")
  /\ UNCHANGED <<ring, slots, counts, pool, test_mutex, requests, daemons, db,
                 faults, history>>

\* Mutant: the fullness check admits one request too many.
AddRoom_OneTooMany(c) ==
  /\ used_buf <= BUFFER_SIZE
  /\ ClientGoes(c, "check", "inc")
  /\ UNCHANGED <<ring, slots, counts, pool, test_mutex, arg, callback,
                 requests, daemons, db, faults, history>>

AddRoom(c) ==
  /\ used_buf < BUFFER_SIZE
  /\ ClientGoes(c, "check", "inc")
  /\ UNCHANGED <<ring, slots, counts, pool, test_mutex, arg, callback,
                 requests, daemons, db, faults, history>>

AddInc(c) ==
  /\ ClientGoes(c, "inc", "clear")
  /\ used_buf' = used_buf + 1
  /\ intact' = (intact /\ ~Resetting)
  /\ UNCHANGED <<current_buf, first_buf, slots, counts, pool, test_mutex, arg,
                 callback, requests, daemons, db, faults, queue, overtaken,
                 fresh>>

AddClear(c) ==
  /\ ClientGoes(c, "clear", "copy")
  /\ msg_buf' = [msg_buf EXCEPT ![current_buf] = 0]
  /\ UNCHANGED <<ring, callback_buf, counts, pool, test_mutex, arg, callback,
                 requests, daemons, db, faults, history>>

\* memcpy of as many bytes as the client wrote: a request is a paxos_accepted
\* and fits the slot.  (The code does not check the size.)
AddCopy(c) ==
  /\ ClientGoes(c, "copy", "callback")
  /\ msg_buf' = [msg_buf EXCEPT ![current_buf] = arg[c]]
  /\ UNCHANGED <<ring, callback_buf, counts, pool, test_mutex, arg, callback,
                 requests, daemons, db, faults, history>>

AddCallback(c) ==
  /\ ClientGoes(c, "callback", "advance")
  /\ callback' = [callback EXCEPT ![c] = current_buf]
  /\ \E i \in Reads(msg_buf[current_buf]) :
       callback_buf' = [callback_buf EXCEPT ![current_buf].iid = i,
                                            ![current_buf].is_done = FALSE]
  /\ UNCHANGED <<ring, msg_buf, counts, pool, test_mutex, arg, requests,
                 daemons, db, faults, history>>

AddAdvance(c) ==
  /\ ClientGoes(c, "advance", "work")
  /\ current_buf' = Succ(current_buf)
  /\ queue' = IF overtaken \/ ~intact THEN queue ELSE Append(queue, arg[c])
  /\ overtaken' = FALSE
  /\ UNCHANGED <<used_buf, first_buf, slots, counts, pool, test_mutex, arg,
                 callback, requests, daemons, db, faults, intact, fresh>>

\* createPersistenceWork finds no memory.
NoWork(c) ==
  /\ faults < MaxFaults
  /\ ClientReturns(c, "work")
  /\ faults' = faults + 1
  /\ UNCHANGED <<ring, slots, counts, pool, test_mutex, requests, daemons, db,
                 history>>

\* Mutant: the turn does not wrap around.
add_work_NoWrap(c) ==
  /\ ClientGoes(c, "work", "count")
  /\ works' = [works EXCEPT ![current_worker] =
       Append(@, [slot |-> callback[c], iid |-> callback_buf[callback[c]].iid])]
  /\ current_worker' = current_worker + 1
  /\ UNCHANGED <<ring, slots, counts, worker, found, test_mutex, arg, callback,
                 requests, daemons, db, faults, history>>

\* add_work: the pool's workers take turns.
add_work(c) ==
  /\ ClientGoes(c, "work", "count")
  /\ works' = [works EXCEPT ![current_worker] =
       Append(@, [slot |-> callback[c], iid |-> callback_buf[callback[c]].iid])]
  /\ current_worker' = (current_worker + 1) % N_THREADS
  /\ UNCHANGED <<ring, slots, counts, worker, found, test_mutex, arg, callback,
                 requests, daemons, db, faults, history>>

CountReceived(c) ==
  /\ ClientReturns(c, "count")
  /\ messagesReceived' = messagesReceived + 1
  /\ UNCHANGED <<ring, slots, messagesFound, pool, test_mutex, requests,
                 daemons, db, faults, history>>
-----------------------------------------------------------------------------
(***************************************************************************)
(* wait_response in a worker thread.  The condition it waits for,          *)
(* response != NULL, holds from the initialisation of the device on, so    *)
(* wait_event_timeout returns at once.                                     *)
(***************************************************************************)
Slot(w) == Head(works[w]).slot

WaitDone(w) ==
  /\ works[w] # <<>>
  /\ WorkerGoes(w, "idle", IF callback_buf[Slot(w)].is_done THEN "end" ELSE "iid")
  /\ UNCHANGED <<ring, slots, counts, current_worker, works, found, clients,
                 daemons, db, faults, history>>

\* Mutant: the ids are not compared.
WaitIid_Any(w) ==
  /\ WorkerGoes(w, "iid", "len")
  /\ UNCHANGED <<ring, slots, counts, current_worker, works, found, clients,
                 daemons, db, faults, history>>

WaitIid(w) ==
  /\ WorkerGoes(w, "iid",
       IF callback_buf[Slot(w)].response.iid = Head(works[w]).iid
       THEN "len" ELSE "end")
  /\ UNCHANGED <<ring, slots, counts, current_worker, works, found, clients,
                 daemons, db, faults, history>>

WaitLen(w) ==
  /\ WorkerGoes(w, "len",
       IF callback_buf[Slot(w)].response.len > 0 THEN "load" ELSE "end")
  /\ UNCHANGED <<ring, slots, counts, current_worker, works, found, clients,
                 daemons, db, faults, history>>

\* messagesFound++ is not atomic.
FoundLoad(w) ==
  /\ WorkerGoes(w, "load", "store")
  /\ found' = [found EXCEPT ![w] = messagesFound]
  /\ UNCHANGED <<ring, slots, counts, current_worker, works, clients, daemons,
                 db, faults, history>>

FoundStore(w) ==
  /\ WorkerGoes(w, "store", "end")
  /\ messagesFound' = found[w] + 1
  /\ found' = [found EXCEPT ![w] = 0]
  /\ UNCHANGED <<ring, slots, messagesReceived, current_worker, works, clients,
                 daemons, db, faults, history>>

WaitEnd(w) ==
  /\ WorkerGoes(w, "end", "idle")
  /\ callback_buf' = [callback_buf EXCEPT ![Slot(w)].is_done = TRUE]
  /\ works' = [works EXCEPT ![w] = Tail(@)]
  /\ UNCHANGED <<ring, msg_buf, counts, current_worker, found, clients,
                 daemons, db, faults, history>>
-----------------------------------------------------------------------------
(***************************************************************************)
(* The read thread of user_storage.  A poll that times out stutters.       *)
(***************************************************************************)
others == <<counts, pool, clients, db>>

read_persistence_open(d) ==
  /\ persistence_mutex = Nobody
  /\ DaemonGoes(d, "closed", "poll")
  /\ persistence_mutex' = d
  /\ UNCHANGED <<ring, slots, others, recv, out, faults, history>>

\* Mutant: one request is reported as none.
read_persistence_poll_MoreThanOne(d) ==
  /\ used_buf > 1
  /\ DaemonGoes(d, "poll", "read")
  /\ UNCHANGED <<ring, slots, others, persistence_mutex, recv, out, faults,
                 history>>

read_persistence_poll(d) ==
  /\ used_buf > 0
  /\ DaemonGoes(d, "poll", "read")
  /\ UNCHANGED <<ring, slots, others, persistence_mutex, recv, out, faults,
                 history>>

\* What copying a request out may yield: the id in the slot, or, if an add is
\* just clearing or filling that slot, what the slot is about to hold.
Copies ==
  Reads(msg_buf[first_buf]) \cup
  UNION {{0, arg[c]} : c \in {x \in Clients : /\ client[x] \in {"clear", "copy"}
                                             /\ current_buf = first_buf}}

\* read_persistence_read copies the slot number and then the request, looking
\* at first_buf for each, and leaves the request in the ring.
ReadSlotNumber(d) ==
  /\ DaemonGoes(d, "read", "request")
  /\ recv' = [recv EXCEPT ![d].bufferId = first_buf]
  /\ UNCHANGED <<ring, slots, others, persistence_mutex, out, faults, history>>

\* Mutant: the slot after the one whose number was copied.
ReadRequest_NextSlot(d) ==
  /\ DaemonGoes(d, "request", "lookup")
  /\ \E i \in Reads(msg_buf[Succ(first_buf)]) :
       recv' = [recv EXCEPT ![d].iid = i]
  /\ fresh' = (queue # <<>>)
  /\ UNCHANGED <<ring, slots, others, persistence_mutex, out, faults, intact,
                 queue, overtaken>>

ReadRequest(d) ==
  /\ DaemonGoes(d, "request", "lookup")
  /\ \E i \in Copies : recv' = [recv EXCEPT ![d].iid = i]
  /\ fresh' = (queue # <<>>)
  /\ UNCHANGED <<ring, slots, others, persistence_mutex, out, faults, intact,
                 queue, overtaken>>

\* copy_to_user fails, for the slot number or for the request; the daemon
\* only tests len against 0 and goes on with what its buffer holds.  (Before
\* the first read that is indeterminate; a slot number outside the ring, with
\* which the kernel would index callback_buf, is not modelled.)
ReadFault(d) ==
  /\ faults < MaxFaults
  /\ \/ /\ DaemonGoes(d, "read", "request_err")
        /\ \E b \in ReadsSlot(recv[d].bufferId) \cup {first_buf} :
             recv' = [recv EXCEPT ![d].bufferId = b]
        /\ UNCHANGED fresh
     \/ /\ DaemonGoes(d, "request", "lookup")
        /\ \E i \in Reads(recv[d].iid) \cup Copies :
             recv' = [recv EXCEPT ![d].iid = i]
        /\ fresh' = FALSE
  /\ faults' = faults + 1
  /\ UNCHANGED <<ring, slots, others, persistence_mutex, out, intact, queue,
                 overtaken>>

\* The request is copied also if its slot number could not be, or fails too.
ReadAfterError(d) ==
  /\ DaemonGoes(d, "request_err", "lookup")
  /\ \E i \in Reads(recv[d].iid) \cup Copies : recv' = [recv EXCEPT ![d].iid = i]
  /\ fresh' = FALSE
  /\ UNCHANGED <<ring, slots, others, persistence_mutex, out, faults, intact,
                 queue, overtaken>>

\* storage_get: the record stored under the id, or the not-found record, also
\* when a transaction or the lookup fails.
storage_get(d) ==
  /\ DaemonGoes(d, "lookup", "write")
  /\ out' = [out EXCEPT ![d] =
       IF recv[d].iid \in DOMAIN db
       THEN [iid |-> recv[d].iid, len |-> db[recv[d].iid]] ELSE Zero]
  /\ UNCHANGED <<ring, slots, others, persistence_mutex, recv, faults, history>>

LookupFault(d) ==
  /\ faults < MaxFaults
  /\ DaemonGoes(d, "lookup", "write")
  /\ out' = [out EXCEPT ![d] = Zero]
  /\ faults' = faults + 1
  /\ UNCHANGED <<ring, slots, others, persistence_mutex, recv, history>>

(***************************************************************************)
(* read_persistence_write: clear the old answer, copy the new one, free    *)
(* the slot.  A failed copy of the slot number or of the record returns    *)
(* early and leaves the request in the ring, to be read and answered       *)
(* again; a failed copy of the value does not.  Of a record whose copy     *)
(* failed the response may hold nothing, the id, or all but the pointer.   *)
(* The wake-up at the end meets no sleeper.                                *)
(***************************************************************************)
Answer(d, r) ==
  callback_buf' = [callback_buf EXCEPT ![recv[d].bufferId].response = r]
Partial(r) == {Zero, [r EXCEPT !.len = 0], r}

WriteClear(d) ==
  /\ DaemonGoes(d, "write", "copy")
  /\ Answer(d, Zero)
  /\ UNCHANGED <<ring, msg_buf, others, persistence_mutex, recv, out, faults,
                 history>>

WriteCopy(d) ==
  /\ DaemonGoes(d, "copy", "advance")
  /\ Answer(d, out[d])
  /\ UNCHANGED <<ring, msg_buf, others, persistence_mutex, recv, out, faults,
                 history>>

\* Mutant: the slot is freed although the record was not copied.
WriteFault_GoesOn(d) ==
  /\ faults < MaxFaults
  /\ \/ DaemonGoes(d, "write", "poll") /\ UNCHANGED callback_buf
     \/ DaemonGoes(d, "copy", "advance") /\ \E r \in Partial(out[d]) : Answer(d, r)
  /\ faults' = faults + 1
  /\ UNCHANGED <<ring, msg_buf, others, persistence_mutex, recv, out, history>>

WriteFault(d) ==
  /\ faults < MaxFaults
  /\ \/ DaemonGoes(d, "write", "poll") /\ UNCHANGED callback_buf
     \/ DaemonGoes(d, "copy", "poll") /\ \E r \in Partial(out[d]) : Answer(d, r)
  /\ faults' = faults + 1
  /\ UNCHANGED <<ring, msg_buf, others, persistence_mutex, recv, out, history>>

WriteAdvance(d) ==
  /\ DaemonGoes(d, "advance", "dec")
  /\ first_buf' = Succ(first_buf)
  /\ queue' = IF queue = <<>> THEN queue ELSE Tail(queue)
  /\ overtaken' = (intact /\ (overtaken \/ queue = <<>>))
  /\ UNCHANGED <<used_buf, current_buf, slots, others, persistence_mutex, recv,
                 out, faults, intact, fresh>>

WriteDec(d) ==
  /\ DaemonGoes(d, "dec", "poll")
  /\ used_buf' = used_buf - 1
  /\ UNCHANGED <<current_buf, first_buf, slots, others, persistence_mutex, recv,
                 out, faults, history>>

(***************************************************************************)
(* The daemon closes the device, or dies between two system calls.         *)
(* read_persistence_release unlocks the mutex first, so the next daemon    *)
(* may be at work when it resets the ring.                                 *)
(***************************************************************************)
Close(d) ==
  /\ daemon[d] \in {"poll", "read", "lookup", "write"}
  /\ daemon' = [daemon EXCEPT ![d] = "rel_used"]
  /\ persistence_mutex' = Nobody
  /\ recv' = [recv EXCEPT ![d] = NoRequest] /\ out' = [out EXCEPT ![d] = Zero]
  /\ UNCHANGED <<ring, slots, others, faults, history>>

ReleaseUsed(d) ==
  /\ DaemonGoes(d, "rel_used", "rel_current")
  /\ used_buf' = 0
  /\ intact' = (/\ ~Adding
                /\ \A x \in Daemons : daemon[x] \in {"closed", "poll"} \cup Releasing)
  /\ queue' = <<>> /\ overtaken' = FALSE /\ fresh' = FALSE
  /\ UNCHANGED <<current_buf, first_buf, slots, others, persistence_mutex, recv,
                 out, faults>>

\* Mutant: the write index is not reset.
ReleaseCurrent_Kept(d) ==
  /\ DaemonGoes(d, "rel_current", "rel_first")
  /\ UNCHANGED <<ring, slots, others, persistence_mutex, recv, out, faults,
                 history>>

ReleaseCurrent(d) ==
  /\ DaemonGoes(d, "rel_current", "rel_first")
  /\ current_buf' = 0
  /\ UNCHANGED <<used_buf, first_buf, slots, others, persistence_mutex, recv,
                 out, faults, history>>

ReleaseFirst(d) ==
  /\ DaemonGoes(d, "rel_first", "closed")
  /\ first_buf' = 0
  /\ UNCHANGED <<used_buf, current_buf, slots, others, persistence_mutex, recv,
                 out, faults, history>>

\* The write thread stores a value.
storage_put ==
  /\ \E i \in Iids, l \in Lens :
       db' = [x \in DOMAIN db \cup {i} |-> IF x = i THEN l ELSE db[x]]
  /\ UNCHANGED <<ring, slots, counts, pool, clients, daemons, faults, history>>
-----------------------------------------------------------------------------
AddStep(c) ==
  AddFull(c) \/ AddRoom(c) \/ AddInc(c) \/ AddClear(c) \/ AddCopy(c)
  \/ AddCallback(c) \/ AddAdvance(c) \/ NoWork(c) \/ add_work(c)
  \/ CountReceived(c)

WorkerStep(w) ==
  WaitDone(w) \/ WaitIid(w) \/ WaitLen(w) \/ FoundLoad(w) \/ FoundStore(w)
  \/ WaitEnd(w)

LoopStep(d) ==
  read_persistence_poll(d) \/ ReadSlotNumber(d) \/ ReadRequest(d)
  \/ ReadFault(d) \/ ReadAfterError(d) \/ storage_get(d) \/ LookupFault(d)
  \/ WriteClear(d) \/ WriteCopy(d) \/ WriteFault(d) \/ WriteAdvance(d) \/ WriteDec(d)

ReleaseStep(d) == ReleaseUsed(d) \/ ReleaseCurrent(d) \/ ReleaseFirst(d)

Next ==
  \/ \E c \in Clients : read_test_open(c) \/ read_test_release(c)
                        \/ read_test_write(c) \/ AddStep(c)
  \/ \E w \in Threads : WorkerStep(w)
  \/ \E d \in Daemons : read_persistence_open(d) \/ Close(d)
                        \/ LoopStep(d) \/ ReleaseStep(d)
  \/ storage_put

Spec == Init /\ [][Next]_vars

\* System calls run to their end, worker threads are scheduled, and a daemon's
\* loop polls again at the latest when its 2 s timeout expires.
Fairness ==
  /\ \A c \in Clients : WF_vars(AddStep(c))
  /\ \A w \in Threads : WF_vars(WorkerStep(w))
  /\ \A d \in Daemons : WF_vars(LoopStep(d)) /\ WF_vars(ReleaseStep(d))

FairSpec == Spec /\ Fairness
-----------------------------------------------------------------------------
ClientStates == {"closed", "open", "check", "inc", "clear", "copy", "callback",
                 "advance", "work", "count"}
DaemonStates == {"closed", "poll", "read", "request", "request_err", "lookup",
                 "write", "copy", "advance", "dec"} \cup Releasing
WorkerStates == {"idle", "iid", "len", "load", "store", "end"}

\* Every variable has its type.
TypeOK ==
  /\ used_buf \in Int /\ current_buf \in Slots /\ first_buf \in Slots
  /\ msg_buf \in [Slots -> Requests \cup {Uninit}]
  /\ callback_buf \in [Slots -> [iid : Requests \cup {Uninit},
                                is_done : BOOLEAN, response : Records]]
  /\ persistence_mutex \in Daemons \cup {Nobody}
  /\ test_mutex \in Clients \cup {Nobody}
  /\ messagesReceived \in Nat /\ messagesFound \in Nat
  /\ current_worker \in Threads
  /\ works \in [Threads -> Seq([slot : Slots, iid : Requests \cup {Uninit}])]
  /\ client \in [Clients -> ClientStates]
  /\ arg \in [Clients -> Requests] /\ callback \in [Clients -> Slots]
  /\ daemon \in [Daemons -> DaemonStates]
  /\ recv \in [Daemons -> [bufferId : Slots \cup {Uninit},
                            iid : Requests \cup {Uninit}]]
  /\ out \in [Daemons -> Records]
  /\ worker \in [Threads -> WorkerStates] /\ found \in [Threads -> Nat]
  /\ DOMAIN db \subseteq Iids /\ db \in [DOMAIN db -> Lens]
  /\ requests \in 0 .. MaxRequests /\ faults \in 0 .. MaxFaults
  /\ intact \in BOOLEAN /\ overtaken \in BOOLEAN /\ fresh \in BOOLEAN
  /\ queue \in Seq(Iids)

\* The close unlocks before it resets, so the next daemon may count down a
\* request that the reset has already forgotten; still the counter never goes
\* below -1, and it never exceeds the ring.
UsedInRange == used_buf \in -1 .. BUFFER_SIZE

\* Unless a close raced, the finished unanswered requests lie in the ring in
\* order from the read index on, each with its callback; the write index is
\* right behind them: neither a reuse of the slots nor a lagging worker
\* changes a request that is waiting for its answer.
RingHoldsRequests ==
  intact /\ ~Resetting =>
    /\ Len(queue) <= BUFFER_SIZE
    /\ \A i \in 1 .. Len(queue) :
         LET s == (first_buf + i - 1) % BUFFER_SIZE
         IN  msg_buf[s] = queue[i] /\ callback_buf[s].iid = queue[i]
    /\ (current_buf + (IF overtaken THEN 1 ELSE 0)) % BUFFER_SIZE
         = (first_buf + Len(queue)) % BUFFER_SIZE

\* When the daemon frees a slot after a read that met a finished request, the
\* answer it leaves is in that slot's callback, and it is for that request:
\* the record stored under its id, or not-found.  Failed writes that are
\* retried do not change this.
AnswersMatchRequests ==
  [][\A d \in Daemons :
       daemon[d] = "advance" /\ daemon'[d] = "dec" /\ intact /\ fresh
         => /\ recv[d].bufferId = first_buf
            /\ queue # <<>>
            /\ callback_buf[first_buf].response = out[d]
            /\ out[d].iid \in {0, Head(queue)}]_vars

\* A worker that counts a hit for an id other than 0 has a work item whose id
\* is in the database, whatever slots were reused and answers overwritten while
\* it looked: found messages were persisted.  (wait_response takes a cleared
\* response, whose id is 0, for one to a request for id 0: see
\* EveryHitWasPersisted.)
FoundWasPersisted ==
  \A w \in Threads :
    worker[w] \in {"load", "store"} /\ Head(works[w]).iid # 0 =>
      Head(works[w]).iid \in DOMAIN db

\* "Messages Found on Persistence" (read_test_device_operations.c:110), for
\* every id a client may ask for: what wait_response counts was persisted.
EveryHitWasPersisted ==
  \A w \in Threads :
    worker[w] \in {"load", "store"} => Head(works[w]).iid \in DOMAIN db

\* read_test_release reports messagesFound as "Messages Found on Persistence":
\* once every request is answered with its record and every worker has looked,
\* that is the number of requests, if all ids were stored from the start.
SpecAllStored == Init /\ DOMAIN db = Iids /\ [][Next]_vars
FoundIsCounted ==
  /\ requests = MaxRequests
  /\ \A c \in Clients : client[c] = "open" \/ test_mutex # c
  /\ \A w \in Threads : works[w] = <<>>
  /\ used_buf = 0 /\ intact
  /\ \A s \in Slots : callback_buf[s].response.iid = callback_buf[s].iid
  => messagesFound = messagesReceived

\* A daemon in its loop eventually answers the oldest finished request, unless
\* a close (also the late reset of a previous daemon's close) drops it.
RequestsAnswered ==
  \A i \in Slots :
    (intact /\ queue # <<>> /\ first_buf = i)
      ~> (first_buf # i \/ ~intact \/ Resetting
          \/ \A d \in Daemons : daemon[d] \in {"closed"} \cup Releasing)
=============================================================================
