# Verification of Kernel_Paxos_Persistence

Kernel_Paxos_Persistence is a Linux kernel module and a user-space daemon that
together persist the accepted values of a Paxos acceptor. The module offers
four character devices. Clients write accepted values to `write-test` and
requests for instance ids to `read-test`; the daemon `user_storage` takes them
from `write-persistence` and `read-persistence`, stores and looks up values in
LMDB, and writes the answers of look-ups back. This directory holds a TLA+ model
of that machinery, the TLC runs that check it on small instances, and TLAPS
proofs for every instance. Paths below are relative to the repository root.

## 1. Inventory

| Component | State | Operations | Talks to |
|---|---|---|---|
| write-test device (`kpaxos/write_test_device_operations.c`) | `char_mutex`, `used_buf` | open, write, release (read and poll change nothing) | `write` calls `write_persistence_add_message` |
| write-persistence device (`kpaxos/write_persistence_device_operations.c`) | a ring: `msg_buf`, `current_buf`, `first_buf`, `used_buf` (atomic), `callback_buf`; `char_mutex` | add_message, open, poll, read, release | filled in the client's system call, emptied in the daemon's |
| read-test device (`kpaxos/read_test_device_operations.c`) | `char_mutex`, `messagesReceived`, `messagesFound`, the worker pool | open, write, release; `wait_response` in the workers | `write` adds a request and a work item |
| read-persistence device (`kpaxos/read_persistence_device_operations.c`) | a ring of requests; a callback (`iid`, `is_done`, `response`) for each slot | add_message, open, poll, read, write, release | read and write are the two halves of one exchange with the daemon |
| workers pool (`kpaxos/workers_pool.c`) | array of kthread workers, `current_worker` | create_pool, add_work, free_pool | runs `wait_response` |
| user_storage (`kpaxos/user_storage.c`) | `stop`, for each of its two threads a `struct lmdb_storage` and a receive buffer | run, SIGINT, generic_storage_thread, storage_put, storage_get | poll/read/write on the devices; LMDB |
| LMDB operations (`kpaxos/lmdb_operations.c`) | `env`, `dbi`, `txn` | open, close, tx_begin, tx_commit, tx_abort, put, get; encodings | LMDB (external) |
| device life cycle (`kpaxos/kernel_device.c`, `persistence_main.c`) | `working`, class and device handles, the buffers | kdevchar_init, kdevchar_exit, module init and exit | everything |
| encodings (`kpaxos/lmdb_operations.c`, `paxos/`) | none | buffer_to_paxos_accepted, paxos_accepted_to_buffer, client_value_to_buffer | daemon and devices |
| echo client (`kpaxos/user_chardev.c`), test driver (`testekerneldevice.c`) | counters | open, write in a loop | the test devices |

What is hard here:

* **The rings have no lock.** A client inside `add_message`, a daemon inside
  poll, read, write or release, and ten worker threads touch the same counter,
  indices, slots and callbacks on different CPUs. Only `used_buf` is atomic, and
  the counter, the slot and the index of one message are three separate updates.
* **The counter announces a message before it is there**, and the two
  persistence devices free a slot at different moments: `write_persistence_read`
  frees it when the daemon reads, `read_persistence_write` when it answers.
* **Release resets the ring** while a client may be in the middle of an add;
  the read device even unlocks its mutex before it resets.
* **System calls fail half-way.** `copy_to_user`/`copy_from_user` errors leave
  early with some of the updates done; the daemon takes a negative `len` for a
  message.
* **Workers lag behind.** A work item names a slot whose callback may have been
  reused by the time a worker looks at it.
* **LMDB.** Both threads open write transactions on one environment directory,
  their structs are passed by value and never initialised, an error path aborts
  and then commits, and the process may die anywhere.

What makes each component correct:

* write path: the counter stays within the ring; no add overwrites an unread
  message; the daemon gets finished messages in order; a message in the ring is
  eventually read;
* read path: the same for requests; an answer goes to the callback of its own
  request and is the record stored under its id, or not-found; nothing is
  counted as found that was not persisted (which the code keeps for every id
  but 0); requests are eventually answered;
* daemon and LMDB: puts are atomic and durable, gets are never made up, no
  transaction is leaked, SIGINT ends the process.

## 2. Modules

| Module | Models |
|---|---|
| `WritePersistence` | write-test and write-persistence devices, and the daemon's write thread as a user of the latter |
| `ReadPersistence` | read-test and read-persistence devices, `add_work` and the workers, and the daemon's read thread as a user of the device |
| `UserStorage` | the daemon's two threads and LMDB |
| `KVStore` | abstract specification of the storage |
| `PersistenceSystem` | the write path from end to end: `WritePersistence` and `UserStorage` composed |
| `RecordPath` | the bytes of a record through every conversion and reused buffer, there and back |
| `ModuleLifecycle` | loading and unloading: module init and exit, the devices' set-up and removal, the pools' creation and end |
| `MCWritePersistence`, `MCReadPersistence`, `MCUserStorage`, `MCModuleLifecycle`, `MCPersistenceSystem`, `MCRecordPath` | instances for TLC |
| `WritePersistenceProofs`, `ReadPersistenceProofs`, `UserStorageProofs`, `ModuleLifecycleProofs`, `RecordPathProofs`, `PersistenceSystemProofs` | TLAPS proofs about the module each is named after |
| `RingArithmetic` | lemmas about positions in a ring, for the proofs about both rings |

### WritePersistence

The variables `used_buf`, `current_buf`, `first_buf`, `msg_buf` and the two
mutexes are the fields of the device structs. `client[c]` and `daemon[d]` are
program counters: each value names the next access to shared memory.

| Action | Code |
|---|---|
| `write_test_open`, `write_test_write`, `write_test_release` | the handlers of the same name |
| `AddFull`, `AddRoom` | the fullness check of `write_persistence_add_message` |
| `AddInc`, `AddClear`, `AddCopy`, `AddAdvance` | its `atomic_inc`, `memset`, `memcpy` (with the rewritten length) and index update |
| `write_persistence_poll` | `poll` reports `POLLIN` |
| `ReadCopy`/`ReadFault`, `ReadDec`, `ReadAdvance` | `write_persistence_read`: copy, `atomic_dec` on both outcomes, index only on success |
| `Close`, `ReleaseUsed`, `ReleaseCurrent`, `ReleaseFirst`, `ReleaseUnlock` | close(2) by the daemon or by the kernel when it dies; `write_persistence_release` |

A message is a record of its id and its length; a slot holds it cut to
`MAX_PAXOS_VALUE_SIZE`. A slot that was never written, and a copy taken while
an add is clearing or filling the slot, is `Uninit`.

Three history variables, which no guard reads, say what the code ought to have
in the ring: `queue` (messages whose add has finished and whose read has not
begun), `overtaken` (a read has passed over the add in progress) and `intact`
(neither a failed copy nor a close in the middle of an add has upset the ring
since the last clean close).

### ReadPersistence

The same ring with three differences in the code: a read leaves the request in
its slot and copies the slot number and the request one after the other,
looking at `first_buf` for each (`ReadSlotNumber`, `ReadRequest`; if the first
copy fails the second is still made, `ReadAfterError`), the answer
(`read_persistence_write`) advances *and then* counts down, and release unlocks
first. `callback_buf[i]` holds the id, `is_done` and the response of slot `i`;
a work item is a slot and the id it was made for; `works[w]` is the FIFO queue
of worker `w`. `wait_response` waits for `callback->response != NULL`; the
pointer is set by `kdevchar_init` and never cleared, so the wait ends at once
and is not a step. Its reads of `is_done`, of the id and of the length are
separate steps (`WaitDone`, `WaitIid`, `WaitLen`), and `messagesFound++` is a
load and a store (`FoundLoad`, `FoundStore`).
A copy of an answer's record that fails (`WriteFault`) may leave nothing, the id,
or all but the pointer of it (`Partial`).
`storage_get`, `LookupFault` and `storage_put` are what the daemon does with
LMDB, as one step each; `UserStorage` opens them up.

### UserStorage and KVStore

`thread[t]` is the program counter of `generic_storage_thread` and of
`storage_put`/`storage_get` under it. `frame[t]` is the `txn` field of the
thread's `struct lmdb_storage` and `txn[t]` the same field in the by-value copy
the callee works on. LMDB is external: `db[d]` is what is committed in a
directory, `writer[d]` the thread that holds the directory's write lock,
`pending[t]` the snapshot a transaction works on. `ProcessKilled` may happen
anywhere; `run` starts the daemon again on the same directories.

`KVStore` promises a map per directory, changed by atomic puts only, and
answers that were true at some moment of the get. `UserStorage` implements it
under `store <- db`, `answer <- reply`: the put happens at the commit, the get
at `mdb_get`.

### PersistenceSystem

Instances of `WritePersistence` (`W`, whose only daemon is the process) and of
`UserStorage` (`U`, with the WRITE thread). Opening the device, poll, read and
close of the thread are joint steps of both; a read(2) that returns hands
`recv` over to `msg`, or anything at all if the copy failed or met an add in
progress. However the process ends, the kernel runs
`write_persistence_release` for it, and `run` may start it again in the middle
of that. The READ thread is left out: it can only take the process down, as a
kill can at any time, or hold LMDB's lock for a while.

The history variable `expected` is the database as it will be when what was in
the ring at the open and what was added since is stored in that order; `clean`
says that nothing that is bound to lose values has happened since the open (a
failed read, a read that overtakes an add, a failed transaction, a close, a
death). `PutAll(map, q)` is the map after the records of `q` were put one after
the other, written without recursion: the last record for an id counts. That it
is what putting them one by one makes is `PutAllIsFold` in
`MCPersistenceSystem`, which TLC evaluates for all sequences of up to three
records.

### RecordPath

The other modules keep of a value its length. `RecordPath` keeps the bytes and
the memory they are in: `wbuf` (the driver's buffer), `wslot` (a ring slot),
`wrecv` (the daemon's receive buffer), `accepted`, `db`, and on the way back
`out`, `reply` and `response`. A struct keeps where its value pointer points, so
that a header copied with somebody else's pointer shows. Each action is one
function of the path: `writeProcess` and `readProcess` of the test driver (whose
`main` has the call of `writeProcess` commented out, to be put back by hand),
the device handlers, and the conversions of `lmdb_operations.c`. What a shorter
value leaves behind in `wrecv` and what the response of a slot held before stays
there until the code overwrites it. One record is under way on each path at a
time, without faults: overlapping steps are the subject of the other modules.

`recv` (`kpaxos/user_storage.c:155`) is allocated for a header and a value; the
slot number in front of them is not counted. `RecvRoom` is how many bytes of
value fit; what is read behind them may be any byte.

### ModuleLifecycle

insmod goes through the devices (`InitOrder`) and the steps of each one
(`InitSteps`: the create function with its pool, then `kdevchar_init`), rmmod
likewise (`ExitOrder`, `ExitSteps`). Each step may fail the way the code handles
the failure: `return -1`, which the caller ignores, or a NULL pointer that is
used. The kernel is external: an opened file pins the module, a device can
be opened from `device_create` on, also before `insmod` has returned,
`mutex_trylock` fails on a mutex that is still zero (kernel 3.10 of the
Vagrant box `centos/7`, where count 0 means locked), and an oops panics the
machine, which boots again (`Oops`). Where the code uses freed or unassigned
memory (`create_pool`'s error paths, the class that `kdevchar_exit` unregisters
twice) both an oops and going on are possible. The rings are abstracted to
whether a device's buffers exist; the other modules start from the state this
one reaches.

## 3. Runs

| Run | Instance | Checks | States |
|---|---|---|---|
| `write_ring` | 2 clients, 2 daemons, 2 slots, a short and an overlong message | `TypeOK`, `UsedInRange`, `RingHoldsQueue`, `PollInMeansMessage`, `ReadsInOrder`, `DropsOnlyWhenFull`, `OldestIsRead` | 118,422 |
| `write_early_read` | 1 client, 1 daemon, 2 slots | violates `ReadReturnsSomething` | |
| `read_ring` | 1 client, 2 daemons, 2 slots, 1 worker, 2 ids, 3 requests, 1 fault, nothing stored | `UsedInRange`, `RingHoldsRequests` | 984,590 |
| `read_answers` | 1 client, 1 daemon, 2 slots, 1 worker, 2 ids, 2 requests, 1 fault, any database | `FoundWasPersisted`, `RingHoldsRequests`, `AnswersMatchRequests` | 2,983,230 |
| `read_live` | 1 client, 2 daemons, 2 slots, 1 worker, 1 request, 1 fault | `TypeOK`, `RequestsAnswered` | 180,228 |
| `read_undercount` | 1 client, 1 daemon, 1 slot, 1 request, no fault | violates `FoundIsCounted` | |
| `read_zero` | 1 client, 1 daemon, 1 slot, 1 worker, ids 0 and 1, 2 requests, no fault | violates `EveryHitWasPersisted` | |
| `storage` | 2 directories, 2 ids, 2 lengths, a map of one record | `TypeOK`, `LocksBalanced`, `ImplementsKVStore`, `StopEnds` | 171,640 |
| `lifecycle` | 2 processes, 2 workers, 2 work items | `TypeOK`, `OpenMeansSetUp`, `WorkersHaveCallbacks`, `UnloadReturnsAll`, `UnloadEnds` | 48,110 |
| `lifecycle_init` | no process | violates `InitializedMeansReady` | |
| `system` | 1 client, 2 slots, 2 values for one id, a map of one record | `NothingLostOrReordered` | 1,418,508 |
| `record_path` | 3 ids, 2 slots, 3 bytes to a slot, 2 of them within the receive buffer, an empty, a fitting and an overlong value | `TypeOK`, `AnswerIsWhatWasWritten` | 1,713,260 |

What the passing runs show:

* `write_ring`: whatever the interleaving, `used_buf` stays in
  `0 .. BUFFER_SIZE`, although check and increment, and poll and decrement, are
  separate steps and a close may zero it in between. As long as no copy fails
  and no close meets an add, unread messages stay where they are and come out
  in order. A value is dropped only if there really are `BUFFER_SIZE` waiting,
  also after closes that reset the counter and after overtaken adds, and a
  message in the ring is eventually read.
* `read_ring`: because release unlocks before it resets, the counter of the read
  device can reach -1 (the reset happens between another daemon's poll and its
  answer), but never less. Requests for different ids stay in the ring in the
  order in which they were added, each with its own callback, until they are
  answered, through wrap-around, overtaken adds, failed copies and clean closes.
  A close that races with an add, or another daemon's late reset, ends the
  promise until the next clean close (`intact`).
* `read_answers`: with a second request waiting or being added, the answer that
  frees a slot is for the request in that slot, through writes that fail and
  are retried, and failed copies leave the waiting requests as they are. The
  promise for an answer is for a read that met a finished request (`fresh`): a
  read that overtakes its add, or that fails, makes the daemon answer something
  else, and what can still be said then is `RingHoldsRequests` and
  `FoundWasPersisted`: a worker counts a hit for an id other than 0 only if it
  is in the database, even when it looks at a reused callback whose answer
  changes between its two tests. For id 0 that is not so (section 5,
  `read_zero`).
* `read_live`: as `OldestIsRead` for the write ring, a request in the ring is
  answered, also after a failed copy and after the late reset of an earlier
  daemon's close.
* `storage`: the refinement of `KVStore`, with failing begins, puts and commits,
  failing assertions, kills and restarts; no return of `storage_put` or
  `storage_get` leaves a transaction open, for which the other thread would wait
  for ever; SIGINT ends the process even if no message arrives.
* `system`: between two events that are bound to lose values, no value a client
  wrote is lost or stored out of order: through the ring's wrap-around, drops,
  the hand-over from read to `storage_put`, and a restart that finds values in
  the ring. A close counts as such an event, the one after a SIGINT included;
  and the database is a map, which does not tell a record stored once from one
  stored twice in a row.
* `record_path`: the response a worker looks at holds the id, the length and the
  bytes the client wrote, cut to the slot's size, and zeroes behind them,
  whatever the buffers held before. The one exception are bytes behind
  `RecvRoom`, about which nothing can be promised (section 5). The length in a
  slot and in a response never exceeds the memory behind it; the length in the
  receive buffer does, by up to the size of the slot number.
* `lifecycle`: an open that succeeds, also one during insmod, finds the device's
  buffers, because the mutex is initialised after them; a worker that still
  runs during rmmod has its callback, because the read-test pool is stopped
  before the read-persistence device is freed; a complete unload leaves no
  device, class, buffer, pool or thread behind; rmmod ends, because
  `wait_response` returns at once (the condition it waits for always holds).

**Bounds.** Two slots in the write ring are enough for an unread message next to
a slot being filled or read, for the ring to be full and for the indices to wrap
at different times; messages are unlimited, and the proofs cover every ring
size. Each device lets one process in at a time, so a second client and a second
daemon cover every hand-over; `read_ring` treats them as interchangeable
(`Processes`, sound because its actions and properties quantify over them
uniformly). The read path's counters grow, so `MaxRequests` bounds the writes on
`read-test` and `MaxFaults` the failures. Three requests make the two slots of
`read_ring` fill up and wrap; two ids tell one request from another. In
`read_answers` two requests are enough for one to wait, or to be added, while
another is answered; a failed write makes the daemon take a request twice, and a
close lets the second request reuse the first one's callback while the worker
still looks at it. What is stored does not matter to the ring, so `read_ring`
runs on an empty database. `read_answers` tells states apart without
`messagesReceived`, `messagesFound` and the workers' copies of the latter
(`AllButCounts`), and `read_ring` without the workers (`AllButWorkers`). Both
views are sound: no variable that is kept, and no property of these runs,
depends on what is left out, except that `is_done` records what workers did, and
that is read by workers only. `read_live` has every variable. The workers are
interchangeable except for the round robin; one that lags is enough, and the
proofs cover any number. A map of one record makes both a full and a non-full
put happen. In `system` both values have the same id, so the database tells
which was stored last, and one client is enough because the ring sees one adder
at a time. In `record_path` three ids (the driver asks for all but the first)
leave two to ask for in turn, the slot's size and the receive buffer's room
differ by one, and values are written and asked for without end. In `lifecycle`,
two processes are enough for a device to be contended and for a test device and
a persistence device to be open at once, and `MaxWorks` = 2 keeps both workers
busy.

**Fairness.** A system call that has started runs to its end; a kernel thread
with work is scheduled; the daemon's loop comes back from poll after at most
2 s (`kpaxos/user_storage.c:167`), so a poll whose condition holds is taken; a lock
that stays free is granted; insmod and rmmod run on. Nobody is obliged to open, write, close or send
SIGINT, no message is obliged to arrive, and `BeginFails` is not forced. In
`read_live` only `MaxFaults` copies fail: a copy that fails for ever would be
retried for ever.

## 4. What is proved

Every invariant and every action property that a passing run checks, and the
refinement of `KVStore`, is also a theorem, for every value of the constants
that satisfies the named assumptions.

| Module | Theorem | States |
|---|---|---|
| `WritePersistenceProofs` | `TypeCorrect` | `Spec => []TypeOK` |
| | `UsedBounded` | `Spec => []UsedInRange` |
| | `RingCorrect` | `Spec => []RingHoldsQueue` |
| | `PollCorrect` | `Spec => []PollInMeansMessage` |
| | `ReadsFIFO` | `Spec => ReadsInOrder` |
| | `DropsJustified` | `Spec => DropsOnlyWhenFull` |
| `ReadPersistenceProofs` | `TypeCorrect` | `Spec => []TypeOK` |
| | `UsedStaysInRange` | `Spec => []UsedInRange` |
| | `RequestsInRing` | `Spec => []RingHoldsRequests` |
| | `FoundMeansPersisted` | `Spec => []FoundWasPersisted` |
| | `AnswersAreForRequests` | `Spec => AnswersMatchRequests` |
| `UserStorageProofs` | `TypeCorrect` | `Spec => []TypeOK` |
| | `LocksGivenBack` | `Spec => []LocksBalanced` |
| | `StorageRefinesKVStore` | `Spec => ImplementsKVStore` |
| `PersistenceSystemProofs` | `SystemImplementsDevices` | `Spec => W!Spec` |
| | `SystemImplementsStorage` | `Spec => U!Spec` |
| | `InOrderWithoutLoss` | `Spec => []NothingLostOrReordered` |
| `RecordPathProofs` | `TypeCorrect` | `Spec => []TypeOK` |
| | `AnswersAreWhatWasWritten` | `Spec => []AnswerIsWhatWasWritten` |
| `ModuleLifecycleProofs` | `TypeCorrect` | `Spec => []TypeOK` |
| | `OpenedIsSetUp` | `Spec => []OpenMeansSetUp` |
| | `CallbacksOutliveWorkers` | `Spec => []WorkersHaveCallbacks` |
| | `UnloadComplete` | `Spec => []UnloadReturnsAll` |

**Assumptions.** A ring has a slot and sizes are natural numbers
(`RingAssumption`, `SizeAssumption`, `PathAssumption`); messages, ids (0
included) and lengths are what the structs can hold, and the marker of an
unassigned value is none of them (`ValueAssumption`, `DataAssumption`); `Nobody` is no process
(`ProcessAssumption`, `HolderAssumption`, `LifecycleAssumption`); the daemon's
threads are READ and WRITE (`StorageAssumption`). `SystemAssumption` is what the
two components assume, and that what a slot can hold is what LMDB can store. TLC
evaluates each of them on the instances.

**The write ring.** `IInv` of `WritePersistenceProofs` comes in layers, each
proved with the help of the previous ones:

1. `TypeInv`: types, and a client inside write(2) has a message (`ArgTyped`);
2. `Ownership`: a `char_mutex` is held by exactly the process that has the
   device open. Hence there is at most one adder and one reader;
3. `UsedInv`: what a process learnt from the counter is still true when it
   acts on it: after the check there is room until the increment, because the
   only other process that touches the counter lowers it; after a poll it is
   positive until the decrement, because only the reader itself lowers it;
4. `QueueInv`: `RingHoldsQueue` is not inductive alone. `CountInv` ties the
   counter to the queue (finished messages, plus an add that is not overtaken,
   plus a message copied and not yet counted down), which is what makes the
   fullness check protect the slots, and what makes a full counter mean a full
   ring (`DropsJustified`); `SlotWritten` carries the copied message to
   the moment its add finishes; `HistoryInv` says what the history variables
   are while the ring is reset or spoilt.

The central lemma is `CurrentIsFree`: on an intact ring the slot an add writes
is none of the slots of the unread messages. The arithmetic of positions modulo
the ring's size is in `RingArithmetic` (`ModWrap`, `PositionsDiffer`,
`NextPosition`, `ShiftedPosition`), which the proofs about both rings use.

**The read ring.** The same layers, with what the code does differently.
`Ownership` no longer covers a daemon in its release, which has unlocked, so
several may reset the ring while another one is between its poll and its
answer: `UsedInv` only keeps the counter from being negative up to the
decrement of the answer, which is why -1 is the bound. Three layers are new.
`StoredInv` says that an id a callback, the daemon's `out` or a worker past its
comparison holds is in the database or is 0; with the database only growing this
carries `FoundWasPersisted`, which leaves id 0 out, over the reuse of a callback
between the worker's reads. `SlotNumberInv` covers the moment between the two
copies of a read: on an intact ring the slot number already copied is still
`first_buf`, because a late reset that could change it spoils the ring.
`FreshInv` follows one exchange from there to the answer: the daemon's
slot number is `first_buf`, its id the oldest request's, its answer that id's or
not-found, and after the copy the callback holds it. It needs `QueueInv`
(adds touch no slot of an unanswered request), and its last case is
`AnswersMatchRequests`.

**The daemon and LMDB.** `LocksBalanced` needs that a lock is held by exactly
the thread whose transaction is open on that directory, and that a transaction is
open only inside `storage_put` and `storage_get` (`LockInv`), that each reaches
the points where it uses one with one that is open, or one it has aborted
(`OpenInv`), and that a process that is down has nothing open (`ProcessInv`).
For the refinement, `SnapshotInv` says that an open transaction works on what
is committed in its directory, plus the record put: no other thread can have
committed since, because it would have held the lock. So the commit is the
`KVStore` put (`KVCommits`), `mdb_get` the get (`KVGets`), and every other step
stutters or forgets an answer.

**The composed write path.** Each joint step is shown to be a step of the
devices or a stutter (`DevicesStep`) and a step of the storage or a stutter
(`StorageStep`). With that the composition implements both components, and
their inductive invariants hold of it (`DevicesInvariant`,
`StorageInvariant`). On top of them `SInv` ties the two together: `Sync` says
where the device's file is for each state of the thread, `ReleasedInv` that a
closed device is not overtaken, `CleanInv` that while nothing was lost the
ring is intact and what the read copied is a message. The step that matters is
the hand-over: the message moves from the head of the queue to `recv`, to `msg`
and to the database, and `PutAllFront` (putting the first record and then the
others) and `PutAllAppend` (an add at the end) show that the sum of database,
message in flight and queue stays the expected map. That the oldest message is
the one copied is `CopyIsOldest` of the write ring.

**The bytes of a record.** `IInv` of `RecordPathProofs` says, for each stage of
the two paths, which part of the client's value the memory of that stage holds
(`WriteInv`, `ReadInv`, with `Came` for what passed through the receive
buffer), and that LMDB has a record for exactly the ids for which a value was
put, under the id in the record (`DbInv`). `ReadTyped` includes that a
response keeps the kernel's value pointer, which `read_persistence_write` must
restore after it copied a struct with the daemon's pointer over it.

**Loading and unloading.** `DeviceInv` says what exists of each device as a
function of the turn (`nth`, `step`) of init or exit: nothing before its
turn, the mutex zero until the buffers are there during it, set up or failed
without an initialised mutex after it, and gone after its turn to exit. From
this follow `OpenMeansSetUp` (an open needs an initialised mutex) and
`UnloadReturnsAll`. `PoolInv` is the order argument for the workers: work
exists only while the read-test pool does, and the pool goes before the
buffers of read-persistence. `FileInv` (no open file during exit) and
`WorkInv` (queued and running items are allocated ones) complete it.

Each inductive invariant was checked with TLC on the instance of its module's
runs before it was proved.

**Only model-checked.** The liveness properties `OldestIsRead`,
`RequestsAnswered`, `StopEnds` and `UnloadEnds`, because fairness is out of the
prover's reach; that `PutAll` is the fold of `Put` for every sequence, because
it is an induction over data; and the four violations, which are
counterexamples.

## 5. Disagreements found

1. **A read can return a slot that was not filled** (`write_early_read`).
   `write_persistence_add_message` increments `used_buf` (line 83) before it
   writes the slot; a daemon that polls in between reads the old or cleared
   slot, and the message being added is passed over. The comment at
   `kpaxos/write_persistence_device_operations.c:24` says "returns 0 if it has
   to stop, >0 when it reads something, and <0 on error".
2. **Persisted values are not reported as found** (`read_undercount`).
   `wait_response` waits for a condition that always holds, so it mostly looks
   before the daemon has answered; the message of
   `kpaxos/read_test_device_operations.c:110`, "Messages Found on Persistence:
   %d", and the time-out message at line 45 assume that it waits.
3. **A request for id 0 can be counted although it was not stored** (`read_zero`).
   `wait_response` compares the id in the response with the one requested, and
   then looks at the length; a cleared response, and the answer for not-found,
   have id 0. If an answer with a value for another id comes into that callback
   between the two tests, `messagesFound` goes up, with nothing stored under 0.
   The first id `writeProcess` writes is 0 (`testekerneldevice.c:108-110`), and
   the count is reported as "Messages Found on Persistence: %d"
   (`kpaxos/read_test_device_operations.c:110`).
4. **The module is "initialized" without its devices** (`lifecycle_init`).
   `paxos_persistence_init` ignores the results of `kdevchar_init` and prints
   "PAXOS PERSISTENCE: paxos persistence initialized" (`persistence_main.c:47`).

Four more, without a run. `storage_put` aborts the transaction of a failed put
and then commits it, so a full database ends the daemon in `assert(s->txn);`
(`kpaxos/lmdb_operations.c:206`): the action `CommitAsserts`, which the
refinement in `storage` survives. The receive buffer of a daemon thread is four bytes
too small for the largest message (`kpaxos/user_storage.c:155`); the allocator's
rounding mostly hides it. Nothing initialises the `struct lmdb_storage` of a
thread, so `assert(s->txn == NULL);` (`kpaxos/lmdb_operations.c:198`) tests what
the stack held: `UserStorage` has both outcomes (`BeginAsserts`). And the
repository's `README.md:24` starts the daemon on `/dev/paxos/write-persistence1` and `read-persistence2`,
while `persistence_main.c:25` numbers these devices 2 and 3.

## 6. Abstractions

* A message keeps its id and its length; its bytes are in `RecordPath` only.
  Clients write whole records (at least `sizeof(paxos_accepted)` bytes), as the
  test driver does. `read_persistence_add_message` copies as many bytes as the
  client wrote into the slot without comparing their number with the slot's size
  (`kpaxos/read_persistence_device_operations.c:128`; the write device cuts
  them): requests are taken to fit. How many bytes a read copies out of the slot
  (line 34) is abstracted likewise.
* `memset` and `memcpy` of a slot are one step each; a copy that runs at the
  same time may yield indeterminate contents (`Copies`). On the write path the
  length field an add rewrites belongs to its copy.
* The devices are initialised and `working` is 1: an open file pins the module,
  so `kdevchar_exit` cannot run in between (`ModuleLifecycle` covers the rest). The
  worker pool exists.
* A daemon dies between two system calls (inside one, the kernel finishes the
  call first). Its receive buffer is then gone.
* After a failed first read, the slot number in the daemon's buffer is
  indeterminate; `ReadPersistence` lets it be any slot. A number outside
  the ring, with which the kernel would index `callback_buf`, is undefined
  behaviour and is left out.
* `acceptor_id` is never assigned either: each thread may be led to any of the
  directories (`dir`), and the two may differ.
* A poll that times out on the devices' side is a stuttering step; the wake-up
  at the end of an add does nothing the time-out does not do later.
* In `ModuleLifecycle` an allocation that fails is noticed where the code first
  uses it; a slot whose message buffer could not be allocated, which only an add
  to that slot would meet, is left out. A write(2) is one step there.
* Printed messages and the throughput statistics are left out.

## 7. Not modelled, and what is left

Every component that takes part in persisting a value is modelled, and every
safety property the runs check is proved. What is left to prove are
corollaries: the theorems about the write ring and the storage, stated of the
composed write path, which implements both.

Five hazards have no property. The test devices can be used before the
persistence devices behind them are set up: `ModuleLifecycle` has such a write
panic the machine (`Oops`), so there is no wrong state to speak of afterwards.
Work items still queued when their worker is stopped are never freed: that
is a leak, which the model shows as `allocated` staying above 0. A pool whose
threads cannot all be created is freed twice: `create_pool` may end in an oops,
and none of the texts promises that it does not. Two workers may lose an increment of
`messagesFound`, which is a load and a store in `ReadPersistence`; that the count
is too low is already what `read_undercount` shows with one worker. And the
bytes a full-size value leaves behind the receive buffer may be anything, which
`RecordPath` models and no property can forbid. The wait queue of a device that is
opened in the moment between `mutex_init` and `init_waitqueue_head`
(`PollUnready`) is another part of insmod that only the oops covers.

That a value in the ring is eventually stored is not checked on the composed
system, whose fair state space is out of TLC's reach in reasonable time. The two
halves are: `OldestIsRead` brings it into the daemon, and the daemon's thread
has no wait but for LMDB's lock, which `LocksBalanced` shows is given back.

The echo client (`kpaxos/user_chardev.c`) is a benchmark client of another kernel
module: it exchanges `struct user_msg` with a device that this repository does
not have, and shares no state with the rest.

Left out for good: the generated files under `cmake-build-debug`, the Vagrant
and make files (no behaviour), option parsing and printing in the user programs
(pure input and output), and LMDB itself, of which only what its callers rely on
is modelled.
