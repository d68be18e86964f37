------------------------- MODULE PersistenceSystem -------------------------
(***************************************************************************)
(* The write path from end to end: clients write values to the write-test  *)
(* device, the ring of the write-persistence device carries them to the    *)
(* WRITE thread of user_storage, which stores them in LMDB.  The module    *)
(* composes WritePersistence (the devices) and UserStorage (the daemon);   *)
(* a system call of the WRITE thread on the device is a joint step, every  *)
(* other step belongs to one of the two and leaves the other alone.  When  *)
(* the process ends, however it ends, the kernel closes its device.        *)
(*                                                                         *)
(* The READ thread is left out.  All it can do to the WRITE thread is to   *)
(* take the process down, as a kill does at any time, and to delay it by   *)
(* holding LMDB's lock, which UserStorage shows it never keeps.            *)
(***************************************************************************)
EXTENDS Integers, Sequences

CONSTANTS
  Clients, BUFFER_SIZE, MAX_PAXOS_VALUE_SIZE, Messages, Nobody, Uninit,
  Dirs, Iids, Lens, MapSize, Stack, None

VARIABLES
  \* the devices (WritePersistence)
  used_buf, current_buf, first_buf, msg_buf, persistence_mutex, test_mutex,
  test_used_buf, client, arg, daemon, recv, intact, queue, overtaken,
  \* the daemon (UserStorage)
  process, stop, thread, dir, frame, txn, msg, reply, db, writer, pending,
  \* history, not in the code
  clean,      \* since the device was opened nothing that loses values
              \* happened: see Loses
  expected    \* while clean: the database when every value that was in the
              \* ring at the open or was added since is stored, in that order

Process == "user_storage"

W == INSTANCE WritePersistence WITH Daemons <- {Process}
U == INSTANCE UserStorage WITH Threads <- {"WRITE"}

devices == <<used_buf, current_buf, first_buf, msg_buf, persistence_mutex,
             test_mutex, test_used_buf, client, arg, daemon, recv, intact,
             queue, overtaken>>
storage == <<process, stop, thread, dir, frame, txn, msg, reply, db, writer,
             pending>>
history == <<clean, expected>>
vars == <<devices, storage, history>>

\* What the two components assume, and that the daemon can store what the ring
\* can hold.
ASSUME SystemAssumption ==
  /\ W!RingAssumption /\ W!ValueAssumption /\ W!ProcessAssumption
  /\ U!StorageAssumption
  /\ W!StoredMessages \cup {W!Zero} \subseteq [iid : Iids, len : Lens]

\* A record put into a map from ids to lengths.
Put(map, r) ==
  [x \in DOMAIN map \cup {r.iid} |-> IF x = r.iid THEN r.len ELSE map[x]]

\* The last record of q for id x.
LastFor(q, x) ==
  CHOOSE i \in DOMAIN q :
    q[i].iid = x /\ \A j \in DOMAIN q : q[j].iid = x => j <= i

\* The records of q put into a map one after the other: the last one for an id
\* counts.
PutAll(map, q) ==
  LET ids == {q[i].iid : i \in DOMAIN q}
  IN  [x \in DOMAIN map \cup ids |-> IF x \in ids THEN q[LastFor(q, x)].len ELSE map[x]]

Store == db[dir["WRITE"]]

\* A close, a death, a failed read, a read that overtakes an add, and a failed
\* transaction may lose values; the bookkeeping starts again at the next open.
Loses == clean' = FALSE /\ expected' = U!Empty

Init ==
  /\ W!Init /\ U!Init
  /\ clean = FALSE /\ expected = U!Empty
-----------------------------------------------------------------------------
\* A client's step on the write-test device; an add that ends is expected to
\* be stored.
ClientStep(c) ==
  /\ W!write_test_open(c) \/ W!write_test_release(c) \/ W!write_test_write(c)
     \/ W!AddStep(c)
  /\ expected' = IF clean /\ client[c] = "advance"
                 THEN Put(expected, W!Stored(arg[c])) ELSE expected
  /\ UNCHANGED <<storage, clean>>

\* open(2) of the write-persistence device.
DeviceOpens ==
  /\ U!OpenDevice("WRITE") /\ thread'["WRITE"] = "loop"
  /\ W!write_persistence_open(Process)
  /\ clean' = intact
  /\ expected' = IF intact THEN PutAll(Store, queue) ELSE U!Empty

\* It fails, with -EBUSY or because there is no such device.
DeviceRefused ==
  /\ U!OpenDevice("WRITE") /\ thread'["WRITE"] = "done"
  /\ UNCHANGED <<devices, history>>

\* poll(2) finds nothing, last when its timeout has expired.
PollTimesOut ==
  /\ used_buf <= 0 /\ daemon[Process] = "poll"
  /\ U!PollTimeout("WRITE")
  /\ UNCHANGED <<devices, history>>

\* poll(2) and read(2) inside the kernel.
ReadGoesOn ==
  /\ thread["WRITE"] = "poll"
  /\ \/ W!write_persistence_poll(Process) /\ UNCHANGED history
     \/ /\ W!ReadCopy(Process)
        /\ IF overtaken' THEN Loses ELSE UNCHANGED history
     \/ W!ReadFault(Process) /\ Loses
     \/ /\ daemon[Process] = "dec" /\ W!ReadDec(Process)
        /\ UNCHANGED history
  /\ UNCHANGED storage

\* read(2) returns, and the thread takes what its buffer holds for a message.
ReadReturns ==
  /\ \/ W!ReadAdvance(Process)
     \/ daemon[Process] = "err_dec" /\ W!ReadDec(Process)
  /\ U!Receive("WRITE")
  /\ recv[Process] # Uninit => msg'["WRITE"] = recv[Process]
  /\ UNCHANGED history

\* storage_put.
StoreStep ==
  /\ \/ U!lmdb_storage_tx_begin("WRITE") /\ UNCHANGED history
     \/ U!BeginFails("WRITE") /\ Loses
     \/ U!lmdb_storage_put /\ UNCHANGED history
     \/ U!PutFails /\ Loses
     \/ /\ U!lmdb_storage_tx_commit("WRITE")
        /\ IF Store' = pending["WRITE"] THEN UNCHANGED history
           ELSE Loses
  /\ UNCHANGED devices

\* What else the thread does while the process lives.
ThreadStep ==
  /\ U!lmdb_storage_open("WRITE") \/ U!OpenFails("WRITE") \/ U!LoopPolls("WRITE")
  /\ process' = "up"
  /\ UNCHANGED <<devices, history>>

\* The WRITE thread leaves its loop and closes the device.
LoopEnds ==
  /\ U!lmdb_storage_close("WRITE") /\ process' = "up"
  /\ W!Close(Process)
  /\ Loses

ReleaseStep == W!ReleaseStep(Process) /\ UNCHANGED <<storage, history>>

Signalled == U!stop_execution /\ UNCHANGED <<devices, history>>

\* The process starts; it ends when its thread has, the close included.
Starts == U!run /\ UNCHANGED <<devices, history>>
Exits ==
  /\ daemon[Process] = "closed"
  /\ U!ProcessExits
  /\ UNCHANGED <<devices, history>>

\* The process is killed or aborted; a system call that the thread is in comes
\* first.
Dies ==
  /\ U!ProcessKilled \/ U!OpenFails("WRITE") \/ U!lmdb_storage_close("WRITE")
     \/ U!BeginAsserts("WRITE") \/ U!CommitAsserts("WRITE")
  /\ process' # "up"
  /\ \/ W!Close(Process)
     \/ daemon[Process] \in {"closed", "rel_used", "rel_current", "rel_first",
                             "rel_unlock"} /\ UNCHANGED devices
  /\ Loses

WriteThread ==
  DeviceOpens \/ DeviceRefused \/ PollTimesOut \/ ReadGoesOn \/ ReadReturns
  \/ StoreStep \/ ThreadStep \/ LoopEnds

Next ==
  \/ \E c \in Clients : ClientStep(c)
  \/ WriteThread \/ ReleaseStep \/ Signalled \/ Starts \/ Exits \/ Dies

Spec == Init /\ [][Next]_vars
-----------------------------------------------------------------------------
\* What the WRITE thread has taken out of the ring and not yet committed.
InFlight ==
  IF daemon[Process] \in {"dec", "advance"} THEN <<recv[Process]>>
  ELSE IF thread["WRITE"] \in {"begin", "op", "commit"} THEN <<msg["WRITE"]>>
  ELSE <<>>

\* As long as nothing lossy happens, storing what is in flight and then what is
\* in the ring makes the database what the values added since the open make of
\* it, one after the other.  (A close counts as lossy, also one that finds the
\* ring empty; a record stored twice in a row leaves the same map.)
NothingLostOrReordered ==
  clean => PutAll(Store, InFlight \o queue) = expected
=============================================================================
