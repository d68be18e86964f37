---------------------------- MODULE UserStorage ----------------------------
(***************************************************************************)
(* The user_storage daemon (kpaxos/user_storage.c) and its use of LMDB     *)
(* (kpaxos/lmdb_operations.c): one thread stores the values it reads from  *)
(* the write-persistence device, the other looks up the ids it reads from  *)
(* the read-persistence device.  Both run generic_storage_thread, each     *)
(* with a struct lmdb_storage of its own, which is passed BY VALUE to      *)
(* storage_put and storage_get.  SIGINT asks both threads to stop; a       *)
(* failed assertion or a SIGKILL ends the process wherever it is.          *)
(*                                                                         *)
(* LMDB is modelled by what its callers rely on: a transaction that is not *)
(* read-only (both threads open such ones) excludes every other one on the *)
(* same directory, and nothing of it is seen or kept before its commit.    *)
(***************************************************************************)
EXTENDS Integers, FiniteSets

CONSTANTS
  Threads,    \* "READ" and "WRITE": the threads the process runs
  Dirs,       \* directories /tmp/paxos_<acceptor_id>
  Iids,       \* instance ids
  Lens,       \* lengths of values
  MapSize,    \* records that fit the map (10 MB in lmdb_operations.c)
  Stack,      \* what an uninitialised struct may hold: "null", "garbage"
  None        \* no transaction holds the write lock

ASSUME StorageAssumption ==
  /\ Iids \subseteq Nat /\ Lens \subseteq Nat /\ MapSize \in Nat
  /\ Threads \subseteq {"READ", "WRITE"} /\ None \notin Threads
  /\ Stack \subseteq {"null", "garbage"}

VARIABLES
  process,    \* "down", "up", or "aborted" by an assertion or undefined behaviour
  stop,       \* set by SIGINT
  thread,     \* where each thread is
  dir,        \* the directory its acceptor_id, never assigned, led it to
  frame,      \* the txn field of its struct lmdb_storage
  txn,        \* that field in the copy storage_put or storage_get works on
  msg,        \* the message the thread received
  reply,      \* the record the READ thread sends back
  db,         \* LMDB: what is committed in each directory
  writer,     \* LMDB: the thread whose transaction is open on a directory
  pending     \* LMDB: what a thread's open transaction sees

vars == <<process, stop, thread, dir, frame, txn, msg, reply, db, writer,
          pending>>
locals == <<dir, frame, msg>>
lmdb == <<db, writer, pending>>

Zero == [iid |-> 0, len |-> 0]
Empty == [x \in {} |-> 0]
Maps == UNION {[S -> Lens] : S \in SUBSET Iids}

Goes(t, from, to) ==
  /\ thread[t] = from
  /\ thread' = [thread EXCEPT ![t] = to]

\* The process and its memory are gone; LMDB drops its transactions.
Dies(as) ==
  /\ process' = as /\ stop' = FALSE
  /\ thread' = [t \in Threads |-> "dead"]
  /\ frame' = [t \in Threads |-> "null"]
  /\ txn' = [t \in Threads |-> "null"]
  /\ msg' = [t \in Threads |-> Zero] /\ reply' = Zero
  /\ writer' = [d \in Dirs |-> None]
  /\ pending' = [t \in Threads |-> Empty]
  /\ UNCHANGED <<dir, db>>

\* The end of process_write_message and process_read_message: the message is
\* freed, and the thread is back at the head of its loop.
Returns(t, from) ==
  /\ Goes(t, from, "loop")
  /\ msg' = [msg EXCEPT ![t] = Zero]

Init ==
  /\ process = "down" /\ stop = FALSE
  /\ thread = [t \in Threads |-> "dead"]
  /\ dir \in [Threads -> Dirs]
  /\ frame = [t \in Threads |-> "null"]
  /\ txn = [t \in Threads |-> "null"]
  /\ msg = [t \in Threads |-> Zero] /\ reply = Zero
  /\ db \in [Dirs -> {m \in Maps : Cardinality(DOMAIN m) <= MapSize}]
  /\ writer = [d \in Dirs |-> None]
  /\ pending = [t \in Threads |-> Empty]
-----------------------------------------------------------------------------
\* main and run: both threads start, their structs hold what the stack holds.
run ==
  /\ process # "up"
  /\ process' = "up" /\ stop' = FALSE
  /\ thread' = [t \in Threads |-> "open"]
  /\ dir' \in [Threads -> Dirs]
  /\ frame' \in [Threads -> Stack]
  /\ msg' = [t \in Threads |-> Zero]
  /\ UNCHANGED <<txn, reply, lmdb>>

stop_execution ==
  /\ process = "up" /\ ~stop
  /\ stop' = TRUE
  /\ UNCHANGED <<process, thread, locals, txn, reply, lmdb>>

\* Both threads are joined.
ProcessExits ==
  /\ process = "up" /\ \A t \in Threads : thread[t] = "done"
  /\ Dies("down")

ProcessKilled == process = "up" /\ Dies("down")

\* lmdb_storage_open, whose set-up transaction has to wait for the lock.
lmdb_storage_open(t) ==
  /\ writer[dir[t]] = None
  /\ Goes(t, "open", "device")
  /\ UNCHANGED <<process, stop, locals, txn, reply, lmdb>>

\* It fails: lmdb_storage_close looks at the fields, assigned or not.
OpenFails(t) ==
  /\ thread[t] = "open"
  /\ \/ frame[t] = "garbage" /\ Dies("aborted")
     \/ /\ frame[t] = "null" /\ Goes(t, "open", "done")
        /\ UNCHANGED <<process, stop, locals, txn, reply, lmdb>>

\* open(2) of the device; without it the thread ends and keeps the database.
OpenDevice(t) ==
  /\ Goes(t, "device", "loop") \/ Goes(t, "device", "done")
  /\ UNCHANGED <<process, stop, locals, txn, reply, lmdb>>

\* while (!stop): poll, or leave the loop and close the database.
LoopPolls(t) ==
  /\ ~stop
  /\ Goes(t, "loop", "poll")
  /\ UNCHANGED <<process, stop, locals, txn, reply, lmdb>>

lmdb_storage_close(t) ==
  /\ stop /\ thread[t] = "loop"
  /\ \/ frame[t] = "garbage" /\ Dies("aborted")
     \/ /\ frame[t] = "null" /\ Goes(t, "loop", "done")
        /\ UNCHANGED <<process, stop, locals, txn, reply, lmdb>>

\* Mutant: poll waits without a timeout.
PollTimeout_Never(t) ==
  /\ FALSE
  /\ Goes(t, "poll", "loop")
  /\ UNCHANGED <<process, stop, locals, txn, reply, lmdb>>

\* poll returns without POLLIN after 2 s, or read returns 0.
PollTimeout(t) ==
  /\ Goes(t, "poll", "loop")
  /\ UNCHANGED <<process, stop, locals, txn, reply, lmdb>>

\* Mutant: the slot number in front of the message is counted in its length.
Receive_TooLong(t) ==
  /\ Goes(t, "poll", "begin")
  /\ \E i \in Iids, l \in Lens :
       msg' = [msg EXCEPT ![t] = [iid |-> i, len |-> l + 1]]
  /\ txn' = [txn EXCEPT ![t] = frame[t]]
  /\ UNCHANGED <<process, stop, dir, frame, reply, lmdb>>

\* A message arrives, possibly (after a failed read) a repeated one or what
\* was in the buffer; storage_put or storage_get gets a copy of the struct.
Receive(t) ==
  /\ Goes(t, "poll", "begin")
  /\ \E i \in Iids, l \in Lens : msg' = [msg EXCEPT ![t] = [iid |-> i, len |-> l]]
  /\ txn' = [txn EXCEPT ![t] = frame[t]]
  /\ UNCHANGED <<process, stop, dir, frame, reply, lmdb>>
-----------------------------------------------------------------------------
\* Mutant: the transaction does not take the lock.
lmdb_storage_tx_begin_Unlocked(t) ==
  /\ txn[t] = "null"
  /\ Goes(t, "begin", "op")
  /\ txn' = [txn EXCEPT ![t] = "open"]
  /\ writer' = [writer EXCEPT ![dir[t]] = t]
  /\ pending' = [pending EXCEPT ![t] = db[dir[t]]]
  /\ UNCHANGED <<process, stop, locals, reply, db>>

lmdb_storage_tx_begin(t) ==
  /\ txn[t] = "null" /\ writer[dir[t]] = None
  /\ Goes(t, "begin", "op")
  /\ txn' = [txn EXCEPT ![t] = "open"]
  /\ writer' = [writer EXCEPT ![dir[t]] = t]
  /\ pending' = [pending EXCEPT ![t] = db[dir[t]]]
  /\ UNCHANGED <<process, stop, locals, reply, db>>

\* assert(s->txn == NULL) fails.
BeginAsserts(t) ==
  /\ thread[t] = "begin" /\ txn[t] = "garbage"
  /\ Dies("aborted")

\* mdb_txn_begin fails: storage_put gives up, storage_get goes on without one.
BeginFails(t) ==
  /\ txn[t] = "null"
  /\ \/ t = "WRITE" /\ Returns(t, "begin")
     \/ t = "READ" /\ Goes(t, "begin", "op") /\ UNCHANGED msg
  /\ UNCHANGED <<process, stop, dir, frame, txn, reply, lmdb>>

Closes(t) ==
  /\ txn' = [txn EXCEPT ![t] = "null"]
  /\ writer' = [writer EXCEPT ![dir[t]] = None]
  /\ pending' = [pending EXCEPT ![t] = Empty]

\* mdb_put in storage_put.
Full(t) == Cardinality(DOMAIN pending[t] \cup {msg[t].iid}) > MapSize

\* Mutant: mdb_put does not overwrite (MDB_NOOVERWRITE).
lmdb_storage_put_KeepsOld ==
  /\ ~Full("WRITE")
  /\ Goes("WRITE", "op", "commit")
  /\ pending' = [pending EXCEPT !["WRITE"] =
       [x \in DOMAIN @ \cup {msg["WRITE"].iid} |->
          IF x \in DOMAIN @ THEN @[x] ELSE msg["WRITE"].len]]
  /\ UNCHANGED <<process, stop, locals, txn, reply, db, writer>>

lmdb_storage_put ==
  /\ ~Full("WRITE")
  /\ Goes("WRITE", "op", "commit")
  /\ pending' = [pending EXCEPT !["WRITE"] =
       [x \in DOMAIN @ \cup {msg["WRITE"].iid} |->
          IF x = msg["WRITE"].iid THEN msg["WRITE"].len ELSE @[x]]]
  /\ UNCHANGED <<process, stop, locals, txn, reply, db, writer>>

\* The map is full: the transaction is aborted, and storage_put goes on to
\* its commit all the same.
PutFails ==
  /\ Full("WRITE")
  /\ Goes("WRITE", "op", "commit")
  /\ Closes("WRITE")
  /\ UNCHANGED <<process, stop, locals, reply, db>>

\* mdb_get in storage_get.
lmdb_storage_get ==
  /\ txn["READ"] = "open" /\ msg["READ"].iid \in DOMAIN pending["READ"]
  /\ Goes("READ", "op", "commit")
  /\ reply' = [iid |-> msg["READ"].iid, len |-> pending["READ"][msg["READ"].iid]]
  /\ UNCHANGED <<process, stop, locals, txn, lmdb>>

\* Mutant: a lookup that finds nothing leaves its transaction open.
NotFound_KeepsOpen ==
  /\ Goes("READ", "op", "send")
  /\ reply' = Zero
  /\ UNCHANGED <<process, stop, locals, txn, lmdb>>

\* Nothing found, an error, or no transaction: abort what there is.
NotFound ==
  /\ Goes("READ", "op", "send")
  /\ reply' = Zero
  /\ IF txn["READ"] = "open" THEN Closes("READ") ELSE UNCHANGED <<txn, lmdb>>
  /\ UNCHANGED <<process, stop, locals, db>>

lmdb_storage_tx_commit(t) ==
  /\ txn[t] = "open"
  /\ \/ t = "WRITE" /\ Returns(t, "commit")
     \/ t = "READ" /\ Goes(t, "commit", "send") /\ UNCHANGED msg
  /\ db' \in {db, [db EXCEPT ![dir[t]] = pending[t]]}   \* it may fail
  /\ Closes(t)
  /\ UNCHANGED <<process, stop, dir, frame, reply>>

\* assert(s->txn) fails.
CommitAsserts(t) ==
  /\ thread[t] = "commit" /\ txn[t] = "null"
  /\ Dies("aborted")

\* The answer is written to the device and freed.
Send ==
  /\ Returns("READ", "send")
  /\ reply' = Zero
  /\ UNCHANGED <<process, stop, dir, frame, txn, lmdb>>
-----------------------------------------------------------------------------
StartStep(t) == lmdb_storage_open(t) \/ OpenFails(t) \/ OpenDevice(t)

LoopStep(t) == LoopPolls(t) \/ PollTimeout(t) \/ Receive(t) \/ lmdb_storage_close(t)

TxnStep(t) ==
  lmdb_storage_tx_begin(t) \/ BeginAsserts(t) \/ BeginFails(t)
  \/ lmdb_storage_tx_commit(t) \/ CommitAsserts(t)

OpStep(t) ==
  \/ t = "WRITE" /\ (lmdb_storage_put \/ PutFails)
  \/ t = "READ" /\ (lmdb_storage_get \/ NotFound \/ Send)

Step(t) == StartStep(t) \/ LoopStep(t) \/ TxnStep(t) \/ OpStep(t)

Next ==
  \/ run \/ stop_execution \/ ProcessExits \/ ProcessKilled
  \/ \E t \in Threads : Step(t)

Spec == Init /\ [][Next]_vars

\* The scheduler runs both threads, poll returns at the latest after its 2 s,
\* and a thread that waits for LMDB's lock gets it when it stays free.  No
\* message has to arrive.
Fairness ==
  /\ WF_vars(ProcessExits)
  /\ \A t \in Threads :
       WF_vars(StartStep(t) \/ LoopPolls(t) \/ PollTimeout(t)
               \/ lmdb_storage_close(t) \/ OpStep(t) \/ BeginAsserts(t)
               \/ CommitAsserts(t) \/ lmdb_storage_tx_begin(t)
               \/ lmdb_storage_tx_commit(t))

FairSpec == Spec /\ Fairness
-----------------------------------------------------------------------------
ThreadStates == {"dead", "open", "device", "loop", "poll", "begin", "op",
                 "commit", "send", "done"}

\* Every variable has its type.
TypeOK ==
  /\ process \in {"down", "up", "aborted"} /\ stop \in BOOLEAN
  /\ thread \in [Threads -> ThreadStates]
  /\ dir \in [Threads -> Dirs]
  /\ frame \in [Threads -> {"null", "garbage"}]
  /\ txn \in [Threads -> {"null", "garbage", "open"}]
  /\ msg \in [Threads -> {Zero} \cup [iid : Iids, len : Lens]]
  /\ reply \in {Zero} \cup [iid : Iids, len : Lens]
  /\ db \in [Dirs -> Maps] /\ pending \in [Threads -> Maps]
  /\ writer \in [Dirs -> Threads \cup {None}]

\* A thread that is not inside storage_put or storage_get holds no write lock,
\* and one whose transaction is open holds the lock of its directory: with the
\* struct passed by value nobody else could end the transaction, and the other
\* thread would wait for ever.
LocksBalanced ==
  \A t \in Threads :
    /\ thread[t] \notin {"op", "commit"} =>
         txn[t] # "open" /\ \A d \in Dirs : writer[d] # t
    /\ txn[t] = "open" => writer[dir[t]] = t

\* The daemon is a key-value store whose puts are atomic, are lost only as a
\* whole, and survive exits, kills and failed assertions, and whose answers
\* are never made up.
KV == INSTANCE KVStore
        WITH Keys <- Iids, Values <- Lens, store <- db, answer <- reply
ImplementsKVStore == KV!Spec

\* After SIGINT ("Finishing Threads...") the process ends: no thread waits for
\* a message that does not come or for a transaction that is never closed.
StopEnds == stop ~> (process # "up" \/ ~stop)
=============================================================================
