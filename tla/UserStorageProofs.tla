------------------------- MODULE UserStorageProofs -------------------------
(***************************************************************************)
(* Proofs about UserStorage, for every set of threads, directories, ids    *)
(* and lengths and every size of the map: the types, that every lock of    *)
(* LMDB is given back, and that the daemon implements KVStore.             *)
(***************************************************************************)
EXTENDS UserStorage, TLAPS

(***************************************************************************)
(* The inductive invariant.                                                *)
(***************************************************************************)

\* A record put into a map, as mdb_put does.
Put(map, r) ==
  [x \in DOMAIN map \cup {r.iid} |-> IF x = r.iid THEN r.len ELSE map[x]]

\* A thread that works on a message has one.
MsgTyped ==
  \A t \in Threads :
    thread[t] \in {"begin", "op", "commit"} => msg[t] \in [iid : Iids, len : Lens]

\* A process that does not run has no threads and no transactions.
ProcessInv ==
  process # "up" =>
    \A t \in Threads : thread[t] = "dead" /\ txn[t] = "null"

\* A lock is held by exactly the thread whose transaction is open on its
\* directory, and a transaction is open only inside storage_put and storage_get.
LockInv ==
  /\ \A t \in Threads, d \in Dirs :
       writer[d] = t <=> txn[t] = "open" /\ dir[t] = d
  /\ \A t \in Threads : txn[t] = "open" => thread[t] \in {"op", "commit"}

\* storage_put works on a transaction, unless it has aborted it; storage_get
\* commits one.
OpenInv ==
  /\ "WRITE" \in Threads /\ thread["WRITE"] = "op" => txn["WRITE"] = "open"
  /\ "READ" \in Threads /\ thread["READ"] = "commit" => txn["READ"] = "open"

\* An open transaction sees what is committed in its directory, and the record
\* that storage_put has put.
SnapshotInv ==
  \A t \in Threads :
    txn[t] = "open" =>
      pending[t] = IF t = "WRITE" /\ thread[t] = "commit"
                   THEN Put(db[dir[t]], msg[t]) ELSE db[dir[t]]

TypeInv == TypeOK /\ MsgTyped

IInv == TypeInv /\ ProcessInv /\ LockInv /\ OpenInv /\ SnapshotInv
-----------------------------------------------------------------------------
(***************************************************************************)
(* Maps.                                                                   *)
(***************************************************************************)

\* The empty map is a map.
LEMMA EmptyMap == Empty \in Maps
<1>1. Empty \in [{} -> Lens]
  BY DEF Empty
<1>2. QED
  BY <1>1 DEF Maps

\* A map with a record put into it is a map.
LEMMA PutMap ==
  ASSUME NEW m \in Maps, NEW r \in [iid : Iids, len : Lens]
  PROVE  Put(m, r) \in Maps
<1>1. PICK S \in SUBSET Iids : m \in [S -> Lens]
  BY DEF Maps
<1>2. DOMAIN m = S
  BY <1>1
<1>3. S \cup {r.iid} \in SUBSET Iids
  OBVIOUS
<1>4. Put(m, r) \in [S \cup {r.iid} -> Lens]
  BY <1>1, <1>2 DEF Put
<1>5. QED
  BY <1>3, <1>4 DEF Maps
-----------------------------------------------------------------------------
(***************************************************************************)
(* Types.                                                                  *)
(***************************************************************************)

LEMMA DiesType ==
  ASSUME TypeInv, NEW as \in {"down", "aborted"}, Dies(as)
  PROVE  TypeInv'
  BY EmptyMap DEF TypeInv, TypeOK, MsgTyped, Dies, ThreadStates

LEMMA StartStepType ==
  ASSUME TypeInv, NEW t \in Threads, StartStep(t)
  PROVE  TypeInv'
<1> USE DEF TypeInv, TypeOK, MsgTyped, ThreadStates, Goes, locals, lmdb
<1>1. CASE lmdb_storage_open(t)
  BY <1>1 DEF lmdb_storage_open
<1>2. CASE OpenFails(t)
  BY <1>2, DiesType DEF OpenFails
<1>3. CASE OpenDevice(t)
  BY <1>3 DEF OpenDevice
<1>4. QED
  BY <1>1, <1>2, <1>3 DEF StartStep

LEMMA LoopStepType ==
  ASSUME TypeInv, NEW t \in Threads, LoopStep(t)
  PROVE  TypeInv'
<1> USE DEF TypeInv, TypeOK, MsgTyped, ThreadStates, Goes, locals, lmdb
<1>1. CASE LoopPolls(t)
  BY <1>1 DEF LoopPolls
<1>2. CASE PollTimeout(t)
  BY <1>2 DEF PollTimeout
<1>3. CASE Receive(t)
  BY <1>3 DEF Receive
<1>4. CASE lmdb_storage_close(t)
  BY <1>4, DiesType DEF lmdb_storage_close
<1>5. QED
  BY <1>1, <1>2, <1>3, <1>4 DEF LoopStep

LEMMA TxnStepType ==
  ASSUME TypeInv, NEW t \in Threads, TxnStep(t)
  PROVE  TypeInv'
<1> USE DEF TypeInv, TypeOK, MsgTyped, ThreadStates, Goes, Returns, locals, lmdb
<1>1. CASE lmdb_storage_tx_begin(t)
  BY <1>1 DEF lmdb_storage_tx_begin
<1>2. CASE BeginAsserts(t)
  BY <1>2, DiesType DEF BeginAsserts
<1>3. CASE BeginFails(t)
  BY <1>3 DEF BeginFails
<1>4. CASE lmdb_storage_tx_commit(t)
  BY <1>4, EmptyMap DEF lmdb_storage_tx_commit, Closes
<1>5. CASE CommitAsserts(t)
  BY <1>5, DiesType DEF CommitAsserts
<1>6. QED
  BY <1>1, <1>2, <1>3, <1>4, <1>5 DEF TxnStep

LEMMA OpStepType ==
  ASSUME TypeInv, NEW t \in Threads, OpStep(t)
  PROVE  TypeInv'
<1> USE DEF TypeInv, TypeOK, MsgTyped, ThreadStates, Goes, Returns, locals, lmdb
<1>1. CASE t = "WRITE" /\ lmdb_storage_put
  <2>1. msg["WRITE"] \in [iid : Iids, len : Lens] /\ pending["WRITE"] \in Maps
    BY <1>1 DEF lmdb_storage_put
  <2>2. Put(pending["WRITE"], msg["WRITE"]) \in Maps
    BY <2>1, PutMap
  <2>3. pending' = [pending EXCEPT !["WRITE"] = Put(pending["WRITE"], msg["WRITE"])]
    BY <1>1 DEF lmdb_storage_put, Put
  <2>4. QED
    BY <1>1, <2>2, <2>3 DEF lmdb_storage_put
<1>2. CASE t = "WRITE" /\ PutFails
  BY <1>2, EmptyMap DEF PutFails, Closes
<1>3. CASE t = "READ" /\ lmdb_storage_get
  <2>1. pending["READ"] \in Maps /\ msg["READ"].iid \in DOMAIN pending["READ"]
    BY <1>3 DEF lmdb_storage_get
  <2>2. msg["READ"].iid \in Iids /\ pending["READ"][msg["READ"].iid] \in Lens
    BY <2>1 DEF Maps
  <2>3. reply' \in [iid : Iids, len : Lens]
    BY <1>3, <2>2 DEF lmdb_storage_get
  <2>4. QED
    BY <1>3, <2>3 DEF lmdb_storage_get
<1>4. CASE t = "READ" /\ NotFound
  BY <1>4, EmptyMap DEF NotFound, Closes
<1>5. CASE t = "READ" /\ Send
  BY <1>5 DEF Send
<1>6. QED
  BY <1>1, <1>2, <1>3, <1>4, <1>5 DEF OpStep

LEMMA TypeInvStep == TypeInv /\ [Next]_vars => TypeInv'
<1> SUFFICES ASSUME TypeInv, [Next]_vars PROVE TypeInv'
  OBVIOUS
<1>1. CASE run
  BY <1>1, StorageAssumption
  DEF run, TypeInv, TypeOK, MsgTyped, ThreadStates, lmdb
<1>2. CASE stop_execution
  BY <1>2 DEF stop_execution, TypeInv, TypeOK, MsgTyped, locals, lmdb
<1>3. CASE ProcessExits \/ ProcessKilled
  BY <1>3, DiesType DEF ProcessExits, ProcessKilled
<1>4. ASSUME NEW t \in Threads, Step(t) PROVE TypeInv'
  BY <1>4, StartStepType, LoopStepType, TxnStepType, OpStepType DEF Step
<1>5. CASE UNCHANGED vars
  BY <1>5 DEF vars, TypeInv, TypeOK, MsgTyped
<1>6. QED
  BY <1>1, <1>2, <1>3, <1>4, <1>5 DEF Next

LEMMA TypeInvInit == Init => TypeInv
<1> SUFFICES ASSUME Init PROVE TypeInv
  OBVIOUS
<1>1. db \in [Dirs -> Maps]
  <2> DEFINE Fits(m) == Cardinality(DOMAIN m) <= MapSize
  <2>1. db \in [Dirs -> {m \in Maps : Fits(m)}]
    BY DEF Init
  <2> HIDE DEF Fits
  <2>2. QED
    BY <2>1
<1>2. pending \in [Threads -> Maps]
  BY EmptyMap DEF Init
<1>3. QED
  BY <1>1, <1>2 DEF Init, TypeInv, TypeOK, MsgTyped, ThreadStates
-----------------------------------------------------------------------------
(***************************************************************************)
(* Locks and transactions.                                                 *)
(***************************************************************************)
Locks == ProcessInv /\ LockInv /\ OpenInv

LEMMA LocksInit == Init => Locks
  BY StorageAssumption DEF Init, Locks, ProcessInv, LockInv, OpenInv

LEMMA DiesLocks ==
  ASSUME TypeInv, Locks, NEW as \in {"down", "aborted"}, Dies(as)
  PROVE  Locks'
  BY StorageAssumption DEF TypeInv, TypeOK, Locks, ProcessInv, LockInv, OpenInv, Dies

LEMMA StartStepLocks ==
  ASSUME TypeInv, Locks, NEW t \in Threads, StartStep(t)
  PROVE  Locks'
<1> USE StorageAssumption DEF TypeInv, TypeOK, Locks, ProcessInv, LockInv,
      OpenInv, Goes, locals, lmdb
<1>1. CASE lmdb_storage_open(t)
  BY <1>1 DEF lmdb_storage_open
<1>2. CASE OpenFails(t)
  BY <1>2, DiesLocks DEF OpenFails
<1>3. CASE OpenDevice(t)
  BY <1>3 DEF OpenDevice
<1>4. QED
  BY <1>1, <1>2, <1>3 DEF StartStep

LEMMA LoopStepLocks ==
  ASSUME TypeInv, Locks, NEW t \in Threads, LoopStep(t)
  PROVE  Locks'
<1> USE StorageAssumption DEF TypeInv, TypeOK, Locks, ProcessInv, LockInv,
      OpenInv, Goes, locals, lmdb
<1>1. CASE LoopPolls(t)
  BY <1>1 DEF LoopPolls
<1>2. CASE PollTimeout(t)
  BY <1>2 DEF PollTimeout
<1>3. CASE Receive(t)
  BY <1>3 DEF Receive
<1>4. CASE lmdb_storage_close(t)
  <2>1. CASE Dies("aborted")
    BY <2>1, DiesLocks
  <2>2. CASE /\ Goes(t, "loop", "done")
             /\ UNCHANGED <<process, stop, locals, txn, reply, lmdb>>
    BY <2>2
  <2>3. QED
    BY <1>4, <2>1, <2>2, Zenon DEF lmdb_storage_close
<1>5. QED
  BY <1>1, <1>2, <1>3, <1>4 DEF LoopStep

LEMMA TxnStepLocks ==
  ASSUME TypeInv, Locks, NEW t \in Threads, TxnStep(t)
  PROVE  Locks'
<1> USE StorageAssumption DEF TypeInv, TypeOK, Locks, ProcessInv, LockInv,
      OpenInv, Goes, Returns, locals, lmdb
<1>1. CASE lmdb_storage_tx_begin(t)
  BY <1>1 DEF lmdb_storage_tx_begin
<1>2. CASE BeginAsserts(t)
  BY <1>2, DiesLocks DEF BeginAsserts
<1>3. CASE BeginFails(t)
  BY <1>3 DEF BeginFails
<1>4. CASE lmdb_storage_tx_commit(t)
  <2>1. UNCHANGED <<process, dir>> /\ txn[t] = "open" /\ thread[t] = "commit"
    BY <1>4 DEF lmdb_storage_tx_commit
  <2>2. txn' = [txn EXCEPT ![t] = "null"]
        /\ writer' = [writer EXCEPT ![dir[t]] = None]
    BY <1>4 DEF lmdb_storage_tx_commit, Closes
  <2>3. \E to \in {"loop", "send"} : thread' = [thread EXCEPT ![t] = to]
    BY <1>4 DEF lmdb_storage_tx_commit
  <2>4. QED
    BY <2>1, <2>2, <2>3
<1>5. CASE CommitAsserts(t)
  BY <1>5, DiesLocks DEF CommitAsserts
<1>6. QED
  BY <1>1, <1>2, <1>3, <1>4, <1>5 DEF TxnStep

LEMMA OpStepLocks ==
  ASSUME TypeInv, Locks, NEW t \in Threads, OpStep(t)
  PROVE  Locks'
<1> USE StorageAssumption DEF TypeInv, TypeOK, Locks, ProcessInv, LockInv,
      OpenInv, Goes, Returns, locals, lmdb
<1>1. CASE t = "WRITE" /\ lmdb_storage_put
  BY <1>1 DEF lmdb_storage_put
<1>2. CASE t = "WRITE" /\ PutFails
  BY <1>2 DEF PutFails, Closes
<1>3. CASE t = "READ" /\ lmdb_storage_get
  BY <1>3 DEF lmdb_storage_get
<1>4. CASE t = "READ" /\ NotFound
  BY <1>4 DEF NotFound, Closes
<1>5. CASE t = "READ" /\ Send
  BY <1>5 DEF Send
<1>6. QED
  BY <1>1, <1>2, <1>3, <1>4, <1>5 DEF OpStep

LEMMA LocksStep == TypeInv /\ Locks /\ [Next]_vars => Locks'
<1> SUFFICES ASSUME TypeInv, Locks, [Next]_vars PROVE Locks'
  OBVIOUS
<1>1. CASE run
  BY <1>1, StorageAssumption
  DEF run, TypeInv, TypeOK, Locks, ProcessInv, LockInv, OpenInv, lmdb
<1>2. CASE stop_execution
  BY <1>2 DEF stop_execution, Locks, ProcessInv, LockInv, OpenInv, locals, lmdb
<1>3. CASE ProcessExits \/ ProcessKilled
  BY <1>3, DiesLocks DEF ProcessExits, ProcessKilled
<1>4. ASSUME NEW t \in Threads, Step(t) PROVE Locks'
  BY <1>4, StartStepLocks, LoopStepLocks, TxnStepLocks, OpStepLocks DEF Step
<1>5. CASE UNCHANGED vars
  BY <1>5 DEF vars, Locks, ProcessInv, LockInv, OpenInv
<1>6. QED
  BY <1>1, <1>2, <1>3, <1>4, <1>5 DEF Next
-----------------------------------------------------------------------------
(***************************************************************************)
(* Snapshots.                                                              *)
(***************************************************************************)

\* While a thread's transaction is open nobody else changes its directory.
LEMMA OthersElsewhere ==
  ASSUME TypeInv, LockInv, NEW t \in Threads, NEW u \in Threads, t # u,
         txn[t] = "open", txn[u] = "open"
  PROVE  dir[t] # dir[u]
  BY DEF TypeInv, TypeOK, LockInv

LEMMA SnapshotInit == Init => SnapshotInv
  BY DEF Init, SnapshotInv

LEMMA DiesSnapshot ==
  ASSUME NEW as, Dies(as)
  PROVE  SnapshotInv'
  BY DEF SnapshotInv, Dies

LEMMA StartStepSnapshot ==
  ASSUME TypeInv, Locks, SnapshotInv, NEW t \in Threads, StartStep(t)
  PROVE  SnapshotInv'
<1> USE DEF TypeInv, TypeOK, Locks, LockInv, SnapshotInv, Goes, locals, lmdb
<1>1. CASE lmdb_storage_open(t)
  BY <1>1 DEF lmdb_storage_open
<1>2. CASE OpenFails(t)
  BY <1>2, DiesSnapshot DEF OpenFails
<1>3. CASE OpenDevice(t)
  BY <1>3 DEF OpenDevice
<1>4. QED
  BY <1>1, <1>2, <1>3 DEF StartStep

LEMMA LoopStepSnapshot ==
  ASSUME TypeInv, Locks, SnapshotInv, NEW t \in Threads, LoopStep(t)
  PROVE  SnapshotInv'
<1> USE StorageAssumption
    DEF TypeInv, TypeOK, Locks, LockInv, SnapshotInv, Goes, locals, lmdb
<1>1. CASE LoopPolls(t)
  BY <1>1 DEF LoopPolls
<1>2. CASE PollTimeout(t)
  BY <1>2 DEF PollTimeout
<1>3. CASE Receive(t)
  BY <1>3 DEF Receive
<1>4. CASE lmdb_storage_close(t)
  <2>1. CASE Dies("aborted")
    BY <2>1, DiesSnapshot
  <2>2. CASE /\ Goes(t, "loop", "done")
             /\ UNCHANGED <<process, stop, locals, txn, reply, lmdb>>
    BY <2>2
  <2>3. QED
    BY <1>4, <2>1, <2>2, Zenon DEF lmdb_storage_close
<1>5. QED
  BY <1>1, <1>2, <1>3, <1>4 DEF LoopStep

LEMMA TxnStepSnapshot ==
  ASSUME TypeInv, Locks, SnapshotInv, NEW t \in Threads, TxnStep(t)
  PROVE  SnapshotInv'
<1> USE DEF TypeInv, TypeOK, Locks, SnapshotInv, Goes, Returns, locals, lmdb
<1>1. CASE lmdb_storage_tx_begin(t)
  BY <1>1 DEF lmdb_storage_tx_begin, LockInv
<1>2. CASE BeginAsserts(t)
  BY <1>2, DiesSnapshot DEF BeginAsserts
<1>3. CASE BeginFails(t)
  BY <1>3 DEF BeginFails, LockInv
<1>4. CASE lmdb_storage_tx_commit(t)
  <2> SUFFICES ASSUME NEW u \in Threads, txn'[u] = "open"
               PROVE  pending'[u] = IF u = "WRITE" /\ thread'[u] = "commit"
                                    THEN Put(db'[dir'[u]], msg'[u])
                                    ELSE db'[dir'[u]]
    OBVIOUS
  <2>1. u # t /\ txn[u] = "open" /\ txn[t] = "open"
    BY <1>4 DEF lmdb_storage_tx_commit, Closes
  <2>2. dir[t] # dir[u]
    BY <2>1, OthersElsewhere
  <2>3. db'[dir[u]] = db[dir[u]]
    BY <1>4, <2>2 DEF lmdb_storage_tx_commit
  <2>4. pending'[u] = pending[u] /\ dir' = dir
    BY <1>4, <2>1 DEF lmdb_storage_tx_commit, Closes
  <2>5. thread'[u] = thread[u] /\ msg'[u] = msg[u]
    BY <1>4, <2>1 DEF lmdb_storage_tx_commit
  <2>6. QED
    BY <2>1, <2>3, <2>4, <2>5
<1>5. CASE CommitAsserts(t)
  BY <1>5, DiesSnapshot DEF CommitAsserts
<1>6. QED
  BY <1>1, <1>2, <1>3, <1>4, <1>5 DEF TxnStep

LEMMA OpStepSnapshot ==
  ASSUME TypeInv, Locks, SnapshotInv, NEW t \in Threads, OpStep(t)
  PROVE  SnapshotInv'
<1> USE DEF TypeInv, TypeOK, Locks, LockInv, SnapshotInv, Goes, Returns, locals, lmdb
<1>1. CASE t = "WRITE" /\ lmdb_storage_put
  <2>1. pending' = [pending EXCEPT !["WRITE"] = Put(pending["WRITE"], msg["WRITE"])]
    BY <1>1 DEF lmdb_storage_put, Put
  <2>2. QED
    BY <1>1, <2>1 DEF lmdb_storage_put
<1>2. CASE t = "WRITE" /\ PutFails
  BY <1>2 DEF PutFails, Closes
<1>3. CASE t = "READ" /\ lmdb_storage_get
  BY <1>3 DEF lmdb_storage_get
<1>4. CASE t = "READ" /\ NotFound
  BY <1>4 DEF NotFound, Closes
<1>5. CASE t = "READ" /\ Send
  BY <1>5 DEF Send
<1>6. QED
  BY <1>1, <1>2, <1>3, <1>4, <1>5 DEF OpStep

LEMMA SnapshotStep == TypeInv /\ Locks /\ SnapshotInv /\ [Next]_vars => SnapshotInv'
<1> SUFFICES ASSUME TypeInv, Locks, SnapshotInv, [Next]_vars PROVE SnapshotInv'
  OBVIOUS
<1>1. CASE run
  BY <1>1 DEF run, Locks, ProcessInv, SnapshotInv, lmdb
<1>2. CASE stop_execution
  BY <1>2 DEF stop_execution, SnapshotInv, locals, lmdb
<1>3. CASE ProcessExits \/ ProcessKilled
  BY <1>3, DiesSnapshot DEF ProcessExits, ProcessKilled
<1>4. ASSUME NEW t \in Threads, Step(t) PROVE SnapshotInv'
  BY <1>4, StartStepSnapshot, LoopStepSnapshot, TxnStepSnapshot, OpStepSnapshot
  DEF Step
<1>5. CASE UNCHANGED vars
  BY <1>5 DEF vars, SnapshotInv
<1>6. QED
  BY <1>1, <1>2, <1>3, <1>4, <1>5 DEF Next
-----------------------------------------------------------------------------
(***************************************************************************)
(* The invariant holds.                                                    *)
(***************************************************************************)
LEMMA IInvInit == Init => IInv
  BY TypeInvInit, LocksInit, SnapshotInit DEF IInv, Locks

LEMMA IInvStep == IInv /\ [Next]_vars => IInv'
  BY TypeInvStep, LocksStep, SnapshotStep DEF IInv, Locks

LEMMA Invariance == Spec => []IInv
  BY IInvInit, IInvStep, PTL DEF Spec

\* Every variable of the daemon and of LMDB keeps its type: in particular, what
\* storage_put stores and storage_get finds are records, and the message both
\* work on is one that was received.
THEOREM TypeCorrect == Spec => []TypeOK
<1>1. IInv => TypeOK
  BY DEF IInv, TypeInv
<1>2. QED
  BY <1>1, Invariance, PTL

\* No return of storage_put or storage_get leaves a transaction open, and an
\* open transaction holds its directory's lock, through failing begins, puts
\* and commits, failed assertions, kills and restarts.
THEOREM LocksGivenBack == Spec => []LocksBalanced
<1>1. IInv => LocksBalanced
  BY DEF IInv, TypeInv, TypeOK, LockInv, LocksBalanced
<1>2. QED
  BY <1>1, Invariance, PTL
-----------------------------------------------------------------------------
(***************************************************************************)
(* The refinement of KVStore: the put happens at the commit, the get at    *)
(* mdb_get, and every other step changes neither the store nor the answer, *)
(* or forgets the answer.                                                  *)
(***************************************************************************)
LEMMA KVInit == Init => KV!Init
<1> SUFFICES ASSUME Init PROVE KV!Init
  OBVIOUS
<1>1. db \in [Dirs -> Maps]
  BY TypeInvInit DEF TypeInv, TypeOK
<1>2. QED
  BY <1>1 DEF Init, Maps, Zero, KV!Init, KV!Maps, KV!NotFound

\* A step that leaves the database alone and forgets the answer.
LEMMA KVForgets ==
  ASSUME reply' = Zero, UNCHANGED db
  PROVE  KV!Next
  BY DEF Zero, KV!Next, KV!NothingFound, KV!NotFound

\* mdb_get: the snapshot is what is committed.
LEMMA KVGets ==
  ASSUME IInv, "READ" \in Threads, lmdb_storage_get
  PROVE  KV!Next
<1> DEFINE d == dir["READ"]
           k == msg["READ"].iid
<1>1. /\ txn["READ"] = "open" /\ thread["READ"] = "op"
      /\ k \in DOMAIN pending["READ"]
      /\ reply' = [iid |-> k, len |-> pending["READ"][k]] /\ db' = db
  BY DEF lmdb_storage_get, Goes, lmdb
<1>2. pending["READ"] = db[d]
  BY <1>1 DEF IInv, SnapshotInv
<1>3. d \in Dirs /\ k \in Iids
  BY <1>1 DEF IInv, TypeInv, TypeOK, MsgTyped
<1>4. KV!Get(d, k)
  BY <1>1, <1>2 DEF KV!Get
<1>5. QED
  BY <1>3, <1>4 DEF KV!Next

\* mdb_txn_commit: a put, or, if it fails or is a lookup's, nothing.
LEMMA KVCommits ==
  ASSUME IInv, NEW t \in Threads, lmdb_storage_tx_commit(t)
  PROVE  [KV!Next]_<<db, reply>>
<1>1. /\ txn[t] = "open" /\ thread[t] = "commit" /\ reply' = reply
      /\ db' = db \/ db' = [db EXCEPT ![dir[t]] = pending[t]]
  BY DEF lmdb_storage_tx_commit, Returns, Goes
<1>2. /\ dir[t] \in Dirs /\ msg[t] \in [iid : Iids, len : Lens]
      /\ db \in [Dirs -> Maps]
  BY <1>1 DEF IInv, TypeInv, TypeOK, MsgTyped
<1>3. CASE db' = db
  BY <1>1, <1>3
<1>4. CASE t = "WRITE" /\ db' = [db EXCEPT ![dir[t]] = pending[t]]
  <2> DEFINE d == dir[t]
             k == msg[t].iid
             v == msg[t].len
  <2>1. pending[t] = Put(db[d], msg[t])
    BY <1>1, <1>4 DEF IInv, SnapshotInv
  <2>2. db' = [db EXCEPT ![d] = Put(db[d], msg[t])]
    BY <1>4, <2>1
  <2>3. KV!Put(d, k, v)
    BY <1>1, <1>2, <2>2 DEF KV!Put, Put
  <2>4. d \in Dirs /\ k \in Iids /\ v \in Lens
    BY <1>2
  <2>5. QED
    BY <2>3, <2>4 DEF KV!Next
<1>5. CASE t # "WRITE" /\ db' = [db EXCEPT ![dir[t]] = pending[t]]
  <2>1. pending[t] = db[dir[t]]
    BY <1>1, <1>5 DEF IInv, SnapshotInv
  <2>2. db' = db
    BY <1>2, <1>5, <2>1
  <2>3. QED
    BY <1>1, <2>2
<1>6. QED
  BY <1>1, <1>3, <1>4, <1>5

LEMMA KVStep == IInv /\ [Next]_vars => [KV!Next]_<<db, reply>>
<1> SUFFICES ASSUME IInv, [Next]_vars PROVE [KV!Next]_<<db, reply>>
  OBVIOUS
<1>1. ASSUME NEW as, Dies(as) PROVE [KV!Next]_<<db, reply>>
  BY <1>1, KVForgets DEF Dies
<1>2. CASE run \/ stop_execution \/ UNCHANGED vars
  BY <1>2 DEF run, stop_execution, vars, lmdb
<1>3. CASE ProcessExits \/ ProcessKilled
  BY <1>1, <1>3 DEF ProcessExits, ProcessKilled
<1>4. ASSUME NEW t \in Threads, StartStep(t) PROVE [KV!Next]_<<db, reply>>
  BY <1>1, <1>4 DEF StartStep, lmdb_storage_open, OpenFails, OpenDevice, lmdb
<1>5. ASSUME NEW t \in Threads, LoopStep(t) PROVE [KV!Next]_<<db, reply>>
  BY <1>1, <1>5, Zenon
  DEF LoopStep, LoopPolls, PollTimeout, Receive, lmdb_storage_close, lmdb
<1>6. ASSUME NEW t \in Threads, TxnStep(t) PROVE [KV!Next]_<<db, reply>>
  BY <1>1, <1>6, KVCommits
  DEF TxnStep, lmdb_storage_tx_begin, BeginAsserts, BeginFails, CommitAsserts, lmdb
<1>7. ASSUME NEW t \in Threads, OpStep(t) PROVE [KV!Next]_<<db, reply>>
  BY <1>7, KVGets, KVForgets
  DEF OpStep, lmdb_storage_put, PutFails, NotFound, Send, lmdb
<1>8. QED
  BY <1>2, <1>3, <1>4, <1>5, <1>6, <1>7 DEF Next, Step

\* The daemon's use of LMDB implements an atomic, durable key-value store: a
\* put takes effect as a whole or not at all, whatever fails or dies in
\* between, and a look-up answers with what is stored, or with nothing.
THEOREM StorageRefinesKVStore == Spec => ImplementsKVStore
  BY KVInit, KVStep, Invariance, PTL DEF Spec, ImplementsKVStore, KV!Spec
=============================================================================
