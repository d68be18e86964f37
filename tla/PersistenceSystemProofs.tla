----------------------- MODULE PersistenceSystemProofs -----------------------
(***************************************************************************)
(* Proofs about PersistenceSystem: the composition behaves towards the     *)
(* devices and towards the storage as WritePersistence and UserStorage     *)
(* say, so that what is proved of them holds of it; and on its way from    *)
(* the ring to the database no value is lost, repeated or reordered.       *)
(***************************************************************************)
EXTENDS PersistenceSystem, SequenceTheorems, WellFoundedInduction, TLAPS

WP == INSTANCE WritePersistenceProofs WITH Daemons <- {Process}
UP == INSTANCE UserStorageProofs WITH Threads <- {"WRITE"}

Records == [iid : Iids, len : Lens]

(***************************************************************************)
(* The invariant that ties the two components together.                    *)
(***************************************************************************)

\* The thread has the device open while it is in its loop, and is inside a
\* system call on it only while it polls or reads.
InLoop == {"loop", "poll", "begin", "op", "commit"}
Sync ==
  /\ thread["WRITE"] \in InLoop \ {"poll"} => daemon[Process] = "poll"
  /\ thread["WRITE"] = "poll" =>
       daemon[Process] \in {"poll", "read", "dec", "err_dec", "advance"}
  /\ thread["WRITE"] \notin InLoop =>
       daemon[Process] \in {"closed", "rel_used", "rel_current", "rel_first",
                           "rel_unlock"}

\* A device that is closed, or about to be, has not been overtaken.
ReleasedInv ==
  daemon[Process] \in {"closed", "rel_current", "rel_first", "rel_unlock"}
    => ~overtaken

\* While nothing was lost, the ring is intact, and what was read is a message.
CleanInv ==
  clean =>
    /\ thread["WRITE"] \in InLoop /\ intact /\ ~overtaken
    /\ daemon[Process] \in {"dec", "advance"} => recv[Process] \in W!StoredMessages

SInv == Sync /\ ReleasedInv /\ CleanInv /\ NothingLostOrReordered
-----------------------------------------------------------------------------
(***************************************************************************)
(* Putting a sequence of records into a map.                               *)
(***************************************************************************)
IsLast(q, x, i) ==
  /\ i \in 1 .. Len(q) /\ q[i].iid = x
  /\ \A j \in 1 .. Len(q) : q[j].iid = x => j <= i

LEMMA LastForIs ==
  ASSUME NEW q \in Seq(Records), NEW x, NEW i, IsLast(q, x, i)
  PROVE  LastFor(q, x) = i
<1>1. DOMAIN q = 1 .. Len(q) /\ Len(q) \in Nat
  BY LenProperties
<1>2. \A k \in DOMAIN q :
        (q[k].iid = x /\ \A j \in DOMAIN q : q[j].iid = x => j <= k) => k = i
  BY <1>1 DEF IsLast
<1>3. i \in DOMAIN q /\ q[i].iid = x /\ \A j \in DOMAIN q : q[j].iid = x => j <= i
  BY <1>1 DEF IsLast
<1> QED
  BY <1>2, <1>3 DEF LastFor

\* Of the records for an id there is a last one: the one with the fewest behind.
LEMMA LastExists ==
  ASSUME NEW q \in Seq(Records), NEW x, NEW k \in 1 .. Len(q), q[k].iid = x
  PROVE  \E i \in 1 .. Len(q) : IsLast(q, x, i)
<1> DEFINE n == Len(q)
           T == {m \in 0 .. n : m < n /\ q[n - m].iid = x}
<1>1. n \in Nat
  BY LenProperties
<1>2. T \subseteq Nat /\ n - k \in T
  BY <1>1
<1>3. PICK m \in T : \A y \in T : ~ (<<y, m>> \in OpToRel(<, Nat))
  <2>1. T # {}
    BY <1>2
  <2> HIDE DEF T
  <2> QED
    BY <1>2, <2>1, WFMin, NatLessThanWellFounded
<1>4. \A y \in T : m <= y
  <2> SUFFICES ASSUME NEW y \in T, y < m
               PROVE  FALSE
    BY <1>2
  <2>1. <<y, m>> \in OpToRel(<, Nat)
    BY <1>2 DEF OpToRel
  <2> QED
    BY <1>3, <2>1
<1>5. n - m \in 1 .. n /\ q[n - m].iid = x
  BY <1>1
<1>6. ASSUME NEW j \in 1 .. n, q[j].iid = x
      PROVE  j <= n - m
  <2>1. n - j \in T
    BY <1>1, <1>6
  <2>2. m <= n - j
    BY <1>4, <2>1
  <2> QED
    BY <1>1, <2>2
<1> QED
  BY <1>5, <1>6 DEF IsLast

\* A map and a sequence of records, id by id.
LEMMA PutAllDomain ==
  ASSUME NEW map, NEW q \in Seq(Records)
  PROVE  DOMAIN PutAll(map, q) = DOMAIN map \cup {q[i].iid : i \in 1 .. Len(q)}
<1>1. DOMAIN q = 1 .. Len(q)
  BY LenProperties
<1> QED
  BY <1>1 DEF PutAll

LEMMA PutAllLast ==
  ASSUME NEW map, NEW q \in Seq(Records), NEW x, NEW i, IsLast(q, x, i)
  PROVE  PutAll(map, q)[x] = q[i].len
<1>1. DOMAIN q = 1 .. Len(q)
  BY LenProperties
<1>2. x \in {q[j].iid : j \in DOMAIN q}
  BY <1>1 DEF IsLast
<1>3. LastFor(q, x) = i
  BY LastForIs
<1> QED
  BY <1>2, <1>3 DEF PutAll

LEMMA PutAllOther ==
  ASSUME NEW map, NEW q \in Seq(Records), NEW x \in DOMAIN map,
         \A i \in 1 .. Len(q) : q[i].iid # x
  PROVE  PutAll(map, q)[x] = map[x]
<1>1. DOMAIN q = 1 .. Len(q)
  BY LenProperties
<1> QED
  BY <1>1 DEF PutAll

LEMMA AreFunctions ==
  ASSUME NEW map, NEW q, NEW r
  PROVE  /\ PutAll(map, q) = [x \in DOMAIN PutAll(map, q) |-> PutAll(map, q)[x]]
         /\ Put(map, r) = [x \in DOMAIN Put(map, r) |-> Put(map, r)[x]]
BY DEF PutAll, Put

LEMMA SameFunction ==
  ASSUME NEW f, NEW g, f = [x \in DOMAIN f |-> f[x]],
         g = [x \in DOMAIN g |-> g[x]],
         DOMAIN f = DOMAIN g, \A x \in DOMAIN f : f[x] = g[x]
  PROVE  f = g
OBVIOUS

\* A record added at the end of the queue is put last.
LEMMA PutAllAppend ==
  ASSUME NEW map, NEW q \in Seq(Records), NEW r \in Records
  PROVE  PutAll(map, Append(q, r)) = Put(PutAll(map, q), r)
<1> DEFINE p == Append(q, r)
           f == PutAll(map, p)
           g == Put(PutAll(map, q), r)
           n == Len(q)
<1>1. /\ n \in Nat /\ p \in Seq(Records) /\ Len(p) = n + 1
      /\ \A i \in 1 .. n : p[i] = q[i]
      /\ p[n + 1] = r
  BY LenProperties, AppendProperties
<1> HIDE DEF p, n
<1>2. DOMAIN f = DOMAIN map \cup {p[i].iid : i \in 1 .. n + 1}
  <2>1. DOMAIN f = DOMAIN map \cup {p[i].iid : i \in 1 .. Len(p)}
    BY <1>1, PutAllDomain
  <2> QED
    BY <1>1, <2>1
<1>3. DOMAIN g = DOMAIN map \cup {q[i].iid : i \in 1 .. n} \cup {r.iid}
  <2>1. DOMAIN g = DOMAIN PutAll(map, q) \cup {r.iid}
    BY DEF Put
  <2>2. DOMAIN PutAll(map, q) = DOMAIN map \cup {q[i].iid : i \in 1 .. n}
    BY PutAllDomain DEF n
  <2> QED
    BY <2>1, <2>2
<1>4. {p[i].iid : i \in 1 .. n + 1} = {q[i].iid : i \in 1 .. n} \cup {r.iid}
  <2>1. \A i \in 1 .. n + 1 : i \in 1 .. n \/ i = n + 1
    BY <1>1
  <2>2. \A i \in 1 .. n : i \in 1 .. n + 1
    BY <1>1
  <2>3. n + 1 \in 1 .. n + 1
    BY <1>1
  <2> QED
    BY <1>1, <2>1, <2>2, <2>3
<1>5. DOMAIN f = DOMAIN g
  BY <1>2, <1>3, <1>4
<1>6. ASSUME NEW x \in DOMAIN f
      PROVE  f[x] = g[x]
  <2>1. CASE x = r.iid
    <3>1. IsLast(p, x, n + 1)
      BY <1>1, <2>1 DEF IsLast
    <3>2. f[x] = r.len
      BY <1>1, <3>1, PutAllLast
    <3>3. g[x] = r.len
      BY <2>1 DEF Put
    <3> QED
      BY <3>2, <3>3
  <2>2. CASE x # r.iid /\ \E i \in 1 .. n : q[i].iid = x
    <3>1. PICK i \in 1 .. n : IsLast(q, x, i)
      BY <2>2, LastExists DEF n
    <3>2. IsLast(p, x, i)
      <4>1. i \in 1 .. Len(p) /\ p[i].iid = x
        BY <1>1, <3>1 DEF IsLast
      <4>2. \A j \in 1 .. Len(p) : p[j].iid = x => j \in 1 .. n /\ q[j].iid = x
        BY <1>1, <2>2
      <4> QED
        BY <3>1, <4>1, <4>2 DEF IsLast, n
    <3>3. f[x] = p[i].len /\ PutAll(map, q)[x] = q[i].len
      BY <1>1, <3>1, <3>2, PutAllLast
    <3>4. x \in DOMAIN PutAll(map, q)
      <4>1. DOMAIN PutAll(map, q) = DOMAIN map \cup {q[j].iid : j \in 1 .. n}
        BY PutAllDomain DEF n
      <4> QED
        BY <2>2, <4>1
    <3>5. g[x] = PutAll(map, q)[x]
      BY <2>2, <3>4 DEF Put
    <3> QED
      BY <1>1, <3>3, <3>5
  <2>3. CASE x # r.iid /\ \A i \in 1 .. n : q[i].iid # x
    <3>1. x \in DOMAIN map
      BY <1>2, <1>4, <2>3
    <3>2. \A i \in 1 .. Len(p) : p[i].iid # x
      BY <1>1, <2>3
    <3>3. f[x] = map[x] /\ PutAll(map, q)[x] = map[x]
      BY <1>1, <2>3, <3>1, <3>2, PutAllOther DEF n
    <3>4. x \in DOMAIN PutAll(map, q)
      BY <3>1, PutAllDomain
    <3>5. g[x] = PutAll(map, q)[x]
      BY <2>3, <3>4 DEF Put
    <3> QED
      BY <3>3, <3>5
  <2> QED
    BY <2>1, <2>2, <2>3
<1>7. f = [x \in DOMAIN f |-> f[x]] /\ g = [x \in DOMAIN g |-> g[x]]
  BY AreFunctions
<1> HIDE DEF f, g
<1>8. f = g
  BY <1>5, <1>6, <1>7, SameFunction
<1> QED
  BY <1>8 DEF f, g, p

\* The record in front is put first.
LEMMA PutAllFront ==
  ASSUME NEW map, NEW q \in Seq(Records), NEW r \in Records
  PROVE  PutAll(map, <<r>> \o q) = PutAll(Put(map, r), q)
<1> DEFINE p == <<r>> \o q
           f == PutAll(map, p)
           g == PutAll(Put(map, r), q)
           n == Len(q)
<1>1. /\ n \in Nat /\ p \in Seq(Records) /\ Len(p) = n + 1
      /\ \A i \in 1 .. n : p[i + 1] = q[i]
      /\ p[1] = r
  <2>1. <<r>> \in Seq(Records) /\ Len(<<r>>) = 1 /\ <<r>>[1] = r
    OBVIOUS
  <2>2. n \in Nat
    BY LenProperties
  <2>3. /\ p \in Seq(Records) /\ Len(p) = 1 + n
        /\ \A i \in 1 .. 1 + n : p[i] = IF i <= 1 THEN <<r>>[i] ELSE q[i - 1]
    BY <2>1, ConcatProperties
  <2> HIDE DEF p, n
  <2>4. \A i \in 1 .. n : i + 1 \in 1 .. 1 + n /\ ~ (i + 1 <= 1) /\ (i + 1) - 1 = i
    BY <2>2
  <2> QED
    BY <2>1, <2>2, <2>3, <2>4
<1> HIDE DEF p, n
<1>2. DOMAIN f = DOMAIN map \cup {p[i].iid : i \in 1 .. n + 1}
  <2>1. DOMAIN f = DOMAIN map \cup {p[i].iid : i \in 1 .. Len(p)}
    BY <1>1, PutAllDomain
  <2> QED
    BY <1>1, <2>1
<1>3. DOMAIN g = DOMAIN map \cup {r.iid} \cup {q[i].iid : i \in 1 .. n}
  <2>1. DOMAIN g = DOMAIN Put(map, r) \cup {q[i].iid : i \in 1 .. n}
    BY PutAllDomain DEF n
  <2>2. DOMAIN Put(map, r) = DOMAIN map \cup {r.iid}
    BY DEF Put
  <2> QED
    BY <2>1, <2>2
<1>4. {p[i].iid : i \in 1 .. n + 1} = {r.iid} \cup {q[i].iid : i \in 1 .. n}
  <2>1. \A i \in 1 .. n + 1 : i = 1 \/ (i - 1 \in 1 .. n /\ p[i] = q[i - 1])
    <3> SUFFICES ASSUME NEW i \in 1 .. n + 1, i # 1
                 PROVE  i - 1 \in 1 .. n /\ p[i] = q[i - 1]
      OBVIOUS
    <3>1. i - 1 \in 1 .. n /\ (i - 1) + 1 = i
      BY <1>1
    <3> QED
      BY <1>1, <3>1
  <2>2. \A i \in 1 .. n : i + 1 \in 1 .. n + 1
    BY <1>1
  <2>3. 1 \in 1 .. n + 1
    BY <1>1
  <2>4. {p[i].iid : i \in 1 .. n + 1} \subseteq {r.iid} \cup {q[i].iid : i \in 1 .. n}
    BY <1>1, <2>1
  <2>5. ASSUME NEW i \in 1 .. n
        PROVE  q[i].iid \in {p[j].iid : j \in 1 .. n + 1}
    <3>1. i + 1 \in 1 .. n + 1 /\ p[i + 1] = q[i]
      BY <1>1, <2>2
    <3> QED
      BY <3>1
  <2>6. r.iid \in {p[j].iid : j \in 1 .. n + 1}
    BY <1>1, <2>3
  <2> QED
    BY <2>4, <2>5, <2>6
<1>5. DOMAIN f = DOMAIN g
  BY <1>2, <1>3, <1>4
<1>6. ASSUME NEW x \in DOMAIN f
      PROVE  f[x] = g[x]
  <2>1. CASE \E i \in 1 .. n : q[i].iid = x
    <3>1. PICK i \in 1 .. n : IsLast(q, x, i)
      BY <2>1, LastExists DEF n
    <3>2. IsLast(p, x, i + 1)
      <4>1. i + 1 \in 1 .. Len(p) /\ p[i + 1].iid = x
        BY <1>1, <3>1 DEF IsLast
      <4>2. ASSUME NEW j \in 1 .. Len(p), p[j].iid = x
            PROVE  j <= i + 1
        <5>1. CASE j = 1
          BY <1>1, <5>1
        <5>2. CASE j # 1
          <6>1. j - 1 \in 1 .. n /\ (j - 1) + 1 = j
            BY <1>1, <5>2
          <6>2. q[j - 1].iid = x
            BY <1>1, <4>2, <6>1
          <6>3. j - 1 <= i
            BY <3>1, <6>1, <6>2 DEF IsLast, n
          <6> QED
            BY <1>1, <6>1, <6>3
        <5> QED
          BY <5>1, <5>2
      <4> QED
        BY <4>1, <4>2 DEF IsLast
    <3>3. f[x] = p[i + 1].len /\ g[x] = q[i].len
      BY <1>1, <3>1, <3>2, PutAllLast
    <3> QED
      BY <1>1, <3>3
  <2>2. CASE x = r.iid /\ \A i \in 1 .. n : q[i].iid # x
    <3>1. IsLast(p, x, 1)
      <4>1. ASSUME NEW j \in 1 .. Len(p), p[j].iid = x
            PROVE  j <= 1
        <5>1. CASE j # 1
          <6>1. j - 1 \in 1 .. n /\ (j - 1) + 1 = j
            BY <1>1, <5>1
          <6> QED
            BY <1>1, <2>2, <4>1, <6>1
        <5> QED
          BY <5>1
      <4> QED
        BY <1>1, <2>2, <4>1 DEF IsLast
    <3>2. f[x] = r.len
      BY <1>1, <3>1, PutAllLast
    <3>3. x \in DOMAIN Put(map, r) /\ Put(map, r)[x] = r.len
      BY <2>2 DEF Put
    <3>4. g[x] = r.len
      BY <2>2, <3>3, PutAllOther DEF n
    <3> QED
      BY <3>2, <3>4
  <2>3. CASE x # r.iid /\ \A i \in 1 .. n : q[i].iid # x
    <3>1. x \in DOMAIN map
      BY <1>2, <1>4, <2>3
    <3>2. ASSUME NEW i \in 1 .. Len(p)
          PROVE  p[i].iid # x
      <4>1. CASE i # 1
        <5>1. i - 1 \in 1 .. n /\ (i - 1) + 1 = i
          BY <1>1, <4>1
        <5> QED
          BY <1>1, <2>3, <5>1
      <4> QED
        BY <1>1, <2>3, <4>1
    <3>3. f[x] = map[x]
      BY <1>1, <3>1, <3>2, PutAllOther
    <3>4. x \in DOMAIN Put(map, r) /\ Put(map, r)[x] = map[x]
      BY <2>3, <3>1 DEF Put
    <3>5. g[x] = map[x]
      BY <2>3, <3>4, PutAllOther DEF n
    <3> QED
      BY <3>3, <3>5
  <2> QED
    BY <2>1, <2>2, <2>3
<1>7. f = [x \in DOMAIN f |-> f[x]] /\ g = [x \in DOMAIN g |-> g[x]]
  BY AreFunctions
<1> HIDE DEF f, g
<1>8. f = g
  BY <1>5, <1>6, <1>7, SameFunction
<1> QED
  BY <1>8 DEF f, g, p
-----------------------------------------------------------------------------
(***************************************************************************)
(* The two instances of each component are the same.                       *)
(***************************************************************************)
LEMMA SameClientStep ==
  ASSUME NEW c
  PROVE  /\ W!write_test_open(c) <=> WP!write_test_open(c)
         /\ W!write_test_release(c) <=> WP!write_test_release(c)
         /\ W!write_test_write(c) <=> WP!write_test_write(c)
         /\ W!AddStep(c) <=> WP!AddStep(c)
  BY DEF W!write_test_open, W!write_test_release, W!write_test_write,
         W!AddStep, W!AddFull, W!AddRoom, W!AddInc, W!AddClear, W!AddCopy,
         W!AddAdvance, W!ClientGoes, W!ring, W!mutexes, W!history,
         W!Resetting, W!Zero, W!Stored, W!Succ, WP!write_test_open,
         WP!write_test_release, WP!write_test_write, WP!AddStep, WP!AddFull,
         WP!AddRoom, WP!AddInc, WP!AddClear, WP!AddCopy, WP!AddAdvance,
         WP!ClientGoes, WP!ring, WP!mutexes, WP!history, WP!Resetting,
         WP!Zero, WP!Stored, WP!Succ

LEMMA SameDaemonStep ==
  ASSUME NEW d
  PROVE  /\ W!write_persistence_open(d) <=> WP!write_persistence_open(d)
         /\ W!Close(d) <=> WP!Close(d)
         /\ W!ReadStep(d) <=> WP!ReadStep(d)
         /\ W!ReadCopy(d) <=> WP!ReadCopy(d)
         /\ W!ReleaseStep(d) <=> WP!ReleaseStep(d)
  BY DEF W!write_persistence_open, W!Close, W!ReadStep,
         W!write_persistence_poll, W!ReadCopy, W!ReadFault, W!ReadDec,
         W!ReadAdvance, W!ReleaseStep, W!ReleaseUsed, W!ReleaseCurrent,
         W!ReleaseFirst, W!ReleaseUnlock, W!DaemonGoes, W!ring, W!mutexes,
         W!history, W!Adding, W!Copies, W!Succ, WP!write_persistence_open,
         WP!Close, WP!ReadStep, WP!write_persistence_poll, WP!ReadCopy,
         WP!ReadFault, WP!ReadDec, WP!ReadAdvance, WP!ReleaseStep,
         WP!ReleaseUsed, WP!ReleaseCurrent, WP!ReleaseFirst, WP!ReleaseUnlock,
         WP!DaemonGoes, WP!ring, WP!mutexes, WP!history, WP!Adding, WP!Copies,
         WP!Succ

LEMMA SameDevices == W!Spec <=> WP!Spec
<1>1. W!Init <=> WP!Init
  BY DEF W!Init, WP!Init, W!Slots, WP!Slots
<1>3. W!Next <=> WP!Next
  BY SameClientStep, SameDaemonStep DEF W!Next, WP!Next
<1>4. [W!Next]_(W!vars) <=> [WP!Next]_(WP!vars)
  <2>1. UNCHANGED W!vars <=> UNCHANGED WP!vars
    BY DEF W!vars, W!ring, W!mutexes, W!history, WP!vars, WP!ring, WP!mutexes,
           WP!history
  <2> QED
    BY <1>3, <2>1
<1> QED
  BY <1>1, <1>4, PTL DEF W!Spec, WP!Spec

LEMMA SameCardinality ==
  ASSUME NEW S
  PROVE  U!Cardinality(S) = UP!Cardinality(S)
BY DEF U!Cardinality, UP!Cardinality

LEMMA SameStorage == U!Spec <=> UP!Spec
<1>1. U!Init <=> UP!Init
  <2>1. U!Maps = UP!Maps /\ U!Zero = UP!Zero /\ U!Empty = UP!Empty
    BY DEF U!Maps, UP!Maps, U!Zero, UP!Zero, U!Empty, UP!Empty
  <2> QED
    BY <2>1, SameCardinality DEF U!Init, UP!Init
<1>2. ASSUME NEW t
      PROVE  U!Step(t) <=> UP!Step(t)
  <2>1. U!StartStep(t) <=> UP!StartStep(t)
    BY DEF U!StartStep, U!lmdb_storage_open, U!OpenFails, U!OpenDevice, U!Goes,
           U!Dies, U!Zero, U!Empty, U!locals, U!lmdb, UP!StartStep,
           UP!lmdb_storage_open, UP!OpenFails, UP!OpenDevice, UP!Goes, UP!Dies,
           UP!Zero, UP!Empty, UP!locals, UP!lmdb
  <2>2. U!LoopStep(t) <=> UP!LoopStep(t)
    BY DEF U!LoopStep, U!LoopPolls, U!lmdb_storage_close, U!PollTimeout,
           U!Receive, U!Goes, U!Dies, U!Zero, U!Empty, U!locals, U!lmdb,
           UP!LoopStep, UP!LoopPolls, UP!lmdb_storage_close, UP!PollTimeout,
           UP!Receive, UP!Goes, UP!Dies, UP!Zero, UP!Empty, UP!locals, UP!lmdb
  <2>3. U!TxnStep(t) <=> UP!TxnStep(t)
    BY DEF U!TxnStep, U!lmdb_storage_tx_begin, U!BeginAsserts, U!BeginFails,
           U!lmdb_storage_tx_commit, U!CommitAsserts, U!Goes, U!Dies, U!Returns,
           U!Closes, U!Zero, U!Empty, U!locals, U!lmdb, UP!TxnStep,
           UP!lmdb_storage_tx_begin, UP!BeginAsserts, UP!BeginFails,
           UP!lmdb_storage_tx_commit, UP!CommitAsserts, UP!Goes, UP!Dies,
           UP!Returns, UP!Closes, UP!Zero, UP!Empty, UP!locals, UP!lmdb
  <2>4. U!OpStep(t) <=> UP!OpStep(t)
    BY SameCardinality
    DEF U!OpStep, U!lmdb_storage_put, U!PutFails, U!lmdb_storage_get,
           U!NotFound, U!Send, U!Goes, U!Returns, U!Closes, U!Full, U!Zero,
           U!Empty, U!locals, U!lmdb, UP!OpStep, UP!lmdb_storage_put,
           UP!PutFails, UP!lmdb_storage_get, UP!NotFound, UP!Send, UP!Goes,
           UP!Returns, UP!Closes, UP!Full, UP!Zero, UP!Empty, UP!locals,
           UP!lmdb
  <2> QED
    BY <2>1, <2>2, <2>3, <2>4 DEF U!Step, UP!Step
<1>3. U!Next <=> UP!Next
  <2>1. /\ U!run <=> UP!run
        /\ U!stop_execution <=> UP!stop_execution
        /\ U!ProcessExits <=> UP!ProcessExits
        /\ U!ProcessKilled <=> UP!ProcessKilled
    BY DEF U!run, U!stop_execution, U!ProcessExits, U!ProcessKilled, U!Dies,
           U!Zero, U!Empty, U!locals, U!lmdb, UP!run, UP!stop_execution,
           UP!ProcessExits, UP!ProcessKilled, UP!Dies, UP!Zero, UP!Empty,
           UP!locals, UP!lmdb
  <2> QED
    BY <1>2, <2>1 DEF U!Next, UP!Next
<1>4. [U!Next]_(U!vars) <=> [UP!Next]_(UP!vars)
  <2>1. UNCHANGED U!vars <=> UNCHANGED UP!vars
    BY DEF U!vars, UP!vars
  <2> QED
    BY <1>3, <2>1
<1> QED
  BY <1>1, <1>4, PTL DEF U!Spec, UP!Spec
-----------------------------------------------------------------------------
(***************************************************************************)
(* The composition implements both components.                             *)
(***************************************************************************)
LEMMA DevicesUnchanged == UNCHANGED devices <=> UNCHANGED W!vars
BY DEF devices, W!vars, W!ring, W!mutexes, W!history

LEMMA StorageUnchanged == UNCHANGED storage <=> UNCHANGED U!vars
BY DEF storage, U!vars

LEMMA DevicesStep == [Next]_vars => [W!Next]_(W!vars)
<1> SUFFICES ASSUME [Next]_vars
             PROVE  W!Next \/ UNCHANGED W!vars
  OBVIOUS
<1>1. ASSUME NEW c \in Clients, ClientStep(c)
      PROVE  W!Next
  BY <1>1 DEF ClientStep, W!Next
<1>2. Process \in {Process}
  OBVIOUS
<1>3. CASE DeviceOpens
  BY <1>2, <1>3 DEF DeviceOpens, W!Next
<1>4. CASE DeviceRefused \/ PollTimesOut \/ StoreStep \/ ThreadStep
  BY <1>4, DevicesUnchanged DEF DeviceRefused, PollTimesOut, StoreStep, ThreadStep
<1>5. CASE ReadGoesOn
  BY <1>2, <1>5 DEF ReadGoesOn, W!Next, W!ReadStep
<1>6. CASE ReadReturns
  BY <1>2, <1>6 DEF ReadReturns, W!Next, W!ReadStep
<1>7. CASE LoopEnds
  BY <1>2, <1>7 DEF LoopEnds, W!Next
<1>8. CASE ReleaseStep
  BY <1>2, <1>8 DEF ReleaseStep, W!Next
<1>9. CASE Signalled \/ Starts \/ Exits
  BY <1>9, DevicesUnchanged DEF Signalled, Starts, Exits
<1>10. CASE Dies
  BY <1>2, <1>10, DevicesUnchanged DEF Dies, W!Next
<1>11. CASE UNCHANGED vars
  BY <1>11, DevicesUnchanged DEF vars
<1> QED
  BY <1>1, <1>3, <1>4, <1>5, <1>6, <1>7, <1>8, <1>9, <1>10, <1>11
  DEF Next, WriteThread

LEMMA StorageStep == [Next]_vars => [U!Next]_(U!vars)
<1> SUFFICES ASSUME [Next]_vars
             PROVE  U!Next \/ UNCHANGED U!vars
  OBVIOUS
<1>1. ASSUME NEW c \in Clients, ClientStep(c)
      PROVE  UNCHANGED U!vars
  BY <1>1, StorageUnchanged DEF ClientStep
<1>2. "WRITE" \in {"WRITE"}
  OBVIOUS
<1>3. U!Step("WRITE") => U!Next
  BY <1>2 DEF U!Next
<1>4. CASE DeviceOpens \/ DeviceRefused
  BY <1>3, <1>4 DEF DeviceOpens, DeviceRefused, U!Step, U!StartStep
<1>5. CASE PollTimesOut \/ ReadReturns
  BY <1>3, <1>5 DEF PollTimesOut, ReadReturns, U!Step, U!LoopStep
<1>6. CASE ReadGoesOn \/ ReleaseStep
  BY <1>6, StorageUnchanged DEF ReadGoesOn, ReleaseStep
<1>7. CASE StoreStep
  BY <1>3, <1>7 DEF StoreStep, U!Step, U!TxnStep, U!OpStep
<1>8. CASE ThreadStep \/ LoopEnds
  BY <1>3, <1>8 DEF ThreadStep, LoopEnds, U!Step, U!StartStep, U!LoopStep
<1>9. CASE Signalled \/ Starts \/ Exits
  BY <1>9 DEF Signalled, Starts, Exits, U!Next
<1>10. CASE Dies
  BY <1>3, <1>10
  DEF Dies, U!Next, U!Step, U!StartStep, U!LoopStep, U!TxnStep
<1>11. CASE UNCHANGED vars
  BY <1>11, StorageUnchanged DEF vars
<1> QED
  BY <1>1, <1>4, <1>5, <1>6, <1>7, <1>8, <1>9, <1>10, <1>11
  DEF Next, WriteThread

\* Whatever the daemon's thread and the clients do together, the two devices
\* see nothing but the system calls that WritePersistence allows.
THEOREM SystemImplementsDevices == Spec => W!Spec
<1>1. Init => W!Init
  BY DEF Init
<1> QED
  BY <1>1, DevicesStep, PTL DEF Spec, W!Spec

\* And the thread and LMDB do nothing but what UserStorage says: a system call
\* that waits in the kernel is one of its steps or none.
THEOREM SystemImplementsStorage == Spec => U!Spec
<1>1. Init => U!Init
  BY DEF Init
<1> QED
  BY <1>1, StorageStep, PTL DEF Spec, U!Spec

\* So the invariants of the components are invariants of the system.
LEMMA DevicesAssumption ==
  WP!RingAssumption /\ WP!ValueAssumption /\ WP!ProcessAssumption
BY SystemAssumption
DEF W!RingAssumption, W!ValueAssumption, W!ProcessAssumption, W!Record,
    WP!RingAssumption, WP!ValueAssumption, WP!ProcessAssumption, WP!Record

LEMMA DevicesInvariant == Spec => []WP!IInv
<1>1. WP!Spec => []WP!IInv
  BY DevicesAssumption, WP!QueueInvariant
  DEF WP!RingAssumption, WP!ValueAssumption, WP!ProcessAssumption
<1> QED
  BY <1>1, SystemImplementsDevices, SameDevices, PTL

LEMMA StorageInvariant == Spec => []UP!IInv
<1>1. UP!StorageAssumption
  BY SystemAssumption DEF U!StorageAssumption, UP!StorageAssumption
<1>2. UP!Spec => []UP!IInv
  BY <1>1, UP!Invariance DEF UP!StorageAssumption
<1> QED
  BY <1>2, SystemImplementsStorage, SameStorage, PTL
-----------------------------------------------------------------------------
(***************************************************************************)
(* What the components' invariants say here.                               *)
(***************************************************************************)
LEMMA SameStored ==
  /\ W!StoredMessages = WP!StoredMessages /\ W!StoredMessages \subseteq Records
  /\ Uninit \notin W!StoredMessages
<1>1. \A m : W!Stored(m) = WP!Stored(m)
  BY DEF W!Stored, WP!Stored
<1>2. W!StoredMessages = WP!StoredMessages
  BY <1>1 DEF W!StoredMessages, WP!StoredMessages
<1>3. W!StoredMessages \subseteq Records
  BY SystemAssumption DEF Records
<1>4. Records \subseteq W!Record
  BY SystemAssumption DEF Records, W!Record, U!StorageAssumption
<1> QED
  BY <1>2, <1>3, <1>4, SystemAssumption DEF W!ValueAssumption

LEMMA StoredConstant == W!StoredMessages' = W!StoredMessages
BY DEF W!StoredMessages, W!Stored

LEMMA DeviceTypes ==
  ASSUME WP!IInv
  PROVE  /\ daemon \in [{Process} -> W!DaemonStates]
         /\ recv \in [{Process} -> W!StoredMessages \cup {W!Zero, Uninit}]
         /\ client \in [Clients -> W!ClientStates]
         /\ queue \in Seq(W!StoredMessages) /\ queue \in Seq(Records)
         /\ overtaken \in BOOLEAN /\ intact \in BOOLEAN
         /\ daemon[Process] = "err_dec" => ~intact
         /\ \A c \in Clients :
              client[c] = "advance" => W!Stored(arg[c]) \in W!StoredMessages
<1>1. /\ daemon \in [{Process} -> W!DaemonStates]
      /\ client \in [Clients -> W!ClientStates]
      /\ overtaken \in BOOLEAN /\ intact \in BOOLEAN
  BY DEF WP!IInv, WP!TypeInv, WP!TypeOK, WP!DaemonStates, W!DaemonStates,
         WP!ClientStates, W!ClientStates
<1>2. /\ recv \in [{Process} -> W!StoredMessages \cup {W!Zero, Uninit}]
      /\ queue \in Seq(W!StoredMessages)
  BY SameStored DEF WP!IInv, WP!TypeInv, WP!TypeOK, WP!Zero, W!Zero
<1>3. queue \in Seq(Records)
  BY <1>2, SameStored, SeqMonotonic
<1>4. daemon[Process] = "err_dec" => ~intact
  BY DEF WP!IInv, WP!QueueInv, WP!HistoryInv
<1>5. \A c \in Clients :
        client[c] = "advance" => W!Stored(arg[c]) \in W!StoredMessages
  BY DEF WP!IInv, WP!TypeInv, WP!ArgTyped, W!StoredMessages
<1> QED
  BY <1>1, <1>2, <1>3, <1>4, <1>5

LEMMA StorageTypes ==
  ASSUME UP!IInv
  PROVE  /\ thread \in [{"WRITE"} -> U!ThreadStates]
         /\ DOMAIN msg = {"WRITE"}
         /\ dir["WRITE"] \in Dirs /\ DOMAIN db = Dirs
         /\ thread["WRITE"] \in {"begin", "op", "commit"} => msg["WRITE"] \in Records
         /\ process # "up" => thread["WRITE"] = "dead"
         /\ txn["WRITE"] = "open" /\ thread["WRITE"] = "commit" =>
              pending["WRITE"] = Put(Store, msg["WRITE"])
<1>1. /\ thread \in [{"WRITE"} -> U!ThreadStates] /\ DOMAIN msg = {"WRITE"}
      /\ dir["WRITE"] \in Dirs /\ DOMAIN db = Dirs
  BY DEF UP!IInv, UP!TypeInv, UP!TypeOK, UP!ThreadStates, U!ThreadStates
<1>2. thread["WRITE"] \in {"begin", "op", "commit"} => msg["WRITE"] \in Records
  BY DEF UP!IInv, UP!TypeInv, UP!MsgTyped, Records
<1>3. process # "up" => thread["WRITE"] = "dead"
  BY DEF UP!IInv, UP!ProcessInv
<1>4. txn["WRITE"] = "open" /\ thread["WRITE"] = "commit" =>
        pending["WRITE"] = Put(Store, msg["WRITE"])
  BY DEF UP!IInv, UP!SnapshotInv, UP!Put, Put, Store
<1> QED
  BY <1>1, <1>2, <1>3, <1>4

LEMMA InFlightTyped ==
  ASSUME WP!IInv, UP!IInv, CleanInv, clean
  PROVE  InFlight \in Seq(Records)
<1>1. daemon[Process] \in {"dec", "advance"} => recv[Process] \in Records
  BY SameStored DEF CleanInv
<1>2. thread["WRITE"] \in {"begin", "op", "commit"} => msg["WRITE"] \in Records
  BY StorageTypes
<1> QED
  BY <1>1, <1>2 DEF InFlight
-----------------------------------------------------------------------------
(***************************************************************************)
(* The steps.                                                              *)
(***************************************************************************)

\* A step that leaves what is stored, in flight and in the ring as it is.
LEMMA NothingMoves ==
  ASSUME NothingLostOrReordered, UNCHANGED <<clean, expected, queue>>,
         clean => InFlight' = InFlight /\ Store' = Store
  PROVE  NothingLostOrReordered'
BY DEF NothingLostOrReordered

\* What a step on the write-test device does to what the daemon sees.
LEMMA ClientView ==
  ASSUME NEW c \in Clients, WP!IInv,
         W!write_test_open(c) \/ W!write_test_release(c) \/ W!write_test_write(c)
           \/ W!AddStep(c)
  PROVE  /\ daemon' = daemon /\ recv' = recv
         /\ overtaken' => overtaken
         /\ intact => intact' \/ W!Resetting
         /\ \/ client[c] # "advance" /\ queue' = queue
            \/ /\ client[c] = "advance"
               /\ intact /\ ~overtaken => queue' = Append(queue, W!Stored(arg[c]))
<1> USE DEF W!ClientGoes, W!ring, W!mutexes, W!history
<1>1. CASE W!write_test_open(c) \/ W!write_test_release(c) \/ W!write_test_write(c)
  BY <1>1 DEF W!write_test_open, W!write_test_release, W!write_test_write
<1>2. CASE W!AddFull(c) \/ W!AddRoom(c) \/ W!AddClear(c) \/ W!AddCopy(c)
  BY <1>2 DEF W!AddFull, W!AddRoom, W!AddClear, W!AddCopy
<1>3. CASE W!AddInc(c)
  BY <1>3, DeviceTypes DEF W!AddInc
<1>4. CASE W!AddAdvance(c)
  BY <1>4 DEF W!AddAdvance
<1> QED
  BY <1>1, <1>2, <1>3, <1>4 DEF W!AddStep

\* The value an add has finished is put last.
LEMMA ClientStepKeeps ==
  ASSUME WP!IInv, UP!IInv, SInv, NEW c \in Clients, ClientStep(c)
  PROVE  SInv'
<1>1. /\ daemon' = daemon /\ recv' = recv
      /\ overtaken' => overtaken
      /\ intact => intact' \/ W!Resetting
      /\ \/ client[c] # "advance" /\ queue' = queue
         \/ /\ client[c] = "advance"
            /\ intact /\ ~overtaken => queue' = Append(queue, W!Stored(arg[c]))
  BY ClientView DEF ClientStep
<1>2. /\ UNCHANGED <<thread, msg, db, dir, clean>>
      /\ expected' = IF clean /\ client[c] = "advance"
                     THEN Put(expected, W!Stored(arg[c])) ELSE expected
  BY DEF ClientStep, storage
<1>3. Sync' /\ ReleasedInv'
  BY <1>1, <1>2 DEF SInv, Sync, ReleasedInv
<1>4. clean => ~W!Resetting /\ intact /\ ~overtaken
  BY DEF SInv, Sync, CleanInv, W!Resetting, InLoop
<1>5. CleanInv'
  <2> SUFFICES ASSUME clean
               PROVE  /\ thread'["WRITE"] \in InLoop /\ intact' /\ ~overtaken'
                      /\ daemon'[Process] \in {"dec", "advance"} =>
                           recv'[Process] \in W!StoredMessages
    BY <1>2, StoredConstant DEF CleanInv, InLoop
  <2>1. intact' /\ ~overtaken'
    BY <1>1, <1>4
  <2>2. /\ thread["WRITE"] \in InLoop
        /\ daemon[Process] \in {"dec", "advance"} =>
             recv[Process] \in W!StoredMessages
    BY DEF SInv, CleanInv
  <2> QED
    BY <1>1, <1>2, <2>1, <2>2
<1>6. InFlight' = InFlight /\ Store' = Store
  BY <1>1, <1>2 DEF InFlight, Store
<1>7. NothingLostOrReordered'
  <2>1. CASE ~clean
    BY <1>2, <2>1 DEF NothingLostOrReordered
  <2>2. CASE clean /\ client[c] # "advance"
    BY <1>1, <1>2, <1>6, <2>2, NothingMoves DEF SInv
  <2>3. CASE clean /\ client[c] = "advance"
    <3> DEFINE r == W!Stored(arg[c])
               p == InFlight \o queue
    <3>1. r \in Records /\ queue \in Seq(Records)
      BY <2>3, DeviceTypes, SameStored
    <3>2. InFlight \in Seq(Records)
      BY <2>3, InFlightTyped DEF SInv
    <3>3. queue' = Append(queue, r)
      BY <1>1, <1>4, <2>3
    <3> HIDE DEF r
    <3>4. InFlight \o Append(queue, r) = Append(p, r)
      <4>1. <<r>> \in Seq(Records)
        BY <3>1
      <4>2. Append(queue, r) = queue \o <<r>>
        BY <3>1, AppendIsConcat
      <4>3. p \in Seq(Records)
        BY <3>1, <3>2, ConcatProperties
      <4>4. Append(p, r) = p \o <<r>>
        BY <3>1, <4>3, AppendIsConcat
      <4>5. p \o <<r>> = InFlight \o (queue \o <<r>>)
        BY <3>1, <3>2, <4>1, ConcatAssociative
      <4> QED
        BY <4>2, <4>4, <4>5
    <3>5. PutAll(Store, Append(p, r)) = Put(PutAll(Store, p), r)
      <4>1. p \in Seq(Records)
        BY <3>1, <3>2, ConcatProperties
      <4> HIDE DEF p
      <4> QED
        BY <3>1, <4>1, PutAllAppend
    <3>6. PutAll(Store, p) = expected
      BY <2>3 DEF SInv, NothingLostOrReordered
    <3>7. expected' = Put(expected, r)
      BY <1>2, <2>3 DEF r
    <3> QED
      BY <1>6, <3>3, <3>4, <3>5, <3>6, <3>7 DEF NothingLostOrReordered
  <2> QED
    BY <2>1, <2>2, <2>3
<1> QED
  BY <1>3, <1>5, <1>7 DEF SInv

\* At the open, what is in the ring is what is expected.
LEMMA DeviceOpensKeeps ==
  ASSUME WP!IInv, UP!IInv, SInv, DeviceOpens
  PROVE  SInv'
<1>1. /\ daemon[Process] = "closed" /\ daemon'[Process] = "poll"
      /\ UNCHANGED <<queue, overtaken, intact, recv>>
  BY DeviceTypes
  DEF DeviceOpens, W!write_persistence_open, W!DaemonGoes, W!history
<1>2. thread'["WRITE"] = "loop" /\ UNCHANGED <<dir, db>>
  BY DEF DeviceOpens, U!OpenDevice, U!locals, U!lmdb
<1>3. /\ clean' = intact
      /\ expected' = IF intact THEN PutAll(Store, queue) ELSE U!Empty
  BY DEF DeviceOpens
<1>4. Sync' /\ ReleasedInv'
  BY <1>1, <1>2 DEF Sync, ReleasedInv, InLoop
<1>5. CleanInv'
  BY <1>1, <1>2, <1>3 DEF SInv, ReleasedInv, CleanInv, InLoop
<1>6. InFlight' = <<>> /\ Store' = Store
  BY <1>1, <1>2 DEF InFlight, Store
<1>7. <<>> \o queue = queue
  BY DeviceTypes, ConcatEmptySeq
<1>8. NothingLostOrReordered'
  BY <1>1, <1>3, <1>6, <1>7 DEF NothingLostOrReordered
<1> QED
  BY <1>4, <1>5, <1>8 DEF SInv

LEMMA OutsideKeeps ==
  ASSUME WP!IInv, UP!IInv, SInv, DeviceRefused \/ Starts \/ Exits \/ Signalled
  PROVE  SInv'
<1>1. UNCHANGED <<daemon, recv, queue, overtaken, intact, clean, expected>>
  BY DEF DeviceRefused, Starts, Exits, Signalled, devices, history
<1>2. CASE Signalled
  <2>1. UNCHANGED <<thread, msg, db, dir>>
    BY <1>2 DEF Signalled, U!stop_execution, U!locals, U!lmdb
  <2>2. InFlight' = InFlight /\ Store' = Store
    BY <1>1, <2>1 DEF InFlight, Store
  <2> QED
    BY <1>1, <2>1, <2>2, NothingMoves
    DEF SInv, Sync, ReleasedInv, CleanInv
<1>3. CASE DeviceRefused \/ Starts \/ Exits
  <2>1. thread["WRITE"] \notin InLoop
    BY <1>3, StorageTypes
    DEF DeviceRefused, Starts, Exits, U!OpenDevice, U!Goes, U!run,
        U!ProcessExits, InLoop
  <2>2. thread'["WRITE"] \notin InLoop
    BY <1>3 DEF DeviceRefused, Starts, Exits, U!run, U!ProcessExits, U!Dies, InLoop
  <2>3. ~clean
    BY <2>1 DEF SInv, CleanInv
  <2> QED
    BY <1>1, <2>1, <2>2, <2>3
    DEF SInv, Sync, ReleasedInv, CleanInv, NothingLostOrReordered, InLoop
<1> QED
  BY <1>2, <1>3

\* A step of the thread outside the kernel, with nothing in flight.
LEMMA LoopKeeps ==
  ASSUME WP!IInv, UP!IInv, SInv, PollTimesOut \/ ThreadStep
  PROVE  SInv'
<1>1. UNCHANGED <<daemon, recv, queue, overtaken, intact, clean, expected>>
  BY DEF PollTimesOut, ThreadStep, devices, history
<1>2. CASE PollTimesOut
  <2>1. /\ thread["WRITE"] = "poll" /\ thread'["WRITE"] = "loop"
        /\ UNCHANGED <<msg, db, dir>> /\ daemon[Process] = "poll"
    BY <1>2, StorageTypes
    DEF PollTimesOut, U!PollTimeout, U!Goes, U!locals, U!lmdb
  <2>2. InFlight' = InFlight /\ Store' = Store
    BY <1>1, <2>1 DEF InFlight, Store
  <2> QED
    BY <1>1, <2>1, <2>2, NothingMoves, StoredConstant
    DEF SInv, Sync, ReleasedInv, CleanInv, InLoop
<1>3. CASE ThreadStep /\ thread["WRITE"] = "loop"
  <2>1. /\ thread'["WRITE"] = "poll" /\ UNCHANGED <<msg, db, dir>>
    BY <1>3, StorageTypes
    DEF ThreadStep, U!lmdb_storage_open, U!OpenFails, U!LoopPolls, U!Goes,
        U!locals, U!lmdb
  <2>2. daemon[Process] = "poll"
    BY <1>3 DEF SInv, Sync, InLoop
  <2>3. InFlight' = InFlight /\ Store' = Store
    BY <1>1, <1>3, <2>1, <2>2 DEF InFlight, Store
  <2> QED
    BY <1>1, <1>3, <2>1, <2>2, <2>3, NothingMoves, StoredConstant
    DEF SInv, Sync, ReleasedInv, CleanInv, InLoop
<1>4. CASE ThreadStep /\ thread["WRITE"] # "loop"
  <2>1. thread["WRITE"] = "open" /\ thread'["WRITE"] \in {"device", "done"}
    BY <1>4, StorageTypes
    DEF ThreadStep, U!lmdb_storage_open, U!OpenFails, U!LoopPolls, U!Goes, U!Dies
  <2>2. ~clean
    BY <2>1 DEF SInv, CleanInv, InLoop
  <2> QED
    BY <1>1, <2>1, <2>2
    DEF SInv, Sync, ReleasedInv, CleanInv, NothingLostOrReordered, InLoop
<1> QED
  BY <1>2, <1>3, <1>4

\* A read moves the oldest message out of the ring; if it finds none, or fails,
\* the bookkeeping ends.
LEMMA ReadGoesOnKeeps ==
  ASSUME WP!IInv, UP!IInv, SInv, ReadGoesOn
  PROVE  SInv'
<1>1. thread["WRITE"] = "poll" /\ UNCHANGED <<thread, msg, db, dir>>
  BY DEF ReadGoesOn, storage
<1>2. Store' = Store
  BY <1>1 DEF Store
<1>3. CASE W!write_persistence_poll(Process) /\ UNCHANGED history
  <2>1. /\ daemon[Process] = "poll" /\ daemon'[Process] = "read"
        /\ UNCHANGED <<recv, queue, overtaken, intact, clean, expected>>
    BY <1>3, DeviceTypes
    DEF W!write_persistence_poll, W!DaemonGoes, W!history, history
  <2>2. InFlight' = InFlight
    BY <1>1, <2>1 DEF InFlight
  <2> QED
    BY <1>1, <1>2, <2>1, <2>2, NothingMoves
    DEF SInv, Sync, ReleasedInv, CleanInv, InLoop
<1>4. CASE daemon[Process] = "dec" /\ W!ReadDec(Process) /\ UNCHANGED history
  <2>1. /\ daemon'[Process] = "advance"
        /\ UNCHANGED <<recv, queue, overtaken, intact, clean, expected>>
    BY <1>4, DeviceTypes DEF W!ReadDec, W!DaemonGoes, W!history, history
  <2>2. InFlight' = InFlight
    BY <1>1, <1>4, <2>1 DEF InFlight
  <2> QED
    BY <1>1, <1>2, <1>4, <2>1, <2>2, NothingMoves, StoredConstant
    DEF SInv, Sync, ReleasedInv, CleanInv, InLoop
<1>5. CASE W!ReadFault(Process) /\ Loses
  <2>1. daemon'[Process] = "err_dec" /\ ~clean'
    BY <1>5, DeviceTypes DEF W!ReadFault, W!DaemonGoes, Loses
  <2> QED
    BY <1>1, <2>1
    DEF SInv, Sync, ReleasedInv, CleanInv, NothingLostOrReordered, InLoop
<1>6. CASE /\ W!ReadCopy(Process)
           /\ IF overtaken' THEN Loses ELSE UNCHANGED history
  <2>1. /\ daemon[Process] = "read" /\ daemon'[Process] = "dec"
        /\ queue' = IF queue = <<>> THEN queue ELSE Tail(queue)
        /\ overtaken' = (intact /\ (overtaken \/ queue = <<>>))
        /\ intact' = intact
    BY <1>6, DeviceTypes DEF W!ReadCopy, W!DaemonGoes
  <2>2. Sync' /\ ReleasedInv'
    BY <1>1, <2>1 DEF Sync, ReleasedInv, InLoop
  <2>3. CASE ~clean'
    BY <2>2, <2>3 DEF SInv, CleanInv, NothingLostOrReordered
  <2>4. CASE clean'
    <3>1. ~overtaken' /\ clean /\ expected' = expected
      BY <1>6, <2>4 DEF Loses, history
    <3>2. intact /\ intact'
      BY <2>1, <3>1 DEF SInv, CleanInv
    <3>3. queue # <<>>
      BY <2>1, <3>1, <3>2
    <3>4. recv'[Process] = Head(queue)
      <4>1. WP!ReadCopy(Process)
        BY <1>6, SameDaemonStep
      <4> QED
        BY <3>2, <3>3, <4>1, DevicesAssumption, WP!CopyIsOldest
        DEF WP!RingAssumption, WP!ValueAssumption, WP!ProcessAssumption
    <3>5. /\ Head(queue) \in W!StoredMessages
          /\ Head(queue) \in Records /\ Tail(queue) \in Seq(Records)
      BY <3>3, DeviceTypes, HeadTailProperties
    <3>6. CleanInv'
      BY <1>1, <3>1, <3>2, <3>4, <3>5, StoredConstant DEF CleanInv, InLoop
    <3>7. InFlight = <<>> /\ InFlight' = <<Head(queue)>>
      BY <1>1, <2>1, <3>4 DEF InFlight
    <3>8. <<Head(queue)>> \o Tail(queue) = queue /\ <<>> \o queue = queue
      BY <3>3, <3>5, DeviceTypes
    <3>9. PutAll(Store, <<>> \o queue) = expected
      BY <3>1, <3>7 DEF SInv, NothingLostOrReordered
    <3>10. NothingLostOrReordered'
      BY <1>2, <2>1, <3>1, <3>3, <3>7, <3>8, <3>9 DEF NothingLostOrReordered
    <3> QED
      BY <2>2, <3>6, <3>10 DEF SInv
  <2> QED
    BY <2>3, <2>4
<1> QED
  BY <1>3, <1>4, <1>5, <1>6 DEF ReadGoesOn

\* The message goes from the receive buffer to storage_put.
LEMMA ReadReturnsKeeps ==
  ASSUME WP!IInv, UP!IInv, SInv, ReadReturns
  PROVE  SInv'
<1>1. /\ thread["WRITE"] = "poll" /\ thread'["WRITE"] = "begin"
      /\ UNCHANGED <<db, dir, clean, expected>>
  BY StorageTypes DEF ReadReturns, U!Receive, U!Goes, U!lmdb, history
<1>2. /\ daemon[Process] \in {"advance", "err_dec"} /\ daemon'[Process] = "poll"
      /\ UNCHANGED <<recv, queue, overtaken, intact>>
  BY DeviceTypes
  DEF ReadReturns, W!ReadAdvance, W!ReadDec, W!DaemonGoes, W!history
<1>3. recv[Process] # Uninit => msg'["WRITE"] = recv[Process]
  BY DEF ReadReturns
<1>4. Sync' /\ ReleasedInv'
  BY <1>1, <1>2 DEF Sync, ReleasedInv, InLoop
<1>5. CleanInv'
  BY <1>1, <1>2 DEF SInv, CleanInv, InLoop
<1>6. Store' = Store
  BY <1>1 DEF Store
<1>7. clean => InFlight' = InFlight
  <2> SUFFICES ASSUME clean
               PROVE  InFlight' = InFlight
    OBVIOUS
  <2>1. daemon[Process] = "advance"
    BY <1>2, DeviceTypes DEF SInv, CleanInv
  <2>2. msg'["WRITE"] = recv[Process]
    BY <1>3, <2>1, SameStored DEF SInv, CleanInv
  <2> QED
    BY <1>1, <1>2, <2>1, <2>2 DEF InFlight
<1>8. NothingLostOrReordered'
  BY <1>1, <1>2, <1>6, <1>7, NothingMoves DEF SInv
<1> QED
  BY <1>4, <1>5, <1>8 DEF SInv

\* The commit puts the message in flight first.
LEMMA CommitKeeps ==
  ASSUME WP!IInv, UP!IInv, SInv, U!lmdb_storage_tx_commit("WRITE"),
         Store' = pending["WRITE"], UNCHANGED history, UNCHANGED devices
  PROVE  NothingLostOrReordered'
<1>1. /\ thread["WRITE"] = "commit" /\ thread'["WRITE"] = "loop"
      /\ txn["WRITE"] = "open"
  BY StorageTypes DEF U!lmdb_storage_tx_commit, U!Returns, U!Goes
<1>2. UNCHANGED <<daemon, queue, clean, expected>>
  BY DEF devices, history
<1>3. daemon[Process] = "poll"
  BY <1>1 DEF SInv, Sync, InLoop
<1>4. InFlight = <<msg["WRITE"]>> /\ InFlight' = <<>>
  BY <1>1, <1>2, <1>3 DEF InFlight
<1>5. msg["WRITE"] \in Records /\ Store' = Put(Store, msg["WRITE"])
  BY <1>1, StorageTypes
<1>6. queue \in Seq(Records)
  BY DeviceTypes
<1>7. PutAll(Store, <<msg["WRITE"]>> \o queue) = PutAll(Put(Store, msg["WRITE"]), queue)
  BY <1>5, <1>6, PutAllFront
<1>8. <<>> \o queue = queue
  BY <1>6
<1> QED
  BY <1>2, <1>4, <1>5, <1>7, <1>8 DEF SInv, NothingLostOrReordered

LEMMA StoreStepKeeps ==
  ASSUME WP!IInv, UP!IInv, SInv, StoreStep
  PROVE  SInv'
<1>1. UNCHANGED <<daemon, recv, queue, overtaken, intact>> /\ UNCHANGED devices
  BY DEF StoreStep, devices
<1>2. thread["WRITE"] \in {"begin", "op", "commit"}
  BY DEF StoreStep, U!lmdb_storage_tx_begin, U!BeginFails, U!lmdb_storage_put,
         U!PutFails, U!lmdb_storage_tx_commit, U!Returns, U!Goes
<1>3. thread'["WRITE"] \in {"op", "commit", "loop"}
  BY StorageTypes
  DEF StoreStep, U!lmdb_storage_tx_begin, U!BeginFails, U!lmdb_storage_put,
      U!PutFails, U!lmdb_storage_tx_commit, U!Returns, U!Goes
<1>4. daemon[Process] = "poll"
  BY <1>2 DEF SInv, Sync, InLoop
<1>5. Sync' /\ ReleasedInv'
  BY <1>1, <1>3, <1>4 DEF Sync, ReleasedInv, InLoop
<1>6. clean' => clean /\ UNCHANGED history
  BY DEF StoreStep, Loses, history
<1>7. CleanInv'
  BY <1>1, <1>3, <1>4, <1>6 DEF SInv, CleanInv, InLoop
<1>8. NothingLostOrReordered'
  <2>1. CASE ~clean'
    BY <2>1 DEF NothingLostOrReordered
  <2>2. CASE clean' /\ (U!lmdb_storage_tx_begin("WRITE") \/ U!lmdb_storage_put)
    <3>1. /\ thread["WRITE"] \in {"begin", "op"}
          /\ thread'["WRITE"] \in {"op", "commit"} /\ UNCHANGED <<msg, db, dir>>
      BY <2>2, StorageTypes
      DEF U!lmdb_storage_tx_begin, U!lmdb_storage_put, U!Goes, U!locals
    <3>2. InFlight' = InFlight /\ Store' = Store
      BY <1>1, <1>4, <3>1 DEF InFlight, Store
    <3>3. UNCHANGED <<clean, expected, queue>>
      BY <1>1, <1>6, <2>2 DEF history
    <3> QED
      BY <3>2, <3>3, NothingMoves DEF SInv
  <2>3. CASE clean' /\ U!lmdb_storage_tx_commit("WRITE") /\ Store' = pending["WRITE"]
    BY <1>1, <1>6, <2>3, CommitKeeps
  <2> QED
    BY <2>1, <2>2, <2>3 DEF StoreStep, Loses
<1> QED
  BY <1>5, <1>7, <1>8 DEF SInv

\* The thread leaves its loop or the process dies: the device is being closed.
LEMMA EndKeeps ==
  ASSUME WP!IInv, UP!IInv, SInv, LoopEnds \/ Dies
  PROVE  SInv'
<1>1. ~clean'
  BY DEF LoopEnds, Dies, Loses
<1>2. thread'["WRITE"] \notin InLoop
  BY StorageTypes
  DEF LoopEnds, Dies, U!lmdb_storage_close, U!ProcessKilled, U!OpenFails,
      U!BeginAsserts, U!CommitAsserts, U!Dies, U!Goes, InLoop
<1>3. /\ daemon'[Process] \in {"closed", "rel_used", "rel_current", "rel_first",
                              "rel_unlock"}
      /\ daemon'[Process] # "rel_used" => UNCHANGED <<daemon, overtaken>>
  BY DeviceTypes DEF LoopEnds, Dies, W!Close, devices
<1> QED
  BY <1>1, <1>2, <1>3
  DEF SInv, Sync, ReleasedInv, CleanInv, NothingLostOrReordered, InLoop

LEMMA ReleaseStepKeeps ==
  ASSUME WP!IInv, UP!IInv, SInv, ReleaseStep
  PROVE  SInv'
<1>1. UNCHANGED <<thread, clean>>
  BY DEF ReleaseStep, storage, history
<1>2. /\ daemon[Process] \in {"rel_used", "rel_current", "rel_first", "rel_unlock"}
      /\ daemon'[Process] \in {"closed", "rel_current", "rel_first", "rel_unlock"}
      /\ daemon[Process] = "rel_used" => ~overtaken'
      /\ daemon[Process] # "rel_used" => overtaken' = overtaken
  BY DeviceTypes
  DEF ReleaseStep, W!ReleaseStep, W!ReleaseUsed, W!ReleaseCurrent,
      W!ReleaseFirst, W!ReleaseUnlock, W!DaemonGoes, W!history
<1>3. thread["WRITE"] \notin InLoop
  BY <1>2 DEF SInv, Sync, InLoop
<1>4. ~clean
  BY <1>3 DEF SInv, CleanInv
<1> QED
  BY <1>1, <1>2, <1>3, <1>4
  DEF SInv, Sync, ReleasedInv, CleanInv, NothingLostOrReordered, InLoop
-----------------------------------------------------------------------------
LEMMA SystemInit == Init => SInv
<1> SUFFICES ASSUME Init
             PROVE  SInv
  OBVIOUS
<1>1. /\ thread["WRITE"] = "dead" /\ daemon[Process] = "closed"
      /\ overtaken = FALSE /\ clean = FALSE
  BY DEF Init, W!Init, U!Init
<1> QED
  BY <1>1 DEF SInv, Sync, ReleasedInv, CleanInv, NothingLostOrReordered, InLoop

LEMMA SystemStep == WP!IInv /\ UP!IInv /\ SInv /\ [Next]_vars => SInv'
<1> SUFFICES ASSUME WP!IInv, UP!IInv, SInv, [Next]_vars
             PROVE  SInv'
  OBVIOUS
<1>1. CASE UNCHANGED vars
  <2>1. UNCHANGED <<thread, msg, db, dir, daemon, recv, queue, overtaken, intact,
                    clean, expected>>
    BY <1>1 DEF vars, devices, storage, history
  <2>2. InFlight' = InFlight /\ Store' = Store
    BY <2>1 DEF InFlight, Store
  <2> QED
    BY <2>1, <2>2, NothingMoves, StoredConstant
    DEF SInv, Sync, ReleasedInv, CleanInv, InLoop
<1>2. CASE Next
  BY <1>2, ClientStepKeeps, DeviceOpensKeeps, OutsideKeeps, LoopKeeps,
     ReadGoesOnKeeps, ReadReturnsKeeps, StoreStepKeeps, EndKeeps, ReleaseStepKeeps
  DEF Next, WriteThread
<1> QED
  BY <1>1, <1>2

\* Between two events that are bound to lose values, no value a client wrote is
\* missing from the database and none is stored out of order: through the
\* ring's wrap-around, write_persistence_read, the hand-over to storage_put and
\* the commit, for any ring size and any number of clients, and across restarts
\* of the daemon that find values in the ring.
THEOREM InOrderWithoutLoss == Spec => []NothingLostOrReordered
<1>1. SInv => NothingLostOrReordered
  BY DEF SInv
<1> QED
  BY <1>1, SystemInit, SystemStep, DevicesInvariant, StorageInvariant, PTL DEF Spec
=============================================================================
