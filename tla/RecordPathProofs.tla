-------------------------- MODULE RecordPathProofs --------------------------
(***************************************************************************)
(* Proofs about RecordPath: whatever values clients write, of whatever     *)
(* length, what a request is answered with is the value last put for its   *)
(* id, cut to the size of a slot.  The inductive invariant says, for each  *)
(* stage of the two paths, which part of the client's value the memory of  *)
(* that stage still holds.                                                 *)
(***************************************************************************)
EXTENDS RecordPath, SequenceTheorems, TLAPS

\* The length of a value once it is cut to the size of a slot.
Cut(v) == IF Len(v) > MAX_PAXOS_VALUE_SIZE THEN MAX_PAXOS_VALUE_SIZE ELSE Len(v)

\* A value of n bytes that came through the receive buffer is v, cut.
Came(n, bytes, v) ==
  /\ n = Cut(v)
  /\ \A k \in 1 .. n : k <= RecvRoom => bytes[k] = v[k]

\* What the struct s answers to a lookup of id i, for which v was put last.
Answers(s, i, v) ==
  /\ s \in Struct /\ s.len = Len(s.value)
  /\ v = Nothing => s.iid = 0 /\ s.len = 0
  /\ v # Nothing => s.iid = i /\ Came(s.len, s.value, v)

Response ==
  [iid : Nat, len : 0 .. MAX_PAXOS_VALUE_SIZE, val : {"kernel"},
   cells : [1 .. MAX_PAXOS_VALUE_SIZE -> Bytes]]

WriteTyped ==
  /\ wstage \in {"idle", "written", "ring", "received", "accepted"}
  /\ wi \in 0 .. totalMessages /\ wbuf \in Struct
  /\ wslot.iid \in IidCells /\ wslot.len \in 0 .. MAX_PAXOS_VALUE_SIZE
  /\ wslot.cells \in [1 .. MAX_PAXOS_VALUE_SIZE -> Bytes]
  /\ wrecv.iid \in IidCells /\ wrecv.len \in 0 .. MAX_PAXOS_VALUE_SIZE
  /\ wrecv.cells \in [1 .. RecvRoom -> Bytes]
  /\ accepted \in Struct /\ accepted.len = Len(accepted.value)
  /\ sent \in Values \cup {<<>>}

\* While a record is on the write path, the memory it is in holds its id and
\* what is left of its value.
WriteInv ==
  /\ wstage # "idle" => sent \in Values
  /\ wstage = "written" => wbuf.iid \in Iids /\ wbuf.value = sent
  /\ wstage = "ring" =>
       /\ wslot.iid \in Iids /\ wslot.len = Cut(sent)
       /\ \A k \in 1 .. wslot.len : wslot.cells[k] = sent[k]
  /\ wstage = "received" =>
       wrecv.iid \in Iids /\ Came(wrecv.len, wrecv.cells, sent)
  /\ wstage = "accepted" =>
       accepted.iid \in Iids /\ Came(accepted.len, accepted.value, sent)

\* LMDB has a record for exactly the ids for which a value was put, under the
\* id that is also in the record, and it is the last one put.
DbInv ==
  /\ stored \in [Iids -> Values \cup {Nothing}]
  /\ \A r \in db :
       /\ r.key \in Iids /\ r.data \in Struct
       /\ stored[r.key] # Nothing /\ Answers(r.data, r.key, stored[r.key])
  /\ \A i \in Iids : stored[i] # Nothing => \E r \in db : r.key = i

ReadTyped ==
  /\ rstage \in {"idle", "ring", "received", "lookedup", "answering", "answered"}
  /\ ri \in Nat /\ current_buf \in Slots /\ rslot \in [Slots -> IidCells]
  /\ rrecv \in [bufferId : Slots, iid : IidCells] /\ out \in Struct
  /\ reply.bufferId \in Slots /\ reply.struct \in Struct
  /\ response \in [Slots -> Response]
  /\ due \in Values \cup {Nothing}

\* From the ring to the response, the request keeps its slot and its id, and
\* once it was looked up, what is on its way back is the answer to it.
ReadInv ==
  /\ rstage # "idle" => rslot[current_buf] \in Iids
  /\ rstage \in {"received", "lookedup", "answering", "answered"} =>
       rrecv.bufferId = current_buf /\ rrecv.iid = rslot[current_buf]
  /\ rstage = "lookedup" => Answers(out, rrecv.iid, due)
  /\ rstage = "answering" =>
       /\ reply.bufferId = current_buf
       /\ Answers(reply.struct, rslot[current_buf], due)
  /\ AnswerIsWhatWasWritten

IInv == WriteTyped /\ WriteInv /\ DbInv /\ ReadTyped /\ ReadInv
-----------------------------------------------------------------------------
(***************************************************************************)
(* The conversions.                                                        *)
(***************************************************************************)
LEMMA ValueTyped ==
  ASSUME NEW v \in Values
  PROVE  v \in Seq(Bytes) /\ v # Nothing /\ Len(v) \in Nat
BY PathAssumption, LenProperties

LEMMA CutBounds ==
  ASSUME NEW v \in Seq(Bytes)
  PROVE  Cut(v) \in 0 .. MAX_PAXOS_VALUE_SIZE /\ Cut(v) <= Len(v)
<1>1. Len(v) \in Nat
  BY LenProperties
<1> QED
  BY <1>1, PathAssumption DEF Cut

LEMMA FunctionIsSeq ==
  ASSUME NEW n \in Nat, NEW f \in [1 .. n -> Bytes]
  PROVE  f \in Seq(Bytes) /\ Len(f) = n
<1>1. f \in Seq(Bytes)
  OBVIOUS
<1>2. DOMAIN f = 1 .. n
  OBVIOUS
<1>3. DOMAIN f = 1 .. Len(f) /\ Len(f) \in Nat
  BY <1>1, LenProperties
<1> QED
  BY <1>1, <1>2, <1>3

\* The first n bytes of a value.
LEMMA Prefix ==
  ASSUME NEW v \in Seq(Bytes), NEW n \in 0 .. Len(v)
  PROVE  /\ SubSeq(v, 1, n) \in Seq(Bytes) /\ Len(SubSeq(v, 1, n)) = n
         /\ \A k \in 1 .. n : SubSeq(v, 1, n)[k] = v[k]
<1>1. Len(v) \in Nat
  BY LenProperties
<1> QED
  BY <1>1

\* memcpy overwrites the first bytes and nothing else, nor beyond the memory.
LEMMA OverCopies ==
  ASSUME NEW n \in Nat, NEW cells \in [1 .. n -> Bytes], NEW v \in Seq(Bytes)
  PROVE  /\ Over(cells, v) \in [1 .. n -> Bytes]
         /\ \A k \in 1 .. n :
              Over(cells, v)[k] = IF k <= Len(v) THEN v[k] ELSE cells[k]
<1>1. DOMAIN v = 1 .. Len(v) /\ Len(v) \in Nat
  BY LenProperties
<1>2. \A k \in 1 .. Len(v) : v[k] \in Bytes
  BY ElementOfSeq
<1>3. DOMAIN cells = 1 .. n
  OBVIOUS
<1>4. \A k \in 1 .. n : (k \in DOMAIN v) <=> (k <= Len(v))
  BY <1>1
<1> QED
  BY <1>1, <1>2, <1>3, <1>4 DEF Over

LEMMA ZeroesTyped ==
  ASSUME NEW n \in Nat
  PROVE  Zeroes(n) \in [1 .. n -> Bytes] /\ \A k \in 1 .. n : Zeroes(n)[k] = 0
BY PathAssumption DEF Zeroes

\* Putting a struct into a buffer changes nothing if its length is right.
LEMMA ToBuffer ==
  ASSUME NEW acc \in Struct, acc.len = Len(acc.value)
  PROVE  paxos_accepted_to_buffer(acc) = acc
<1>1. acc.value \in Seq(Bytes) /\ acc.len \in Nat
  BY DEF Struct
<1>2. acc.len = 0 => acc.value = <<>>
  BY <1>1, EmptySeq
<1>3. (IF acc.len > 0 THEN acc.value ELSE <<>>) = acc.value
  BY <1>1, <1>2
<1>4. [acc EXCEPT !.value = acc.value] = acc
  BY DEF Struct
<1> QED
  BY <1>3, <1>4 DEF paxos_accepted_to_buffer

LEMMA FromBuffer ==
  ASSUME NEW header, header.iid \in Nat, header.len \in Nat,
         NEW value \in Seq(Bytes)
  PROVE  LET s == buffer_to_paxos_accepted(header, value)
         IN  /\ s \in Struct /\ s.iid = header.iid
             /\ s.len = header.len /\ s.value = value
BY DEF buffer_to_paxos_accepted, Struct, Pointers

LEMMA ZeroStructTyped ==
  /\ ZeroStruct \in Struct /\ ZeroStruct.len = Len(ZeroStruct.value)
  /\ ZeroStruct.iid = 0 /\ ZeroStruct.len = 0
<1>1. <<>> \in Seq(Bytes) /\ Len(<<>>) = 0
  OBVIOUS
<1> QED
  BY <1>1 DEF ZeroStruct, Struct, Pointers

LEMMA CompareEqual ==
  ASSUME NEW i \in Nat, NEW j \in Nat
  PROVE  (lmdb_compare_iid(i, j) = 0) <=> (i = j)
BY DEF lmdb_compare_iid

LEMMA IidTyped == Iids \subseteq Nat /\ IidCells \subseteq Nat
BY PathAssumption DEF Iids, IidCells
-----------------------------------------------------------------------------
(***************************************************************************)
(* The inductive invariant holds at the start, and implies the properties. *)
(***************************************************************************)
LEMMA InitEstablishes == Init => IInv
<1> SUFFICES ASSUME Init
             PROVE  IInv
  OBVIOUS
<1> USE PathAssumption, ZeroStructTyped
<1>1. RecvRoom \in Nat /\ 0 \in Slots /\ 0 \in IidCells
  BY DEF Slots, IidCells
<1>2. /\ Zeroes(MAX_PAXOS_VALUE_SIZE) \in [1 .. MAX_PAXOS_VALUE_SIZE -> Bytes]
      /\ Zeroes(RecvRoom) \in [1 .. RecvRoom -> Bytes]
  BY <1>1, ZeroesTyped
<1>3. WriteTyped
  BY <1>1, <1>2 DEF Init, WriteTyped
<1>4. WriteInv
  BY DEF Init, WriteInv
<1>5. DbInv
  BY DEF Init, DbInv
<1>6. response \in [Slots -> Response]
  BY <1>2 DEF Init, Response
<1>7. ReadTyped
  BY <1>1, <1>6 DEF Init, ReadTyped, NoReply
<1>8. ReadInv
  BY DEF Init, ReadInv, AnswerIsWhatWasWritten
<1> QED
  BY <1>3, <1>4, <1>5, <1>7, <1>8 DEF IInv

LEMMA IInvImpliesTypeOK == IInv => TypeOK
<1> SUFFICES ASSUME IInv
             PROVE  TypeOK
  OBVIOUS
<1>1. \A s \in Slots :
        /\ response[s].len \in 0 .. MAX_PAXOS_VALUE_SIZE
        /\ response[s].cells \in [1 .. MAX_PAXOS_VALUE_SIZE -> Bytes]
  BY DEF IInv, ReadTyped, Response
<1> QED
  BY <1>1 DEF IInv, TypeOK, WriteTyped, DbInv, ReadTyped

-----------------------------------------------------------------------------
(***************************************************************************)
(* The write path.                                                         *)
(***************************************************************************)
LEMMA WriteKeepsRead ==
  ASSUME ReadTyped, ReadInv, UNCHANGED read
  PROVE  ReadTyped' /\ ReadInv'
BY DEF read, ReadTyped, ReadInv, AnswerIsWhatWasWritten, Answers, Came, Cut

LEMMA ReadKeepsWrite ==
  ASSUME WriteTyped, WriteInv, UNCHANGED write
  PROVE  WriteTyped' /\ WriteInv'
BY DEF write, WriteTyped, WriteInv, Came, Cut

LEMMA KeepsDb ==
  ASSUME DbInv, UNCHANGED <<db, stored>>
  PROVE  DbInv'
BY DEF DbInv, Answers, Came, Cut

LEMMA writeProcessStep ==
  ASSUME IInv, writeProcess
  PROVE  IInv'
<1>1. PICK v \in Values :
        /\ wbuf' = paxos_accepted_to_buffer(
                     [iid |-> wi, len |-> Len(v), val |-> "client", value |-> v])
        /\ sent' = v
  BY DEF writeProcess
<1>2. wi \in Iids /\ wi \in Nat /\ wi + 1 \in 0 .. totalMessages
  BY PathAssumption DEF IInv, WriteTyped, writeProcess, Iids
<1> DEFINE acc == [iid |-> wi, len |-> Len(v), val |-> "client", value |-> v]
<1>3. acc \in Struct /\ acc.len = Len(acc.value)
  BY <1>2, ValueTyped DEF Struct, Pointers
<1>4. wbuf' = acc
  BY <1>1, <1>3, ToBuffer
<1>5. wbuf' \in Struct /\ wbuf'.iid \in Iids /\ wbuf'.value = sent'
  BY <1>1, <1>2, <1>3, <1>4
<1>6. WriteTyped'
  BY <1>1, <1>2, <1>5 DEF IInv, WriteTyped, writeProcess
<1>7. WriteInv'
  BY <1>1, <1>5 DEF WriteInv, writeProcess
<1>8. DbInv' /\ ReadTyped' /\ ReadInv'
  BY KeepsDb, WriteKeepsRead DEF IInv, writeProcess
<1> QED
  BY <1>6, <1>7, <1>8 DEF IInv

LEMMA writeAgainStep ==
  ASSUME IInv, writeAgain
  PROVE  IInv'
<1>1. WriteTyped'
  BY PathAssumption DEF IInv, WriteTyped, writeAgain
<1>2. WriteInv'
  BY DEF IInv, WriteInv, writeAgain
<1>3. DbInv' /\ ReadTyped' /\ ReadInv'
  BY KeepsDb, WriteKeepsRead DEF IInv, writeAgain
<1> QED
  BY <1>1, <1>2, <1>3 DEF IInv

LEMMA write_persistence_add_messageStep ==
  ASSUME IInv, write_persistence_add_message
  PROVE  IInv'
<1> USE PathAssumption
<1> DEFINE size == IF Len(wbuf.value) > MAX_PAXOS_VALUE_SIZE
                   THEN MAX_PAXOS_VALUE_SIZE ELSE Len(wbuf.value)
           kept == SubSeq(wbuf.value, 1, size)
<1>1. /\ wbuf.iid \in Iids /\ wbuf.value = sent /\ sent \in Values
      /\ sent \in Seq(Bytes) /\ Len(sent) \in Nat
  BY ValueTyped DEF IInv, WriteInv, write_persistence_add_message
<1>2. size = Cut(sent)
  BY <1>1 DEF Cut
<1>3. size \in 0 .. MAX_PAXOS_VALUE_SIZE /\ size \in 0 .. Len(sent)
  BY <1>1, <1>2, CutBounds
<1>4. /\ wslot'.iid = wbuf.iid /\ wslot'.len = size
      /\ wslot'.cells = Over(Zeroes(MAX_PAXOS_VALUE_SIZE), kept)
  BY DEF write_persistence_add_message
<1> HIDE DEF size
<1>5. /\ kept \in Seq(Bytes) /\ Len(kept) = size
      /\ \A k \in 1 .. size : kept[k] = sent[k]
  BY <1>1, <1>3, Prefix
<1> HIDE DEF kept
<1>6. /\ wslot'.cells \in [1 .. MAX_PAXOS_VALUE_SIZE -> Bytes]
      /\ \A k \in 1 .. MAX_PAXOS_VALUE_SIZE :
           k <= size => wslot'.cells[k] = kept[k]
  <2>1. Zeroes(MAX_PAXOS_VALUE_SIZE) \in [1 .. MAX_PAXOS_VALUE_SIZE -> Bytes]
    BY ZeroesTyped
  <2>2. LET copy == Over(Zeroes(MAX_PAXOS_VALUE_SIZE), kept)
        IN  /\ copy \in [1 .. MAX_PAXOS_VALUE_SIZE -> Bytes]
            /\ \A k \in 1 .. MAX_PAXOS_VALUE_SIZE :
                 copy[k] = IF k <= Len(kept) THEN kept[k]
                           ELSE Zeroes(MAX_PAXOS_VALUE_SIZE)[k]
    BY <1>5, <2>1, OverCopies
  <2> QED
    BY <1>4, <1>5, <2>2
<1>7. \A k \in 1 .. wslot'.len : wslot'.cells[k] = sent[k]
  BY <1>3, <1>4, <1>5, <1>6
<1>8. UNCHANGED <<wi, wrecv, accepted, sent>> /\ wbuf' = ZeroStruct
      /\ wstage' = "ring"
  BY DEF write_persistence_add_message
<1>9. WriteTyped'
  BY <1>1, <1>3, <1>4, <1>6, <1>8, ZeroStructTyped
  DEF IInv, WriteTyped, IidCells
<1>10. WriteInv'
  BY <1>1, <1>2, <1>4, <1>7, <1>8 DEF WriteInv, Cut
<1>11. DbInv' /\ ReadTyped' /\ ReadInv'
  BY KeepsDb, WriteKeepsRead DEF IInv, write_persistence_add_message
<1> QED
  BY <1>9, <1>10, <1>11 DEF IInv

LEMMA write_persistence_readStep ==
  ASSUME IInv, write_persistence_read
  PROVE  IInv'
<1> USE PathAssumption
<1> DEFINE kept == SubSeq(wslot.cells, 1, wslot.len)
<1>1. /\ wslot.iid \in Iids /\ wslot.len = Cut(sent) /\ sent \in Values
      /\ \A k \in 1 .. wslot.len : wslot.cells[k] = sent[k]
  BY DEF IInv, WriteInv, write_persistence_read
<1>2. /\ wslot.cells \in Seq(Bytes) /\ Len(wslot.cells) = MAX_PAXOS_VALUE_SIZE
      /\ wslot.len \in 0 .. MAX_PAXOS_VALUE_SIZE
      /\ wrecv.cells \in [1 .. RecvRoom -> Bytes]
  BY FunctionIsSeq DEF IInv, WriteTyped
<1>3. /\ kept \in Seq(Bytes) /\ Len(kept) = wslot.len
      /\ \A k \in 1 .. wslot.len : kept[k] = wslot.cells[k]
  BY <1>2, Prefix
<1>4. /\ wrecv'.iid = wslot.iid /\ wrecv'.len = wslot.len
      /\ wrecv'.cells = Over(wrecv.cells, kept)
  BY DEF write_persistence_read
<1> HIDE DEF kept
<1>5. /\ wrecv'.cells \in [1 .. RecvRoom -> Bytes]
      /\ \A k \in 1 .. RecvRoom : k <= wslot.len => wrecv'.cells[k] = kept[k]
  <2>1. RecvRoom \in Nat
    OBVIOUS
  <2>2. LET copy == Over(wrecv.cells, kept)
        IN  /\ copy \in [1 .. RecvRoom -> Bytes]
            /\ \A k \in 1 .. RecvRoom :
                 copy[k] = IF k <= Len(kept) THEN kept[k] ELSE wrecv.cells[k]
    BY <1>2, <1>3, <2>1, OverCopies
  <2> QED
    BY <1>3, <1>4, <2>2
<1>6. Came(wrecv'.len, wrecv'.cells, sent)
  BY <1>1, <1>2, <1>3, <1>4, <1>5 DEF Came
<1>7. UNCHANGED <<wi, wbuf, wslot, accepted, sent>> /\ wstage' = "received"
  BY DEF write_persistence_read
<1>8. WriteTyped'
  BY <1>1, <1>2, <1>4, <1>5, <1>7 DEF IInv, WriteTyped, IidCells
<1>9. WriteInv'
  BY <1>1, <1>4, <1>6, <1>7 DEF WriteInv, Came, Cut
<1>10. DbInv' /\ ReadTyped' /\ ReadInv'
  BY KeepsDb, WriteKeepsRead DEF IInv, write_persistence_read
<1> QED
  BY <1>8, <1>9, <1>10 DEF IInv

LEMMA process_write_messageStep ==
  ASSUME IInv, process_write_message
  PROVE  IInv'
<1> USE PathAssumption
<1>1. PICK past \in [RecvRoom + 1 .. wrecv.len -> Bytes] :
        accepted' = buffer_to_paxos_accepted(wrecv,
          [k \in 1 .. wrecv.len |->
             IF k <= RecvRoom THEN wrecv.cells[k] ELSE past[k]])
  BY DEF process_write_message
<1> DEFINE value == [k \in 1 .. wrecv.len |->
                       IF k <= RecvRoom THEN wrecv.cells[k] ELSE past[k]]
<1>2. /\ wrecv.iid \in Iids /\ sent \in Values
      /\ Came(wrecv.len, wrecv.cells, sent)
  BY DEF IInv, WriteInv, process_write_message
<1>3. /\ wrecv.len \in Nat /\ wrecv.cells \in [1 .. RecvRoom -> Bytes]
      /\ wrecv.iid \in Nat
  <2>1. /\ wrecv.len \in 0 .. MAX_PAXOS_VALUE_SIZE
        /\ wrecv.cells \in [1 .. RecvRoom -> Bytes]
    BY DEF IInv, WriteTyped
  <2>2. wrecv.iid \in Nat
    BY <1>2, IidTyped
  <2> QED
    BY <2>1, <2>2
<1>4. value \in [1 .. wrecv.len -> Bytes]
  <2> SUFFICES ASSUME NEW k \in 1 .. wrecv.len
               PROVE  (IF k <= RecvRoom THEN wrecv.cells[k] ELSE past[k]) \in Bytes
    OBVIOUS
  <2>1. CASE k <= RecvRoom
    BY <1>3, <2>1
  <2>2. CASE ~ (k <= RecvRoom)
    <3>1. k \in RecvRoom + 1 .. wrecv.len
      BY <1>3, <2>2
    <3> QED
      BY <2>2, <3>1
  <2> QED
    BY <2>1, <2>2
<1>5. \A k \in 1 .. wrecv.len : k <= RecvRoom => value[k] = wrecv.cells[k]
  OBVIOUS
<1>6. accepted' = buffer_to_paxos_accepted(wrecv, value)
  BY <1>1
<1> HIDE DEF value
<1>7. value \in Seq(Bytes) /\ Len(value) = wrecv.len
  BY <1>3, <1>4, FunctionIsSeq
<1>8. /\ accepted' \in Struct /\ accepted'.iid = wrecv.iid
      /\ accepted'.len = wrecv.len /\ accepted'.value = value
  BY <1>3, <1>6, <1>7, FromBuffer
<1>9. Came(accepted'.len, accepted'.value, sent)
  BY <1>2, <1>5, <1>8 DEF Came
<1>10. UNCHANGED <<wi, wbuf, wslot, wrecv, sent>> /\ wstage' = "accepted"
  BY DEF process_write_message
<1>11. WriteTyped'
  BY <1>7, <1>8, <1>10 DEF IInv, WriteTyped
<1>12. WriteInv'
  BY <1>2, <1>8, <1>9, <1>10 DEF WriteInv, Came, Cut
<1>13. DbInv' /\ ReadTyped' /\ ReadInv'
  BY KeepsDb, WriteKeepsRead DEF IInv, process_write_message
<1> QED
  BY <1>11, <1>12, <1>13 DEF IInv

LEMMA lmdb_storage_putStep ==
  ASSUME IInv, lmdb_storage_put
  PROVE  IInv'
<1> DEFINE new == [key |-> accepted.iid, data |-> accepted]
<1>1. /\ accepted.iid \in Iids /\ Came(accepted.len, accepted.value, sent)
      /\ sent \in Values /\ sent # Nothing
  BY ValueTyped DEF IInv, WriteInv, lmdb_storage_put
<1>2. accepted \in Struct /\ accepted.len = Len(accepted.value)
  BY DEF IInv, WriteTyped
<1>3. paxos_accepted_to_buffer(accepted) = accepted
  BY <1>2, ToBuffer
<1>4. Answers(accepted, accepted.iid, sent)
  BY <1>1, <1>2 DEF Answers
<1>5. \A r \in db : (lmdb_compare_iid(r.key, accepted.iid) # 0)
                       <=> (r.key # accepted.iid)
  <2> SUFFICES ASSUME NEW r \in db
               PROVE  (lmdb_compare_iid(r.key, accepted.iid) # 0)
                        <=> (r.key # accepted.iid)
    OBVIOUS
  <2>1. r.key \in Nat /\ accepted.iid \in Nat
    BY <1>1, IidTyped DEF IInv, DbInv
  <2> QED
    BY <2>1, CompareEqual
<1>6. db' = {r \in db : r.key # accepted.iid} \cup {new}
  BY <1>3, <1>5 DEF lmdb_storage_put
<1>7. /\ stored' = [stored EXCEPT ![accepted.iid] = sent]
      /\ stored \in [Iids -> Values \cup {Nothing}]
  BY DEF IInv, DbInv, lmdb_storage_put
<1>8. /\ stored' \in [Iids -> Values \cup {Nothing}]
      /\ stored'[accepted.iid] = sent
      /\ \A i \in Iids : i # accepted.iid => stored'[i] = stored[i]
  BY <1>1, <1>7
<1>9. \A r \in db' :
        /\ r.key \in Iids /\ r.data \in Struct
        /\ stored'[r.key] # Nothing /\ Answers(r.data, r.key, stored'[r.key])
  <2> SUFFICES ASSUME NEW r \in db'
               PROVE  /\ r.key \in Iids /\ r.data \in Struct
                      /\ stored'[r.key] # Nothing
                      /\ Answers(r.data, r.key, stored'[r.key])
    OBVIOUS
  <2>1. CASE r = new
    <3>1. r.key = accepted.iid /\ r.data = accepted
      BY <2>1
    <3> QED
      BY <1>1, <1>2, <1>4, <1>8, <3>1
  <2>2. CASE r \in db /\ r.key # accepted.iid
    <3>1. /\ r.key \in Iids /\ r.data \in Struct
          /\ stored[r.key] # Nothing /\ Answers(r.data, r.key, stored[r.key])
      BY <2>2 DEF IInv, DbInv
    <3>2. stored'[r.key] = stored[r.key]
      BY <1>8, <2>2, <3>1
    <3> QED
      BY <3>1, <3>2
  <2> QED
    BY <1>6, <2>1, <2>2
<1>10. \A i \in Iids : stored'[i] # Nothing => \E r \in db' : r.key = i
  <2> SUFFICES ASSUME NEW i \in Iids, stored'[i] # Nothing
               PROVE  \E r \in db' : r.key = i
    OBVIOUS
  <2>1. CASE i = accepted.iid
    <3>1. new \in db' /\ new.key = i
      BY <1>6, <2>1
    <3> QED
      BY <3>1
  <2>2. CASE i # accepted.iid
    <3>1. PICK r \in db : r.key = i
      BY <1>8, <2>2 DEF IInv, DbInv
    <3> QED
      BY <1>6, <2>2, <3>1
  <2> QED
    BY <2>1, <2>2
<1>11. DbInv'
  BY <1>8, <1>9, <1>10 DEF DbInv, Answers, Came, Cut
<1>12. /\ UNCHANGED <<wi, wbuf, wslot, wrecv>> /\ wstage' = "idle"
       /\ accepted' = ZeroStruct /\ sent' = <<>>
  BY DEF lmdb_storage_put
<1>13. WriteTyped'
  BY <1>12, ZeroStructTyped DEF IInv, WriteTyped
<1>14. WriteInv'
  BY <1>12 DEF WriteInv
<1>15. ReadTyped' /\ ReadInv'
  BY WriteKeepsRead DEF IInv, lmdb_storage_put
<1> QED
  BY <1>11, <1>13, <1>14, <1>15 DEF IInv
-----------------------------------------------------------------------------
(***************************************************************************)
(* The read path.                                                          *)
(***************************************************************************)
LEMMA readProcessStep ==
  ASSUME IInv, readProcess
  PROVE  IInv'
<1>1. ri \in Iids /\ ri + 1 \in Nat
  BY PathAssumption DEF IInv, ReadTyped, readProcess, Iids
<1>2. current_buf \in Slots /\ rslot \in [Slots -> IidCells]
  BY DEF IInv, ReadTyped
<1>3. rslot' \in [Slots -> IidCells] /\ rslot'[current_buf] = ri
  BY <1>1, <1>2 DEF readProcess, IidCells
<1>4. ReadTyped'
  BY <1>1, <1>3 DEF IInv, ReadTyped, readProcess
<1>5. ReadInv'
  BY <1>1, <1>3 DEF IInv, ReadInv, readProcess, AnswerIsWhatWasWritten
<1>6. DbInv' /\ WriteTyped' /\ WriteInv'
  BY KeepsDb, ReadKeepsWrite DEF IInv, readProcess
<1> QED
  BY <1>4, <1>5, <1>6 DEF IInv

LEMMA readAgainStep ==
  ASSUME IInv, readAgain
  PROVE  IInv'
<1>1. ReadTyped'
  BY DEF IInv, ReadTyped, readAgain
<1>2. ReadInv'
  BY DEF IInv, ReadInv, readAgain, AnswerIsWhatWasWritten
<1>3. DbInv' /\ WriteTyped' /\ WriteInv'
  BY KeepsDb, ReadKeepsWrite DEF IInv, readAgain
<1> QED
  BY <1>1, <1>2, <1>3 DEF IInv

LEMMA read_persistence_readStep ==
  ASSUME IInv, read_persistence_read
  PROVE  IInv'
<1>1. /\ current_buf \in Slots /\ rslot[current_buf] \in Iids
      /\ rslot[current_buf] \in IidCells
  BY DEF IInv, ReadTyped, ReadInv, read_persistence_read, IidCells
<1>2. /\ rrecv' \in [bufferId : Slots, iid : IidCells]
      /\ rrecv'.bufferId = current_buf /\ rrecv'.iid = rslot[current_buf]
  BY <1>1 DEF read_persistence_read
<1>3. ReadTyped'
  BY <1>2 DEF IInv, ReadTyped, read_persistence_read
<1>4. ReadInv'
  BY <1>1, <1>2 DEF ReadInv, read_persistence_read, AnswerIsWhatWasWritten
<1>5. DbInv' /\ WriteTyped' /\ WriteInv'
  BY KeepsDb, ReadKeepsWrite DEF IInv, read_persistence_read
<1> QED
  BY <1>3, <1>4, <1>5 DEF IInv

LEMMA storage_getStep ==
  ASSUME IInv, storage_get
  PROVE  IInv'
<1> DEFINE found == {r \in db : lmdb_compare_iid(r.key, rrecv.iid) = 0}
<1>1. /\ rrecv.iid \in Iids /\ rrecv.iid \in Nat
      /\ rrecv.bufferId = current_buf /\ rrecv.iid = rslot[current_buf]
  BY IidTyped DEF IInv, ReadInv, storage_get
<1>2. \A r \in db : (lmdb_compare_iid(r.key, rrecv.iid) = 0)
                       <=> (r.key = rrecv.iid)
  <2> SUFFICES ASSUME NEW r \in db
               PROVE  (lmdb_compare_iid(r.key, rrecv.iid) = 0)
                        <=> (r.key = rrecv.iid)
    OBVIOUS
  <2>1. r.key \in Nat
    BY IidTyped DEF IInv, DbInv
  <2> QED
    BY <1>1, <2>1, CompareEqual
<1>3. /\ due' = stored[rrecv.iid]
      /\ due' \in Values \cup {Nothing}
  BY <1>1 DEF IInv, DbInv, storage_get
<1>4. Answers(out', rrecv.iid, due')
  <2>1. CASE found = {}
    <3>1. due' = Nothing
      BY <1>1, <1>2, <1>3, <2>1 DEF IInv, DbInv
    <3>2. out' = ZeroStruct
      BY <2>1 DEF storage_get
    <3> QED
      BY <3>1, <3>2, ZeroStructTyped DEF Answers
  <2>2. CASE found # {}
    <3>1. PICK r \in found :
            out' = buffer_to_paxos_accepted(r.data, r.data.value)
      BY <2>2 DEF storage_get
    <3>2. r \in db /\ r.key = rrecv.iid
      BY <1>2, <3>1
    <3>3. due' # Nothing /\ Answers(r.data, rrecv.iid, due')
      BY <1>3, <3>2 DEF IInv, DbInv
    <3>4. /\ r.data.iid \in Nat /\ r.data.len \in Nat
          /\ r.data.value \in Seq(Bytes)
      BY <3>3 DEF Answers, Struct
    <3>5. /\ out' \in Struct /\ out'.iid = r.data.iid
          /\ out'.len = r.data.len /\ out'.value = r.data.value
      BY <3>1, <3>4, FromBuffer
    <3> QED
      BY <3>3, <3>5 DEF Answers
  <2> QED
    BY <2>1, <2>2
<1>5. /\ rstage' = "lookedup"
      /\ UNCHANGED <<ri, current_buf, rslot, rrecv, reply, response>>
  BY DEF storage_get
<1>6. ReadTyped'
  BY <1>3, <1>4, <1>5 DEF IInv, ReadTyped, Answers
<1>7. ReadInv'
  BY <1>1, <1>4, <1>5 DEF ReadInv, AnswerIsWhatWasWritten, Answers, Came, Cut
<1>8. DbInv' /\ WriteTyped' /\ WriteInv'
  BY KeepsDb, ReadKeepsWrite DEF IInv, storage_get
<1> QED
  BY <1>6, <1>7, <1>8 DEF IInv

LEMMA process_read_messageStep ==
  ASSUME IInv, process_read_message
  PROVE  IInv'
<1>1. /\ rrecv.bufferId = current_buf /\ rrecv.iid = rslot[current_buf]
      /\ rslot[current_buf] \in Iids /\ current_buf \in Slots
      /\ Answers(out, rslot[current_buf], due)
  BY DEF IInv, ReadTyped, ReadInv, process_read_message
<1>2. paxos_accepted_to_buffer(out) = out
  BY <1>1, ToBuffer DEF Answers
<1>3. reply'.bufferId = current_buf /\ reply'.struct = out
  BY <1>1, <1>2 DEF process_read_message, client_value_to_buffer
<1>4. /\ rstage' = "answering" /\ out' = ZeroStruct
      /\ UNCHANGED <<ri, current_buf, rslot, rrecv, response, due>>
  BY DEF process_read_message
<1>5. ReadTyped'
  BY <1>1, <1>3, <1>4, ZeroStructTyped DEF IInv, ReadTyped
<1>6. ReadInv'
  BY <1>1, <1>3, <1>4 DEF ReadInv, AnswerIsWhatWasWritten, Answers, Came, Cut
<1>7. DbInv' /\ WriteTyped' /\ WriteInv'
  BY KeepsDb, ReadKeepsWrite DEF IInv, process_read_message
<1> QED
  BY <1>5, <1>6, <1>7 DEF IInv

LEMMA read_persistence_writeStep ==
  ASSUME IInv, read_persistence_write
  PROVE  IInv'
<1> DEFINE acc == reply.struct
           copy == Over(Zeroes(MAX_PAXOS_VALUE_SIZE), acc.value)
           n == IF due = Nothing THEN 0 ELSE Cut(due)
           new == [iid |-> acc.iid, len |-> acc.len, val |-> "kernel",
                   cells |-> copy]
<1>1. /\ reply.bufferId = current_buf /\ current_buf \in Slots
      /\ rrecv.bufferId = current_buf /\ rrecv.iid = rslot[current_buf]
      /\ rslot[current_buf] \in Iids
      /\ Answers(acc, rslot[current_buf], due)
      /\ response \in [Slots -> Response] /\ due \in Values \cup {Nothing}
  BY DEF IInv, ReadTyped, ReadInv, read_persistence_write
<1>2. response[current_buf].val = "kernel"
  BY <1>1 DEF Response
<1>3. response' = [response EXCEPT ![current_buf] = new]
  BY <1>1, <1>2 DEF read_persistence_write
<1>4. acc \in Struct /\ acc.len = Len(acc.value) /\ acc.iid \in Nat
      /\ acc.value \in Seq(Bytes)
  BY <1>1 DEF Answers, Struct
<1>5. /\ acc.len = n /\ n \in 0 .. MAX_PAXOS_VALUE_SIZE
      /\ acc.iid = IF due = Nothing THEN 0 ELSE rslot[current_buf]
      /\ due # Nothing =>
           \A k \in 1 .. n : k <= RecvRoom => acc.value[k] = due[k]
  <2>1. CASE due = Nothing
    BY <1>1, <2>1, PathAssumption DEF Answers
  <2>2. CASE due # Nothing
    <3>1. due \in Seq(Bytes)
      BY <1>1, <2>2, ValueTyped
    <3>2. Cut(due) \in 0 .. MAX_PAXOS_VALUE_SIZE
      BY <3>1, CutBounds
    <3> QED
      BY <1>1, <2>2, <3>2 DEF Answers, Came
  <2> QED
    BY <2>1, <2>2
<1>6. /\ copy \in [1 .. MAX_PAXOS_VALUE_SIZE -> Bytes]
      /\ \A k \in 1 .. MAX_PAXOS_VALUE_SIZE :
           copy[k] = IF k <= acc.len THEN acc.value[k] ELSE 0
  <2>1. /\ MAX_PAXOS_VALUE_SIZE \in Nat
        /\ Zeroes(MAX_PAXOS_VALUE_SIZE) \in [1 .. MAX_PAXOS_VALUE_SIZE -> Bytes]
        /\ \A k \in 1 .. MAX_PAXOS_VALUE_SIZE : Zeroes(MAX_PAXOS_VALUE_SIZE)[k] = 0
    BY PathAssumption, ZeroesTyped
  <2>2. /\ copy \in [1 .. MAX_PAXOS_VALUE_SIZE -> Bytes]
        /\ \A k \in 1 .. MAX_PAXOS_VALUE_SIZE :
             copy[k] = IF k <= Len(acc.value) THEN acc.value[k]
                       ELSE Zeroes(MAX_PAXOS_VALUE_SIZE)[k]
    BY <1>4, <2>1, OverCopies
  <2> QED
    BY <1>4, <2>1, <2>2
<1> HIDE DEF copy, acc, n
<1>7. new \in Response /\ new.iid = acc.iid /\ new.len = acc.len
      /\ new.cells = copy
  BY <1>4, <1>5, <1>6 DEF Response
<1> HIDE DEF new
<1>8. response' \in [Slots -> Response] /\ response'[current_buf] = new
  BY <1>1, <1>3, <1>7
<1>9. /\ rstage' = "answered" /\ reply' = NoReply
      /\ UNCHANGED <<ri, current_buf, rslot, rrecv, out, due>>
  BY DEF read_persistence_write
<1>10. ReadTyped'
  <2>1. reply'.bufferId \in Slots /\ reply'.struct \in Struct
    BY <1>9, ZeroStructTyped, PathAssumption DEF NoReply, Slots
  <2> QED
    BY <1>8, <1>9, <2>1 DEF IInv, ReadTyped
<1>11. \A k \in 1 .. MAX_PAXOS_VALUE_SIZE :
         \/ k <= n /\ (k <= RecvRoom => copy[k] = due[k])
         \/ k > n /\ copy[k] = 0
  <2> SUFFICES ASSUME NEW k \in 1 .. MAX_PAXOS_VALUE_SIZE
               PROVE  \/ k <= n /\ (k <= RecvRoom => copy[k] = due[k])
                      \/ k > n /\ copy[k] = 0
    OBVIOUS
  <2>1. n \in Nat /\ k \in Nat
    BY <1>5, PathAssumption
  <2>2. CASE k > n
    BY <1>5, <1>6, <2>1, <2>2
  <2>3. CASE k <= n
    <3>1. due # Nothing
      BY <2>1, <2>3 DEF n
    <3>2. k \in 1 .. n /\ copy[k] = acc.value[k]
      BY <1>5, <1>6, <2>1, <2>3
    <3> QED
      BY <1>5, <2>3, <3>1, <3>2
  <2> QED
    BY <2>1, <2>2, <2>3
<1>12. AnswerIsWhatWasWritten'
  <2>1. n = IF due = Nothing THEN 0
            ELSE IF Len(due) > MAX_PAXOS_VALUE_SIZE
            THEN MAX_PAXOS_VALUE_SIZE ELSE Len(due)
    BY DEF n, Cut
  <2> QED
    BY <1>5, <1>7, <1>8, <1>9, <1>11, <2>1 DEF AnswerIsWhatWasWritten
<1>13. ReadInv'
  BY <1>1, <1>9, <1>12 DEF ReadInv
<1>14. DbInv' /\ WriteTyped' /\ WriteInv'
  BY KeepsDb, ReadKeepsWrite DEF IInv, read_persistence_write
<1> QED
  BY <1>10, <1>13, <1>14 DEF IInv

LEMMA NextRequestStep ==
  ASSUME IInv, NextRequest
  PROVE  IInv'
<1>1. (current_buf + 1) % BUFFER_SIZE \in Slots
  BY PathAssumption DEF IInv, ReadTyped, Slots
<1>2. ReadTyped'
  BY <1>1 DEF IInv, ReadTyped, NextRequest
<1>3. ReadInv'
  BY DEF ReadInv, NextRequest, AnswerIsWhatWasWritten
<1>4. DbInv' /\ WriteTyped' /\ WriteInv'
  BY KeepsDb, ReadKeepsWrite DEF IInv, NextRequest
<1> QED
  BY <1>2, <1>3, <1>4 DEF IInv
-----------------------------------------------------------------------------
LEMMA Inductive == IInv /\ [Next]_vars => IInv'
<1> SUFFICES ASSUME IInv, [Next]_vars
             PROVE  IInv'
  OBVIOUS
<1>1. CASE UNCHANGED vars
  <2>1. UNCHANGED write /\ UNCHANGED <<db, stored>> /\ UNCHANGED read
    BY <1>1 DEF vars
  <2> QED
    BY <2>1, ReadKeepsWrite, KeepsDb, WriteKeepsRead DEF IInv
<1>2. CASE Next
  BY <1>2, writeProcessStep, writeAgainStep, write_persistence_add_messageStep,
     write_persistence_readStep, process_write_messageStep, lmdb_storage_putStep,
     readProcessStep, readAgainStep, read_persistence_readStep, storage_getStep,
     process_read_messageStep, read_persistence_writeStep, NextRequestStep
  DEF Next
<1> QED
  BY <1>1, <1>2

LEMMA Invariance == Spec => []IInv
BY InitEstablishes, Inductive, PTL DEF Spec

\* Every variable of the two paths keeps its type, for values and buffers of any
\* size: no length in a slot or a response exceeds the memory behind it, although
\* write_persistence_add_message computes it anew and read_persistence_write
\* takes it from the daemon's buffer.  In the receive buffer the length is only
\* bounded by the slot's size, which can be more than the buffer has left.
THEOREM TypeCorrect == Spec => []TypeOK
BY Invariance, IInvImpliesTypeOK, PTL

\* What read_persistence_write leaves in a callback's response is the value
\* last put for the id of the request, cut to the size of a slot and zeroed
\* behind, through every conversion on the way and every reuse of the memory
\* in between; or length 0 if none was put.
THEOREM AnswersAreWhatWasWritten == Spec => []AnswerIsWhatWasWritten
<1>1. IInv => AnswerIsWhatWasWritten
  BY DEF IInv, ReadInv
<1> QED
  BY <1>1, Invariance, PTL
=============================================================================
