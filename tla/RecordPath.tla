----------------------------- MODULE RecordPath -----------------------------
(***************************************************************************)
(* What the conversions on the way do to a record.  The test driver        *)
(* (testekerneldevice.c) makes a buffer of a paxos_accepted and writes it  *)
(* to the write-test device; it is copied into a slot of the ring, into    *)
(* the receive buffer of user_storage, into a struct paxos_accepted and    *)
(* into LMDB (lmdb_operations.c).  A request for an id finds it there, and *)
(* it is copied into a client_value buffer and into the callback's         *)
(* response in the kernel.                                                 *)
(*                                                                         *)
(* A buffer has a header (id, length and a pointer that means nothing to   *)
(* whoever receives it) and the bytes of the value behind it.  All the     *)
(* memory on the way is used again for the next record, which may be       *)
(* shorter.  One record is on its way on each path at a time: what happens *)
(* when the steps of several overlap is the subject of WritePersistence    *)
(* and ReadPersistence.                                                    *)
(***************************************************************************)
EXTENDS Integers, Sequences

CONSTANTS
  BUFFER_SIZE,           \* slots of the rings
  MAX_PAXOS_VALUE_SIZE,  \* bytes of value in a slot and in a response
  RecvRoom,              \* of them, those that fit the receive buffer behind
                         \* the slot number and the header
  totalMessages,         \* records the driver writes
  Bytes, Values,         \* bytes, and the values clients write
  Nothing                \* no record, no value

ASSUME PathAssumption ==
  /\ BUFFER_SIZE \in Nat \ {0} /\ totalMessages \in Nat
  /\ MAX_PAXOS_VALUE_SIZE \in Nat /\ RecvRoom \in 0 .. MAX_PAXOS_VALUE_SIZE
  /\ 0 \in Bytes /\ Values \subseteq Seq(Bytes) /\ Nothing \notin Values

VARIABLES
  \* the write path
  wstage, wi,    \* where the record is, the driver's loop variable
  wbuf,          \* the driver's buffer
  wslot,         \* the slot of the write-persistence ring
  wrecv,         \* the WRITE thread's receive buffer
  accepted,      \* and its struct paxos_accepted
  db,            \* LMDB
  \* the read path
  rstage, ri,    \* where the request is, the driver's loop variable
  current_buf,   \* the request's slot
  rslot,         \* the ids in the slots of the read-persistence ring
  rrecv,         \* the READ thread's receive buffer: slot number and id
  out,           \* the struct storage_get fills in
  reply,         \* the client_value buffer
  response,      \* the responses of the callbacks
  \* history, not in the code
  sent,          \* the value on the write path, as the client wrote it
  stored,        \* for every id, the last one of them that was put
  due            \* the one for the id a lookup was for, at the lookup

write == <<wstage, wi, wbuf, wslot, wrecv, accepted, sent>>
read == <<rstage, ri, current_buf, rslot, rrecv, out, reply, response, due>>
vars == <<write, db, stored, read>>

Slots == 0 .. BUFFER_SIZE - 1
Iids == 0 .. totalMessages - 1
Pointers == {"null", "client", "daemon", "kernel"}
IidCells == Iids \cup {0}    \* what is in memory for an id, zeroed at first

\* The value bytes of memory with room for n of them, of which memcpy
\* overwrites the first ones.
Over(cells, v) == [k \in DOMAIN cells |-> IF k \in DOMAIN v THEN v[k] ELSE cells[k]]
Zeroes(n) == [k \in 1 .. n |-> 0]

\* A struct with its value, wherever val points to.
Struct == [iid : Nat, len : Nat, val : Pointers, value : Seq(Bytes)]
ZeroStruct == [iid |-> 0, len |-> 0, val |-> "null", value |-> <<>>]
NoReply == [bufferId |-> 0, struct |-> ZeroStruct]

Init ==
  /\ wstage = "idle" /\ wi = 0 /\ wbuf = ZeroStruct
  /\ wslot = [iid |-> 0, len |-> 0, cells |-> Zeroes(MAX_PAXOS_VALUE_SIZE)]
  /\ wrecv = [iid |-> 0, len |-> 0, cells |-> Zeroes(RecvRoom)]
  /\ accepted = ZeroStruct
  /\ db = {}
  /\ rstage = "idle" /\ ri = 1 /\ current_buf = 0
  /\ rslot = [s \in Slots |-> 0] /\ rrecv = [bufferId |-> 0, iid |-> 0]
  /\ out = ZeroStruct /\ reply = NoReply
  /\ response =
       [s \in Slots |-> [iid |-> 0, len |-> 0, val |-> "kernel",
                         cells |-> Zeroes(MAX_PAXOS_VALUE_SIZE)]]
  /\ sent = <<>> /\ stored = [i \in Iids |-> Nothing] /\ due = Nothing
-----------------------------------------------------------------------------
(***************************************************************************)
(* The conversions.                                                        *)
(***************************************************************************)
\* The header, pointer included, and behind it the value.
paxos_accepted_to_buffer(acc) ==
  [acc EXCEPT !.value = IF acc.len > 0 THEN acc.value ELSE <<>>]

\* Back: the value gets memory of its own, a pointer to nothing if it is empty.
buffer_to_paxos_accepted(header, value) ==
  [iid |-> header.iid, len |-> header.len,
   val |-> IF header.len > 0 THEN "daemon" ELSE "null",
   value |-> value]

client_value_to_buffer(bufferId, acc) ==
  [bufferId |-> bufferId, struct |-> paxos_accepted_to_buffer(acc)]

lmdb_compare_iid(lid, rid) ==
  IF lid = rid THEN 0 ELSE IF lid < rid THEN -1 ELSE 1
-----------------------------------------------------------------------------
(***************************************************************************)
(* The write path.                                                         *)
(***************************************************************************)
\* One turn of the driver's loop.
writeProcess ==
  /\ wstage = "idle" /\ wi < totalMessages
  /\ \E v \in Values :
       /\ wbuf' = paxos_accepted_to_buffer(
                    [iid |-> wi, len |-> Len(v), val |-> "client", value |-> v])
       /\ sent' = v
  /\ wstage' = "written" /\ wi' = wi + 1
  /\ UNCHANGED <<wslot, wrecv, accepted, db, stored, read>>

\* writeProcess is started again.  (main has the call that starts it commented
\* out: whoever uses the driver to write puts it back.)
writeAgain ==
  /\ wstage = "idle" /\ wi = totalMessages
  /\ wi' = 0
  /\ UNCHANGED <<wstage, wbuf, wslot, wrecv, accepted, sent, db, stored, read>>

\* Mutant: the length in the header is left as the client wrote it.
write_persistence_add_message_LenKept ==
  /\ wstage = "written"
  /\ LET size == IF Len(wbuf.value) > MAX_PAXOS_VALUE_SIZE
                 THEN MAX_PAXOS_VALUE_SIZE ELSE Len(wbuf.value)
     IN  wslot' = [iid |-> wbuf.iid, len |-> wbuf.len,
                   cells |-> Over(Zeroes(MAX_PAXOS_VALUE_SIZE),
                                  SubSeq(wbuf.value, 1, size))]
  /\ wbuf' = ZeroStruct
  /\ wstage' = "ring"
  /\ UNCHANGED <<wi, wrecv, accepted, sent, db, stored, read>>

\* The value is cut, the slot zeroed, and the length made that of what is left;
\* then the driver frees its buffer.
write_persistence_add_message ==
  /\ wstage = "written"
  /\ LET size == IF Len(wbuf.value) > MAX_PAXOS_VALUE_SIZE
                 THEN MAX_PAXOS_VALUE_SIZE ELSE Len(wbuf.value)
     IN  wslot' = [iid |-> wbuf.iid, len |-> size,
                   cells |-> Over(Zeroes(MAX_PAXOS_VALUE_SIZE),
                                  SubSeq(wbuf.value, 1, size))]
  /\ wbuf' = ZeroStruct
  /\ wstage' = "ring"
  /\ UNCHANGED <<wi, wrecv, accepted, sent, db, stored, read>>

\* Slot number, header and value go to the receive buffer; what was there
\* behind a shorter value stays.
write_persistence_read ==
  /\ wstage = "ring"
  /\ wrecv' = [iid |-> wslot.iid, len |-> wslot.len,
               cells |-> Over(wrecv.cells, SubSeq(wslot.cells, 1, wslot.len))]
  /\ wstage' = "received"
  /\ UNCHANGED <<wi, wbuf, wslot, accepted, sent, db, stored, read>>

\* Bytes past the end of the receive buffer may be anything.
process_write_message ==
  /\ wstage = "received"
  /\ \E past \in [RecvRoom + 1 .. wrecv.len -> Bytes] :
       accepted' = buffer_to_paxos_accepted(wrecv,
         [k \in 1 .. wrecv.len |->
            IF k <= RecvRoom THEN wrecv.cells[k] ELSE past[k]])
  /\ wstage' = "accepted"
  /\ UNCHANGED <<wi, wbuf, wslot, wrecv, sent, db, stored, read>>

\* mdb_put replaces the record whose key compares equal; then the value is freed.
lmdb_storage_put ==
  /\ wstage = "accepted"
  /\ db' = {r \in db : lmdb_compare_iid(r.key, accepted.iid) # 0}
             \cup {[key |-> accepted.iid,
                    data |-> paxos_accepted_to_buffer(accepted)]}
  /\ stored' = [stored EXCEPT ![accepted.iid] = sent]
  /\ accepted' = ZeroStruct /\ sent' = <<>>
  /\ wstage' = "idle"
  /\ UNCHANGED <<wi, wbuf, wslot, wrecv, read>>
-----------------------------------------------------------------------------
(***************************************************************************)
(* The read path.  A request is a zeroed paxos_accepted with its id.       *)
(***************************************************************************)
\* One turn of the driver's loop, and read_persistence_add_message.
readProcess ==
  /\ rstage = "idle" /\ ri < totalMessages
  /\ rslot' = [rslot EXCEPT ![current_buf] = ri]
  /\ rstage' = "ring" /\ ri' = ri + 1
  /\ UNCHANGED <<write, db, stored, current_buf, rrecv, out, reply, response,
                 due>>

readAgain ==
  /\ rstage = "idle" /\ ri >= totalMessages
  /\ ri' = 1
  /\ UNCHANGED <<write, db, stored, rstage, current_buf, rslot, rrecv, out,
                 reply, response, due>>

read_persistence_read ==
  /\ rstage = "ring"
  /\ rrecv' = [bufferId |-> current_buf, iid |-> rslot[current_buf]]
  /\ rstage' = "received"
  /\ UNCHANGED <<write, db, stored, ri, current_buf, rslot, out, reply,
                 response, due>>

\* storage_get: what is found is copied out of the transaction, pointer
\* replaced; a struct of zeroes stands for nothing found.
storage_get ==
  /\ rstage = "received"
  /\ LET found == {r \in db : lmdb_compare_iid(r.key, rrecv.iid) = 0}
     IN  IF found = {} THEN out' = ZeroStruct
         ELSE \E r \in found :
                out' = buffer_to_paxos_accepted(r.data, r.data.value)
  /\ due' = stored[rrecv.iid]
  /\ rstage' = "lookedup"
  /\ UNCHANGED <<write, db, stored, ri, current_buf, rslot, rrecv, reply,
                 response>>

process_read_message ==
  /\ rstage = "lookedup"
  /\ reply' = client_value_to_buffer(rrecv.bufferId, out)
  /\ out' = ZeroStruct
  /\ rstage' = "answering"
  /\ UNCHANGED <<write, db, stored, ri, current_buf, rslot, rrecv, response,
                 due>>

\* Mutant: the old answer is not cleared.
read_persistence_write_NotCleared ==
  /\ rstage = "answering"
  /\ LET old == response[reply.bufferId]
         acc == reply.struct
     IN  response' = [response EXCEPT ![reply.bufferId] =
           [iid |-> acc.iid, len |-> acc.len, val |-> old.val,
            cells |-> Over(old.cells, IF old.val = "kernel" THEN acc.value ELSE <<>>)]]
  /\ reply' = NoReply
  /\ rstage' = "answered"
  /\ UNCHANGED <<write, db, stored, ri, current_buf, rslot, rrecv, out, due>>

\* clearPaxosAccepted; the header is copied over the response, whose own
\* pointer is put back; the value goes where it points to.  Then the daemon
\* frees the buffer.
read_persistence_write ==
  /\ rstage = "answering"
  /\ LET paxos_val == response[reply.bufferId].val
         acc == reply.struct
     IN  response' = [response EXCEPT ![reply.bufferId] =
           [iid |-> acc.iid, len |-> acc.len, val |-> paxos_val,
            cells |-> Over(Zeroes(MAX_PAXOS_VALUE_SIZE),
                           IF paxos_val = "kernel" THEN acc.value ELSE <<>>)]]
  /\ reply' = NoReply
  /\ rstage' = "answered"
  /\ UNCHANGED <<write, db, stored, ri, current_buf, rslot, rrecv, out, due>>

\* wait_response has looked at the response; the next request takes the next
\* slot.
NextRequest ==
  /\ rstage = "answered"
  /\ current_buf' = (current_buf + 1) % BUFFER_SIZE
  /\ rstage' = "idle" /\ due' = Nothing
  /\ UNCHANGED <<write, db, stored, ri, rslot, rrecv, out, reply, response>>
-----------------------------------------------------------------------------
Next ==
  \/ writeProcess \/ writeAgain \/ write_persistence_add_message
  \/ write_persistence_read \/ process_write_message \/ lmdb_storage_put
  \/ readProcess \/ readAgain \/ read_persistence_read \/ storage_get
  \/ process_read_message \/ read_persistence_write \/ NextRequest

Spec == Init /\ [][Next]_vars
-----------------------------------------------------------------------------
\* Every variable has its type.  The length in a slot and in a response never
\* exceeds the memory behind it.  The length in the receive buffer is what the
\* slot says, and may exceed the RecvRoom bytes that are left behind the slot
\* number and the header: the buffer is sized without the slot number.
TypeOK ==
  /\ wstage \in {"idle", "written", "ring", "received", "accepted"}
  /\ wi \in 0 .. totalMessages /\ wbuf \in Struct
  /\ wslot.iid \in IidCells /\ wslot.len \in 0 .. MAX_PAXOS_VALUE_SIZE
  /\ wslot.cells \in [1 .. MAX_PAXOS_VALUE_SIZE -> Bytes]
  /\ wrecv.iid \in IidCells /\ wrecv.len \in 0 .. MAX_PAXOS_VALUE_SIZE
  /\ wrecv.cells \in [1 .. RecvRoom -> Bytes]
  /\ accepted \in Struct /\ accepted.len = Len(accepted.value)
  /\ \A r \in db : r.key \in Iids /\ r.data \in Struct
  /\ rstage \in {"idle", "ring", "received", "lookedup", "answering", "answered"}
  /\ ri \in Nat /\ current_buf \in Slots /\ rslot \in [Slots -> IidCells]
  /\ rrecv \in [bufferId : Slots, iid : IidCells] /\ out \in Struct
  /\ reply.bufferId \in Slots /\ reply.struct \in Struct
  /\ \A s \in Slots :
       /\ response[s].len \in 0 .. MAX_PAXOS_VALUE_SIZE
       /\ response[s].cells \in [1 .. MAX_PAXOS_VALUE_SIZE -> Bytes]
  /\ sent \in Values \cup {<<>>} /\ due \in Values \cup {Nothing}
  /\ stored \in [Iids -> Values \cup {Nothing}]

\* The response a worker looks at is the one for its request: the value the
\* client wrote for that id, cut to the slot's size, with that length, byte
\* for byte as far as the receive buffer reaches, and behind it zeroes, not
\* the rest of an answer or of a record that was longer; or a length of 0 if
\* nothing was stored.
AnswerIsWhatWasWritten ==
  rstage = "answered" =>
    LET r == response[current_buf]
        n == IF due = Nothing THEN 0
             ELSE IF Len(due) > MAX_PAXOS_VALUE_SIZE
             THEN MAX_PAXOS_VALUE_SIZE ELSE Len(due)
    IN  /\ r.iid = IF due = Nothing THEN 0 ELSE rslot[current_buf]
        /\ r.len = n
        /\ \A k \in 1 .. MAX_PAXOS_VALUE_SIZE :
             \/ k <= n /\ (k <= RecvRoom => r.cells[k] = due[k])
             \/ k > n /\ r.cells[k] = 0
=============================================================================
