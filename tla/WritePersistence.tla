-------------------------- MODULE WritePersistence --------------------------
(***************************************************************************)
(* The write path of the kernel module: client processes write accepted    *)
(* values to /dev/paxos/write-test (kpaxos/write_test_device_operations.c),*)
(* which copies each one into the ring of the write-persistence device     *)
(* (kpaxos/write_persistence_device_operations.c); the write thread of a   *)
(* user_storage daemon polls that device and reads them out.               *)
(*                                                                         *)
(* A client's write(2) and a daemon's poll(2)/read(2)/close(2) run on      *)
(* different CPUs and share the ring without a lock, so every access to    *)
(* the counter, an index or a slot is a step of its own (the length field  *)
(* an add rewrites in its slot is part of the copy into that slot).        *)
(***************************************************************************)
EXTENDS Integers, Sequences

CONSTANTS
  Clients,               \* processes that open /dev/paxos/write-test
  Daemons,               \* user_storage processes
  BUFFER_SIZE,           \* slots of the ring (1000 in kernel_device.h)
  MAX_PAXOS_VALUE_SIZE,  \* longest value a slot holds (200 in common.h)
  Messages,              \* what clients may write: records [iid, len]
  Nobody,                \* no holder of a char_mutex
  Uninit                 \* indeterminate memory: never written, or a mixture

Record == [iid : Nat, len : Nat]

ASSUME RingAssumption ==
  /\ BUFFER_SIZE \in Nat \ {0}
  /\ MAX_PAXOS_VALUE_SIZE \in Nat
ASSUME ValueAssumption ==
  /\ Messages \subseteq Record
  /\ Uninit \notin Record
ASSUME ProcessAssumption == Nobody \notin Clients \cup Daemons

VARIABLES
  \* the write-persistence device (struct paxos_kernel_device)
  used_buf, current_buf, first_buf, msg_buf,
  persistence_mutex,     \* its char_mutex: the daemon that has it open
  \* the write-test device
  test_mutex,            \* its char_mutex: the client that has it open
  test_used_buf,         \* its own used_buf, which only its poll looks at
  \* the processes
  client, arg,           \* where each client is, and the message it writes
  daemon, recv,          \* where each daemon is, and its receive buffer
  \* history, not in the code
  intact,                \* no racing close or failed copy since the last
                         \* close that met no add
  queue,                 \* while intact: messages added and not yet read
  overtaken              \* while intact: a read has passed over the add in
                         \* progress

ring == <<used_buf, current_buf, first_buf, msg_buf>>
mutexes == <<persistence_mutex, test_mutex, test_used_buf>>
history == <<queue, overtaken, intact>>
vars == <<ring, mutexes, client, arg, daemon, recv, history>>

Slots == 0 .. BUFFER_SIZE - 1
Succ(i) == (i + 1) % BUFFER_SIZE

\* What memset leaves in a slot.
Zero == [iid |-> 0, len |-> 0]

\* What a slot holds of a message: the value is cut to the slot's size and
\* its length field rewritten from the size that was copied.
Stored(m) ==
  [m EXCEPT !.len = IF m.len > MAX_PAXOS_VALUE_SIZE
                    THEN MAX_PAXOS_VALUE_SIZE ELSE m.len]

StoredMessages == {Stored(m) : m \in Messages}

ClientStates ==
  {"closed", "open", "check", "inc", "clear", "copy", "advance"}
DaemonStates ==
  {"closed", "poll", "read", "dec", "err_dec", "advance",
   "rel_used", "rel_current", "rel_first", "rel_unlock"}

\* An add that used_buf already counts but current_buf does not.
Adding == \E c \in Clients : client[c] \in {"clear", "copy", "advance"}
\* A close that has reset used_buf and not yet the indices.
Resetting == \E d \in Daemons : daemon[d] \in {"rel_current", "rel_first"}

ClientGoes(c, from, to) ==
  /\ client[c] = from
  /\ client' = [client EXCEPT ![c] = to]
DaemonGoes(d, from, to) ==
  /\ daemon[d] = from
  /\ daemon' = [daemon EXCEPT ![d] = to]

Init ==
  /\ used_buf = 0 /\ current_buf = 0 /\ first_buf = 0
  /\ msg_buf = [i \in Slots |-> Uninit]
  /\ persistence_mutex = Nobody
  /\ test_mutex = Nobody /\ test_used_buf = 0
  /\ client = [c \in Clients |-> "closed"]
  /\ arg = [c \in Clients |-> Uninit]
  /\ daemon = [d \in Daemons |-> "closed"]
  /\ recv = [d \in Daemons |-> Uninit]
  /\ queue = <<>> /\ overtaken = FALSE /\ intact = TRUE
-----------------------------------------------------------------------------
(***************************************************************************)
(* The client: open, write, close of the write-test device.  An open that  *)
(* finds the mutex taken returns -EBUSY and changes nothing.  `working' is *)
(* 1 as long as a file is open: an open file pins the module.              *)
(***************************************************************************)
write_test_open(c) ==
  /\ test_mutex = Nobody
  /\ ClientGoes(c, "closed", "open")
  /\ test_mutex' = c
  /\ UNCHANGED <<ring, persistence_mutex, test_used_buf, arg, daemon, recv,
                 history>>

write_test_release(c) ==
  /\ ClientGoes(c, "open", "closed")
  /\ test_mutex' = Nobody
  /\ test_used_buf' = 1
  /\ UNCHANGED <<ring, persistence_mutex, arg, daemon, recv, history>>

write_test_write(c) ==
  /\ ClientGoes(c, "open", "check")
  /\ \E m \in Messages : arg' = [arg EXCEPT ![c] = m]
  /\ UNCHANGED <<ring, mutexes, daemon, recv, history>>

(***************************************************************************)
(* write_persistence_add_message, step by step.  The counter that poll     *)
(* reads goes up before the slot is written.  The callback it fills in and *)
(* returns is only compared with NULL by write_test_write: a full ring and *)
(* a finished add both make write(2) return len.                           *)
(***************************************************************************)
AddFull(c) ==
  /\ used_buf >= BUFFER_SIZE
  /\ ClientGoes(c, "check", "open")
  /\ arg' = [arg EXCEPT ![c] = Uninit]
  /\ UNCHANGED <<ring, mutexes, daemon, recv, history>>

\* Mutants: the fullness check admits one message too many, or is missing.
AddRoom_OneTooMany(c) ==
  /\ used_buf <= BUFFER_SIZE
  /\ ClientGoes(c, "check", "inc")
  /\ UNCHANGED <<ring, mutexes, arg, daemon, recv, history>>
AddRoom_Unchecked(c) ==
  /\ ClientGoes(c, "check", "inc")
  /\ UNCHANGED <<ring, mutexes, arg, daemon, recv, history>>

AddRoom(c) ==
  /\ used_buf < BUFFER_SIZE
  /\ ClientGoes(c, "check", "inc")
  /\ UNCHANGED <<ring, mutexes, arg, daemon, recv, history>>

AddInc(c) ==
  /\ ClientGoes(c, "inc", "clear")
  /\ used_buf' = used_buf + 1
  /\ intact' = (intact /\ ~Resetting)
  /\ UNCHANGED <<current_buf, first_buf, msg_buf, mutexes, arg, daemon, recv,
                 queue, overtaken>>

AddClear(c) ==
  /\ ClientGoes(c, "clear", "copy")
  /\ msg_buf' = [msg_buf EXCEPT ![current_buf] = Zero]
  /\ UNCHANGED <<used_buf, current_buf, first_buf, mutexes, arg, daemon, recv,
                 history>>

AddCopy(c) ==
  /\ ClientGoes(c, "copy", "advance")
  /\ msg_buf' = [msg_buf EXCEPT ![current_buf] = Stored(arg[c])]
  /\ UNCHANGED <<used_buf, current_buf, first_buf, mutexes, arg, daemon, recv,
                 history>>

\* Mutant: the index does not wrap around.
AddAdvance_NoWrap(c) ==
  /\ ClientGoes(c, "advance", "open")
  /\ current_buf' = current_buf + 1
  /\ arg' = [arg EXCEPT ![c] = Uninit]
  /\ queue' = IF overtaken \/ ~intact THEN queue
              ELSE Append(queue, Stored(arg[c]))
  /\ overtaken' = FALSE
  /\ UNCHANGED <<used_buf, first_buf, msg_buf, mutexes, daemon, recv, intact>>

\* The last step of the add; the wake-up that follows only makes a sleeping
\* poll look at used_buf again, as its timeout does.
AddAdvance(c) ==
  /\ ClientGoes(c, "advance", "open")
  /\ current_buf' = Succ(current_buf)
  /\ arg' = [arg EXCEPT ![c] = Uninit]
  /\ queue' = IF overtaken \/ ~intact THEN queue
              ELSE Append(queue, Stored(arg[c]))
  /\ overtaken' = FALSE
  /\ UNCHANGED <<used_buf, first_buf, msg_buf, mutexes, daemon, recv, intact>>
-----------------------------------------------------------------------------
(***************************************************************************)
(* The write thread of user_storage: open, then poll and read in a loop.   *)
(* A poll that times out is a stuttering step.                             *)
(***************************************************************************)
write_persistence_open(d) ==
  /\ persistence_mutex = Nobody
  /\ DaemonGoes(d, "closed", "poll")
  /\ persistence_mutex' = d
  /\ UNCHANGED <<ring, test_mutex, test_used_buf, client, arg, recv, history>>

\* Mutants: poll reports an empty ring readable, or one message as none.
write_persistence_poll_Always(d) ==
  /\ used_buf >= 0
  /\ DaemonGoes(d, "poll", "read")
  /\ UNCHANGED <<ring, mutexes, client, arg, recv, history>>
write_persistence_poll_MoreThanOne(d) ==
  /\ used_buf > 1
  /\ DaemonGoes(d, "poll", "read")
  /\ UNCHANGED <<ring, mutexes, client, arg, recv, history>>

write_persistence_poll(d) ==
  /\ used_buf > 0
  /\ DaemonGoes(d, "poll", "read")
  /\ UNCHANGED <<ring, mutexes, client, arg, recv, history>>

\* What copy_to_user may hand out: the slot, or a mixture of its old and new
\* contents if an add is just clearing or filling that slot.
Copies ==
  {msg_buf[first_buf]} \cup
  {Uninit : c \in {x \in Clients : /\ client[x] \in {"clear", "copy"}
                                  /\ current_buf = first_buf}}

\* write_persistence_read: copy the slot out, then count down, then advance.
\* A read that finds no finished message overtakes the add in progress.
ReadCopy(d) ==
  /\ DaemonGoes(d, "read", "dec")
  /\ \E m \in Copies : recv' = [recv EXCEPT ![d] = m]
  /\ queue' = IF queue = <<>> THEN queue ELSE Tail(queue)
  /\ overtaken' = (intact /\ (overtaken \/ queue = <<>>))
  /\ UNCHANGED <<ring, mutexes, client, arg, intact>>

\* copy_to_user fails: the counter still goes down, the index stays, and the
\* daemon, which only tests len against 0, takes for a message whatever its
\* buffer holds: what it held before, or that partly overwritten.
ReadFault(d) ==
  /\ DaemonGoes(d, "read", "err_dec")
  /\ recv' \in {recv, [recv EXCEPT ![d] = Uninit]}
  /\ intact' = FALSE /\ queue' = <<>> /\ overtaken' = FALSE
  /\ UNCHANGED <<ring, mutexes, client, arg>>

ReadDec(d) ==
  /\ \/ DaemonGoes(d, "dec", "advance")
     \/ DaemonGoes(d, "err_dec", "poll")
  /\ used_buf' = used_buf - 1
  /\ UNCHANGED <<current_buf, first_buf, msg_buf, mutexes, client, arg, recv,
                 history>>

ReadAdvance(d) ==
  /\ DaemonGoes(d, "advance", "poll")
  /\ first_buf' = Succ(first_buf)
  /\ UNCHANGED <<used_buf, current_buf, msg_buf, mutexes, client, arg, recv,
                 history>>

(***************************************************************************)
(* The daemon closes the device (SIGINT), or dies between two system calls *)
(* and the kernel closes it.  write_persistence_release resets the ring    *)
(* and unlocks the mutex last.                                             *)
(***************************************************************************)
Close(d) ==
  /\ daemon[d] \in {"poll", "read"}
  /\ daemon' = [daemon EXCEPT ![d] = "rel_used"]
  /\ recv' = [recv EXCEPT ![d] = Uninit]
  /\ UNCHANGED <<ring, mutexes, client, arg, history>>

\* Mutant: the counter is not reset.
ReleaseUsed_Kept(d) ==
  /\ DaemonGoes(d, "rel_used", "rel_current")
  /\ queue' = <<>> /\ overtaken' = FALSE /\ intact' = ~Adding
  /\ UNCHANGED <<ring, mutexes, client, arg, recv>>

ReleaseUsed(d) ==
  /\ DaemonGoes(d, "rel_used", "rel_current")
  /\ used_buf' = 0
  /\ queue' = <<>> /\ overtaken' = FALSE /\ intact' = ~Adding
  /\ UNCHANGED <<current_buf, first_buf, msg_buf, mutexes, client, arg, recv>>

ReleaseCurrent(d) ==
  /\ DaemonGoes(d, "rel_current", "rel_first")
  /\ current_buf' = 0
  /\ UNCHANGED <<used_buf, first_buf, msg_buf, mutexes, client, arg, recv,
                 history>>

\* Mutant: the read index is not reset.
ReleaseFirst_Kept(d) ==
  /\ DaemonGoes(d, "rel_first", "rel_unlock")
  /\ UNCHANGED <<ring, mutexes, client, arg, recv, history>>

ReleaseFirst(d) ==
  /\ DaemonGoes(d, "rel_first", "rel_unlock")
  /\ first_buf' = 0
  /\ UNCHANGED <<used_buf, current_buf, msg_buf, mutexes, client, arg, recv,
                 history>>

ReleaseUnlock(d) ==
  /\ DaemonGoes(d, "rel_unlock", "closed")
  /\ persistence_mutex' = Nobody
  /\ UNCHANGED <<ring, test_mutex, test_used_buf, client, arg, recv, history>>
-----------------------------------------------------------------------------
AddStep(c) ==
  AddFull(c) \/ AddRoom(c) \/ AddInc(c) \/ AddClear(c) \/ AddCopy(c)
  \/ AddAdvance(c)

ReadStep(d) ==
  write_persistence_poll(d) \/ ReadCopy(d) \/ ReadFault(d) \/ ReadDec(d)
  \/ ReadAdvance(d)

ReleaseStep(d) ==
  ReleaseUsed(d) \/ ReleaseCurrent(d) \/ ReleaseFirst(d) \/ ReleaseUnlock(d)

Next ==
  \/ \E c \in Clients : write_test_open(c) \/ write_test_release(c)
                        \/ write_test_write(c) \/ AddStep(c)
  \/ \E d \in Daemons : write_persistence_open(d) \/ Close(d)
                        \/ ReadStep(d) \/ ReleaseStep(d)

Spec == Init /\ [][Next]_vars

\* A system call that has started runs to its end, and a daemon's loop polls
\* again at the latest when its 2 s timeout expires.  Nobody has to open,
\* write or close.
Fairness ==
  /\ \A c \in Clients : WF_vars(AddStep(c))
  /\ \A d \in Daemons : WF_vars(ReadStep(d)) /\ WF_vars(ReleaseStep(d))

FairSpec == Spec /\ Fairness
-----------------------------------------------------------------------------
\* Every variable has its type: the indices stay inside the ring.
TypeOK ==
  /\ used_buf \in Int /\ current_buf \in Slots /\ first_buf \in Slots
  /\ msg_buf \in [Slots -> StoredMessages \cup {Zero, Uninit}]
  /\ persistence_mutex \in Daemons \cup {Nobody}
  /\ test_mutex \in Clients \cup {Nobody} /\ test_used_buf \in {0, 1}
  /\ client \in [Clients -> ClientStates]
  /\ arg \in [Clients -> Messages \cup {Uninit}]
  /\ daemon \in [Daemons -> DaemonStates]
  /\ recv \in [Daemons -> StoredMessages \cup {Zero, Uninit}]
  /\ queue \in Seq(StoredMessages)
  /\ overtaken \in BOOLEAN /\ intact \in BOOLEAN

\* used_buf never leaves 0 .. BUFFER_SIZE, although a client reads it before
\* it adds to it, a daemon reads it (poll) before it subtracts from it (read),
\* and a close may zero it in between.
UsedInRange == used_buf \in 0 .. BUFFER_SIZE

\* Slots the reader holds: copied out (or being freed), first_buf not advanced.
Held == IF \E d \in Daemons : daemon[d] \in {"dec", "advance"} THEN 1 ELSE 0

\* Unless a close raced with an add or a copy failed, the finished unread
\* messages lie in the ring in the order they were added, from the read index
\* on, and the write index is right behind them: no add overwrites an unread
\* message, in particular after the indices wrapped or a close reset them.
RingHoldsQueue ==
  intact /\ ~Resetting =>
    /\ Len(queue) <= BUFFER_SIZE
    /\ \A i \in 1 .. Len(queue) :
         msg_buf[(first_buf + Held + i - 1) % BUFFER_SIZE] = queue[i]
    /\ (current_buf + (IF overtaken THEN 1 ELSE 0)) % BUFFER_SIZE
         = (first_buf + Held + Len(queue)) % BUFFER_SIZE

\* When poll has told the daemon to read and the ring is intact, there is a
\* finished message, or an add is in progress that no read has passed over.
PollInMeansMessage ==
  \A d \in Daemons :
    intact /\ daemon[d] = "read" => queue # <<>> \/ (Adding /\ ~overtaken)

\* A read of an intact ring with a finished message in it hands out the
\* oldest one, whatever add runs at the same time: first in, first out.
ReadsInOrder ==
  [][\A d \in Daemons :
       daemon[d] = "read" /\ daemon'[d] = "dec" /\ intact /\ queue # <<>>
         => recv'[d] = Head(queue)]_vars

\* A message a read has copied out and not yet counted down.
Copied == \E d \in Daemons : daemon[d] = "dec"

\* write(2) returns len also when the value was dropped, so the client cannot
\* tell; but an intact ring drops a value only if BUFFER_SIZE messages are
\* waiting, the one a read is just taking included, also after closes that
\* reset the counter and adds that reads have overtaken.
DropsOnlyWhenFull ==
  [][\A c \in Clients :
       client[c] = "check" /\ client'[c] = "open" /\ intact
         => Len(queue) + (IF Copied THEN 1 ELSE 0) = BUFFER_SIZE]_vars

\* The comment above write_persistence_read says it "returns 0 if it has to
\* stop, >0 when it reads something": a read that succeeds returned a message.
ReadReturnsSomething ==
  \A d \in Daemons : daemon[d] = "advance" => recv[d] \in StoredMessages

\* A daemon in its loop eventually reads past the oldest finished message,
\* unless it closes the device, another close or failed copy spoils the ring.
OldestIsRead ==
  \A i \in Slots :
    (intact /\ queue # <<>> /\ first_buf = i)
      ~> (first_buf # i \/ ~intact
          \/ \A d \in Daemons : daemon[d] \notin {"poll", "read", "dec", "advance"})
=============================================================================
