--------------------------- MODULE ModuleLifecycle ---------------------------
(***************************************************************************)
(* Loading and unloading the kernel module (persistence_main.c): the set-up *)
(* and removal of the four devices (kpaxos/kernel_device.c) and of the     *)
(* pools of the test devices (kpaxos/workers_pool.c), while processes use  *)
(* the devices that are there already and workers still run.               *)
(*                                                                         *)
(* A device can be opened from device_create on, also while the module is  *)
(* being initialised; an open file keeps the module from being unloaded.   *)
(* An oops stops the machine (centos/7 panics on one) and it boots again.  *)
(***************************************************************************)
EXTENDS Integers, Sequences, FiniteSets

CONSTANTS
  Processes,     \* clients and daemons
  Workers,       \* threads of the read-test pool (10 in the code)
  MaxWorks,      \* bound: persistence_work objects
  Nobody         \* the char_mutex is free

ASSUME LifecycleAssumption ==
  /\ MaxWorks \in Nat
  /\ Nobody \notin Processes /\ "zero" \notin Processes /\ "zero" # Nobody

Devices == {"write-test", "read-test", "write-persistence", "read-persistence"}
TestDevices == {"write-test", "read-test"}

\* paxos_persistence_init and paxos_persistence_exit take the devices in turn.
InitOrder ==
  <<"write-test", "read-test", "write-persistence", "read-persistence">>

\* Mutant: the persistence devices go first.
ExitOrder_PersistenceFirst ==
  <<"write-persistence", "read-persistence", "write-test", "read-test">>

ExitOrder ==
  <<"write-test", "read-test", "write-persistence", "read-persistence">>

\* Mutant: the mutex is initialised before the buffers are allocated.
InitSteps_MutexFirst ==
  <<"pool", "major", "class", "device", "mutex", "buffers", "fill", "queue">>

\* The device's create function, then kdevchar_init.
InitSteps ==
  <<"pool", "major", "class", "device", "buffers", "fill", "mutex", "queue">>

\* kdevchar_exit, then persistence_device_destroy.
ExitSteps == <<"device", "free", "unregister", "stop">>

\* The device that write(2) on a test device adds to.
Peer == [d \in TestDevices |->
           IF d = "write-test" THEN "write-persistence" ELSE "read-persistence"]

VARIABLES
  module,        \* "out", "init", "live" or "exit"
  nth, step,     \* how far init or exit has got
  chrdev, class, node, bufs, mutex, ready,   \* the devices' resources
  pool,          \* the test devices' pools
  alive,         \* threads of the read-test pool that have not ended
  running,       \* threads that are inside wait_response
  queued, allocated,   \* work items in the pool's queues, and in memory
  file           \* the device each process has open

progress == <<module, nth, step>>
resources == <<chrdev, class, node, bufs, mutex, ready>>
threads == <<alive, running, queued, allocated>>
vars == <<progress, resources, pool, threads, file>>

Init ==
  /\ module = "out" /\ nth = 1 /\ step = 1
  /\ chrdev = [d \in Devices |-> FALSE]
  /\ class = [d \in Devices |-> "null"] /\ node = [d \in Devices |-> "null"]
  /\ bufs = [d \in Devices |-> "null"]
  /\ mutex = [d \in Devices |-> "zero"] /\ ready = [d \in Devices |-> FALSE]
  /\ pool = [d \in TestDevices |-> "null"]
  /\ alive = {} /\ running = {} /\ queued = 0 /\ allocated = 0
  /\ file = [p \in Processes |-> "none"]

\* The module's variables as insmod brings them: all zero.
Zeroed ==
  /\ class' = [d \in Devices |-> "null"] /\ node' = [d \in Devices |-> "null"]
  /\ bufs' = [d \in Devices |-> "null"]
  /\ mutex' = [d \in Devices |-> "zero"] /\ ready' = [d \in Devices |-> FALSE]
  /\ pool' = [d \in TestDevices |-> "null"]

\* The machine panics and boots again.
Oops ==
  /\ module' = "out" /\ nth' = 1 /\ step' = 1
  /\ chrdev' = [d \in Devices |-> FALSE]
  /\ Zeroed
  /\ alive' = {} /\ running' = {} /\ queued' = 0 /\ allocated' = 0
  /\ file' = [p \in Processes |-> "none"]
-----------------------------------------------------------------------------
(***************************************************************************)
(* insmod: paxos_persistence_init.  A failed kdevchar_init is ignored.     *)
(***************************************************************************)
insmod ==
  /\ module = "out"
  /\ module' = "init"
  /\ Zeroed
  /\ UNCHANGED <<nth, step, chrdev, threads, file>>

\* The device whose initialisation is at step s.
Initialises(d, s) ==
  /\ module = "init" /\ d = InitOrder[nth] /\ s = InitSteps[step]

NextDevice(last) ==
  IF nth < Len(InitOrder)
  THEN nth' = nth + 1 /\ step' = 1 /\ UNCHANGED module
  ELSE nth' = 1 /\ step' = 1 /\ module' = last

Continue ==
  IF step < Len(InitSteps)
  THEN step' = step + 1 /\ UNCHANGED <<module, nth>>
  ELSE NextDevice("live")

\* create_pool, for the test devices.  Without memory for the pool it returns
\* NULL; when anything else fails it uses fields it has not assigned and frees
\* the pool twice, which may go unnoticed.
create_pool(d) ==
  /\ Initialises(d, "pool")
  /\ \/ /\ d \notin TestDevices /\ Continue
        /\ UNCHANGED <<pool, threads, file, resources>>
     \/ /\ d \in TestDevices /\ Continue
        /\ \E p \in {"null", "live"} : pool' = [pool EXCEPT ![d] = p]
        /\ alive' = IF d = "read-test" /\ pool'[d] = "live" THEN Workers ELSE alive
        /\ UNCHANGED <<running, queued, allocated, file, resources>>
     \/ d \in TestDevices /\ Oops

\* register_chrdev fails: return -1.  Here and in reg_dev_class the name is
\* copied to what kmalloc returned, also if that is NULL.
major_number(d) ==
  /\ Initialises(d, "major")
  /\ \/ /\ Continue /\ chrdev' = [chrdev EXCEPT ![d] = TRUE]
        /\ UNCHANGED <<class, node, bufs, mutex, ready, pool, threads, file>>
     \/ NextDevice("live") /\ UNCHANGED <<resources, pool, threads, file>>
     \/ Oops

reg_dev_class(d) ==
  /\ Initialises(d, "class")
  /\ \/ /\ Continue /\ class' = [class EXCEPT ![d] = "live"]
        /\ UNCHANGED <<chrdev, node, bufs, mutex, ready, pool, threads, file>>
     \/ /\ NextDevice("live") /\ class' = [class EXCEPT ![d] = "error"]
        /\ chrdev' = [chrdev EXCEPT ![d] = FALSE]
        /\ UNCHANGED <<node, bufs, mutex, ready, pool, threads, file>>
     \/ Oops

reg_char_class(d) ==
  /\ Initialises(d, "device")
  /\ \/ /\ Continue /\ node' = [node EXCEPT ![d] = "live"]
        /\ UNCHANGED <<chrdev, class>>
     \/ /\ NextDevice("live") /\ node' = [node EXCEPT ![d] = "error"]
        /\ class' = [class EXCEPT ![d] = "freed"]
        /\ chrdev' = [chrdev EXCEPT ![d] = FALSE]
  /\ UNCHANGED <<bufs, mutex, ready, pool, threads, file>>

\* kdevchar_init allocates the arrays, then the slots one by one; it does not
\* look at what vmalloc and kmalloc return.  (A slot without a message buffer,
\* which only an add to that slot would notice, is not modelled.)
AllocateArrays(d) ==
  /\ Initialises(d, "buffers")
  /\ \/ /\ Continue /\ bufs' = [bufs EXCEPT ![d] = "filling"]
        /\ UNCHANGED <<chrdev, class, node, mutex, ready, pool, threads, file>>
     \/ Oops

AllocateSlots(d) ==
  /\ Initialises(d, "fill")
  /\ \/ /\ Continue /\ bufs' = [bufs EXCEPT ![d] = "live"]
        /\ UNCHANGED <<chrdev, class, node, mutex, ready, pool, threads, file>>
     \/ Oops

InitMutex(d) ==
  /\ Initialises(d, "mutex")
  /\ Continue
  /\ mutex' = [mutex EXCEPT ![d] = Nobody]
  /\ UNCHANGED <<chrdev, class, node, bufs, ready, pool, threads, file>>

\* init_waitqueue_head, used_buf = 0, return 0.
InitQueue(d) ==
  /\ Initialises(d, "queue")
  /\ Continue
  /\ ready' = [ready EXCEPT ![d] = TRUE]
  /\ UNCHANGED <<chrdev, class, node, bufs, mutex, pool, threads, file>>
-----------------------------------------------------------------------------
(***************************************************************************)
(* Processes.  mutex_trylock fails on a mutex that is still zero.          *)
(***************************************************************************)
Open(p, d) ==
  /\ module \in {"init", "live"} /\ chrdev[d] /\ node[d] = "live"
  /\ file[p] = "none" /\ mutex[d] = Nobody
  /\ file' = [file EXCEPT ![p] = d]
  /\ mutex' = [mutex EXCEPT ![d] = p]
  /\ UNCHANGED <<progress, chrdev, class, node, bufs, ready, pool, threads>>

Release(p) ==
  /\ file[p] # "none"
  /\ mutex' = [mutex EXCEPT ![file[p]] = Nobody]
  /\ file' = [file EXCEPT ![p] = "none"]
  /\ UNCHANGED <<progress, chrdev, class, node, bufs, ready, pool, threads>>

\* write(2) adds to the ring of the other device, which need not be there yet:
\* its buffers, or at the latest the wait queue it wakes up, are still NULL.
WriteUnready(p) ==
  /\ file[p] \in TestDevices /\ ~ready[Peer[file[p]]]
  /\ Oops

\* A request gets a work item, which is lost if there is no pool.  (A full
\* ring, or no memory for the item, leave no trace here.)
WriteRequest(p) ==
  /\ file[p] = "read-test" /\ ready[Peer["read-test"]]
  /\ allocated < MaxWorks /\ allocated' = allocated + 1
  /\ queued' = IF pool["read-test"] = "live" THEN queued + 1 ELSE queued
  /\ UNCHANGED <<progress, resources, pool, alive, running, file>>

\* poll_wait on a wait queue that is still zero (read_test_poll has none).
PollUnready(p) ==
  /\ file[p] \in Devices \ {"read-test"} /\ ~ready[file[p]]
  /\ Oops

\* kthread_worker_fn and the work function wait_response.
WorkerTakes(w) ==
  /\ w \in alive \ running /\ queued > 0
  /\ running' = running \cup {w} /\ queued' = queued - 1
  /\ UNCHANGED <<progress, resources, pool, alive, allocated, file>>

\* Mutants: the work item is freed twice; the wait is repeated until an answer
\* comes, and once the daemon is gone none does.
wait_response_FreesTwice(w) ==
  /\ w \in running
  /\ running' = running \ {w} /\ allocated' = allocated - 2
  /\ UNCHANGED <<progress, resources, pool, alive, queued, file>>
wait_response_Repeats(w) ==
  /\ w \in running
  /\ \/ /\ module = "live"
        /\ running' = running \ {w} /\ allocated' = allocated - 1
     \/ module = "exit" /\ UNCHANGED <<running, allocated>>
  /\ UNCHANGED <<progress, resources, pool, alive, queued, file>>

wait_response(w) ==
  /\ w \in running
  /\ running' = running \ {w} /\ allocated' = allocated - 1
  /\ UNCHANGED <<progress, resources, pool, alive, queued, file>>
-----------------------------------------------------------------------------
(***************************************************************************)
(* rmmod: paxos_persistence_exit, once no file is open.                    *)
(***************************************************************************)
rmmod ==
  /\ module = "live" /\ \A p \in Processes : file[p] = "none"
  /\ module' = "exit"
  /\ UNCHANGED <<nth, step, resources, pool, threads, file>>

Exits(d, s) ==
  /\ module = "exit" /\ d = ExitOrder[nth] /\ s = ExitSteps[step]

ContinueExit ==
  IF step < Len(ExitSteps)
  THEN step' = step + 1 /\ UNCHANGED <<module, nth>>
  ELSE NextDevice("out")

\* Waking the wait queue of a device that was never set up fails; the class is
\* unregistered twice, the second time freed, which may go unnoticed.
ExitDevice(d) ==
  /\ Exits(d, "device")
  /\ \/ /\ ready[d] /\ ContinueExit
        /\ node' = [node EXCEPT ![d] = "freed"]
        /\ class' = [class EXCEPT ![d] = "freed"]
        /\ UNCHANGED <<chrdev, bufs, mutex, ready, pool, threads, file>>
     \/ Oops

ExitBuffers(d) ==
  /\ Exits(d, "free") /\ ContinueExit
  /\ bufs' = [bufs EXCEPT ![d] = "freed"]
  /\ UNCHANGED <<chrdev, class, node, mutex, ready, pool, threads, file>>

ExitChrdev(d) ==
  /\ Exits(d, "unregister") /\ ContinueExit
  /\ chrdev' = [chrdev EXCEPT ![d] = FALSE]
  /\ UNCHANGED <<class, node, bufs, mutex, ready, pool, threads, file>>

\* free_pool stops the threads one by one; kthread_stop waits for the work
\* function to return.
kthread_stop(w) ==
  /\ Exits("read-test", "stop") /\ w \in alive \ running
  /\ alive' = alive \ {w}
  /\ UNCHANGED <<progress, resources, pool, running, queued, allocated, file>>

\* Mutant: persistence_device_destroy is left out.
free_pool_Never(d) ==
  /\ Exits(d, "stop") /\ ContinueExit
  /\ UNCHANGED <<resources, pool, threads, file>>

\* What is still queued is never freed.
free_pool(d) ==
  /\ Exits(d, "stop") /\ ContinueExit
  /\ IF d \in TestDevices /\ pool[d] = "live"
     THEN /\ pool' = [pool EXCEPT ![d] = "freed"]
          /\ d = "read-test" => alive = {}
          /\ queued' = IF d = "read-test" THEN 0 ELSE queued
     ELSE UNCHANGED <<pool, queued>>
  /\ UNCHANGED <<resources, alive, running, allocated, file>>
-----------------------------------------------------------------------------
InitStep ==
  \E d \in Devices :
    create_pool(d) \/ major_number(d) \/ reg_dev_class(d) \/ reg_char_class(d)
    \/ AllocateArrays(d) \/ AllocateSlots(d) \/ InitMutex(d) \/ InitQueue(d)

ExitStep ==
  \/ \E d \in Devices : ExitDevice(d) \/ ExitBuffers(d) \/ ExitChrdev(d)
                        \/ free_pool(d)
  \/ \E w \in Workers : kthread_stop(w)

Next ==
  \/ insmod \/ InitStep \/ rmmod \/ ExitStep
  \/ \E p \in Processes : \/ \E d \in Devices : Open(p, d)
                          \/ Release(p) \/ WriteUnready(p) \/ WriteRequest(p)
                          \/ PollUnready(p)
  \/ \E w \in Workers : WorkerTakes(w) \/ wait_response(w)

Spec == Init /\ [][Next]_vars

\* insmod and rmmod run on, and a worker inside wait_response is scheduled: the
\* condition it waits for always holds.
Fairness ==
  WF_vars(InitStep) /\ WF_vars(ExitStep) /\ \A w \in Workers : WF_vars(wait_response(w))

FairSpec == Spec /\ Fairness
-----------------------------------------------------------------------------
\* Every variable has its type; no more work items are freed than there are.
TypeOK ==
  /\ module \in {"out", "init", "live", "exit"}
  /\ nth \in 1 .. Len(InitOrder) /\ step \in 1 .. Len(InitSteps)
  /\ chrdev \in [Devices -> BOOLEAN]
  /\ class \in [Devices -> {"null", "live", "error", "freed"}]
  /\ node \in [Devices -> {"null", "live", "error", "freed"}]
  /\ bufs \in [Devices -> {"null", "filling", "live", "freed"}]
  /\ mutex \in [Devices -> Processes \cup {Nobody, "zero"}]
  /\ ready \in [Devices -> BOOLEAN]
  /\ pool \in [TestDevices -> {"null", "live", "freed"}]
  /\ alive \subseteq Workers /\ running \subseteq Workers
  /\ queued \in 0 .. MaxWorks /\ allocated \in 0 .. MaxWorks
  /\ file \in [Processes -> Devices \cup {"none"}]

\* A process that has a device open can rely on its buffers and is the only
\* one that has it open, although the device is visible before it is set up and
\* the mutex is (re)initialised after that.
OpenMeansSetUp ==
  \A p \in Processes :
    file[p] # "none" => bufs[file[p]] = "live" /\ mutex[file[p]] = p

\* A worker inside wait_response has its callback, which belongs to another
\* device, and its thread: also if the module is unloaded while it runs.
WorkersHaveCallbacks ==
  \A w \in running :
    bufs["read-persistence"] = "live" /\ w \in alive

\* Once the module is out, the devices, classes, buffers, pools and threads of
\* this load are gone.
UnloadReturnsAll ==
  module = "out" =>
    /\ alive = {} /\ \A d \in TestDevices : pool[d] # "live"
    /\ \A d \in Devices :
         /\ ~chrdev[d] /\ class[d] # "live" /\ node[d] # "live"
         /\ bufs[d] \in {"null", "freed"}

\* "paxos persistence initialized" (persistence_main.c:47): the four devices
\* are set up.
InitializedMeansReady == module = "live" => \A d \in Devices : ready[d]

\* rmmod ends, although it waits for the workers.
UnloadEnds == module = "exit" ~> module = "out"
=============================================================================
