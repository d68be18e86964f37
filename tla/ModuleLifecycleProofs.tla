----------------------- MODULE ModuleLifecycleProofs -----------------------
(***************************************************************************)
(* Proofs about ModuleLifecycle, for every set of processes and of workers *)
(* and every bound on the work items.                                      *)
(***************************************************************************)
EXTENDS ModuleLifecycle, FiniteSetTheorems, TLAPS

\* A device's turn in paxos_persistence_init and paxos_persistence_exit.
Turn(d) == IF d = "write-test" THEN 1 ELSE IF d = "read-test" THEN 2
           ELSE IF d = "write-persistence" THEN 3 ELSE 4

(***************************************************************************)
(* The inductive invariant.                                                *)
(***************************************************************************)

\* The work items in the queues and in the workers are in memory.
WorkInv ==
  IsFiniteSet(running) /\ queued + Cardinality(running) <= allocated

\* No file is open while the module is going or gone.
FileInv ==
  /\ OpenMeansSetUp
  /\ module \in {"exit", "out"} => \A p \in Processes : file[p] = "none"

\* Work is queued and done only where there is a pool for it and the callbacks
\* exist; the pools are made at the first step of their device's turn and are
\* gone after its turn to exit.
PoolInv ==
  /\ running \subseteq alive
  /\ pool["read-test"] # "live" => alive = {} /\ queued = 0
  /\ queued > 0 \/ running # {} => bufs["read-persistence"] = "live"
  /\ \A d \in TestDevices :
       /\ module = "out" => pool[d] # "live"
       /\ module = "init" /\ (Turn(d) > nth \/ (Turn(d) = nth /\ step = 1))
            => pool[d] = "null"
       /\ module = "exit" /\ Turn(d) < nth => pool[d] # "live"

\* How far the turn decides what is there of a device.
Gone(d) ==
  /\ ~chrdev[d] /\ class[d] # "live" /\ node[d] # "live"
  /\ bufs[d] \in {"null", "freed"}

Untouched(d) ==
  /\ ~chrdev[d] /\ class[d] = "null" /\ node[d] = "null" /\ bufs[d] = "null"
  /\ mutex[d] = "zero" /\ ~ready[d]

BeingSetUp(d) ==
  /\ ~ready[d]
  /\ step <= 7 => mutex[d] = "zero"
  /\ step <= 5 => bufs[d] = "null"
  /\ step = 6 => bufs[d] = "filling"
  /\ step >= 7 => bufs[d] = "live"

SetUpOrFailed(d) ==
  /\ mutex[d] # "zero" => bufs[d] = "live"
  /\ ready[d] => bufs[d] = "live"
  /\ bufs[d] \in {"null", "live"}

BeingRemoved(d) ==
  /\ step > 1 => class[d] # "live" /\ node[d] # "live"
  /\ step > 2 => bufs[d] = "freed"
  /\ step > 3 => ~chrdev[d]

DeviceInv ==
  /\ module \in {"out", "live"} => nth = 1 /\ step = 1
  /\ module = "exit" => step <= 4
  /\ \A d \in Devices :
       /\ module = "out" => Gone(d)
       /\ module = "init" => /\ Turn(d) > nth => Untouched(d)
                             /\ Turn(d) = nth => BeingSetUp(d)
                             /\ Turn(d) < nth => SetUpOrFailed(d)
       /\ module = "live" => SetUpOrFailed(d)
       /\ module = "exit" => /\ Turn(d) = nth => BeingRemoved(d)
                             /\ Turn(d) < nth => Gone(d)

IInv == TypeOK /\ WorkInv /\ FileInv /\ PoolInv /\ DeviceInv
-----------------------------------------------------------------------------
(***************************************************************************)
(* The order of the devices and of the steps.                              *)
(***************************************************************************)
LEMMA Lengths == Len(InitOrder) = 4 /\ Len(InitSteps) = 8 /\ Len(ExitSteps) = 4
  BY DEF InitOrder, InitSteps, ExitSteps

LEMMA DeviceTurn ==
  ASSUME NEW n \in 1 .. 4
  PROVE  /\ InitOrder[n] \in Devices /\ Turn(InitOrder[n]) = n
         /\ ExitOrder[n] \in Devices /\ Turn(ExitOrder[n]) = n
<1>1. n = 1 \/ n = 2 \/ n = 3 \/ n = 4
  OBVIOUS
<1>2. QED
  BY <1>1 DEF InitOrder, ExitOrder, Devices, Turn

LEMMA TurnsDiffer ==
  ASSUME NEW d \in Devices, NEW e \in Devices, d # e
  PROVE  Turn(d) # Turn(e)
  BY DEF Devices, Turn

LEMMA TurnRange == ASSUME NEW d \in Devices PROVE Turn(d) \in 1 .. 4
  BY DEF Devices, Turn

LEMMA InitStepNumber ==
  ASSUME NEW n \in 1 .. 8
  PROVE  /\ InitSteps[n] = "pool" <=> n = 1
         /\ InitSteps[n] = "major" <=> n = 2
         /\ InitSteps[n] = "class" <=> n = 3
         /\ InitSteps[n] = "device" <=> n = 4
         /\ InitSteps[n] = "buffers" <=> n = 5
         /\ InitSteps[n] = "fill" <=> n = 6
         /\ InitSteps[n] = "mutex" <=> n = 7
         /\ InitSteps[n] = "queue" <=> n = 8
<1>1. n = 1 \/ n = 2 \/ n = 3 \/ n = 4 \/ n = 5 \/ n = 6 \/ n = 7 \/ n = 8
  OBVIOUS
<1>2. QED
  BY <1>1 DEF InitSteps

LEMMA ExitStepNumber ==
  ASSUME NEW n \in 1 .. 4
  PROVE  /\ ExitSteps[n] = "device" <=> n = 1
         /\ ExitSteps[n] = "free" <=> n = 2
         /\ ExitSteps[n] = "unregister" <=> n = 3
         /\ ExitSteps[n] = "stop" <=> n = 4
<1>1. n = 1 \/ n = 2 \/ n = 3 \/ n = 4
  OBVIOUS
<1>2. QED
  BY <1>1 DEF ExitSteps

\* Init goes on with the device's next step, or with the next device.
StepsOn == step < 8 /\ step' = step + 1 /\ nth' = nth /\ module' = module
LeavesDevice ==
  /\ step' = 1
  /\ \/ nth < 4 /\ nth' = nth + 1 /\ module' = module
     \/ nth = 4 /\ nth' = 1 /\ module' = "live"

LEMMA Continues ==
  ASSUME nth \in 1 .. 4, step \in 1 .. 8, Continue
  PROVE  StepsOn \/ (step = 8 /\ LeavesDevice)
  BY Lengths DEF Continue, NextDevice, StepsOn, LeavesDevice

LEMMA GivesUp ==
  ASSUME nth \in 1 .. 4, NextDevice("live")
  PROVE  LeavesDevice
  BY Lengths DEF NextDevice, LeavesDevice

LEMMA ContinuesExit ==
  ASSUME nth \in 1 .. 4, step \in 1 .. 4, ContinueExit
  PROVE  \/ step < 4 /\ step' = step + 1 /\ nth' = nth /\ module' = module
         \/ step = 4 /\ nth < 4 /\ step' = 1 /\ nth' = nth + 1 /\ module' = module
         \/ step = 4 /\ nth = 4 /\ step' = 1 /\ nth' = 1 /\ module' = "out"
  BY Lengths DEF ContinueExit, NextDevice

\* The device whose turn it is, and its step.
LEMMA AtInit ==
  ASSUME TypeOK, NEW d \in Devices, NEW s, Initialises(d, s)
  PROVE  /\ module = "init" /\ nth \in 1 .. 4 /\ step \in 1 .. 8
         /\ Turn(d) = nth /\ InitSteps[step] = s
  BY Lengths, DeviceTurn DEF TypeOK, Initialises

LEMMA AtExit ==
  ASSUME TypeOK, DeviceInv, NEW d \in Devices, NEW s, Exits(d, s)
  PROVE  /\ module = "exit" /\ nth \in 1 .. 4 /\ step \in 1 .. 4
         /\ Turn(d) = nth /\ ExitSteps[step] = s
  BY Lengths, DeviceTurn DEF TypeOK, DeviceInv, Exits
-----------------------------------------------------------------------------
(***************************************************************************)
(* A machine that has just booted, as at the start.                        *)
(***************************************************************************)
Booted ==
  /\ module = "out" /\ nth = 1 /\ step = 1
  /\ chrdev = [d \in Devices |-> FALSE]
  /\ class = [d \in Devices |-> "null"] /\ node = [d \in Devices |-> "null"]
  /\ bufs = [d \in Devices |-> "null"]
  /\ mutex = [d \in Devices |-> "zero"] /\ ready = [d \in Devices |-> FALSE]
  /\ pool = [d \in TestDevices |-> "null"]
  /\ alive = {} /\ running = {} /\ queued = 0 /\ allocated = 0
  /\ file = [p \in Processes |-> "none"]

LEMMA BootedInv == ASSUME Booted PROVE IInv
<1>1. TypeOK
  BY LifecycleAssumption, Lengths DEF Booted, TypeOK
<1>2. WorkInv
  BY FS_EmptySet DEF Booted, WorkInv
<1>3. FileInv
  BY DEF Booted, FileInv, OpenMeansSetUp
<1>4. PoolInv
  BY DEF Booted, PoolInv, TestDevices
<1>5. DeviceInv
  BY DEF Booted, DeviceInv, Gone
<1>6. QED
  BY <1>1, <1>2, <1>3, <1>4, <1>5 DEF IInv

LEMMA InitInv == Init => IInv
  BY BootedInv DEF Init, Booted

LEMMA OopsInv == Oops => IInv'
<1>1. ASSUME Oops PROVE Booted'
  BY <1>1 DEF Oops, Zeroed, Booted
<1>2. Booted' => IInv'
  BY BootedInv, PTL
<1>3. QED
  BY <1>1, <1>2
-----------------------------------------------------------------------------
(***************************************************************************)
(* insmod and the steps of paxos_persistence_init.                         *)
(***************************************************************************)
LEMMA insmodInv == ASSUME IInv, insmod PROVE IInv'
<1> USE DEF IInv, insmod, Zeroed, threads
<1>1. TypeOK'
  BY LifecycleAssumption DEF TypeOK
<1>2. WorkInv'
  BY DEF WorkInv
<1>3. FileInv'
  BY DEF FileInv, OpenMeansSetUp
<1>4. PoolInv'
  BY DEF PoolInv, TypeOK, TestDevices
<1>5. DeviceInv'
  BY TurnRange DEF DeviceInv, TypeOK, Gone, Untouched, BeingSetUp
<1>6. QED
  BY <1>1, <1>2, <1>3, <1>4, <1>5

\* The resources have their types; only those of device d change.
ResourcesOK ==
  /\ chrdev \in [Devices -> BOOLEAN]
  /\ class \in [Devices -> {"null", "live", "error", "freed"}]
  /\ node \in [Devices -> {"null", "live", "error", "freed"}]
  /\ bufs \in [Devices -> {"null", "filling", "live", "freed"}]
  /\ mutex \in [Devices -> Processes \cup {Nobody, "zero"}]
  /\ ready \in [Devices -> BOOLEAN]

OnlyOf(d) ==
  \A e \in Devices \ {d} :
    /\ chrdev'[e] = chrdev[e] /\ class'[e] = class[e] /\ node'[e] = node[e]
    /\ bufs'[e] = bufs[e] /\ mutex'[e] = mutex[e] /\ ready'[e] = ready[e]

\* What an init step of device d has to establish for DeviceInv.
LEMMA InitProgress ==
  ASSUME IInv, NEW d \in Devices, Turn(d) = nth, module = "init", OnlyOf(d),
         \/ StepsOn /\ BeingSetUp(d)'
         \/ LeavesDevice /\ SetUpOrFailed(d)'
  PROVE  DeviceInv'
<1>1. nth \in 1 .. 4 /\ step \in 1 .. 8
  BY Lengths DEF IInv, TypeOK
<1>2. ASSUME NEW e \in Devices \ {d}
      PROVE  /\ Turn(e) \in 1 .. 4 /\ Turn(e) # nth
             /\ Untouched(e) => Untouched(e)' /\ (step' = 1 => BeingSetUp(e)')
             /\ SetUpOrFailed(e) => SetUpOrFailed(e)'
  BY <1>2, TurnRange, TurnsDiffer DEF Untouched, BeingSetUp, SetUpOrFailed, OnlyOf
<1>3. QED
  BY <1>1, <1>2 DEF IInv, DeviceInv, StepsOn, LeavesDevice

\* The rest of the invariant does not depend on a device that is not set up.
LEMMA InitFrame ==
  ASSUME IInv, NEW d \in Devices, Turn(d) = nth, module = "init",
         StepsOn \/ LeavesDevice, UNCHANGED <<pool, threads, file>>,
         \A e \in Devices \ {d} : bufs'[e] = bufs[e] /\ mutex'[e] = mutex[e],
         mutex[d] = "zero" \/ (bufs'[d] = bufs[d] /\ mutex'[d] = mutex[d]),
         bufs[d] # "live" \/ bufs'[d] = bufs[d]
  PROVE  WorkInv' /\ FileInv' /\ PoolInv'
<1>1. nth \in 1 .. 4 /\ step \in 1 .. 8
  BY Lengths DEF IInv, TypeOK
<1>2. module' \in {"init", "live"}
  BY DEF StepsOn, LeavesDevice
<1>3. WorkInv'
  BY DEF IInv, WorkInv, threads
<1>4. FileInv'
  <2>1. ASSUME NEW p \in Processes, file[p] # "none"
        PROVE  bufs'[file[p]] = "live" /\ mutex'[file[p]] = p
    <3>1. file[p] \in Devices /\ bufs[file[p]] = "live" /\ mutex[file[p]] = p
      BY <2>1 DEF IInv, TypeOK, FileInv, OpenMeansSetUp
    <3>2. p # "zero"
      BY LifecycleAssumption
    <3>3. QED
      BY <3>1, <3>2
  <2>2. QED
    BY <1>2, <2>1 DEF FileInv, OpenMeansSetUp
<1>5. PoolInv'
  <2>1. queued > 0 \/ running # {} => bufs'["read-persistence"] = "live"
    BY DEF IInv, PoolInv, Devices
  <2>2. ASSUME NEW e \in TestDevices
        PROVE  module' = "init" /\ (Turn(e) > nth' \/ (Turn(e) = nth' /\ step' = 1))
                 => pool[e] = "null"
    BY <1>1, <2>2, TurnRange DEF IInv, PoolInv, TestDevices, Devices, StepsOn, LeavesDevice
  <2>3. QED
    BY <1>2, <2>1, <2>2 DEF IInv, PoolInv, threads
<1>6. QED
  BY <1>3, <1>4, <1>5

\* A step of device d's initialisation, other than create_pool, that leaves it
\* as its next step, or its end, expects it to be.
LEMMA InitStepInv ==
  ASSUME IInv, NEW d \in Devices, Turn(d) = nth, module = "init",
         UNCHANGED <<pool, threads, file>>, ResourcesOK', OnlyOf(d),
         mutex[d] = "zero" \/ (bufs'[d] = bufs[d] /\ mutex'[d] = mutex[d]),
         bufs[d] # "live" \/ bufs'[d] = bufs[d],
         \/ StepsOn /\ BeingSetUp(d)'
         \/ LeavesDevice /\ SetUpOrFailed(d)'
  PROVE  IInv'
<1>1. StepsOn \/ LeavesDevice
  OBVIOUS
<1>2. TypeOK'
  <2>1. /\ module' \in {"out", "init", "live", "exit"}
        /\ nth' \in 1 .. Len(InitOrder) /\ step' \in 1 .. Len(InitSteps)
    BY <1>1, Lengths DEF IInv, TypeOK, StepsOn, LeavesDevice
  <2>2. QED
    BY <2>1 DEF IInv, TypeOK, ResourcesOK, threads
<1>3. DeviceInv'
  BY InitProgress
<1>4. WorkInv' /\ FileInv' /\ PoolInv'
  BY <1>1, InitFrame DEF OnlyOf
<1>5. QED
  BY <1>2, <1>3, <1>4 DEF IInv

LEMMA major_numberInv ==
  ASSUME IInv, NEW d \in Devices, major_number(d) PROVE IInv'
<1>1. Turn(d) = nth /\ module = "init" /\ step = 2 /\ nth \in 1 .. 4
  BY AtInit, InitStepNumber DEF major_number, IInv
<1>2. BeingSetUp(d) /\ ResourcesOK
  BY <1>1 DEF IInv, DeviceInv, TypeOK, ResourcesOK
<1>3. CASE Continue /\ chrdev' = [chrdev EXCEPT ![d] = TRUE]
           /\ UNCHANGED <<class, node, bufs, mutex, ready, pool, threads, file>>
  <2>1. StepsOn
    BY <1>1, <1>3, Continues
  <2>2. ResourcesOK' /\ OnlyOf(d) /\ BeingSetUp(d)'
    BY <1>1, <1>2, <1>3, <2>1 DEF ResourcesOK, OnlyOf, BeingSetUp, StepsOn
  <2>3. QED
    BY <1>1, <1>2, <1>3, <2>1, <2>2, InitStepInv DEF BeingSetUp
<1>4. CASE NextDevice("live") /\ UNCHANGED <<resources, pool, threads, file>>
  <2>1. LeavesDevice
    BY <1>1, <1>4, GivesUp
  <2>2. ResourcesOK' /\ OnlyOf(d) /\ SetUpOrFailed(d)'
    BY <1>1, <1>2, <1>4 DEF ResourcesOK, OnlyOf, BeingSetUp, SetUpOrFailed, resources
  <2>3. QED
    BY <1>1, <1>2, <1>4, <2>1, <2>2, InitStepInv DEF BeingSetUp, resources
<1>5. CASE Oops
  BY <1>5, OopsInv
<1>6. QED
  BY <1>3, <1>4, <1>5 DEF major_number

LEMMA reg_dev_classInv ==
  ASSUME IInv, NEW d \in Devices, reg_dev_class(d) PROVE IInv'
<1>1. Turn(d) = nth /\ module = "init" /\ step = 3 /\ nth \in 1 .. 4
  BY AtInit, InitStepNumber DEF reg_dev_class, IInv
<1>2. BeingSetUp(d) /\ ResourcesOK
  BY <1>1 DEF IInv, DeviceInv, TypeOK, ResourcesOK
<1>3. CASE Continue /\ class' = [class EXCEPT ![d] = "live"]
           /\ UNCHANGED <<chrdev, node, bufs, mutex, ready, pool, threads, file>>
  <2>1. StepsOn
    BY <1>1, <1>3, Continues
  <2>2. ResourcesOK' /\ OnlyOf(d) /\ BeingSetUp(d)'
    BY <1>1, <1>2, <1>3, <2>1 DEF ResourcesOK, OnlyOf, BeingSetUp, StepsOn
  <2>3. QED
    BY <1>1, <1>2, <1>3, <2>1, <2>2, InitStepInv DEF BeingSetUp
<1>4. CASE /\ NextDevice("live") /\ class' = [class EXCEPT ![d] = "error"]
           /\ chrdev' = [chrdev EXCEPT ![d] = FALSE]
           /\ UNCHANGED <<node, bufs, mutex, ready, pool, threads, file>>
  <2>1. LeavesDevice
    BY <1>1, <1>4, GivesUp
  <2>2. ResourcesOK' /\ OnlyOf(d) /\ SetUpOrFailed(d)'
    BY <1>1, <1>2, <1>4 DEF ResourcesOK, OnlyOf, BeingSetUp, SetUpOrFailed
  <2>3. QED
    BY <1>1, <1>2, <1>4, <2>1, <2>2, InitStepInv DEF BeingSetUp
<1>5. CASE Oops
  BY <1>5, OopsInv
<1>6. QED
  BY <1>3, <1>4, <1>5 DEF reg_dev_class

LEMMA reg_char_classInv ==
  ASSUME IInv, NEW d \in Devices, reg_char_class(d) PROVE IInv'
<1>1. Turn(d) = nth /\ module = "init" /\ step = 4 /\ nth \in 1 .. 4
  BY AtInit, InitStepNumber DEF reg_char_class, IInv
<1>2. BeingSetUp(d) /\ ResourcesOK
  BY <1>1 DEF IInv, DeviceInv, TypeOK, ResourcesOK
<1>3. UNCHANGED <<bufs, mutex, ready, pool, threads, file>>
  BY DEF reg_char_class
<1>4. CASE Continue /\ node' = [node EXCEPT ![d] = "live"] /\ UNCHANGED <<chrdev, class>>
  <2>1. StepsOn
    BY <1>1, <1>4, Continues
  <2>2. ResourcesOK' /\ OnlyOf(d) /\ BeingSetUp(d)'
    BY <1>1, <1>2, <1>3, <1>4, <2>1 DEF ResourcesOK, OnlyOf, BeingSetUp, StepsOn
  <2>3. QED
    BY <1>1, <1>2, <1>3, <2>1, <2>2, InitStepInv DEF BeingSetUp
<1>5. CASE /\ NextDevice("live") /\ node' = [node EXCEPT ![d] = "error"]
           /\ class' = [class EXCEPT ![d] = "freed"]
           /\ chrdev' = [chrdev EXCEPT ![d] = FALSE]
  <2>1. LeavesDevice
    BY <1>1, <1>5, GivesUp
  <2>2. ResourcesOK' /\ OnlyOf(d) /\ SetUpOrFailed(d)'
    BY <1>1, <1>2, <1>3, <1>5 DEF ResourcesOK, OnlyOf, BeingSetUp, SetUpOrFailed
  <2>3. QED
    BY <1>1, <1>2, <1>3, <2>1, <2>2, InitStepInv DEF BeingSetUp
<1>6. QED
  BY <1>4, <1>5 DEF reg_char_class

LEMMA AllocateArraysInv ==
  ASSUME IInv, NEW d \in Devices, AllocateArrays(d) PROVE IInv'
<1>1. Turn(d) = nth /\ module = "init" /\ step = 5 /\ nth \in 1 .. 4
  BY AtInit, InitStepNumber DEF AllocateArrays, IInv
<1>2. BeingSetUp(d) /\ ResourcesOK
  BY <1>1 DEF IInv, DeviceInv, TypeOK, ResourcesOK
<1>3. CASE Continue /\ bufs' = [bufs EXCEPT ![d] = "filling"]
           /\ UNCHANGED <<chrdev, class, node, mutex, ready, pool, threads, file>>
  <2>1. StepsOn
    BY <1>1, <1>3, Continues
  <2>2. ResourcesOK' /\ OnlyOf(d) /\ BeingSetUp(d)'
    BY <1>1, <1>2, <1>3, <2>1 DEF ResourcesOK, OnlyOf, BeingSetUp, StepsOn
  <2>3. QED
    BY <1>1, <1>2, <1>3, <2>1, <2>2, InitStepInv DEF BeingSetUp
<1>4. CASE Oops
  BY <1>4, OopsInv
<1>5. QED
  BY <1>3, <1>4 DEF AllocateArrays

LEMMA AllocateSlotsInv ==
  ASSUME IInv, NEW d \in Devices, AllocateSlots(d) PROVE IInv'
<1>1. Turn(d) = nth /\ module = "init" /\ step = 6 /\ nth \in 1 .. 4
  BY AtInit, InitStepNumber DEF AllocateSlots, IInv
<1>2. BeingSetUp(d) /\ ResourcesOK
  BY <1>1 DEF IInv, DeviceInv, TypeOK, ResourcesOK
<1>3. CASE Continue /\ bufs' = [bufs EXCEPT ![d] = "live"]
           /\ UNCHANGED <<chrdev, class, node, mutex, ready, pool, threads, file>>
  <2>1. StepsOn
    BY <1>1, <1>3, Continues
  <2>2. ResourcesOK' /\ OnlyOf(d) /\ BeingSetUp(d)'
    BY <1>1, <1>2, <1>3, <2>1 DEF ResourcesOK, OnlyOf, BeingSetUp, StepsOn
  <2>3. QED
    BY <1>1, <1>2, <1>3, <2>1, <2>2, InitStepInv DEF BeingSetUp
<1>4. CASE Oops
  BY <1>4, OopsInv
<1>5. QED
  BY <1>3, <1>4 DEF AllocateSlots

LEMMA InitMutexInv ==
  ASSUME IInv, NEW d \in Devices, InitMutex(d) PROVE IInv'
<1>1. Turn(d) = nth /\ module = "init" /\ step = 7 /\ nth \in 1 .. 4
  BY AtInit, InitStepNumber DEF InitMutex, IInv
<1>2. BeingSetUp(d) /\ ResourcesOK
  BY <1>1 DEF IInv, DeviceInv, TypeOK, ResourcesOK
<1>3. StepsOn
  BY <1>1, Continues DEF InitMutex
<1>4. ResourcesOK' /\ OnlyOf(d) /\ BeingSetUp(d)'
  BY <1>1, <1>2, <1>3 DEF InitMutex, ResourcesOK, OnlyOf, BeingSetUp, StepsOn
<1>5. QED
  BY <1>1, <1>2, <1>3, <1>4, InitStepInv DEF InitMutex, BeingSetUp

LEMMA InitQueueInv ==
  ASSUME IInv, NEW d \in Devices, InitQueue(d) PROVE IInv'
<1>1. Turn(d) = nth /\ module = "init" /\ step = 8 /\ nth \in 1 .. 4
  BY AtInit, InitStepNumber DEF InitQueue, IInv
<1>2. BeingSetUp(d) /\ ResourcesOK
  BY <1>1 DEF IInv, DeviceInv, TypeOK, ResourcesOK
<1>3. LeavesDevice
  BY <1>1, Continues DEF InitQueue, StepsOn
<1>4. ResourcesOK' /\ OnlyOf(d) /\ SetUpOrFailed(d)'
  BY <1>1, <1>2 DEF InitQueue, ResourcesOK, OnlyOf, BeingSetUp, SetUpOrFailed
<1>5. QED
  BY <1>1, <1>2, <1>3, <1>4, InitStepInv DEF InitQueue

\* At the first step of read-test's turn there are no threads and no work yet.
LEMMA create_poolInv ==
  ASSUME IInv, NEW d \in Devices, create_pool(d) PROVE IInv'
<1>1. Turn(d) = nth /\ module = "init" /\ step = 1 /\ nth \in 1 .. 4
  BY AtInit, InitStepNumber DEF create_pool, IInv
<1>2. BeingSetUp(d) /\ ResourcesOK
  BY <1>1 DEF IInv, DeviceInv, TypeOK, ResourcesOK
<1>3. CASE d \notin TestDevices /\ Continue
           /\ UNCHANGED <<pool, threads, file, resources>>
  <2>1. StepsOn
    BY <1>1, <1>3, Continues
  <2>2. ResourcesOK' /\ OnlyOf(d) /\ BeingSetUp(d)'
    BY <1>1, <1>2, <1>3, <2>1 DEF ResourcesOK, OnlyOf, BeingSetUp, StepsOn, resources
  <2>3. QED
    BY <1>1, <1>2, <1>3, <2>1, <2>2, InitStepInv DEF resources
<1>4. ASSUME d \in TestDevices, Continue, NEW q \in {"null", "live"},
             pool' = [pool EXCEPT ![d] = q],
             alive' = IF d = "read-test" /\ pool'[d] = "live" THEN Workers ELSE alive,
             UNCHANGED <<running, queued, allocated, file, resources>>
      PROVE  IInv'
  <2>1. StepsOn
    BY <1>1, <1>4, Continues
  <2>2. ResourcesOK' /\ OnlyOf(d) /\ BeingSetUp(d)'
    BY <1>1, <1>2, <1>4, <2>1 DEF ResourcesOK, OnlyOf, BeingSetUp, StepsOn, resources
  <2>3. DeviceInv'
    BY <1>1, <2>1, <2>2, InitProgress
  <2>4. TypeOK'
    BY <1>1, <1>4, <2>1, <2>2, Lengths DEF IInv, TypeOK, ResourcesOK, StepsOn
  <2>5. WorkInv' /\ FileInv'
    BY <1>1, <1>4, <2>1 DEF IInv, WorkInv, FileInv, OpenMeansSetUp, StepsOn, resources
  <2>6. pool[d] = "null"
    BY <1>1, <1>4 DEF IInv, PoolInv
  <2>7. ASSUME NEW e \in TestDevices, e # d
        PROVE  pool'[e] = pool[e] /\ Turn(e) # nth
    BY <1>1, <1>4, <2>7, TurnsDiffer DEF IInv, TypeOK, TestDevices, Devices
  <2>8. PoolInv'
    <3>1. running' \subseteq alive'
      BY <1>4 DEF IInv, PoolInv, TypeOK
    <3>2. pool'["read-test"] # "live" => alive' = {} /\ queued' = 0
      BY <1>4, <2>6, <2>7 DEF IInv, PoolInv, TypeOK, TestDevices
    <3>3. queued' > 0 \/ running' # {} => bufs'["read-persistence"] = "live"
      BY <1>4 DEF IInv, PoolInv, resources
    <3>4. \A e \in TestDevices :
            module' = "init" /\ (Turn(e) > nth' \/ (Turn(e) = nth' /\ step' = 1))
              => pool'[e] = "null"
      BY <1>1, <2>1, <2>7 DEF IInv, PoolInv, StepsOn
    <3>5. QED
      BY <1>1, <2>1, <3>1, <3>2, <3>3, <3>4 DEF PoolInv, StepsOn
  <2>9. QED
    BY <2>3, <2>4, <2>5, <2>8 DEF IInv
<1>5. CASE Oops
  BY <1>5, OopsInv
<1>6. QED
  BY <1>3, <1>4, <1>5 DEF create_pool
-----------------------------------------------------------------------------
(***************************************************************************)
(* Processes and workers.                                                  *)
(***************************************************************************)
LEMMA OpenInv ==
  ASSUME IInv, NEW p \in Processes, NEW d \in Devices, Open(p, d) PROVE IInv'
<1> USE DEF Open, progress, threads
<1>1. Nobody # "zero" /\ p # Nobody /\ p # "zero"
  BY LifecycleAssumption
<1>2. TypeOK'
  BY DEF IInv, TypeOK
<1>3. WorkInv' /\ PoolInv'
  BY DEF IInv, WorkInv, PoolInv
<1>4. bufs[d] = "live" /\ module \in {"init", "live"}
  BY <1>1, TurnRange, Lengths
  DEF IInv, TypeOK, DeviceInv, Untouched, BeingSetUp, SetUpOrFailed
<1>5. FileInv'
  <2>1. ASSUME NEW q \in Processes, file'[q] # "none"
        PROVE  bufs'[file'[q]] = "live" /\ mutex'[file'[q]] = q
    <3>1. CASE q = p
      BY <1>4, <3>1 DEF IInv, TypeOK
    <3>2. CASE q # p
      <4>1. file'[q] = file[q] /\ file[q] \in Devices /\ q # Nobody
        BY <2>1, <3>2, LifecycleAssumption DEF IInv, TypeOK
      <4>2. bufs[file[q]] = "live" /\ mutex[file[q]] = q
        BY <2>1, <4>1 DEF IInv, FileInv, OpenMeansSetUp
      <4>3. QED
        BY <4>1, <4>2 DEF IInv, TypeOK
    <3>3. QED
      BY <3>1, <3>2
  <2>2. QED
    BY <1>4, <2>1 DEF FileInv, OpenMeansSetUp
<1>6. DeviceInv'
  <2>1. \A e \in Devices : \/ mutex'[e] = mutex[e]
                           \/ mutex[e] # "zero" /\ mutex'[e] # "zero"
    BY <1>1 DEF IInv, TypeOK
  <2>2. QED
    BY <2>1, <1>4 DEF IInv, DeviceInv, Untouched, BeingSetUp, SetUpOrFailed
<1>7. QED
  BY <1>2, <1>3, <1>5, <1>6 DEF IInv

LEMMA ReleaseInv ==
  ASSUME IInv, NEW p \in Processes, Release(p) PROVE IInv'
<1> USE DEF Release, progress, threads
<1>1. /\ Nobody # "zero" /\ p # "zero" /\ file[p] \in Devices
      /\ bufs[file[p]] = "live" /\ mutex[file[p]] = p /\ module \in {"init", "live"}
  BY LifecycleAssumption DEF IInv, TypeOK, FileInv, OpenMeansSetUp
<1>2. TypeOK'
  BY <1>1 DEF IInv, TypeOK
<1>3. WorkInv' /\ PoolInv'
  BY DEF IInv, WorkInv, PoolInv
<1>4. FileInv'
  BY <1>1 DEF IInv, TypeOK, FileInv, OpenMeansSetUp
<1>5. DeviceInv'
  <2>1. \A e \in Devices : \/ mutex'[e] = mutex[e]
                           \/ mutex[e] # "zero" /\ mutex'[e] # "zero"
    BY <1>1 DEF IInv, TypeOK
  <2>2. QED
    BY <2>1, <1>1 DEF IInv, DeviceInv, Untouched, BeingSetUp, SetUpOrFailed
<1>6. QED
  BY <1>2, <1>3, <1>4, <1>5 DEF IInv

\* What is left alone when only the work items change.
LEMMA WorkFrame ==
  ASSUME IInv, UNCHANGED <<progress, resources, pool, file>>
  PROVE  FileInv' /\ DeviceInv'
  BY DEF IInv, FileInv, OpenMeansSetUp, DeviceInv, Gone, Untouched, BeingSetUp,
         SetUpOrFailed, BeingRemoved, progress, resources

\* The reader has read-test open, so the module stays, and the ring that is
\* ready has its buffers.
LEMMA WriteRequestInv ==
  ASSUME IInv, NEW p \in Processes, WriteRequest(p) PROVE IInv'
<1>1. module \in {"init", "live"}
  BY DEF WriteRequest, IInv, TypeOK, FileInv
<1>2. "read-persistence" \in Devices /\ ready["read-persistence"]
  BY DEF WriteRequest, Peer, TestDevices, Devices
<1>3. bufs["read-persistence"] = "live"
  BY <1>1, <1>2, TurnRange, Lengths
  DEF IInv, TypeOK, DeviceInv, Untouched, BeingSetUp, SetUpOrFailed
<1>4. IsFiniteSet(running) /\ Cardinality(running) \in Nat
  BY FS_CardinalityType DEF IInv, WorkInv
<1>5. WorkInv'
  BY <1>4 DEF WriteRequest, IInv, TypeOK, WorkInv
<1>6. TypeOK'
  <2>1. queued' \in 0 .. MaxWorks /\ allocated' \in 0 .. MaxWorks
    BY <1>4, LifecycleAssumption DEF WriteRequest, IInv, TypeOK, WorkInv
  <2>2. QED
    BY <2>1 DEF WriteRequest, IInv, TypeOK, progress, resources
<1>7. PoolInv'
  BY <1>1, <1>3 DEF WriteRequest, IInv, TypeOK, PoolInv, progress, resources
<1>8. FileInv' /\ DeviceInv'
  BY WorkFrame DEF WriteRequest
<1>9. QED
  BY <1>5, <1>6, <1>7, <1>8 DEF IInv

LEMMA WorkerTakesInv ==
  ASSUME IInv, NEW w \in Workers, WorkerTakes(w) PROVE IInv'
<1>1. IsFiniteSet(running) /\ Cardinality(running) \in Nat
  BY FS_CardinalityType DEF IInv, WorkInv
<1>2. IsFiniteSet(running') /\ Cardinality(running') = Cardinality(running) + 1
  BY <1>1, FS_AddElement DEF WorkerTakes
<1>3. WorkInv'
  BY <1>1, <1>2 DEF WorkerTakes, IInv, TypeOK, WorkInv
<1>4. TypeOK'
  BY LifecycleAssumption DEF WorkerTakes, IInv, TypeOK, progress, resources
<1>5. PoolInv'
  BY DEF WorkerTakes, IInv, TypeOK, PoolInv, progress, resources
<1>6. FileInv' /\ DeviceInv'
  BY WorkFrame DEF WorkerTakes
<1>7. QED
  BY <1>3, <1>4, <1>5, <1>6 DEF IInv

LEMMA wait_responseInv ==
  ASSUME IInv, NEW w \in Workers, wait_response(w) PROVE IInv'
<1>1. IsFiniteSet(running) /\ Cardinality(running) \in Nat
  BY FS_CardinalityType DEF IInv, WorkInv
<1>2. IsFiniteSet(running') /\ Cardinality(running') = Cardinality(running) - 1
  BY <1>1, FS_RemoveElement DEF wait_response
<1>3. Cardinality(running') \in Nat
  BY <1>2, FS_CardinalityType
<1>4. WorkInv'
  BY <1>1, <1>2, <1>3 DEF wait_response, IInv, TypeOK, WorkInv
<1>5. TypeOK'
  BY <1>1, <1>2, <1>3, LifecycleAssumption
  DEF wait_response, IInv, TypeOK, WorkInv, progress, resources
<1>6. PoolInv'
  BY DEF wait_response, IInv, TypeOK, PoolInv, progress, resources
<1>7. FileInv' /\ DeviceInv'
  BY WorkFrame DEF wait_response
<1>8. QED
  BY <1>4, <1>5, <1>6, <1>7 DEF IInv
-----------------------------------------------------------------------------
(***************************************************************************)
(* rmmod and the steps of paxos_persistence_exit.                          *)
(***************************************************************************)
LEMMA rmmodInv == ASSUME IInv, rmmod PROVE IInv'
<1> USE DEF rmmod, resources, threads
<1>1. TypeOK'
  BY DEF IInv, TypeOK
<1>2. WorkInv' /\ FileInv'
  BY DEF IInv, WorkInv, FileInv, OpenMeansSetUp
<1>3. module = "live" /\ module' = "exit" /\ nth' = 1 /\ step' = 1
  BY DEF IInv, DeviceInv
<1>4. PoolInv'
  BY <1>3, TurnRange DEF IInv, PoolInv, TestDevices, Devices
<1>5. DeviceInv'
  BY <1>3, TurnRange DEF DeviceInv, BeingRemoved
<1>6. QED
  BY <1>1, <1>2, <1>4, <1>5 DEF IInv

\* The next step, the next device, or the end of paxos_persistence_exit.
ExitsOn == step < 4 /\ step' = step + 1 /\ nth' = nth /\ module' = "exit"
LeavesExit ==
  /\ step = 4 /\ step' = 1
  /\ \/ nth < 4 /\ nth' = nth + 1 /\ module' = "exit"
     \/ nth = 4 /\ nth' = 1 /\ module' = "out"

\* What an exit step of device d has to establish.
LEMMA ExitProgress ==
  ASSUME IInv, NEW d \in Devices, Turn(d) = nth, module = "exit", OnlyOf(d),
         \/ ExitsOn /\ BeingRemoved(d)'
         \/ LeavesExit /\ Gone(d)'
  PROVE  DeviceInv'
<1>1. nth \in 1 .. 4 /\ step \in 1 .. 4
  BY Lengths DEF IInv, TypeOK, DeviceInv
<1>2. ASSUME NEW e \in Devices \ {d}
      PROVE  /\ Turn(e) \in 1 .. 4 /\ Turn(e) # nth
             /\ Gone(e) => Gone(e)'
             /\ step' = 1 => BeingRemoved(e)'
  BY <1>2, TurnRange, TurnsDiffer DEF Gone, BeingRemoved, OnlyOf
<1>3. QED
  BY <1>1, <1>2 DEF IInv, DeviceInv, ExitsOn, LeavesExit

\* An exit step of device d that leaves the pools and the threads alone.  Work
\* is done only until the pool is stopped, in read-test's turn, and the buffers
\* it needs are freed only later, in read-persistence's.
LEMMA ExitStepInv ==
  ASSUME IInv, NEW d \in Devices, Turn(d) = nth, module = "exit", ExitsOn,
         UNCHANGED <<pool, threads, file>>, ResourcesOK', OnlyOf(d), BeingRemoved(d)'
  PROVE  IInv'
<1>1. nth \in 1 .. 4 /\ step \in 1 .. 4
  BY Lengths DEF IInv, TypeOK, DeviceInv
<1>2. TypeOK'
  <2>1. nth' \in 1 .. Len(InitOrder) /\ step' \in 1 .. Len(InitSteps)
    BY <1>1, Lengths DEF ExitsOn
  <2>2. QED
    BY <2>1 DEF IInv, TypeOK, ResourcesOK, threads, ExitsOn
<1>3. DeviceInv'
  BY ExitProgress
<1>4. WorkInv' /\ FileInv'
  BY DEF IInv, WorkInv, FileInv, OpenMeansSetUp, ExitsOn, threads
<1>5. PoolInv'
  <2>1. queued > 0 \/ running # {} => d # "read-persistence"
    BY <1>1 DEF IInv, PoolInv, TestDevices, Turn, TypeOK
  <2>2. queued > 0 \/ running # {} => bufs'["read-persistence"] = "live"
    BY <2>1 DEF IInv, PoolInv, OnlyOf, Devices
  <2>3. QED
    BY <2>2 DEF IInv, PoolInv, threads, ExitsOn
<1>6. QED
  BY <1>2, <1>3, <1>4, <1>5 DEF IInv

LEMMA ExitDeviceInv ==
  ASSUME IInv, NEW d \in Devices, ExitDevice(d) PROVE IInv'
<1>1. Turn(d) = nth /\ module = "exit" /\ step = 1 /\ nth \in 1 .. 4 /\ ResourcesOK
  BY AtExit, ExitStepNumber DEF ExitDevice, IInv, TypeOK, ResourcesOK
<1>2. CASE /\ ready[d] /\ ContinueExit
           /\ node' = [node EXCEPT ![d] = "freed"]
           /\ class' = [class EXCEPT ![d] = "freed"]
           /\ UNCHANGED <<chrdev, bufs, mutex, ready, pool, threads, file>>
  <2>1. ExitsOn
    BY <1>1, <1>2, ContinuesExit DEF ExitsOn
  <2>2. ResourcesOK' /\ OnlyOf(d) /\ BeingRemoved(d)'
    BY <1>1, <1>2, <2>1 DEF ResourcesOK, OnlyOf, BeingRemoved, ExitsOn
  <2>3. QED
    BY <1>1, <1>2, <2>1, <2>2, ExitStepInv
<1>3. CASE Oops
  BY <1>3, OopsInv
<1>4. QED
  BY <1>2, <1>3 DEF ExitDevice

LEMMA ExitBuffersInv ==
  ASSUME IInv, NEW d \in Devices, ExitBuffers(d) PROVE IInv'
<1>1. Turn(d) = nth /\ module = "exit" /\ step = 2 /\ nth \in 1 .. 4
  BY AtExit, ExitStepNumber DEF ExitBuffers, IInv
<1>2. BeingRemoved(d) /\ ResourcesOK
  BY <1>1 DEF IInv, DeviceInv, TypeOK, ResourcesOK
<1>3. ExitsOn
  BY <1>1, ContinuesExit DEF ExitBuffers, ExitsOn
<1>4. ResourcesOK' /\ OnlyOf(d) /\ BeingRemoved(d)'
  BY <1>1, <1>2, <1>3 DEF ExitBuffers, ResourcesOK, OnlyOf, BeingRemoved, ExitsOn
<1>5. QED
  BY <1>1, <1>3, <1>4, ExitStepInv DEF ExitBuffers

LEMMA ExitChrdevInv ==
  ASSUME IInv, NEW d \in Devices, ExitChrdev(d) PROVE IInv'
<1>1. Turn(d) = nth /\ module = "exit" /\ step = 3 /\ nth \in 1 .. 4
  BY AtExit, ExitStepNumber DEF ExitChrdev, IInv
<1>2. BeingRemoved(d) /\ ResourcesOK
  BY <1>1 DEF IInv, DeviceInv, TypeOK, ResourcesOK
<1>3. ExitsOn
  BY <1>1, ContinuesExit DEF ExitChrdev, ExitsOn
<1>4. ResourcesOK' /\ OnlyOf(d) /\ BeingRemoved(d)'
  BY <1>1, <1>2, <1>3 DEF ExitChrdev, ResourcesOK, OnlyOf, BeingRemoved, ExitsOn
<1>5. QED
  BY <1>1, <1>3, <1>4, ExitStepInv DEF ExitChrdev

\* A thread ends only between two work items.
LEMMA kthread_stopInv ==
  ASSUME IInv, NEW w \in Workers, kthread_stop(w) PROVE IInv'
<1> USE DEF kthread_stop
<1>1. TypeOK'
  BY DEF IInv, TypeOK, progress, resources
<1>2. WorkInv' /\ PoolInv'
  BY DEF IInv, WorkInv, PoolInv, progress, resources
<1>3. FileInv' /\ DeviceInv'
  BY WorkFrame
<1>4. QED
  BY <1>1, <1>2, <1>3 DEF IInv

\* The last step of a device's turn: its threads have ended.
LEMMA free_poolInv ==
  ASSUME IInv, NEW d \in Devices, free_pool(d) PROVE IInv'
<1>1. Turn(d) = nth /\ module = "exit" /\ step = 4 /\ nth \in 1 .. 4
  BY AtExit, ExitStepNumber DEF free_pool, IInv
<1>2. LeavesExit
  BY <1>1, ContinuesExit DEF free_pool, LeavesExit
<1>3. DeviceInv'
  <2>1. BeingRemoved(d) /\ OnlyOf(d) /\ Gone(d)'
    BY <1>1 DEF IInv, DeviceInv, BeingRemoved, Gone, OnlyOf, free_pool, resources
  <2>2. QED
    BY <1>1, <1>2, <2>1, ExitProgress
<1>4. pool' \in [TestDevices -> {"null", "live", "freed"}] /\ queued' \in 0 .. MaxWorks
  BY LifecycleAssumption DEF IInv, TypeOK, free_pool
<1>5. TypeOK'
  <2>1. /\ module' \in {"out", "init", "live", "exit"}
        /\ nth' \in 1 .. Len(InitOrder) /\ step' \in 1 .. Len(InitSteps)
    BY <1>1, <1>2, Lengths DEF LeavesExit
  <2>2. QED
    BY <1>4, <2>1 DEF IInv, TypeOK, free_pool, resources
<1>6. WorkInv'
  <2>1. Cardinality(running) \in Nat
    BY FS_CardinalityType DEF IInv, WorkInv
  <2>2. queued' = queued \/ queued' = 0
    BY DEF free_pool
  <2>3. QED
    BY <2>1, <2>2 DEF IInv, TypeOK, WorkInv, free_pool
<1>7. FileInv'
  BY <1>1 DEF IInv, FileInv, OpenMeansSetUp, free_pool
<1>8. PoolInv'
  <2>1. ASSUME NEW e \in TestDevices
        PROVE  /\ e = d => pool'[e] # "live"
               /\ e # d => pool'[e] = pool[e] /\ Turn(e) # nth
    BY <1>1, <2>1, TurnsDiffer DEF IInv, TypeOK, TestDevices, Devices, free_pool
  <2>2. pool'["read-test"] # "live" => alive' = {} /\ queued' = 0
    BY <2>1 DEF IInv, PoolInv, TypeOK, TestDevices, free_pool
  <2>3. running' \subseteq alive'
    BY DEF IInv, PoolInv, free_pool
  <2>4. queued' > 0 \/ running' # {} => bufs'["read-persistence"] = "live"
    BY DEF IInv, PoolInv, TypeOK, free_pool, resources
  <2>5. ASSUME NEW e \in TestDevices, module' = "out" \/ Turn(e) < nth'
        PROVE  pool'[e] # "live"
    BY <1>1, <1>2, <2>1, <2>5, TurnRange
    DEF IInv, PoolInv, LeavesExit, TestDevices, Devices
  <2>6. QED
    BY <1>2, <2>2, <2>3, <2>4, <2>5 DEF PoolInv, LeavesExit
<1>9. QED
  BY <1>3, <1>5, <1>6, <1>7, <1>8 DEF IInv
-----------------------------------------------------------------------------
LEMMA NextInv == ASSUME IInv, [Next]_vars PROVE IInv'
<1>1. CASE InitStep
  BY <1>1, create_poolInv, major_numberInv, reg_dev_classInv, reg_char_classInv,
     AllocateArraysInv, AllocateSlotsInv, InitMutexInv, InitQueueInv DEF InitStep
<1>2. CASE ExitStep
  BY <1>2, ExitDeviceInv, ExitBuffersInv, ExitChrdevInv, kthread_stopInv, free_poolInv
  DEF ExitStep
<1>3. ASSUME NEW p \in Processes,
             \/ \E d \in Devices : Open(p, d)
             \/ Release(p) \/ WriteUnready(p) \/ WriteRequest(p) \/ PollUnready(p)
      PROVE  IInv'
  BY <1>3, OpenInv, ReleaseInv, WriteRequestInv, OopsInv DEF WriteUnready, PollUnready
<1>4. ASSUME NEW w \in Workers, WorkerTakes(w) \/ wait_response(w) PROVE IInv'
  BY <1>4, WorkerTakesInv, wait_responseInv
<1>5. CASE UNCHANGED vars
  <2>1. UNCHANGED <<progress, resources, pool, threads, file>>
    BY <1>5 DEF vars
  <2>2. TypeOK' /\ WorkInv' /\ PoolInv'
    BY <2>1 DEF IInv, TypeOK, WorkInv, PoolInv, progress, resources, threads
  <2>3. FileInv' /\ DeviceInv'
    BY <2>1, WorkFrame
  <2>4. QED
    BY <2>2, <2>3 DEF IInv
<1>6. QED
  BY <1>1, <1>2, <1>3, <1>4, <1>5, insmodInv, rmmodInv DEF Next

LEMMA Inductive == Spec => []IInv
  BY InitInv, NextInv, PTL DEF Spec
-----------------------------------------------------------------------------
(***************************************************************************)
(* The theorems.                                                           *)
(***************************************************************************)

\* Every variable has its type through any number of loads, unloads, failed
\* initialisations and panics: wait_response frees each work item once.
THEOREM TypeCorrect == Spec => []TypeOK
  BY Inductive, PTL DEF IInv

\* A process that got a file from kdev_open has the device to itself and can
\* use its buffers, although kdevchar_init makes the device visible before it
\* allocates them.
THEOREM OpenedIsSetUp == Spec => []OpenMeansSetUp
<1>1. IInv => OpenMeansSetUp
  BY DEF IInv, FileInv
<1>2. QED
  BY <1>1, Inductive, PTL

\* While a worker is inside wait_response, neither its thread nor the buffers
\* of read-persistence, where it looks for the answer, are taken away:
\* paxos_persistence_exit stops read-test's pool before it reaches them.
THEOREM CallbacksOutliveWorkers == Spec => []WorkersHaveCallbacks
<1>1. IInv => WorkersHaveCallbacks
  BY DEF IInv, PoolInv, WorkersHaveCallbacks
<1>2. QED
  BY <1>1, Inductive, PTL

\* When paxos_persistence_exit has returned, nothing of this load is left: no
\* thread, pool, device, class or buffer, whichever steps of the set-up failed.
THEOREM UnloadComplete == Spec => []UnloadReturnsAll
<1>1. IInv => UnloadReturnsAll
  BY FS_EmptySet DEF IInv, PoolInv, DeviceInv, Gone, UnloadReturnsAll, TestDevices
<1>2. QED
  BY <1>1, Inductive, PTL
=============================================================================
