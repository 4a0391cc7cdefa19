-------------------------- MODULE SchedulerProofs --------------------------
(* Theorems about Scheduler: for any number of CPUs and any table of         *)
(* threads, a kernel stack is live on one CPU only and the scheduler's lock  *)
(* is handed over with it.  The proof is about which threads another CPU may *)
(* still be running on when schedule() chooses: idle and user threads never  *)
(* leave their CPU, and the other kernel threads never block, so they are    *)
(* RUNNING for as long as a CPU is on their stack.                           *)
EXTENDS Scheduler, TLAPS

(* Threads tied to a CPU are current there only.                             *)
Confined == \A c \in Cpus : current[c] # NULL =>
                /\ IsIdle(current[c]) => IdleCpu[current[c]] = c
                /\ current[c] \in Pinned => c = 0

(* Only user threads are ever BLOCKED.                                       *)
OnlyUsersBlock == \A t \in Slots : t \notin Pinned => state[t] # "BLOCKED"

(* A kernel thread is RUNNING, or a zombie, for as long as it is current.    *)
KernelRuns == \A c \in Cpus : current[c] # NULL /\ current[c] \notin Pinned =>
                  state[current[c]] \in {"RUNNING", "ZOMBIE"}

(* A switch has a thread to switch to.                                       *)
SwitchHasNext == \A c \in Cpus : pc[c] = "switch" => current[c] # NULL

(* A CPU in hlt, or just past it, has an idle_halt frame on its stack.       *)
HaltHasFrame == \A c \in Cpus : pc[c] \in {"halt", "wake"} => halts[stack[c]] > 0

IInv == /\ TypeOK /\ StackExclusive /\ RunningIsCurrent /\ LockHandoff
        /\ Confined /\ OnlyUsersBlock /\ KernelRuns /\ SwitchHasNext /\ HaltHasFrame
-----------------------------------------------------------------------------
(* The stack a CPU booted on is no thread's and no other CPU's.              *)
LEMMA BootStack ==
    ASSUME NEW c \in Cpus, NEW d \in Cpus, c # d
    PROVE  Boot(c) \in Stacks /\ Boot(c) \notin Slots /\ Boot(c) # Boot(d) /\ Boot(c) # NULL
BY SchedulerAssumption DEF Cpus, Slots, Boot, Stacks, NULL

(* Slots are neither NULL nor a boot stack, and they are stacks.             *)
LEMMA SlotStack ==
    ASSUME NEW t \in Slots, NEW c \in Cpus
    PROVE  t # NULL /\ t # Boot(c) /\ t \in Stacks /\ Boot(c) \in Stacks
BY SchedulerAssumption DEF Cpus, Slots, Boot, Stacks, NULL

(* What pick_next returns may run on the CPU that asks.                      *)
LEMMA PickedRuns ==
    ASSUME NEW c \in Cpus, NEW n, n # NULL, PickNext(n, c)
    PROVE  n \in Slots /\ Runnable(n) /\ CanRunOn(n, c)
BY DEF PickNext, FirstOf, SoftApps, Apps, Idles

(* ... and, the lock being free, is on no other CPU's stack.                 *)
LEMMA PickedFree ==
    ASSUME IInv, lock = NULL, NEW c \in Cpus, NEW n \in Slots, PickNext(n, c),
           NEW d \in Cpus, d # c
    PROVE  n # current[d] /\ n # stack[d]
<1>1. Runnable(n) /\ CanRunOn(n, c) BY PickedRuns, SlotStack
<1>2. n # current[d]
  <2> SUFFICES ASSUME n = current[d] PROVE FALSE OBVIOUS
  <2>1. current[d] # NULL BY SlotStack
  <2>2. ~IsIdle(n) BY <1>1, <2>1 DEF CanRunOn, IInv, Confined
  <2>3. n \notin Pinned BY <1>1, <2>1 DEF CanRunOn, IInv, Confined
  <2>4. state[n] \in {"RUNNING", "ZOMBIE"} BY <2>1, <2>3 DEF IInv, KernelRuns
  <2>5. state[n] = "RUNNING" BY <1>1, <2>4 DEF Runnable
  <2>6. n = current[c] BY <1>1, <2>5 DEF CanRunOn
  <2> QED BY <2>1, <2>6 DEF IInv, RunningIsCurrent
<1>3. pc[d] # "switch" BY DEF IInv, LockHandoff, Cpus, NULL
<1>4. stack[d] = IF current[d] = NULL THEN Boot(d) ELSE current[d]
  BY <1>3 DEF IInv, LockHandoff
<1> QED BY <1>2, <1>4, SlotStack
-----------------------------------------------------------------------------
(* The invariant holds when the CPUs enter the scheduler.                    *)
LEMMA InitIInv == Init => IInv
<1> SUFFICES ASSUME Init PROVE IInv OBVIOUS
<1>1. TypeOK
  <2>1. \A c \in Cpus : Boot(c) \in Stacks BY DEF Stacks
  <2> QED BY <2>1, SchedulerAssumption DEF Init, TypeOK, PCs, Cpus, Slots
<1>2. StackExclusive
  BY BootStack DEF Init, StackExclusive
<1>3. NULL \notin Cpus BY DEF NULL, Cpus
<1> QED BY <1>1, <1>2, <1>3
     DEF Init, IInv, RunningIsCurrent, LockHandoff, Confined, OnlyUsersBlock, KernelRuns,
         SwitchHasNext, HaltHasFrame

(* Taking a chosen thread keeps it.                                          *)
LEMMA DispatchIInv ==
    ASSUME IInv, lock = NULL, NEW c \in Cpus, NEW n \in Slots, PickNext(n, c), Dispatch(c, n)
    PROVE  IInv'
<1> USE DEF Dispatch
<1>0. TypeOK BY DEF IInv
<1>a. CanRunOn(n, c) /\ Runnable(n) BY PickedRuns, SlotStack
<1>b. n # NULL BY SlotStack
<1>c. \A d \in Cpus : d # c => n # current[d] /\ n # stack[d] BY PickedFree
<1>d. \A d \in Cpus : pc[d] # "switch" BY DEF IInv, LockHandoff, Cpus, NULL
<1>e. ReturnTo(stack[c]) \in {"wake", "code"} BY DEF ReturnTo
<1>f. c \in Cpus /\ c # NULL BY DEF Cpus, NULL
<1>1. TypeOK'
  <2>1. /\ state' \in [Slots -> {"READY", "RUNNING", "BLOCKED", "ZOMBIE"}]
        /\ sleep' \in [Slots -> {"none", "event", "timed", "due"}]
        /\ last_cpu' \in [Slots -> Cpus \cup {-1}]
        /\ current' \in [Cpus -> Slots \cup {NULL}]
    BY <1>0 DEF TypeOK
  <2>2. stack' = stack /\ halts' = halts /\ slice' = slice OBVIOUS
  <2>3. lock' \in Cpus \cup {NULL} BY DEF Switch
  <2>4. pc' \in [Cpus -> PCs] BY <1>0, <1>e DEF TypeOK, PCs, Switch
  <2>5. ipi' \subseteq Cpus BY <1>0 DEF TypeOK, Switch, Others
  <2> QED BY <1>0, <2>1, <2>2, <2>3, <2>4, <2>5 DEF TypeOK
<1>2. StackExclusive'
  BY <1>0, <1>c DEF IInv, StackExclusive, TypeOK
<1>3. RunningIsCurrent'
  <2>1. ASSUME NEW t \in Slots, state'[t] = "RUNNING"
        PROVE  last_cpu'[t] >= 0 /\ current'[last_cpu'[t]] = t
    <3>1. CASE t = n BY <1>0, <3>1 DEF TypeOK, Cpus
    <3>2. CASE t # n
      <4>1. t # current[c] /\ state[t] = "RUNNING" BY <1>0, <2>1, <3>2 DEF TypeOK
      <4>2. last_cpu'[t] = last_cpu[t] BY <1>0, <3>2 DEF TypeOK
      <4>3. last_cpu[t] >= 0 /\ current[last_cpu[t]] = t /\ last_cpu[t] \in Cpus \cup {-1}
        BY <1>0, <4>1 DEF IInv, RunningIsCurrent, TypeOK
      <4>4. last_cpu[t] # c BY <4>1, <4>3
      <4> QED BY <1>0, <4>2, <4>3, <4>4 DEF TypeOK
    <3> QED BY <3>1, <3>2
  <2>2. ASSUME NEW d \in Cpus, NEW e \in Cpus, d # e, current'[d] # NULL
        PROVE  current'[d] # current'[e]
    BY <1>0, <1>c, <2>2 DEF IInv, RunningIsCurrent, TypeOK
  <2> QED BY <2>1, <2>2 DEF RunningIsCurrent
<1>4. LockHandoff'
  <2>1. CASE n = current[c]
    <3>1. lock' = lock /\ pc' = [pc EXCEPT ![c] = ReturnTo(stack[c])] BY <2>1
    <3>2. current' = current BY <1>0, <2>1 DEF TypeOK
    <3>3. \A d \in Cpus : pc'[d] # "switch" BY <1>0, <1>d, <1>e, <3>1 DEF TypeOK
    <3>4. \A d \in Cpus : d # NULL BY DEF Cpus, NULL
    <3> QED BY <1>d, <3>1, <3>2, <3>3, <3>4 DEF IInv, LockHandoff
  <2>2. CASE n # current[c]
    <3>1. lock' = c /\ pc' = [pc EXCEPT ![c] = "switch"] BY <2>2 DEF Switch
    <3>2. ASSUME NEW d \in Cpus PROVE /\ pc'[d] = "switch" <=> lock' = d
                                      /\ pc'[d] # "switch" =>
                                           stack'[d] = IF current'[d] = NULL THEN Boot(d)
                                                       ELSE current'[d]
      <4>1. CASE d = c BY <1>0, <3>1, <4>1 DEF TypeOK
      <4>2. CASE d # c
        BY <1>0, <1>d, <3>1, <4>2 DEF TypeOK, IInv, LockHandoff
      <4> QED BY <4>1, <4>2
    <3> QED BY <3>2 DEF LockHandoff
  <2> QED BY <2>1, <2>2
<1>5. Confined'
  BY <1>0, <1>a DEF IInv, Confined, TypeOK, CanRunOn
<1>6. OnlyUsersBlock'
  BY <1>0 DEF IInv, OnlyUsersBlock, TypeOK
<1>7. KernelRuns'
  <2> SUFFICES ASSUME NEW d \in Cpus, current'[d] # NULL, current'[d] \notin Pinned
               PROVE  state'[current'[d]] \in {"RUNNING", "ZOMBIE"}
    BY DEF KernelRuns
  <2>1. CASE d = c BY <1>0, <2>1 DEF TypeOK
  <2>2. CASE d # c
    <3>1. current'[d] = current[d] BY <1>0, <2>2 DEF TypeOK
    <3>2. current[d] # n /\ current[d] # current[c]
      BY <1>c, <2>2, <3>1 DEF IInv, RunningIsCurrent
    <3>3. current[d] \in Slots BY <1>0, <3>1 DEF TypeOK
    <3>4. state[current[d]] \in {"RUNNING", "ZOMBIE"} BY <3>1 DEF IInv, KernelRuns
    <3> QED BY <1>0, <3>1, <3>2, <3>3, <3>4 DEF TypeOK
  <2> QED BY <2>1, <2>2
<1>8. SwitchHasNext'
  BY <1>0, <1>b, <1>d, <1>e DEF SwitchHasNext, TypeOK, Switch
<1>9. HaltHasFrame'
  <2> SUFFICES ASSUME NEW d \in Cpus, pc'[d] \in {"halt", "wake"} PROVE halts[stack[d]] > 0
    BY DEF HaltHasFrame
  <2>1. CASE d = c
    <3>1. pc'[c] \in {"switch", ReturnTo(stack[c])} BY <1>0 DEF TypeOK, Switch
    <3> QED BY <2>1, <3>1 DEF ReturnTo
  <2>2. CASE d # c
    <3>1. pc'[d] = pc[d] BY <1>0, <2>2 DEF TypeOK, Switch
    <3> QED BY <3>1 DEF IInv, HaltHasFrame
  <2> QED BY <2>1, <2>2
<1> QED BY <1>1, <1>2, <1>3, <1>4, <1>5, <1>6, <1>7, <1>8, <1>9 DEF IInv

(* A step that moves no thread between CPUs keeps the invariant when it       *)
(* leaves the lock and the stacks alone, does not enter or leave the switch  *)
(* and turns threads neither RUNNING nor, but for user threads, BLOCKED.     *)
LEMMA StayIInv ==
    ASSUME IInv, TypeOK', UNCHANGED <<current, stack, lock>>,
           \A c \in Cpus : pc'[c] = "switch" <=> pc[c] = "switch",
           \A t \in Slots : state'[t] = "RUNNING" => state[t] = "RUNNING" /\ last_cpu'[t] = last_cpu[t],
           \A t \in Slots : t \notin Pinned => state'[t] # "BLOCKED",
           \A t \in Slots : t \notin Pinned /\ state[t] \in {"RUNNING", "ZOMBIE"} =>
                                state'[t] \in {"RUNNING", "ZOMBIE"},
           HaltHasFrame'
    PROVE  IInv'
<1>1. StackExclusive' BY DEF IInv, StackExclusive
<1>2. RunningIsCurrent' BY DEF IInv, RunningIsCurrent
<1>3. LockHandoff' BY DEF IInv, LockHandoff
<1>4. Confined' BY DEF IInv, Confined
<1>5. OnlyUsersBlock' BY DEF OnlyUsersBlock
<1>6. KernelRuns'
  <2> SUFFICES ASSUME NEW c \in Cpus, current[c] # NULL, current[c] \notin Pinned
               PROVE  state'[current[c]] \in {"RUNNING", "ZOMBIE"}
    BY DEF KernelRuns
  <2>1. current[c] \in Slots BY DEF IInv, TypeOK
  <2>2. state[current[c]] \in {"RUNNING", "ZOMBIE"} BY DEF IInv, KernelRuns
  <2> QED BY <2>1, <2>2
<1>7. SwitchHasNext' BY DEF IInv, SwitchHasNext
<1> QED BY <1>1, <1>2, <1>3, <1>4, <1>5, <1>6, <1>7 DEF IInv

(* Every step keeps the invariant.                                           *)
LEMMA NextIInv == IInv /\ [Next]_vars => IInv'
<1> SUFFICES ASSUME IInv, [Next]_vars PROVE IInv' OBVIOUS
<1> USE DEF threadVars
<1>0. TypeOK BY DEF IInv
<1>a. \A t \in Slots : t \notin Pinned => state[t] # "BLOCKED" BY DEF IInv, OnlyUsersBlock
<1>b. \A k \in Stacks : ReturnTo(k) \in PCs \ {"switch"} BY DEF ReturnTo, PCs
<1>1. ASSUME NEW c \in Cpus, Schedule(c) PROVE IInv'
  <2>1. PICK n \in Slots \cup {NULL} :
          /\ PickNext(n, c)
          /\ \/ /\ EnterHalt(c)
                /\ UNCHANGED <<threadVars, current, stack, lock, slice, ipi>>
             \/ n # NULL /\ Dispatch(c, n)
    BY <1>1 DEF Schedule
  <2>2. CASE EnterHalt(c) /\ UNCHANGED <<threadVars, current, stack, lock, slice, ipi>>
    <3>1. TypeOK'
      <4>1. stack[c] \in Stacks /\ halts[stack[c]] \in 0 .. MaxHalts BY <1>0 DEF TypeOK
      <4>2. halts[stack[c]] + 1 \in 0 .. MaxHalts
        BY <4>1, <2>2, SchedulerAssumption DEF EnterHalt
      <4>3. halts' \in [Stacks -> 0 .. MaxHalts] BY <1>0, <4>2, <2>2 DEF TypeOK, EnterHalt
      <4> QED BY <1>0, <2>2, <4>3 DEF TypeOK, EnterHalt, PCs
    <3>2. pc[c] # "switch" BY <1>1 DEF Schedule
    <3>3. HaltHasFrame'
      <4>1. stack[c] \in Stacks /\ halts[stack[c]] + 1 > 0 BY <1>0 DEF TypeOK
      <4>2. ASSUME NEW d \in Cpus, d # c PROVE stack[d] # stack[c] /\ pc'[d] = pc[d]
        BY <1>0, <2>2, <4>2 DEF IInv, StackExclusive, TypeOK, EnterHalt
      <4> QED BY <1>0, <2>2, <4>1, <4>2 DEF IInv, HaltHasFrame, EnterHalt, TypeOK
    <3> QED BY <1>0, <1>a, <2>2, <3>1, <3>2, <3>3, StayIInv DEF EnterHalt, TypeOK
  <2>3. CASE n # NULL /\ Dispatch(c, n)
    BY <1>1, <2>1, <2>3, DispatchIInv DEF Schedule
  <2> QED BY <2>1, <2>2, <2>3
<1>2. ASSUME NEW c \in Cpus, Reschedule(c) PROVE IInv'
  BY <1>2, DispatchIInv DEF Reschedule
<1>3. ASSUME NEW c \in Cpus, ContextSwitch(c) PROVE IInv'
  <2> USE <1>3 DEF ContextSwitch
  <2>1. lock = c /\ \A d \in Cpus : d # c => pc[d] # "switch" BY DEF IInv, LockHandoff
  <2>2. current[c] # NULL BY DEF IInv, SwitchHasNext
  <2>3. current[c] \in Slots BY <1>0, <2>2 DEF TypeOK
  <2>4. TypeOK'
    <3>1. current[c] \in Stacks BY <2>3, SlotStack
    <3> QED BY <1>0, <1>b, <3>1 DEF TypeOK, PCs
  <2>5. StackExclusive'
    BY <1>0, <2>2 DEF IInv, StackExclusive, RunningIsCurrent, TypeOK
  <2>6. LockHandoff'
    <3>1. ReturnTo(current[c]) # "switch" BY DEF ReturnTo
    <3>2. \A d \in Cpus : pc'[d] # "switch" BY <1>0, <2>1, <3>1 DEF TypeOK
    <3>3. \A d \in Cpus : d # NULL BY DEF Cpus, NULL
    <3>4. ASSUME NEW d \in Cpus
          PROVE  stack'[d] = IF current'[d] = NULL THEN Boot(d) ELSE current'[d]
      BY <1>0, <2>1, <2>2 DEF TypeOK, IInv, LockHandoff
    <3> QED BY <3>2, <3>3, <3>4 DEF LockHandoff
  <2>7. SwitchHasNext'
    <3>1. ReturnTo(current[c]) # "switch" BY DEF ReturnTo
    <3> QED BY <1>0, <3>1 DEF IInv, SwitchHasNext, TypeOK
  <2>8. HaltHasFrame'
    <3> SUFFICES ASSUME NEW d \in Cpus, pc'[d] \in {"halt", "wake"} PROVE halts[stack'[d]] > 0
      BY DEF HaltHasFrame
    <3>1. CASE d = c BY <1>0, <3>1 DEF TypeOK, ReturnTo
    <3>2. CASE d # c BY <1>0, <3>2 DEF TypeOK, IInv, HaltHasFrame
    <3> QED BY <3>1, <3>2
  <2> QED BY <2>4, <2>5, <2>6, <2>7, <2>8
       DEF IInv, RunningIsCurrent, Confined, OnlyUsersBlock, KernelRuns
<1>4. ASSUME NEW c \in Cpus, HaltCheck(c) PROVE IInv'
  <2> USE <1>4 DEF HaltCheck
  <2>1. stack[c] \in Stacks /\ halts[stack[c]] \in 1 .. MaxHalts
    BY <1>0, SchedulerAssumption DEF TypeOK, IInv, HaltHasFrame
  <2>2. TypeOK'
    <3>1. halts[stack[c]] - 1 \in 0 .. MaxHalts BY <2>1, SchedulerAssumption
    <3>2. halts' \in [Stacks -> 0 .. MaxHalts] BY <1>0, <2>1, <3>1 DEF TypeOK
    <3>3. pc' \in [Cpus -> PCs] BY <1>0 DEF TypeOK, PCs
    <3> QED BY <1>0, <3>2, <3>3 DEF TypeOK
  <2>3. HaltHasFrame'
    <3>1. ASSUME NEW d \in Cpus, d # c
          PROVE stack[d] # stack[c] /\ pc'[d] = pc[d] /\ stack[d] \in Stacks
      BY <1>0, <3>1 DEF IInv, StackExclusive, TypeOK
    <3>2. pc'[c] \in {"halt", "wake"} => halts'[stack[c]] > 0 BY <1>0, <2>1 DEF TypeOK
    <3> QED BY <1>0, <3>1, <3>2 DEF IInv, HaltHasFrame, TypeOK
  <2> QED BY <1>0, <1>a, <2>2, <2>3, StayIInv DEF TypeOK
<1>5. ASSUME NEW c \in Cpus, IdleLoop(c) PROVE IInv'
  <2> USE <1>5 DEF IdleLoop, InThread
  <2>1. stack[c] \in Stacks /\ halts[stack[c]] \in 0 .. MaxHalts BY <1>0 DEF TypeOK
  <2>2. TypeOK'
    <3>1. halts' \in [Stacks -> 0 .. MaxHalts]
      BY <1>0, <2>1, SchedulerAssumption DEF TypeOK, EnterHalt
    <3> QED BY <1>0, <3>1 DEF TypeOK, PCs, EnterHalt
  <2>3. HaltHasFrame'
    <3>1. ASSUME NEW d \in Cpus, d # c
          PROVE stack[d] # stack[c] /\ pc'[d] = pc[d] /\ stack[d] \in Stacks
      BY <1>0, <3>1 DEF IInv, StackExclusive, TypeOK, EnterHalt
    <3>2. pc'[c] \in {"halt", "wake"} => halts'[stack[c]] > 0
      BY <1>0, <2>1 DEF TypeOK, EnterHalt
    <3> QED BY <1>0, <3>1, <3>2 DEF IInv, HaltHasFrame, TypeOK, EnterHalt
  <2> QED BY <1>0, <1>a, <2>2, <2>3, StayIInv DEF TypeOK, EnterHalt
<1>6. ASSUME NEW c \in Cpus, Ipi(c) PROVE IInv'
  <2> USE <1>6 DEF Ipi, InterruptsOn
  <2>1. TypeOK' BY <1>0 DEF TypeOK, PCs
  <2>2. HaltHasFrame' BY <1>0 DEF IInv, HaltHasFrame, TypeOK
  <2> QED BY <1>0, <1>a, <2>1, <2>2, StayIInv DEF TypeOK
<1>7. ASSUME NEW c \in Cpus, Yield(c) PROVE IInv'
  <2> USE <1>7 DEF Yield, InThread
  <2>1. TypeOK' BY <1>0 DEF TypeOK, PCs
  <2>2. HaltHasFrame' BY <1>0 DEF IInv, HaltHasFrame, TypeOK
  <2> QED BY <1>0, <1>a, <2>1, <2>2, StayIInv DEF TypeOK
<1>8. ASSUME NEW c \in Cpus, Exit(c) PROVE IInv'
  <2> USE <1>8 DEF Exit
  <2>1. TypeOK' BY <1>0 DEF TypeOK, PCs
  <2>2. HaltHasFrame' BY <1>0 DEF IInv, HaltHasFrame, TypeOK
  <2>3. \A t \in Slots : state'[t] = "RUNNING" => state[t] = "RUNNING" /\ last_cpu'[t] = last_cpu[t]
    BY <1>0 DEF TypeOK
  <2> QED BY <1>0, <1>a, <2>1, <2>2, <2>3, StayIInv DEF TypeOK
<1>9. ASSUME NEW c \in Cpus, BlockSome(c) PROVE IInv'
  <2>1. PICK kind \in {"event", "timed"} : Block(c, kind) BY <1>9 DEF BlockSome
  <2> USE <2>1 DEF Block, InThread
  <2>2. TypeOK' BY <1>0 DEF TypeOK, PCs
  <2>3. HaltHasFrame' BY <1>0 DEF IInv, HaltHasFrame, TypeOK
  <2> QED BY <1>0, <1>a, <2>2, <2>3, StayIInv DEF TypeOK
<1>10. ASSUME NEW c \in Cpus, NEW t \in Slots, Wake(c, t) PROVE IInv'
  <2> USE <1>10 DEF Wake, InThread
  <2>1. TypeOK' BY <1>0 DEF TypeOK, Others
  <2>2. HaltHasFrame' BY DEF IInv, HaltHasFrame
  <2> QED BY <1>0, <1>a, <2>1, <2>2, StayIInv DEF TypeOK
<1>11. ASSUME NEW c \in Cpus, NEW t \in Slots, Kill(c, t) PROVE IInv'
  <2> USE <1>11 DEF Kill, InThread
  <2>1. TypeOK' BY <1>0 DEF TypeOK
  <2>2. HaltHasFrame' BY DEF IInv, HaltHasFrame
  <2>3. \A u \in Slots : state'[u] = "RUNNING" => state[u] = "RUNNING" /\ last_cpu'[u] = last_cpu[u]
    BY <1>0 DEF TypeOK
  <2> QED BY <1>0, <1>a, <2>1, <2>2, <2>3, StayIInv DEF TypeOK
<1>12. ASSUME NEW c \in Cpus, NEW t \in Slots, Spawn(c, t) PROVE IInv'
  <2> USE <1>12 DEF Spawn, InThread
  <2>1. TypeOK'
    <3>1. 0 \in 0 .. MaxHalts BY SchedulerAssumption
    <3>2. halts' \in [Stacks -> 0 .. MaxHalts] BY <1>0, <3>1 DEF TypeOK
    <3> QED BY <1>0, <3>2 DEF TypeOK
  <2>2. HaltHasFrame'
    <3>1. \A d \in Cpus : halts'[stack[d]] = halts[stack[d]] BY <1>0 DEF TypeOK
    <3> QED BY <3>1 DEF IInv, HaltHasFrame
  <2>3. \A u \in Slots : state'[u] = "RUNNING" => state[u] = "RUNNING" /\ last_cpu'[u] = last_cpu[u]
    BY <1>0 DEF TypeOK
  <2> QED BY <1>0, <1>a, <2>1, <2>2, <2>3, StayIInv DEF TypeOK
<1>13. ASSUME TimerIrq PROVE IInv'
  <2> USE <1>13 DEF TimerIrq, InterruptsOn
  <2>1. TypeOK' BY <1>0 DEF TypeOK, PCs
  <2>2. HaltHasFrame' BY <1>0 DEF IInv, HaltHasFrame, TypeOK
  <2> QED BY <1>0, <1>a, <2>1, <2>2, StayIInv DEF TypeOK
<1>14. ASSUME OnTimer PROVE IInv'
  <2> DEFINE sleepers == {t \in Slots : state[t] = "BLOCKED"}
  <2>1. PICK woken \in SUBSET sleepers :
          /\ state' = [t \in Slots |-> IF t \in woken THEN "READY" ELSE state[t]]
          /\ sleep' = [t \in Slots |-> IF t \in woken THEN "none" ELSE sleep[t]]
    BY <1>14 DEF OnTimer
  <2>2. 0 \in Cpus BY SchedulerAssumption DEF Cpus
  <2>3. stack[0] \in Stacks BY <1>0, <2>2 DEF TypeOK
  <2>4. /\ pc[0] = "irq"
        /\ UNCHANGED <<last_cpu, current, stack, halts, lock>>
        /\ pc' \in {[pc EXCEPT ![0] = ReturnTo(stack[0])], [pc EXCEPT ![0] = "sched"]}
        /\ ipi' \in {ipi, ipi \cup Others(0)}
    BY <1>14 DEF OnTimer
  <2>5. slice' \in 0 .. TIMESLICE
    <3>1. \E expired \in BOOLEAN : slice' \in {slice, SliceAfter(expired), TIMESLICE}
      <4>1. PICK input \in SUBSET {t \in Slots : state[t] = "BLOCKED" /\ sleep[t] = "event"} :
              slice' \in {slice, TIMESLICE,
                SliceAfter(\/ input # {}
                           \/ current[0] # NULL /\ (IsIdle(current[0]) \/ (state[current[0]] # "RUNNING")))}
        BY <1>14 DEF OnTimer
      <4> DEFINE e == \/ input # {}
                      \/ current[0] # NULL /\ (IsIdle(current[0]) \/ (state[current[0]] # "RUNNING"))
      <4>2. e \in BOOLEAN OBVIOUS
      <4>3. slice' \in {slice, SliceAfter(e), TIMESLICE} BY <4>1
      <4> HIDE DEF e
      <4> QED BY <4>2, <4>3
    <3>2. slice \in 0 .. TIMESLICE BY <1>0 DEF TypeOK
    <3>3. \A expired \in BOOLEAN : SliceAfter(expired) \in 0 .. TIMESLICE
      BY <3>2, SchedulerAssumption DEF SliceAfter
    <3> QED BY <3>1, <3>2, <3>3, SchedulerAssumption
  <2>6. TypeOK'
    <3>1. state' \in [Slots -> {"READY", "RUNNING", "BLOCKED", "ZOMBIE"}]
      BY <1>0, <2>1 DEF TypeOK
    <3>2. sleep' \in [Slots -> {"none", "event", "timed", "due"}] BY <1>0, <2>1 DEF TypeOK
    <3>3. pc' \in [Cpus -> PCs] BY <1>0, <1>b, <2>3, <2>4 DEF TypeOK, PCs
    <3>4. ipi' \subseteq Cpus BY <1>0, <2>4 DEF TypeOK, Others
    <3> QED BY <1>0, <2>4, <2>5, <3>1, <3>2, <3>3, <3>4 DEF TypeOK
  <2>7. HaltHasFrame'
    <3> SUFFICES ASSUME NEW d \in Cpus, pc'[d] \in {"halt", "wake"} PROVE halts[stack[d]] > 0
      BY <2>4 DEF HaltHasFrame
    <3>1. CASE d = 0 BY <1>0, <2>4, <3>1 DEF TypeOK, ReturnTo
    <3>2. CASE d # 0
      <4>1. pc'[d] = pc[d] BY <1>0, <2>4, <3>2 DEF TypeOK
      <4> QED BY <4>1 DEF IInv, HaltHasFrame
    <3> QED BY <3>1, <3>2
  <2>8. \A c \in Cpus : pc'[c] = "switch" <=> pc[c] = "switch"
    <3>1. ReturnTo(stack[0]) # "switch" BY DEF ReturnTo
    <3> QED BY <1>0, <2>4, <3>1 DEF TypeOK
  <2>9. \A t \in Slots : state'[t] = "RUNNING" => state[t] = "RUNNING" /\ last_cpu'[t] = last_cpu[t]
    BY <2>1, <2>4
  <2>10. \A t \in Slots : t \notin Pinned => state'[t] # "BLOCKED" BY <1>a, <2>1
  <2>11. \A t \in Slots : t \notin Pinned /\ state[t] \in {"RUNNING", "ZOMBIE"} =>
                              state'[t] \in {"RUNNING", "ZOMBIE"} BY <2>1
  <2> QED BY <2>4, <2>6, <2>7, <2>8, <2>9, <2>10, <2>11, StayIInv
<1>15. ASSUME UNCHANGED vars PROVE IInv'
  BY <1>15 DEF vars, IInv, TypeOK, StackExclusive, RunningIsCurrent, LockHandoff, Confined,
               OnlyUsersBlock, KernelRuns, SwitchHasNext, HaltHasFrame, Runnable
<1> QED BY <1>1, <1>2, <1>3, <1>4, <1>5, <1>6, <1>7, <1>8, <1>9, <1>10, <1>11, <1>12, <1>13, <1>14, <1>15
     DEF Next, Kernel

(* The invariant holds in every reachable state.                             *)
THEOREM SchedulerInvariant == Spec => []IInv
BY InitIInv, NextIInv, PTL DEF Spec

(* TypeOK, for any number of CPUs and slots.                                 *)
THEOREM SchedulerTypeCorrect == Spec => []TypeOK
<1>1. IInv => TypeOK BY DEF IInv
<1> QED BY SchedulerInvariant, <1>1, PTL

(* No kernel stack is live on two CPUs (StackExclusive).                     *)
THEOREM StackSafety == Spec => []StackExclusive
<1>1. IInv => StackExclusive BY DEF IInv
<1> QED BY SchedulerInvariant, <1>1, PTL

(* A RUNNING thread is the current thread of exactly one CPU, and            *)
(* g_sched_lock is held exactly while a stack is changed (SwitchSound).      *)
THEOREM SwitchSafety == Spec => []SwitchSound
<1>1. IInv => SwitchSound BY DEF IInv, SwitchSound
<1> QED BY SchedulerInvariant, <1>1, PTL
=============================================================================
