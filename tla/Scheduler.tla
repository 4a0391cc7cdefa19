----------------------------- MODULE Scheduler -----------------------------
(***************************************************************************)
(* src/kernel/scheduler.c on several CPUs: pick_next, schedule() with its  *)
(* lock handed across context_switch, the idle halt, the timer interrupt of *)
(* the boot CPU and the reschedule IPI.  The model starts where             *)
(* scheduler_start() has set g_sched_active.                                *)
(*                                                                         *)
(* A thread is its slot in the process table.  Interrupts are taken where   *)
(* the code has them enabled: in thread code and in idle_halt; every other  *)
(* step runs with interrupts off.                                           *)
(***************************************************************************)
EXTENDS Integers

CONSTANTS NCPU,            \* CPUs; CPU 0 is the boot CPU, which gets the timer
          PROC_MAX,        \* slots of the process table
          IdleCpu,         \* IdleCpu[t]: the CPU whose idle thread t is, or -1
          Pinned,          \* user threads, cpu_affinity == 0
          TIMESLICE,       \* SCHED_TIMESLICE_TICKS
          MaxHalts         \* bound: idle_halt frames on one kernel stack

Cpus == 0 .. NCPU - 1
Slots == 0 .. PROC_MAX - 1
NULL == -1
Boot(c) == -2 - c          \* the stack CPU c booted on
Stacks == Slots \cup {Boot(c) : c \in Cpus}
IsIdle(t) == IdleCpu[t] >= 0

(* Only user threads call process_block, and those are pinned to CPU 0      *)
(* (process_create_user); each CPU has its own idle thread.                 *)
ASSUME SchedulerAssumption ==
    /\ NCPU \in Nat \ {0} /\ PROC_MAX \in Nat \ {0}
    /\ IdleCpu \in [Slots -> Cpus \cup {-1}]
    /\ Pinned \subseteq {t \in Slots : ~IsIdle(t)}
    /\ \A s, t \in Slots : IsIdle(s) /\ IdleCpu[s] = IdleCpu[t] => s = t
    /\ \A c \in Cpus : \E t \in Slots : IdleCpu[t] = c
    /\ TIMESLICE \in Nat \ {0}
    /\ MaxHalts \in Nat \ {0}

VARIABLES state,           \* process.state
          sleep,           \* process.wake_tick: "event" is ~0, "timed" is in the
                           \* future, "due" has come; "none" when not asleep
          last_cpu,        \* process.cpu
          current,         \* cpu.current
          stack,           \* stack[c]: the kernel stack CPU c executes on
          halts,           \* halts[k]: idle_halt frames live on stack k
          lock,            \* g_sched_lock: the CPU that holds it, or NULL
          pc,              \* what CPU c is doing, see below
          slice,           \* g_slice_left of the boot CPU
          ipi              \* CPUs with a reschedule IPI pending

vars == <<state, sleep, last_cpu, current, stack, halts, lock, pc, slice, ipi>>
threadVars == <<state, sleep, last_cpu>>

(* "code": thread code          "halt": in hlt                               *)
(* "wake": idle_halt, past hlt  "irq": timer interrupt, before wake_sleepers *)
(* "sched": enters schedule()   "resched": schedule() again, after idle_halt *)
(* "switch": schedule() has chosen, context_switch still to come             *)
PCs == {"code", "halt", "wake", "irq", "sched", "resched", "switch"}

(* The desktop boot starts pinned user threads, the console boot the kernel   *)
(* shell (userspace_boot.c, main.c).  A ZOMBIE slot is one nothing runs in.  *)
Init == /\ \E console \in BOOLEAN :
              state = [t \in Slots |-> IF ~IsIdle(t) /\ (t \in Pinned) = console
                                      THEN "ZOMBIE" ELSE "READY"]
        /\ sleep = [t \in Slots |-> "none"]
        /\ last_cpu = [t \in Slots |-> -1]
        /\ current = [c \in Cpus |-> NULL]
        /\ stack = [c \in Cpus |-> Boot(c)]
        /\ halts = [k \in Stacks |-> 0]
        /\ lock = NULL
        /\ pc = [c \in Cpus |-> "sched"]
        /\ slice = 0
        /\ ipi = Cpus \ {0}
-----------------------------------------------------------------------------
(* proc_runnable                                                            *)
Runnable(t) == \/ state[t] \in {"READY", "RUNNING"}
               \/ state[t] = "BLOCKED" /\ sleep[t] = "due"

(* proc_can_run_on without the affinity of user threads.                    *)
CanRunAnywhere(t, c) ==
    /\ IsIdle(t) => IdleCpu[t] = c
    /\ state[t] = "RUNNING" => t = current[c]

(* proc_can_run_on(t, c, current[c])                                        *)
CanRunOn(t, c) == /\ IsIdle(t) => IdleCpu[t] = c
                  /\ state[t] = "RUNNING" => t = current[c]
                  /\ t \in Pinned => c = 0

Apps(c) == {t \in Slots : ~IsIdle(t) /\ Runnable(t) /\ CanRunOn(t, c)}
SoftApps(c) == {t \in Apps(c) : last_cpu[t] = c}
Idles(c) == {t \in Slots : IsIdle(t) /\ Runnable(t) /\ CanRunOn(t, c)}

(* scheduler_has_runnable_apps                                              *)
HasRunnableApps(c) == Apps(c) # {}

(* The table is scanned once around from the current thread's own slot.     *)
Distance(t, c) == LET start == IF current[c] = NULL THEN 0 ELSE current[c]
                  IN  (t - start) % PROC_MAX
FirstSlot(S, n, c) == n \in S /\ \A t \in S : n <= t       \* from slot 0 instead
FirstOf(S, n, c) == n \in S /\ \A t \in S : Distance(n, c) <= Distance(t, c)

(* pick_next: n is the first app that last ran here, else the first app,    *)
(* else the idle thread.                                                    *)
PickNext(n, c) ==
    \/ FirstOf(SoftApps(c), n, c)
    \/ SoftApps(c) = {} /\ FirstOf(Apps(c), n, c)
    \/ Apps(c) = {} /\ FirstOf(Idles(c), n, c)
    \/ Apps(c) = {} /\ Idles(c) = {} /\ n = NULL

(* What a CPU goes back to when schedule() or an interrupt returns on stack  *)
(* k: the interrupted idle_halt if there is one, else the thread.           *)
ReturnTo(k) == IF halts[k] > 0 THEN "wake" ELSE "code"

Others(c) == Cpus \ {c}    \* smp_reschedule_others
-----------------------------------------------------------------------------
(* The halt branch of schedule(): nothing but idle to run here.             *)
EnterHalt(c) ==
    /\ halts[stack[c]] < MaxHalts
    /\ halts' = [halts EXCEPT ![stack[c]] = @ + 1]
    /\ pc' = [pc EXCEPT ![c] = "halt"]

(* schedule() when another thread was chosen, up to context_switch.         *)
SwitchUnlocked(c) ==       \* g_sched_lock released before the switch
    /\ pc' = [pc EXCEPT ![c] = "switch"]
    /\ lock' = NULL
    /\ ipi' = IF HasRunnableApps(c)' THEN ipi \cup Others(c) ELSE ipi

Switch(c) ==
    /\ pc' = [pc EXCEPT ![c] = "switch"]
    /\ lock' = c
    /\ ipi' = IF HasRunnableApps(c)' THEN ipi \cup Others(c) ELSE ipi

(* schedule() once n is chosen.                                             *)
Dispatch(c, n) ==
    /\ state' = [t \in Slots |-> IF t = n THEN "RUNNING"
                                 ELSE IF t = current[c] /\ state[t] = "RUNNING" THEN "READY"
                                 ELSE state[t]]
    /\ sleep' = [sleep EXCEPT ![n] = "none"]
    /\ last_cpu' = [last_cpu EXCEPT ![n] = c]
    /\ current' = [current EXCEPT ![c] = n]
    /\ \/ n # current[c] /\ Switch(c)
       \/ /\ n = current[c]
          /\ pc' = [pc EXCEPT ![c] = ReturnTo(stack[c])]
          /\ UNCHANGED <<lock, ipi>>
    /\ UNCHANGED <<stack, halts, slice>>

(* schedule() up to its choice.                                             *)
Schedule(c) ==
    /\ pc[c] = "sched"
    /\ lock = NULL
    /\ \E n \in Slots \cup {NULL} :
          /\ PickNext(n, c)
          /\ \/ /\ n = NULL \/ (IsIdle(n) /\ ~HasRunnableApps(c))
                /\ EnterHalt(c)
                /\ UNCHANGED <<threadVars, current, stack, lock, slice, ipi>>
             \/ /\ n # NULL /\ ~(IsIdle(n) /\ ~HasRunnableApps(c))
                /\ Dispatch(c, n)

(* schedule() after its idle_halt: no second halt, idle is taken if that is  *)
(* all there is.                                                            *)
Reschedule(c) ==
    /\ pc[c] = "resched"
    /\ lock = NULL
    /\ \E n \in Slots : PickNext(n, c) /\ Dispatch(c, n)

(* context_switch, and the unlock by the thread switched to.                *)
ContextSwitch(c) ==
    /\ pc[c] = "switch"
    /\ stack' = [stack EXCEPT ![c] = current[c]]
    /\ lock' = NULL
    /\ pc' = [pc EXCEPT ![c] = ReturnTo(current[c])]
    /\ UNCHANGED <<threadVars, current, halts, slice, ipi>>

(* idle_halt after the interrupt that ended hlt.                            *)
HaltCheck(c) ==
    /\ pc[c] = "wake"
    /\ \/ /\ HasRunnableApps(c)
          /\ halts' = [halts EXCEPT ![stack[c]] = @ - 1]
          /\ pc' = [pc EXCEPT ![c] = "resched"]
       \/ /\ ~HasRunnableApps(c)
          /\ pc' = [pc EXCEPT ![c] = "halt"]
          /\ UNCHANGED halts
    /\ UNCHANGED <<threadVars, current, stack, lock, slice, ipi>>
-----------------------------------------------------------------------------
InThread(c) == pc[c] = "code" /\ current[c] # NULL

(* A user thread blocks: process_block() in some syscall, then schedule().  *)
Block(c, kind) ==
    /\ InThread(c)
    /\ current[c] \in Pinned
    /\ state' = [state EXCEPT ![current[c]] = "BLOCKED"]
    /\ sleep' = [sleep EXCEPT ![current[c]] = kind]
    /\ pc' = [pc EXCEPT ![c] = "sched"]
    /\ UNCHANGED <<last_cpu, current, stack, halts, lock, slice, ipi>>

(* do_yield(0) and console polling: schedule() with nothing else changed.   *)
Yield(c) ==
    /\ InThread(c)
    /\ ~IsIdle(current[c])
    /\ pc' = [pc EXCEPT ![c] = "sched"]
    /\ UNCHANGED <<threadVars, current, stack, halts, lock, slice, ipi>>

(* process_exit, called by the thread or by schedule() for a killed one: the  *)
(* zombie's stack stays live until it is switched away from.                *)
Exit(c) ==
    /\ pc[c] \in {"code", "sched"}
    /\ current[c] # NULL
    /\ ~IsIdle(current[c])
    /\ state[current[c]] # "ZOMBIE"
    /\ state' = [state EXCEPT ![current[c]] = "ZOMBIE"]
    /\ last_cpu' = [last_cpu EXCEPT ![current[c]] = -1]
    /\ pc' = [pc EXCEPT ![c] = "sched"]
    /\ UNCHANGED <<sleep, current, stack, halts, lock, slice, ipi>>

(* process_kill by a running thread of one that does not run, and the same    *)
(* for each of its threads.  Nobody reads the wake_tick and cpu of a zombie:  *)
(* they are forgotten here.                                                 *)
Kill(c, t) ==
    /\ InThread(c)
    /\ ~IsIdle(current[c])
    /\ t \in Pinned
    /\ state[t] \in {"READY", "BLOCKED"}
    /\ state' = [state EXCEPT ![t] = "ZOMBIE"]
    /\ sleep' = [sleep EXCEPT ![t] = "none"]
    /\ last_cpu' = [last_cpu EXCEPT ![t] = -1]
    /\ UNCHANGED <<current, stack, halts, lock, pc, slice, ipi>>

(* process_create_user, in a slot whose former thread is off every CPU.      *)
Spawn(c, t) ==
    /\ InThread(c)
    /\ ~IsIdle(current[c])
    /\ t \in Pinned
    /\ state[t] = "ZOMBIE"
    /\ \A d \in Cpus : t # current[d] /\ t # stack[d]
    /\ state' = [state EXCEPT ![t] = "READY"]
    /\ halts' = [halts EXCEPT ![t] = 0]
    /\ UNCHANGED <<sleep, last_cpu, current, stack, lock, pc, slice, ipi>>

(* A running thread signals an event, socket or join: process_wake(t).      *)
Wake(c, t) ==
    /\ InThread(c)
    /\ ~IsIdle(current[c])
    /\ state[t] = "BLOCKED"
    /\ state' = [state EXCEPT ![t] = "READY"]
    /\ sleep' = [sleep EXCEPT ![t] = "none"]
    /\ ipi' = ipi \cup Others(c)
    /\ UNCHANGED <<last_cpu, current, stack, halts, lock, pc, slice>>

(* idle_thread                                                              *)
IdleLoop(c) ==
    /\ InThread(c)
    /\ IsIdle(current[c])
    /\ \/ /\ HasRunnableApps(c)
          /\ pc' = [pc EXCEPT ![c] = "sched"]
          /\ UNCHANGED halts
       \/ ~HasRunnableApps(c) /\ EnterHalt(c)
    /\ UNCHANGED <<threadVars, current, stack, lock, slice, ipi>>
-----------------------------------------------------------------------------
InterruptsOn(c) == pc[c] \in {"code", "halt", "wake"}

(* The tick is counted: the time of any of the timed sleepers may have come. *)
TimerIrq ==
    /\ InterruptsOn(0)
    /\ pc' = [pc EXCEPT ![0] = "irq"]
    /\ \E due \in SUBSET {t \in Slots : state[t] = "BLOCKED" /\ sleep[t] = "timed"} :
          sleep' = [t \in Slots |-> IF t \in due THEN "due" ELSE sleep[t]]
    /\ UNCHANGED <<state, last_cpu, current, stack, halts, lock, slice, ipi>>

(* What scheduler_on_timer leaves of the slice; an expired one is forfeit.  *)
SliceAfter(expired) == LET left == IF expired THEN 0 ELSE slice
                       IN  IF left > 0 THEN left - 1 ELSE 0

(* The rest of irq_dispatch: scheduler_wake_sleepers, pump_input (which may  *)
(* wake waiters for input) and scheduler_on_timer.                          *)
OnTimer ==
    /\ pc[0] = "irq"
    /\ lock = NULL
    /\ \E input \in SUBSET {t \in Slots : state[t] = "BLOCKED" /\ sleep[t] = "event"} :
          LET woken == input \cup {t \in Slots : state[t] = "BLOCKED" /\ sleep[t] = "due"}
              cur == current[0]
              apps == {t \in Slots : /\ ~IsIdle(t)
                                     /\ state[t] \in {"READY", "RUNNING"} \/ t \in woken}
              expired == \/ input # {}
                         \/ cur # NULL /\ (IsIdle(cur) \/ (state[cur] # "RUNNING"))
          IN  /\ state' = [t \in Slots |-> IF t \in woken THEN "READY" ELSE state[t]]
              /\ sleep' = [t \in Slots |-> IF t \in woken THEN "none" ELSE sleep[t]]
              /\ ipi' = IF input # {} \/ apps \ Pinned # {} THEN ipi \cup Others(0) ELSE ipi
              /\ \/ /\ apps = {}
                    /\ pc' = [pc EXCEPT ![0] = ReturnTo(stack[0])]
                    /\ UNCHANGED slice
                 \/ /\ apps # {} /\ SliceAfter(expired) # 0
                    /\ slice' = SliceAfter(expired)
                    /\ pc' = [pc EXCEPT ![0] = ReturnTo(stack[0])]
                 \/ /\ apps # {} /\ SliceAfter(expired) = 0
                    /\ slice' = TIMESLICE
                    /\ pc' = [pc EXCEPT ![0] = "sched"]
    /\ UNCHANGED <<last_cpu, current, stack, halts, lock>>

(* ipi_dispatch: acknowledge and schedule().                                *)
Ipi(c) ==
    /\ c \in ipi
    /\ InterruptsOn(c)
    /\ ipi' = ipi \ {c}
    /\ pc' = [pc EXCEPT ![c] = "sched"]
    /\ UNCHANGED <<threadVars, current, stack, halts, lock, slice>>

(* What a CPU does on its own.                                              *)
Kernel(c) == Schedule(c) \/ Reschedule(c) \/ ContextSwitch(c) \/ HaltCheck(c) \/ IdleLoop(c)

BlockSome(c) == \E kind \in {"event", "timed"} : Block(c, kind)

Next == \/ \E c \in Cpus :
              \/ Kernel(c) \/ Ipi(c) \/ Yield(c) \/ Exit(c) \/ BlockSome(c)
              \/ \E t \in Slots : Wake(c, t) \/ Kill(c, t) \/ Spawn(c, t)
        \/ TimerIrq
        \/ OnTimer

Spec == Init /\ [][Next]_vars

(* The processors run and the timer ticks; threads promise nothing.  A       *)
(* kernel step open to interrupts is taken in the end however often one      *)
(* comes first: a tick is far longer than the code between two of them.     *)
FairSpec == /\ Spec
            /\ \A c \in Cpus : /\ WF_vars(Schedule(c)) /\ WF_vars(Reschedule(c))
                              /\ WF_vars(ContextSwitch(c)) /\ WF_vars(Ipi(c))
                              /\ SF_vars(HaltCheck(c)) /\ SF_vars(IdleLoop(c))
            /\ WF_vars(TimerIrq) /\ WF_vars(OnTimer)

(* The same when every thread, run often enough, waits for something.       *)
CooperativeSpec == FairSpec /\ SF_vars(BlockSome(0))
-----------------------------------------------------------------------------
(* Every variable keeps its range; g_slice_left is a uint32_t that must not  *)
(* be decremented past 0 (scheduler_on_timer).                              *)
TypeOK == /\ state \in [Slots -> {"READY", "RUNNING", "BLOCKED", "ZOMBIE"}]
          /\ sleep \in [Slots -> {"none", "event", "timed", "due"}]
          /\ last_cpu \in [Slots -> Cpus \cup {-1}]
          /\ current \in [Cpus -> Slots \cup {NULL}]
          /\ stack \in [Cpus -> Stacks]
          /\ halts \in [Stacks -> 0 .. MaxHalts]
          /\ lock \in Cpus \cup {NULL}
          /\ pc \in [Cpus -> PCs]
          /\ slice \in 0 .. TIMESLICE
          /\ ipi \subseteq Cpus

(* No kernel stack is live on two CPUs, not even between the choice of the   *)
(* next thread and context_switch, when the old stack is still in use: what  *)
(* holding g_sched_lock across the switch is for ("unlock-before-switch ->   *)
(* #UD" in schedule()).                                                     *)
StackExclusive == \A c, d \in Cpus : c # d => stack[c] # stack[d] /\ stack[c] # current[d]

(* A RUNNING thread is the current thread of exactly the CPU recorded in     *)
(* process.cpu, and a CPU's current thread is on another one's never.        *)
RunningIsCurrent ==
    /\ \A t \in Slots : state[t] = "RUNNING" => last_cpu[t] >= 0 /\ current[last_cpu[t]] = t
    /\ \A c, d \in Cpus : c # d /\ current[c] # NULL => current[c] # current[d]

(* Outside the switch a CPU runs on its current thread's own stack, and the  *)
(* lock is held exactly during the switch: it is never leaked by the thread  *)
(* that was switched away from, nor released twice.                         *)
LockHandoff == \A c \in Cpus :
    /\ pc[c] = "switch" <=> lock = c
    /\ pc[c] # "switch" => stack[c] = IF current[c] = NULL THEN Boot(c) ELSE current[c]

(* Who runs where, and who holds the lock, is never in doubt between two     *)
(* threads (scheduler.c:198-285).                                            *)
SwitchSound == RunningIsCurrent /\ LockHandoff

(* A thread that is ready gets to run even if the one on the CPU never waits *)
(* (README.md: "timer IRQ context-switches CPU hogs").                       *)
Preemption == \A t \in Slots : state[t] = "READY" /\ ~IsIdle(t) ~> state[t] # "READY"

(* Among threads that do wait, one that has run before on the boot CPU is    *)
(* not passed over for ever: pick_next goes round the table.                *)
RoundRobin == \A t \in Pinned :
    state[t] = "READY" /\ last_cpu[t] = 0 ~> state[t] # "READY"
=============================================================================
