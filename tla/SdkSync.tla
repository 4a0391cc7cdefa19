------------------------------ MODULE SdkSync ------------------------------
(***************************************************************************)
(* include/user/sdk/sync.hpp: Mutex and ConditionVariable, which the threads *)
(* of a process build from two kernel Events: gate_ and ev_.  The events     *)
(* behave as AutoResetEvent says, which KEvent is shown to implement.        *)
(* Every call of the kernel is atomic; what lies between two of them is      *)
(* thread code.                                                             *)
(*                                                                         *)
(* preemptive says whether a thread can lose the CPU there.  As the scheduler *)
(* is written it cannot (Scheduler, Preemption): all threads of a process    *)
(* share CPU 0 and one runs until it waits.  The mutex must not depend on it *)
(* (thread.hpp: "timer IRQ context-switches CPU hogs").                     *)
(***************************************************************************)
EXTENDS Naturals

CONSTANTS Threads,
          NoThread

ASSUME SdkAssumption == Threads # {} /\ NoThread \notin Threads

VARIABLES owner, token, waiting, granted, result,    \* of the two events
          locked,          \* Mutex.locked_
          pc,              \* pc[t]: what thread t is about to do
          run,             \* the thread that has the CPU, if not preemptive
          preemptive,      \* chosen once, see above
          owed             \* threads in ConditionVariable.wait at a notify_all
                           \* and not out of it yet (not in the code)

eventVars == <<owner, token, waiting, granted, result>>
vars == <<eventVars, locked, pc, run, preemptive, owed>>

Main == CHOOSE t \in Threads : TRUE
NoEvent == "no event"
E == INSTANCE AutoResetEvent
        WITH Events <- {"gate", "ev"}, Leader <- [t \in Threads |-> Main], NoEvent <- NoEvent

(* "out": not in the monitor      "lock": to compare and swap locked_        *)
(* "gate": to wait at the gate    "atgate", "atev": in the wait              *)
(* "in": holds the mutex          "unlocked", "cvunlocked": to signal gate_  *)
(* "cvwait": to wait for ev_                                                *)
PCs == {"out", "lock", "gate", "atgate", "in", "unlocked", "cvunlocked", "cvwait", "atev"}
InWait(t) == pc[t] \in {"cvunlocked", "cvwait", "atev"}

Init == /\ owner = [e \in {"gate", "ev"} |-> Main]
        /\ token = {} /\ granted = {}
        /\ waiting = [t \in Threads |-> NoEvent]
        /\ result = [t \in Threads |-> "none"]
        /\ locked = 0
        /\ pc = [t \in Threads |-> "out"]
        /\ run = Main
        /\ preemptive \in BOOLEAN
        /\ owed = {}
-----------------------------------------------------------------------------
Runs(t) == /\ waiting[t] = NoEvent
           /\ preemptive \/ run = t
Goto(t, l) == pc' = [pc EXCEPT ![t] = l]

Enter(t) == /\ Runs(t) /\ pc[t] = "out"
            /\ Goto(t, "lock")
            /\ UNCHANGED <<eventVars, locked, run, preemptive, owed>>

(* A wrong form of the next definition: the lock taken whatever it was.      *)
TakeAlways(t) == Goto(t, "in") /\ locked' = 1

(* __sync_bool_compare_and_swap(&locked_, 0, 1)                             *)
TryLock(t) == \/ locked = 0 /\ locked' = 1 /\ Goto(t, "in")
              \/ locked # 0 /\ Goto(t, "gate") /\ UNCHANGED locked

Lock(t) == /\ Runs(t) /\ pc[t] = "lock"
           /\ TryLock(t)
           /\ UNCHANGED <<eventVars, run, preemptive, owed>>

(* try_lock() that fails leaves the thread where it was.                     *)
TryLockOnce(t) == /\ Runs(t) /\ pc[t] = "out"
                  /\ locked = 0
                  /\ locked' = 1 /\ Goto(t, "in")
                  /\ UNCHANGED <<eventVars, run, preemptive, owed>>

(* Event.wait() on e, up to the return of SYS_EVENT_WAIT                     *)
Wait(t, e, at) == \/ E!Take(t, e) /\ Goto(t, "lock")
                  \/ E!Block(t, e) /\ Goto(t, at)

WaitGate(t) == /\ Runs(t) /\ pc[t] = "gate"
               /\ Wait(t, "gate", "atgate")
               /\ UNCHANGED <<locked, run, preemptive, owed>>

WaitEv(t) == /\ Runs(t) /\ pc[t] = "cvwait"
             /\ Wait(t, "ev", "atev")
             /\ owed' = IF "ev" \in token THEN owed \ {t} ELSE owed
             /\ UNCHANGED <<locked, run, preemptive>>

(* SYS_EVENT_WAIT returns; lock() tries again, or wait() locks again.        *)
WaitReturns(t) == /\ Runs(t) /\ pc[t] \in {"atgate", "atev"}
                  /\ E!Return(t)
                  /\ Goto(t, "lock")
                  /\ owed' = owed \ {t}
                  /\ UNCHANGED <<locked, run, preemptive>>

(* wait_for's timeout                                                       *)
WaitEvTimesOut(t) == /\ pc[t] = "atev"
                     /\ E!Timeout(t)
                     /\ Goto(t, "lock")
                     /\ owed' = owed \ {t}
                     /\ UNCHANGED <<locked, run, preemptive>>

(* Mutex.unlock(), on its own or in ConditionVariable.wait(): first          *)
(* __sync_lock_release, then gate_.signal().                                *)
Release(t) == /\ Runs(t) /\ pc[t] = "in"
              /\ locked' = 0
              /\ \E l \in {"unlocked", "cvunlocked"} : Goto(t, l)
              /\ UNCHANGED <<eventVars, run, preemptive, owed>>

(* unlock() that signals only when the mutex is taken again, as if by a       *)
(* waiter.                                                                  *)
SignalIfTaken(t) == /\ Runs(t) /\ pc[t] \in {"unlocked", "cvunlocked"}
                    /\ \/ locked = 1 /\ E!Signal(t, "gate")
                       \/ locked = 0 /\ UNCHANGED eventVars
                    /\ Goto(t, IF pc[t] = "unlocked" THEN "out" ELSE "cvwait")
                    /\ UNCHANGED <<locked, run, preemptive, owed>>

SignalGate(t) == /\ Runs(t) /\ pc[t] \in {"unlocked", "cvunlocked"}
                 /\ E!Signal(t, "gate")
                 /\ Goto(t, IF pc[t] = "unlocked" THEN "out" ELSE "cvwait")
                 /\ UNCHANGED <<locked, run, preemptive, owed>>

NotifyOne(t) == /\ Runs(t) /\ pc[t] \in {"out", "in"}
                /\ E!Signal(t, "ev")
                /\ UNCHANGED <<locked, pc, run, preemptive, owed>>

(* notify_all() by a signal                                                 *)
WakeOne(t) == E!Signal(t, "ev")
WakeAll(t) == E!Broadcast(t, "ev")

NotifyAll(t) == /\ Runs(t) /\ pc[t] \in {"out", "in"}
                /\ WakeAll(t)
                /\ owed' = owed \cup {u \in Threads : InWait(u)}
                /\ UNCHANGED <<locked, pc, run, preemptive>>

(* Another thread gets the CPU when the one that has it waits, or sleeps     *)
(* outside these classes.                                                   *)
Dispatch(t) == /\ ~preemptive
               /\ waiting[run] # NoEvent \/ pc[run] \in {"out", "in"}
               /\ waiting[t] = NoEvent
               /\ run' = t
               /\ UNCHANGED <<eventVars, locked, pc, preemptive, owed>>

Next == \E t \in Threads :
           \/ Enter(t) \/ Lock(t) \/ TryLockOnce(t) \/ WaitGate(t) \/ WaitEv(t)
           \/ WaitReturns(t) \/ WaitEvTimesOut(t) \/ Release(t) \/ SignalGate(t)
           \/ NotifyOne(t) \/ NotifyAll(t) \/ Dispatch(t)

Spec == Init /\ [][Next]_vars
-----------------------------------------------------------------------------
TypeOK == /\ owner = [e \in {"gate", "ev"} |-> Main]
          /\ token \subseteq {"gate", "ev"} /\ granted \subseteq Threads
          /\ waiting \in [Threads -> {"gate", "ev", NoEvent}]
          /\ result \in [Threads -> {"none", "OK", "ETIMEDOUT"}]
          /\ locked \in {0, 1}
          /\ pc \in [Threads -> PCs]
          /\ run \in Threads
          /\ preemptive \in BOOLEAN
          /\ owed \subseteq Threads
          /\ \A t \in Threads : waiting[t] # NoEvent \/ t \in granted =>
                                    pc[t] \in {"atgate", "atev"}

(* At most one thread is between lock() and unlock().                        *)
MutualExclusion == \A s, t \in Threads : pc[s] = "in" /\ pc[t] = "in" => s = t

(* A thread asleep in lock() is never forgotten: the mutex is held, or a      *)
(* signal is on its way, is pending, or has let a thread through that has yet *)
(* to try.  unlock() may run between the failed swap and the wait, and a      *)
(* third thread may take the mutex from under the one that was woken.        *)
NoStuckLocker == E!WaitersOf("gate") # {} =>
    \/ locked = 1
    \/ "gate" \in token
    \/ \E t \in Threads : \/ pc[t] \in {"lock", "gate", "unlocked", "cvunlocked"}
                          \/ pc[t] = "atgate" /\ t \in granted

(* notify_all() reaches every thread that has released the mutex in wait(),   *)
(* wherever in wait() it is ("wait() atomically unlocks, blocks on Event,     *)
(* then re-locks").  It rests on nobody losing the CPU between the unlock and *)
(* the wait.                                                                *)
NotifyAllReachesAll == ~preemptive => \A t \in owed : waiting[t] # "ev"
=============================================================================
