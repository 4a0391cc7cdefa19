---------------------------- MODULE KEventProofs ----------------------------
(***************************************************************************)
(* The invariants of KEvent for every number of events, threads and ticks, *)
(* and the proof that sync.c implements AutoResetEvent.                    *)
(***************************************************************************)
EXTENDS KEvent, TLAPS

(* What makes the invariants inductive: an event is in use exactly when it  *)
(* has an owner, owners are process leaders, and a process dies whole.      *)
Ownership ==
    /\ \A e \in Events : used[e] <=> owner[e] # NoThread
    /\ \A e \in Events : owner[e] # NoThread => Leader[owner[e]] = owner[e]
    /\ \A t \in Threads : state[t] = "zombie" <=> state[Leader[t]] = "zombie"

IInv == /\ TypeOK
        /\ QueueWellFormed
        /\ NoLostSignal
        /\ NoOrphanedSleeper
        /\ ExitLeavesNothing
        /\ Ownership

(* kevent_wait asks for a wake tick that process.wake_tick can hold.        *)
LEMMA WakeAtType ==
    ASSUME KEventAssumption, ticks \in 0 .. MaxTick,
           NEW timeout \in Timeouts, WakeAt(timeout) <= MaxTick
    PROVE  WakeAt(timeout) \in 0 .. MaxTick \cup {FOREVER}
BY DEF KEventAssumption, WakeAt, FOREVER

(* The initial state satisfies the inductive invariant.                     *)
LEMMA InitIInv == ASSUME KEventAssumption, Init PROVE IInv
<1>1. 0 \in Events
  BY DEF KEventAssumption, Events
<1>2. 0 \in 0 .. MaxTick
  BY DEF KEventAssumption
<1>3. TypeOK
  BY <1>1, <1>2 DEF Init, TypeOK
<1>4. NoEvent \notin Events
  BY DEF Events, NoEvent
<1>5. QueueWellFormed
  BY <1>4 DEF Init, QueueWellFormed, Linked, Chained
<1>6. NoLostSignal /\ NoOrphanedSleeper /\ ExitLeavesNothing
  BY DEF Init, NoLostSignal, NoOrphanedSleeper, ExitLeavesNothing
<1>7. Ownership
  BY DEF Init, Ownership, KEventAssumption
<1> QED BY <1>3, <1>5, <1>6, <1>7 DEF IInv

(* The invariant is preserved by every step.                                *)
LEMMA NextIInv == ASSUME KEventAssumption, IInv, [Next]_vars PROVE IInv'
<1> USE DEF IInv
<1>0. NoEvent \notin Events
  BY DEF Events, NoEvent
<1>1. ASSUME NEW t \in Threads, NEW e \in Events, Create(t, e)
      PROVE  IInv'
  <2>1. waiters[e] = {} /\ waiters' = waiters
    BY <1>1 DEF Create, QueueWellFormed, Linked, TypeOK
  <2>2. TypeOK'
    BY <1>1, <2>1 DEF Create, TypeOK, KEventAssumption
  <2>3. QueueWellFormed'
    BY <1>1, <2>1 DEF Create, TypeOK, QueueWellFormed, Linked, Chained
  <2>4. NoLostSignal' /\ NoOrphanedSleeper'
    BY <1>1, <2>1 DEF Create, CanCall, TypeOK, NoLostSignal, NoOrphanedSleeper
  <2>5. ExitLeavesNothing' /\ Ownership'
    BY <1>1 DEF Create, CanCall, TypeOK, ExitLeavesNothing, Ownership, KEventAssumption
  <2> QED BY <2>2, <2>3, <2>4, <2>5
<1>2. ASSUME NEW t \in Threads, NEW e \in Events, Destroy(t, e)
      PROVE  IInv'
  <2> USE <1>2 DEF Destroy, WakeAll, Unlink, ProcessWake
  <2>1. TypeOK'
    BY DEF TypeOK, KEventAssumption
  <2>2. Linked'
    BY <1>0 DEF TypeOK, QueueWellFormed, Linked
  <2>3. Chained'
    BY <1>0 DEF TypeOK, QueueWellFormed, Linked, Chained
  <2>4. NoLostSignal' /\ NoOrphanedSleeper'
    BY DEF TypeOK, NoLostSignal, NoOrphanedSleeper
  <2>5. ExitLeavesNothing'
    BY <1>0 DEF TypeOK, ExitLeavesNothing, QueueWellFormed, Linked
  <2>6. Ownership'
    BY DEF TypeOK, Ownership, QueueWellFormed, Linked, KEventAssumption
  <2> QED BY <2>1, <2>2, <2>3, <2>4, <2>5, <2>6 DEF QueueWellFormed
<1>3. ASSUME NEW t \in Threads, NEW e \in Events, Signal(t, e)
      PROVE  IInv'
  <2>1. CASE \E w \in waiters[e] : WakeOne(w, e)
    <3> PICK w \in waiters[e] : WakeOne(w, e)
      BY <2>1
    <3> w \in Threads
      BY DEF TypeOK
    <3> UNCHANGED <<used, signaled, owner, pc, id, wake_at, ret, ticks>>
      BY <1>3, <2>1 DEF Signal, TypeOK
    <3> USE DEF WakeOne, Unlink, ProcessWake
    <3>1. TypeOK'
      BY DEF TypeOK, KEventAssumption
    <3>2. Linked'
      BY <1>0 DEF TypeOK, QueueWellFormed, Linked
    <3>3. Chained'
      BY <1>0 DEF TypeOK, QueueWellFormed, Linked, Chained
    <3>4. NoLostSignal' /\ NoOrphanedSleeper'
      BY DEF TypeOK, NoLostSignal, NoOrphanedSleeper
    <3>5. ExitLeavesNothing' /\ Ownership'
      BY <1>0 DEF TypeOK, ExitLeavesNothing, Ownership, QueueWellFormed, Linked,
                  KEventAssumption
    <3> QED BY <3>1, <3>2, <3>3, <3>4, <3>5 DEF QueueWellFormed
  <2>2. CASE waiters[e] = {}
    <3> UNCHANGED <<used, owner, waiters, ahead, wait_event, state, wake_tick,
                    pc, id, wake_at, ret, ticks>> /\ used[e]
                    /\ signaled' = [signaled EXCEPT ![e] = TRUE]
      BY <1>3, <2>2 DEF Signal
    <3>1. TypeOK' /\ NoLostSignal'
      BY <2>2 DEF TypeOK, NoLostSignal
    <3>2. QueueWellFormed' /\ NoOrphanedSleeper' /\ ExitLeavesNothing' /\ Ownership'
      BY DEF QueueWellFormed, Linked, Chained, NoOrphanedSleeper, ExitLeavesNothing,
             Ownership
    <3> QED BY <3>1, <3>2
  <2> QED BY <1>3, <2>1, <2>2 DEF Signal
<1>4. ASSUME NEW t \in Threads, NEW e \in Events, Broadcast(t, e)
      PROVE  IInv'
  <2> USE <1>4 DEF Broadcast, WakeAll, Unlink, ProcessWake
  <2>1. TypeOK'
    BY DEF TypeOK, KEventAssumption
  <2>2. Linked'
    BY <1>0 DEF TypeOK, QueueWellFormed, Linked
  <2>3. Chained'
    BY <1>0 DEF TypeOK, QueueWellFormed, Linked, Chained
  <2>4. NoLostSignal' /\ NoOrphanedSleeper'
    BY DEF TypeOK, NoLostSignal, NoOrphanedSleeper
  <2>5. ExitLeavesNothing' /\ Ownership'
    BY <1>0 DEF TypeOK, ExitLeavesNothing, Ownership, QueueWellFormed, Linked,
                KEventAssumption
  <2> QED BY <2>1, <2>2, <2>3, <2>4, <2>5 DEF QueueWellFormed
<1>5. ASSUME NEW t \in Threads, NEW e \in Events, NEW timeout \in Timeouts,
             WaitAtOnce(t, e, timeout)
      PROVE  IInv'
  <2>a. signaled \in [Events -> BOOLEAN] /\ ret \in [Threads -> {"none", "OK", "EBADF", "EAGAIN", "ETIMEDOUT"}]
    BY DEF TypeOK
  <2>b. \/ signaled' = signaled
        \/ signaled' = [signaled EXCEPT ![e] = FALSE]
    BY <1>5 DEF WaitAtOnce
  <2>c. \E r \in {"OK", "EBADF", "EAGAIN"} : ret' = [ret EXCEPT ![t] = r]
    BY <1>5 DEF WaitAtOnce
  <2>d. ret' \in [Threads -> {"none", "OK", "EBADF", "EAGAIN", "ETIMEDOUT"}]
    BY <2>a, <2>c
  <2>e. signaled' \in [Events -> BOOLEAN] /\ \A f \in Events : signaled'[f] => signaled[f]
    BY <2>a, <2>b
  <2>1. TypeOK' /\ NoLostSignal'
    BY <1>5, <2>d, <2>e DEF WaitAtOnce, TypeOK, NoLostSignal
  <2>2. QueueWellFormed' /\ NoOrphanedSleeper' /\ ExitLeavesNothing' /\ Ownership'
    BY <1>5 DEF WaitAtOnce, QueueWellFormed, Linked, Chained, NoOrphanedSleeper,
                ExitLeavesNothing, Ownership
  <2> QED BY <2>1, <2>2
<1>6. ASSUME NEW t \in Threads, NEW e \in Events, NEW timeout \in Timeouts,
             WaitBlock(t, e, timeout)
      PROVE  IInv'
  <2>0. WakeAt(timeout) \in 0 .. MaxTick \cup {FOREVER}
    BY <1>6, WakeAtType DEF WaitBlock, TypeOK
  <2>00. wait_event[t] = NoEvent /\ ahead[t] = {}
    BY <1>0, <1>6 DEF WaitBlock, CanCall, TypeOK, QueueWellFormed, Linked, Chained
  <2> USE <1>6 DEF WaitBlock, CanCall, WaiterEnqueue
  <2>1. TypeOK'
    BY <2>0 DEF TypeOK
  <2>2. Linked'
    BY <1>0, <2>00 DEF TypeOK, QueueWellFormed, Linked
  <2>3. Chained'
    BY <1>0, <2>00 DEF TypeOK, QueueWellFormed, Linked, Chained
  <2>4. NoLostSignal' /\ NoOrphanedSleeper'
    BY DEF TypeOK, NoLostSignal, NoOrphanedSleeper
  <2>5. ExitLeavesNothing' /\ Ownership'
    BY DEF TypeOK, ExitLeavesNothing, Ownership, KEventAssumption
  <2> QED BY <2>1, <2>2, <2>3, <2>4, <2>5 DEF QueueWellFormed
<1>7. ASSUME NEW t \in Threads, Resume(t)
      PROVE  IInv'
  <2>1. /\ Unlink({t})
        /\ signaled' = signaled
        /\ state[t] # "zombie"
    BY <1>0, <1>7 DEF Resume, Runnable, Unlink, TypeOK, QueueWellFormed, Linked, Chained,
                      NoLostSignal
  <2> USE <1>7, <2>1 DEF Unlink
  <2>2. TypeOK'
    BY DEF Resume, TypeOK, KEventAssumption, Events
  <2>3. Linked'
    BY <1>0 DEF Resume, TypeOK, QueueWellFormed, Linked
  <2>4. Chained'
    BY <1>0 DEF Resume, TypeOK, QueueWellFormed, Linked, Chained
  <2>5. NoLostSignal' /\ NoOrphanedSleeper'
    BY DEF Resume, TypeOK, NoLostSignal, NoOrphanedSleeper
  <2>6. ExitLeavesNothing' /\ Ownership'
    BY DEF Resume, TypeOK, ExitLeavesNothing, Ownership, KEventAssumption
  <2> QED BY <2>2, <2>3, <2>4, <2>5, <2>6 DEF QueueWellFormed
<1>8. ASSUME Tick PROVE IInv'
  <2> USE <1>8 DEF Tick, ProcessWake, Sleepers
  <2>1. TypeOK'
    BY DEF TypeOK, KEventAssumption
  <2>2. QueueWellFormed'
    BY DEF TypeOK, QueueWellFormed, Linked, Chained
  <2>3. NoLostSignal' /\ NoOrphanedSleeper'
    BY DEF TypeOK, NoLostSignal, NoOrphanedSleeper
  <2>4. ExitLeavesNothing' /\ Ownership'
    BY DEF TypeOK, ExitLeavesNothing, Ownership, KEventAssumption
  <2> QED BY <2>1, <2>2, <2>3, <2>4
<1>9. ASSUME NEW l \in Threads, Exit(l) PROVE IInv'
  <2> DEFINE freed == OwnedBy(l)
             let == (UNION {waiters[e] : e \in freed}) \ Group(l)
  <2> let \subseteq Threads /\ freed \subseteq Events /\ Group(l) \subseteq Threads
    BY DEF OwnedBy, Group, TypeOK
  <2>a. \A t \in Threads : t \in let <=> /\ Leader[t] # l
                                         /\ wait_event[t] \in freed
    BY <1>0 DEF OwnedBy, Group, TypeOK, QueueWellFormed, Linked
  <2> HIDE DEF let
  <2> USE <1>9 DEF Exit, Unlink
  <2>1. TypeOK'
    BY DEF TypeOK, KEventAssumption
  <2>2. Linked'
    BY <1>0, <2>a DEF TypeOK, QueueWellFormed, Linked, Group, OwnedBy
  <2>3. Chained'
    BY <1>0, <2>a DEF TypeOK, QueueWellFormed, Linked, Chained, Group, OwnedBy
  <2>4. NoLostSignal' /\ NoOrphanedSleeper'
    BY <1>0, <2>a DEF TypeOK, NoLostSignal, NoOrphanedSleeper, Group, OwnedBy
  <2>5. ExitLeavesNothing'
    BY <1>0, <2>a, ZenonT(60) DEF TypeOK, ExitLeavesNothing, Ownership, Group, OwnedBy
  <2>6. Ownership'
    BY <2>a DEF TypeOK, Ownership, Group, OwnedBy, KEventAssumption
  <2> QED BY <2>1, <2>2, <2>3, <2>4, <2>5, <2>6 DEF QueueWellFormed
<1>10. CASE UNCHANGED vars
  BY <1>10 DEF vars, TypeOK, QueueWellFormed, Linked, Chained, NoLostSignal,
               NoOrphanedSleeper, ExitLeavesNothing, Ownership
<1> QED BY <1>1, <1>2, <1>3, <1>4, <1>5, <1>6, <1>7, <1>8, <1>9, <1>10 DEF Next, Call

(* The strengthened invariant holds in every reachable state.               *)
THEOREM KEventInvariant == ASSUME KEventAssumption PROVE Spec => []IInv
<1>1. Init => IInv
  BY InitIInv
<1>2. IInv /\ [Next]_vars => IInv'
  BY NextIInv
<1> QED BY <1>1, <1>2, PTL DEF Spec

(* Every call, timeout and exit leaves the waiter lists well formed: no     *)
(* dangling, doubled or cyclic entry (sync.c's singly linked lists).        *)
THEOREM QueueSafety == ASSUME KEventAssumption PROVE Spec => []QueueWellFormed
BY KEventInvariant, PTL DEF IInv

(* The type invariant of KEvent.                                            *)
THEOREM TypeCorrect == ASSUME KEventAssumption PROVE Spec => []TypeOK
BY KEventInvariant, PTL DEF IInv

(* A sticky signal and a queued waiter never coexist, for any number of     *)
(* threads: the branch of kevent_wait that consumes a sticky signal after a *)
(* timeout is never needed.                                                 *)
THEOREM SignalSafety == ASSUME KEventAssumption PROVE Spec => []NoLostSignal
BY KEventInvariant, PTL DEF IInv

(* Whoever sleeps in kevent_wait is on the list of a live event.            *)
THEOREM SleeperSafety == ASSUME KEventAssumption PROVE Spec => []NoOrphanedSleeper
BY KEventInvariant, PTL DEF IInv

(* A process that has ended leaves neither waiters nor events.              *)
THEOREM ExitSafety == ASSUME KEventAssumption PROVE Spec => []ExitLeavesNothing
BY KEventInvariant, PTL DEF IInv
-----------------------------------------------------------------------------
(* What the timer guarantees: a queued sleeper's wake tick is the one it     *)
(* asked for, and a queued thread that is already awake is past it.          *)
WaitClock ==
    \A t \in Threads :
        pc[t] = "waiting" /\ wait_event[t] # NoEvent =>
            /\ state[t] = "blocked" => wake_tick[t] = wake_at[t]
            /\ state[t] = "ready" => wake_at[t] # FOREVER /\ wake_at[t] <= ticks

(* Every step keeps the clock of a timed wait right: no one wakes early.      *)
LEMMA NextWaitClock ==
    ASSUME KEventAssumption, IInv, WaitClock, [Next]_vars PROVE WaitClock'
<1> USE DEF IInv
<1>1. ASSUME NEW t \in Threads, NEW e \in Events,
             \/ Create(t, e) \/ Destroy(t, e) \/ Broadcast(t, e)
      PROVE  WaitClock'
  BY <1>1 DEF Create, Destroy, Broadcast, WakeAll, Unlink, ProcessWake, CanCall, TypeOK,
              WaitClock, QueueWellFormed, Linked
<1>2. ASSUME NEW t \in Threads, NEW e \in Events, Signal(t, e)
      PROVE  WaitClock'
  BY <1>2 DEF Signal, WakeOne, Unlink, ProcessWake, TypeOK, WaitClock
<1>3. ASSUME NEW t \in Threads, NEW e \in Events, NEW timeout \in Timeouts,
             WaitAtOnce(t, e, timeout)
      PROVE  WaitClock'
  BY <1>3 DEF WaitAtOnce, WaitClock
<1>4. ASSUME NEW t \in Threads, NEW e \in Events, NEW timeout \in Timeouts,
             WaitBlock(t, e, timeout)
      PROVE  WaitClock'
  <2>1. state'[t] = "blocked" /\ wake_tick'[t] = wake_at'[t]
    BY <1>4 DEF WaitBlock, TypeOK
  <2>2. ASSUME NEW u \in Threads, u # t
        PROVE  /\ pc'[u] = pc[u] /\ wait_event'[u] = wait_event[u] /\ state'[u] = state[u]
               /\ wake_tick'[u] = wake_tick[u] /\ wake_at'[u] = wake_at[u]
    BY <1>4, <2>2 DEF WaitBlock, WaiterEnqueue, TypeOK
  <2>3. ticks' = ticks
    BY <1>4 DEF WaitBlock
  <2> QED BY <2>1, <2>2, <2>3 DEF WaitClock
<1>5. ASSUME NEW t \in Threads, Resume(t)
      PROVE  WaitClock'
  BY <1>5 DEF Resume, Unlink, TypeOK, WaitClock
<1>6. ASSUME Tick PROVE WaitClock'
  BY <1>6 DEF Tick, ProcessWake, Sleepers, TypeOK, WaitClock, FOREVER, KEventAssumption
<1>7. ASSUME NEW l \in Threads, Exit(l) PROVE WaitClock'
  <2>1. \A t \in Threads : wait_event'[t] # NoEvent =>
           /\ wait_event[t] # NoEvent /\ wake_at'[t] = wake_at[t] /\ pc'[t] = pc[t]
           /\ state'[t] \in {state[t], "zombie"} /\ wake_tick'[t] = wake_tick[t]
    <3> SUFFICES ASSUME NEW t \in Threads, wait_event'[t] # NoEvent
                 PROVE  /\ wait_event[t] # NoEvent /\ wake_at'[t] = wake_at[t] /\ pc'[t] = pc[t]
                        /\ state'[t] \in {state[t], "zombie"}
                        /\ wake_tick'[t] = wake_tick[t]
      OBVIOUS
    <3> DEFINE let == (UNION {waiters[e] : e \in OwnedBy(l)}) \ Group(l)
    <3>1. t \notin Group(l) \cup let /\ wait_event[t] # NoEvent
      BY <1>7 DEF Exit, Unlink, TypeOK
    <3>2. state'[t] \in {state[t], "zombie"} /\ wake_tick'[t] = wake_tick[t]
      BY <1>7, <3>1 DEF Exit
    <3> QED BY <1>7, <3>1, <3>2 DEF Exit
  <2>2. ticks' = ticks
    BY <1>7 DEF Exit
  <2> QED BY <2>1, <2>2 DEF WaitClock
<1>8. CASE UNCHANGED vars
  BY <1>8 DEF vars, WaitClock
<1> QED BY <1>1, <1>2, <1>3, <1>4, <1>5, <1>6, <1>7, <1>8 DEF Next, Call

(* kevent_wait never reports a timeout early, whatever signals, destroys and *)
(* exits race with the timer.                                                *)
THEOREM TimeoutSafety == ASSUME KEventAssumption PROVE Spec => NoEarlyTimeout
<1>1. Init => IInv /\ WaitClock
  BY InitIInv DEF Init, WaitClock
<1>2. IInv /\ WaitClock /\ [Next]_vars => (IInv /\ WaitClock)'
  BY NextIInv, NextWaitClock
<1>3. IInv /\ WaitClock /\ [Next]_vars =>
        [\A t \in Threads :
          pc[t] = "waiting" /\ pc'[t] = "user" /\ ret'[t] = "ETIMEDOUT"
             => wake_at[t] # FOREVER /\ wake_at[t] <= ticks]_vars
  <2> SUFFICES ASSUME IInv, WaitClock, Next, NEW t \in Threads,
                      pc[t] = "waiting", pc'[t] = "user", ret'[t] = "ETIMEDOUT"
               PROVE  wake_at[t] # FOREVER /\ wake_at[t] <= ticks
    OBVIOUS
  <2>1. \E u \in Threads : Resume(u)
    <3>1. ASSUME NEW u \in Threads, Call(u) PROVE FALSE
      <4>1. pc' = pc \/ pc' = [pc EXCEPT ![u] = "waiting"]
        BY <3>1 DEF Call, Create, Destroy, Signal, Broadcast, WaitAtOnce, WaitBlock
      <4> QED BY <4>1 DEF IInv, TypeOK
    <3>2. pc' # pc
      OBVIOUS
    <3> QED BY <3>1, <3>2 DEF Next, Tick, Exit
  <2>2. PICK u \in Threads : Resume(u)
    BY <2>1
  <2>3. u = t
    <3>1. pc' = [pc EXCEPT ![u] = "user"]
      BY <2>2 DEF Resume
    <3> QED BY <3>1 DEF IInv, TypeOK
  <2>4. wait_event[t] = id[t] /\ wait_event[t] # NoEvent
    BY <2>2, <2>3 DEF Resume, IInv, TypeOK, Events, NoEvent
  <2>5. Runnable(t) /\ state[t] \in {"ready", "blocked"}
    BY <2>2, <2>3 DEF Resume, Runnable
  <2> QED BY <2>4, <2>5 DEF WaitClock, Runnable
<1> QED BY <1>1, <1>2, <1>3, PTL DEF Spec, NoEarlyTimeout
-----------------------------------------------------------------------------
(* Every step of sync.c is a step of the abstract event or leaves it alone.  *)
LEMMA StepRefines ==
    ASSUME KEventAssumption, IInv, [Next]_vars PROVE [Event!Next]_Event!vars
<1> USE DEF IInv
<1>0. NoEvent \notin Events
  BY DEF Events, NoEvent
<1>1. ASSUME NEW t \in Threads, CanCall(t) PROVE Event!Idle(t)
  BY <1>0, <1>1 DEF CanCall, Event!Idle, Granted, TypeOK, QueueWellFormed, Linked
<1>2. \A e \in Events : /\ used[e] <=> e \in Event!Live
                        /\ Event!WaitersOf(e) = waiters[e]
  BY DEF Event!Live, Event!WaitersOf, TypeOK, Ownership, QueueWellFormed, Linked
<1>3. ASSUME NEW t \in Threads, NEW e \in Events, Create(t, e)
      PROVE  Event!Create(t, e)
  <2>1. {f \in Events : signaled[f]}' = {f \in Events : signaled[f]}
    BY <1>3 DEF Create, NoLostSignal, TypeOK
  <2>2. Granted' = Granted
    BY <1>3 DEF Create, Granted
  <2> QED BY <1>1, <1>2, <1>3, <2>1, <2>2 DEF Create, Event!Create
<1>4. ASSUME NEW S \in SUBSET Threads, Unlink(S), ProcessWake(S), pc' = pc,
             \A t \in S : pc[t] = "waiting" /\ state[t] # "zombie"
      PROVE  /\ wait_event' = [t \in Threads |-> IF t \in S THEN NoEvent ELSE wait_event[t]]
             /\ Granted' = Granted \cup S
  BY <1>4 DEF Unlink, ProcessWake, Granted, TypeOK
<1>5. ASSUME NEW t \in Threads, NEW e \in Events, Destroy(t, e)
      PROVE  Event!Destroy(t, e)
  <2>1. {f \in Events : signaled[f]}' = {f \in Events : signaled[f]} \ {e}
    BY <1>5 DEF Destroy, TypeOK
  <2>2. Event!Grant(waiters[e])
    BY <1>4, <1>5 DEF Destroy, WakeAll, Event!Grant, TypeOK, QueueWellFormed, Linked
  <2>3. ret' = ret
    BY <1>5 DEF Destroy
  <2> QED BY <1>1, <1>2, <1>5, <2>1, <2>2, <2>3 DEF Destroy, Event!Destroy
<1>6. ASSUME NEW t \in Threads, NEW e \in Events, Signal(t, e)
      PROVE  Event!Signal(t, e)
  <2>1. CASE \E w \in waiters[e] : WakeOne(w, e)
    <3>1. PICK w \in waiters[e] : WakeOne(w, e)
      BY <2>1
    <3>2. signaled' = signaled
      BY <1>6, <3>1 DEF Signal
    <3>3. Event!Grant({w})
      BY <1>4, <1>6, <3>1 DEF Signal, WakeOne, Event!Grant, TypeOK, QueueWellFormed, Linked
    <3>4. owner' = owner /\ ret' = ret /\ used[e] /\ CanCall(t)
      BY <1>6 DEF Signal
    <3> QED BY <1>1, <1>2, <3>1, <3>2, <3>3, <3>4 DEF Event!Signal
  <2>2. CASE waiters[e] = {}
    <3>1. /\ signaled' = [signaled EXCEPT ![e] = TRUE]
          /\ UNCHANGED <<owner, wait_event, state, pc, ret>> /\ used[e] /\ CanCall(t)
      BY <1>6, <2>2 DEF Signal
    <3>2. {f \in Events : signaled[f]}' = {f \in Events : signaled[f]} \cup {e}
      BY <3>1 DEF TypeOK
    <3>3. Granted' = Granted
      BY <3>1 DEF Granted
    <3> QED BY <1>1, <1>2, <2>2, <3>1, <3>2, <3>3 DEF Event!Signal
  <2> QED BY <1>6, <2>1, <2>2 DEF Signal
<1>7. ASSUME NEW t \in Threads, NEW e \in Events, Broadcast(t, e)
      PROVE  Event!Broadcast(t, e)
  <2>1. {f \in Events : signaled[f]}' =
           IF waiters[e] = {} THEN {f \in Events : signaled[f]} \cup {e}
           ELSE {f \in Events : signaled[f]}
    BY <1>7 DEF Broadcast, TypeOK
  <2>2. Event!Grant(waiters[e])
    BY <1>4, <1>7 DEF Broadcast, WakeAll, Event!Grant, TypeOK, QueueWellFormed, Linked
  <2>3. ret' = ret /\ owner' = owner /\ used[e] /\ CanCall(t)
    BY <1>7 DEF Broadcast
  <2> QED BY <1>1, <1>2, <2>1, <2>2, <2>3 DEF Event!Broadcast
<1>8. ASSUME NEW t \in Threads, NEW e \in Events, NEW timeout \in Timeouts,
             WaitAtOnce(t, e, timeout)
      PROVE  Event!Take(t, e) \/ Event!Refuse(t, e)
  <2>1. Granted' = Granted /\ owner' = owner /\ wait_event' = wait_event /\ CanCall(t)
    BY <1>8 DEF WaitAtOnce, Granted
  <2>2. CASE used[e] /\ signaled[e]
    <3>1. /\ ret' = [ret EXCEPT ![t] = "OK"]
          /\ signaled' = [signaled EXCEPT ![e] = FALSE]
      BY <1>8, <2>2 DEF WaitAtOnce
    <3>2. {f \in Events : signaled[f]}' = {f \in Events : signaled[f]} \ {e}
      BY <3>1 DEF TypeOK
    <3> QED BY <1>1, <2>1, <2>2, <3>1, <3>2 DEF Event!Take
  <2>3. CASE ~(used[e] /\ signaled[e])
    <3>1. signaled' = signaled
      BY <1>8, <2>3 DEF WaitAtOnce
    <3>2. \/ ~used[e] /\ ret' = [ret EXCEPT ![t] = "EBADF"]
          \/ used[e] /\ ~signaled[e] /\ ret' = [ret EXCEPT ![t] = "EAGAIN"]
      BY <1>8, <2>3 DEF WaitAtOnce
    <3> QED BY <1>1, <1>2, <2>1, <3>1, <3>2 DEF Event!Refuse
  <2> QED BY <2>2, <2>3
<1>9. ASSUME NEW t \in Threads, NEW e \in Events, NEW timeout \in Timeouts,
             WaitBlock(t, e, timeout)
      PROVE  Event!Block(t, e)
  <2>1. /\ wait_event' = [wait_event EXCEPT ![t] = e]
        /\ ret' = [ret EXCEPT ![t] = "none"]
        /\ UNCHANGED <<owner, signaled>>
        /\ CanCall(t) /\ used[e] /\ ~signaled[e]
    BY <1>9 DEF WaitBlock, WaiterEnqueue
  <2>2. pc' = [pc EXCEPT ![t] = "waiting"] /\ state' = [state EXCEPT ![t] = "blocked"]
    BY <1>9 DEF WaitBlock
  <2>3. Granted' = Granted
    BY <1>0, <2>1, <2>2 DEF Granted, TypeOK, CanCall
  <2> QED BY <1>1, <1>2, <2>1, <2>3 DEF Event!Block
<1>10. ASSUME NEW t \in Threads, Resume(t)
       PROVE  Event!Return(t) \/ Event!Timeout(t)
  <2>1. /\ wait_event' = [wait_event EXCEPT ![t] = NoEvent]
        /\ signaled' = signaled /\ owner' = owner
        /\ state[t] \in {"ready", "blocked"} /\ pc[t] = "waiting"
    BY <1>0, <1>10 DEF Resume, Runnable, Unlink, TypeOK, QueueWellFormed, Linked, NoLostSignal
  <2>2. pc' = [pc EXCEPT ![t] = "user"] /\ state' = [state EXCEPT ![t] = "ready"]
    BY <1>10 DEF Resume
  <2>3. Granted' = Granted \ {t}
    BY <2>1, <2>2 DEF Granted, TypeOK
  <2>4. CASE wait_event[t] = NoEvent
    <3>1. ret' = [ret EXCEPT ![t] = "OK"]
      BY <1>0, <1>10, <2>4 DEF Resume, TypeOK
    <3>2. t \in Granted /\ wait_event' = wait_event
      BY <2>1, <2>4 DEF Granted, TypeOK
    <3> QED BY <2>1, <2>3, <3>1, <3>2 DEF Event!Return
  <2>5. CASE wait_event[t] # NoEvent
    <3>1. wait_event[t] = id[t]
      BY <2>5, <1>10 DEF Resume, TypeOK, QueueWellFormed, Linked
    <3>2. ret' = [ret EXCEPT ![t] = "ETIMEDOUT"]
      BY <1>10, <3>1, ZenonT(60) DEF Resume, TypeOK, QueueWellFormed, Linked, NoLostSignal
    <3>3. t \notin Granted
      BY <2>5 DEF Granted
    <3> QED BY <2>1, <2>3, <2>5, <3>2, <3>3 DEF Event!Timeout
  <2> QED BY <2>4, <2>5
<1>11. ASSUME Tick PROVE UNCHANGED Event!vars
  <2>1. Granted' = Granted
    BY <1>11 DEF Tick, ProcessWake, Sleepers, Granted, TypeOK
  <2> QED BY <1>11, <2>1 DEF Tick, Event!vars
<1>12. ASSUME NEW l \in Threads, Exit(l) PROVE Event!Exit(l)
  <2> DEFINE freed == OwnedBy(l)
             let == (UNION {waiters[e] : e \in freed}) \ Group(l)
  <2>1. freed = {e \in Events : owner[e] = l}
    BY DEF OwnedBy, TypeOK, Ownership, KEventAssumption
  <2>2. let = {t \in Threads \ Group(l) : wait_event[t] \in freed}
    BY <1>0 DEF OwnedBy, Group, TypeOK, QueueWellFormed, Linked
  <2>3. {e \in Events : signaled[e]}' = {e \in Events : signaled[e]} \ freed
    BY <1>12 DEF Exit
  <2>4. \A t \in let : pc[t] = "waiting" /\ state[t] # "zombie" /\ t \in Threads
    BY <2>2 DEF OwnedBy, TypeOK, QueueWellFormed, Linked
  <2>5. Granted' = (Granted \cup let) \ Group(l)
    <3> HIDE DEF let
    <3>1. /\ wait_event' = [t \in Threads |-> IF t \in Group(l) \cup let THEN NoEvent
                                              ELSE wait_event[t]]
          /\ pc' = pc
      BY <1>12 DEF Exit, Unlink, let
    <3>2. state' = [t \in Threads |-> IF Leader[t] = l THEN "zombie"
                                      ELSE IF t \in let /\ state[t] = "blocked" THEN "ready"
                                      ELSE state[t]]
      BY <1>12 DEF Exit, let
    <3> QED BY <2>4, <3>1, <3>2 DEF Granted, Group
  <2>6. owner' = [e \in Events |-> IF e \in freed THEN NoThread ELSE owner[e]] /\ ret' = ret
    BY <1>12 DEF Exit
  <2>7. wait_event' = [t \in Threads |-> IF t \in Group(l) \cup let THEN NoEvent
                                         ELSE wait_event[t]]
    BY <1>12 DEF Exit, Unlink
  <2> HIDE DEF freed, let
  <2> QED BY <2>1, <2>2, <2>3, <2>5, <2>6, <2>7 DEF Event!Exit, Group
<1>13. CASE UNCHANGED vars
  BY <1>13 DEF vars, Event!vars, Granted
<1>14. ASSUME NEW t \in Threads, Call(t) PROVE Event!Next
  BY <1>3, <1>5, <1>6, <1>7, <1>8, <1>9, <1>14 DEF Call, Event!Next
<1> QED BY <1>10, <1>11, <1>12, <1>13, <1>14 DEF Next, Event!Next

(* The kernel Event of sync.c implements the abstract auto-reset event, for  *)
(* every number of threads, processes and events: a wait succeeds only by a  *)
(* grant or a token, and each signal is worth exactly one.                   *)
THEOREM EventRefinement == ASSUME KEventAssumption PROVE Spec => ImplementsEvent
<1>1. Init => Event!Init
  BY DEF Init, Event!Init, Granted, NoEvent
<1>2. IInv /\ [Next]_vars => [Event!Next]_Event!vars
  BY StepRefines
<1>3. Spec => []IInv
  BY KEventInvariant
<1> QED BY <1>1, <1>2, <1>3, PTL DEF Spec, ImplementsEvent, Event!Spec
=============================================================================
