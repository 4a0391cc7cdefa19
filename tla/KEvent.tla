------------------------------- MODULE KEvent -------------------------------
(***************************************************************************)
(* src/kernel/sync.c: the kernel Events behind SYS_EVENT_*, with the parts *)
(* of the scheduler they lean on: process_block/process_wake and the timer *)
(* interrupt that wakes sleepers.                                          *)
(*                                                                         *)
(* Every call runs with interrupts off and under g_sync_lock, so it is one *)
(* action; kevent_wait is two, split where it calls schedule().  Between   *)
(* the two the timer, other threads and the end of processes intervene.    *)
(* READY and RUNNING are one state here, "ready": which ready thread runs  *)
(* is Scheduler's question.                                                *)
(***************************************************************************)
EXTENDS Integers

CONSTANTS KEVENT_MAX,      \* number of event slots
          Threads,         \* process-table slots
          Leader,          \* process_leader(): the process of a thread
          NoThread,        \* owner == -1
          Timeouts,        \* timeout_ticks a caller may pass; < 0 is forever
          TIMEOUT_CLAMP,   \* longest finite wait, 100000 ticks in the code
          MaxTick          \* bound: the clock stops here, no wait ends later

Events == 0 .. KEVENT_MAX - 1
NoEvent == -1              \* wait_event == -1
FOREVER == -1              \* wake_tick == ~0

ASSUME KEventAssumption ==
    /\ KEVENT_MAX \in Nat \ {0}
    /\ Leader \in [Threads -> Threads]
    /\ \A t \in Threads : Leader[Leader[t]] = Leader[t]
    /\ NoThread \notin Threads
    /\ Timeouts \subseteq Int
    /\ TIMEOUT_CLAMP \in Nat \ {0}
    /\ MaxTick \in Nat

VARIABLES used,            \* kevent.used
          signaled,        \* kevent.signaled: sticky until a wait consumes it
          owner,           \* kevent.owner
          waiters,         \* kevent.waiters as a set ...
          ahead,           \* ... ahead[t]: who is before t on t's waiter list
          state,           \* process.state: "ready", "blocked" or "zombie"
          wake_tick,       \* process.wake_tick
          wait_event,      \* process.wait_event
          pc,              \* "user", or "waiting" inside kevent_wait's schedule()
          id,              \* kevent_wait's argument
          wake_at,         \* kevent_wait's local wake_at
          ret,             \* what the last kevent_wait returned
          ticks            \* irq_timer_ticks()

evVars == <<used, signaled, owner>>
vars == <<used, signaled, owner, waiters, ahead, state, wake_tick, wait_event,
          pc, id, wake_at, ret, ticks>>

Init == /\ used = [e \in Events |-> FALSE]
        /\ signaled = [e \in Events |-> FALSE]
        /\ owner = [e \in Events |-> NoThread]
        /\ waiters = [e \in Events |-> {}]
        /\ ahead = [t \in Threads |-> {}]
        /\ state = [t \in Threads |-> "ready"]
        /\ wake_tick = [t \in Threads |-> 0]
        /\ wait_event = [t \in Threads |-> NoEvent]
        /\ pc = [t \in Threads |-> "user"]
        /\ id = [t \in Threads |-> 0]
        /\ wake_at = [t \in Threads |-> 0]
        /\ ret = [t \in Threads |-> "none"]
        /\ ticks = 0
-----------------------------------------------------------------------------
(* proc_runnable: a thread pick_next may choose.  A blocked thread whose    *)
(* tick has come is chosen without waiting for the timer to wake it.        *)
Runnable(t) == \/ state[t] = "ready"
               \/ /\ state[t] = "blocked"
                  /\ wake_tick[t] # FOREVER
                  /\ wake_tick[t] <= ticks

CanCall(t) == pc[t] = "user" /\ state[t] = "ready"

(* process_wake on every thread of S: only blocked threads change.          *)
ProcessWake(S) ==
    LET woken == {t \in S : state[t] = "blocked"}
    IN  /\ state' = [t \in Threads |-> IF t \in woken THEN "ready" ELSE state[t]]
        /\ wake_tick' = [t \in Threads |-> IF t \in woken THEN 0 ELSE wake_tick[t]]

(* The threads of S leave whatever waiter list they are on, the others keep *)
(* their order.                                                             *)
Unlink(S) ==
    /\ waiters' = [e \in Events |-> waiters[e] \ S]
    /\ ahead' = [t \in Threads |-> IF t \in S THEN {} ELSE ahead[t] \ S]
    /\ wait_event' = [t \in Threads |-> IF t \in S THEN NoEvent ELSE wait_event[t]]

(* waiter_enqueue at the front of the list: a stack instead of a queue.     *)
WaiterPush(t, e) ==
    /\ waiters' = [waiters EXCEPT ![e] = @ \cup {t}]
    /\ ahead' = [u \in Threads |-> IF u \in waiters[e] THEN ahead[u] \cup {t} ELSE ahead[u]]
    /\ wait_event' = [wait_event EXCEPT ![t] = e]

(* waiter_enqueue: at the end of e's list.                                  *)
WaiterEnqueue(t, e) ==
    /\ waiters' = [waiters EXCEPT ![e] = @ \cup {t}]
    /\ ahead' = [ahead EXCEPT ![t] = waiters[e]]
    /\ wait_event' = [wait_event EXCEPT ![t] = e]

(* wake_one_locked / wake_all_locked take exactly the threads of S.         *)
WakeOne(w, e) == w \in waiters[e] /\ ahead[w] = {} /\ Unlink({w}) /\ ProcessWake({w})
WakeAll(e) == Unlink(waiters[e]) /\ ProcessWake(waiters[e])
-----------------------------------------------------------------------------
(* kevent_create: the lowest free slot.                                     *)
Create(t, e) ==
    /\ CanCall(t)
    /\ ~used[e]
    /\ \A f \in Events : f < e => used[f]
    /\ used' = [used EXCEPT ![e] = TRUE]
    /\ signaled' = [signaled EXCEPT ![e] = FALSE]
    /\ owner' = [owner EXCEPT ![e] = Leader[t]]
    /\ waiters' = [waiters EXCEPT ![e] = {}]
    /\ UNCHANGED <<ahead, state, wake_tick, wait_event, pc, id, wake_at, ret, ticks>>

(* kevent_destroy without its wake_all_locked.                              *)
DestroyNoWake(t, e) ==
    /\ CanCall(t)
    /\ used[e]
    /\ owner[e] = Leader[t]
    /\ used' = [used EXCEPT ![e] = FALSE]
    /\ signaled' = [signaled EXCEPT ![e] = FALSE]
    /\ owner' = [owner EXCEPT ![e] = NoThread]
    /\ waiters' = [waiters EXCEPT ![e] = {}]
    /\ UNCHANGED <<ahead, state, wake_tick, wait_event, pc, id, wake_at, ret, ticks>>

(* kevent_destroy: only the owning process, and every waiter is let go.     *)
Destroy(t, e) ==
    /\ CanCall(t)
    /\ used[e]
    /\ owner[e] = Leader[t]
    /\ WakeAll(e)
    /\ used' = [used EXCEPT ![e] = FALSE]
    /\ signaled' = [signaled EXCEPT ![e] = FALSE]
    /\ owner' = [owner EXCEPT ![e] = NoThread]
    /\ UNCHANGED <<pc, id, wake_at, ret, ticks>>

(* kevent_wait that returns at once: no such event, a sticky signal to      *)
(* consume, or nothing there and a zero timeout.                            *)
WaitAtOnce(t, e, timeout) ==
    /\ CanCall(t)
    /\ \/ /\ ~used[e]
          /\ ret' = [ret EXCEPT ![t] = "EBADF"]
          /\ UNCHANGED signaled
       \/ /\ used[e] /\ signaled[e]
          /\ signaled' = [signaled EXCEPT ![e] = FALSE]
          /\ ret' = [ret EXCEPT ![t] = "OK"]
       \/ /\ used[e] /\ ~signaled[e] /\ timeout = 0
          /\ ret' = [ret EXCEPT ![t] = "EAGAIN"]
          /\ UNCHANGED signaled
    /\ UNCHANGED <<used, owner, waiters, ahead, state, wake_tick, wait_event, pc,
                   id, wake_at, ticks>>

(* The tick a wait ends at.                                                 *)
WakeAt(timeout) == IF timeout < 0 THEN FOREVER
                   ELSE IF timeout > TIMEOUT_CLAMP THEN ticks + TIMEOUT_CLAMP
                   ELSE ticks + timeout

(* kevent_wait up to its call of schedule().  Bound: a finite wait ends by  *)
(* MaxTick.                                                                 *)
WaitBlock(t, e, timeout) ==
    /\ CanCall(t)
    /\ used[e] /\ ~signaled[e] /\ timeout # 0
    /\ WakeAt(timeout) <= MaxTick
    /\ WaiterEnqueue(t, e)
    /\ state' = [state EXCEPT ![t] = "blocked"]
    /\ wake_tick' = [wake_tick EXCEPT ![t] = WakeAt(timeout)]
    /\ wake_at' = [wake_at EXCEPT ![t] = WakeAt(timeout)]
    /\ pc' = [pc EXCEPT ![t] = "waiting"]
    /\ id' = [id EXCEPT ![t] = e]
    /\ ret' = [ret EXCEPT ![t] = "none"]
    /\ UNCHANGED <<used, signaled, owner, ticks>>

(* kevent_wait after schedule() has returned.  The code also consumes a     *)
(* sticky signal it finds while still queued.  Its locals end with it.      *)
Resume(t) ==
    LET queued == wait_event[t] = id[t]
        sticky == queued /\ used[id[t]] /\ signaled[id[t]]
    IN  /\ pc[t] = "waiting"
        /\ Runnable(t)
        /\ \/ queued /\ used[id[t]] /\ Unlink({t})
           \/ /\ ~(queued /\ used[id[t]])
              /\ wait_event' = [wait_event EXCEPT ![t] = NoEvent]
              /\ UNCHANGED <<waiters, ahead>>
        /\ signaled' = IF sticky THEN [signaled EXCEPT ![id[t]] = FALSE] ELSE signaled
        /\ ret' = [ret EXCEPT ![t] = IF ~queued \/ sticky THEN "OK" ELSE "ETIMEDOUT"]
        /\ state' = [state EXCEPT ![t] = "ready"]
        /\ pc' = [pc EXCEPT ![t] = "user"]
        /\ id' = [id EXCEPT ![t] = 0]
        /\ wake_at' = [wake_at EXCEPT ![t] = 0]
        /\ UNCHANGED <<used, owner, wake_tick, ticks>>

(* kevent_signal that skips a waiter the timer has already woken: it wakes  *)
(* nobody, and the signal is left sticky.                                   *)
SignalBlockedOnly(t, e) ==
    /\ CanCall(t)
    /\ used[e]
    /\ \/ /\ \E w \in waiters[e] : state[w] = "blocked" /\ WakeOne(w, e)
          /\ UNCHANGED signaled
       \/ /\ \A w \in waiters[e] : state[w] # "blocked"
          /\ signaled' = [signaled EXCEPT ![e] = TRUE]
          /\ UNCHANGED <<waiters, ahead, wait_event, state, wake_tick>>
    /\ UNCHANGED <<used, owner, pc, id, wake_at, ret, ticks>>

(* kevent_signal: hand over to the first waiter, or leave a sticky signal.  *)
Signal(t, e) ==
    /\ CanCall(t)
    /\ used[e]
    /\ \/ /\ \E w \in waiters[e] : WakeOne(w, e)
          /\ UNCHANGED signaled
       \/ /\ waiters[e] = {}
          /\ signaled' = [signaled EXCEPT ![e] = TRUE]
          /\ UNCHANGED <<waiters, ahead, wait_event, state, wake_tick>>
    /\ UNCHANGED <<used, owner, pc, id, wake_at, ret, ticks>>

(* kevent_broadcast that leaves a sticky signal besides waking the waiters. *)
BroadcastAlsoSticks(t, e) ==
    /\ CanCall(t)
    /\ used[e]
    /\ WakeAll(e)
    /\ signaled' = [signaled EXCEPT ![e] = TRUE]
    /\ UNCHANGED <<used, owner, pc, id, wake_at, ret, ticks>>
(* kevent_broadcast: all of them, or a sticky signal.                       *)
Broadcast(t, e) ==
    /\ CanCall(t)
    /\ used[e]
    /\ WakeAll(e)
    /\ signaled' = IF waiters[e] = {} THEN [signaled EXCEPT ![e] = TRUE] ELSE signaled
    /\ UNCHANGED <<used, owner, pc, id, wake_at, ret, ticks>>

-----------------------------------------------------------------------------
(* scheduler_wake_sleepers without its test for event-only waits (~0).      *)
SleepersAndForever(now) == {t \in Threads : state[t] = "blocked" /\ wake_tick[t] <= now}

(* The threads scheduler_wake_sleepers(now) wakes.                          *)
Sleepers(now) == {t \in Threads : /\ state[t] = "blocked"
                                  /\ wake_tick[t] # FOREVER
                                  /\ wake_tick[t] <= now}

(* The timer interrupt without its call of scheduler_wake_sleepers.         *)
TickWithoutWake == /\ ticks < MaxTick
                   /\ ticks' = ticks + 1
                   /\ UNCHANGED <<used, signaled, owner, waiters, ahead, state, wake_tick,
                                  wait_event, pc, id, wake_at, ret>>

(* irq_dispatch on the timer line: count the tick, wake the sleepers.       *)
Tick == /\ ticks < MaxTick
        /\ ticks' = ticks + 1
        /\ ProcessWake(Sleepers(ticks + 1))
        /\ UNCHANGED <<used, signaled, owner, waiters, ahead, wait_event, pc, id,
                       wake_at, ret>>

(* sync_cleanup_process that stops at the first event it frees.             *)
OwnedFirst(l) == {e \in Events : /\ used[e] /\ owner[e] = l
                                 /\ \A f \in Events : used[f] /\ owner[f] = l => e <= f}

(* The events sync_cleanup_process frees for a leader.                      *)
OwnedBy(l) == {e \in Events : used[e] /\ owner[e] = l}

(* sync_cleanup_process comparing only the leader's own pid.                *)
GroupLeaderOnly(l) == {l}

(* The threads of process l: what sync_cleanup_process takes off the lists. *)
Group(l) == {t \in Threads : Leader[t] = l}

(* process_exit and process_kill of process l as far as events see it: every *)
(* thread becomes a zombie, then sync_cleanup_process unlinks them, wakes    *)
(* the foreign waiters of l's events and frees those events.                 *)
Exit(l) ==
    LET freed == OwnedBy(l)
        let == (UNION {waiters[e] : e \in freed}) \ Group(l)
    IN  /\ Leader[l] = l
        /\ state[l] # "zombie"
        /\ Unlink(Group(l) \cup let)
        /\ state' = [t \in Threads |->
                        IF Leader[t] = l THEN "zombie"
                        ELSE IF t \in let /\ state[t] = "blocked" THEN "ready"
                        ELSE state[t]]
        /\ wake_tick' = [t \in Threads |->
                            IF t \in let /\ state[t] = "blocked" THEN 0 ELSE wake_tick[t]]
        /\ used' = [e \in Events |-> used[e] /\ e \notin freed]
        /\ signaled' = [e \in Events |-> signaled[e] /\ e \notin freed]
        /\ owner' = [e \in Events |-> IF e \in freed THEN NoThread ELSE owner[e]]
        /\ UNCHANGED <<pc, id, wake_at, ret, ticks>>

Call(t) == \E e \in Events :
              \/ Create(t, e)
              \/ Destroy(t, e)
              \/ Signal(t, e)
              \/ Broadcast(t, e)
              \/ \E timeout \in Timeouts : WaitAtOnce(t, e, timeout) \/ WaitBlock(t, e, timeout)

Next == \/ \E t \in Threads : Call(t) \/ Resume(t)
        \/ Tick
        \/ \E l \in Threads : Exit(l)

Spec == Init /\ [][Next]_vars

(* The interrupt controller keeps delivering the timer.                     *)
TimerSpec == Spec /\ WF_vars(Tick)
-----------------------------------------------------------------------------
TypeOK ==
    /\ used \in [Events -> BOOLEAN]
    /\ signaled \in [Events -> BOOLEAN]
    /\ owner \in [Events -> Threads \cup {NoThread}]
    /\ waiters \in [Events -> SUBSET Threads]
    /\ ahead \in [Threads -> SUBSET Threads]
    /\ state \in [Threads -> {"ready", "blocked", "zombie"}]
    /\ wake_tick \in [Threads -> 0 .. MaxTick \cup {FOREVER}]
    /\ wait_event \in [Threads -> Events \cup {NoEvent}]
    /\ pc \in [Threads -> {"user", "waiting"}]
    /\ id \in [Threads -> Events]
    /\ wake_at \in [Threads -> 0 .. MaxTick \cup {FOREVER}]
    /\ ret \in [Threads -> {"none", "OK", "EBADF", "EAGAIN", "ETIMEDOUT"}]
    /\ ticks \in 0 .. MaxTick

(* A waiter list holds the threads whose wait_event names it and no others,  *)
(* all of them inside kevent_wait on that event and none of them dead: the   *)
(* list never points at a process slot that has moved on.                    *)
Linked ==
    \A t \in Threads, e \in Events :
        /\ t \in waiters[e] <=> wait_event[t] = e
        /\ t \in waiters[e] => /\ used[e]
                               /\ pc[t] = "waiting" /\ id[t] = e
                               /\ state[t] # "zombie"

(* Each list is one chain: of two waiters exactly one is ahead of the other, *)
(* and nobody off the list is ahead of anybody on it.                        *)
Chained ==
    /\ \A t \in Threads : /\ t \notin ahead[t]
                          /\ \A u \in ahead[t] : /\ wait_event[t] # NoEvent
                                                 /\ wait_event[u] = wait_event[t]
                                                 /\ ahead[u] \subseteq ahead[t]
    /\ \A e \in Events : \A t, u \in waiters[e] :
           t = u \/ t \in ahead[u] \/ u \in ahead[t]

(* sync.c's lists survive every order of signals, timeouts, destroys and     *)
(* exits: no dangling waiter, no thread on two lists, no cycle.              *)
QueueWellFormed == Linked /\ Chained

(* A signal is never left sticky while somebody waits, and a freed slot keeps *)
(* none for its next user: the lost wakeup kevent_signal must exclude.        *)
NoLostSignal == \A e \in Events : signaled[e] => used[e] /\ waiters[e] = {}

(* Whoever sleeps in kevent_wait can still be reached by a signal: it is on   *)
(* the list of a live event.  (process_block without a list entry and with    *)
(* wake_tick == ~0 would sleep for good.)                                     *)
NoOrphanedSleeper ==
    \A t \in Threads : state[t] = "blocked" => \E e \in Events : used[e] /\ t \in waiters[e]

(* Nothing of a process that has ended stays behind: its threads are on no    *)
(* list and no event slot is charged to it.                                   *)
ExitLeavesNothing ==
    /\ \A t \in Threads : state[t] = "zombie" => wait_event[t] = NoEvent
    /\ \A e \in Events : used[e] => owner[e] \in Threads /\ state[owner[e]] # "zombie"

(* kevent_wait reports a timeout only after the whole wait it was asked for,  *)
(* and never for a wait without one.                                          *)
NoEarlyTimeout ==
    [][\A t \in Threads :
          pc[t] = "waiting" /\ pc'[t] = "user" /\ ret'[t] = "ETIMEDOUT"
             => wake_at[t] # FOREVER /\ wake_at[t] <= ticks]_vars

(* A waiter of an event that keeps being signalled is served: the waiters are *)
(* a queue, and threads that come back for more do not overtake it.           *)
FIFOService ==
    \A e \in Events :
        []<><<\E t \in Threads : Signal(t, e)>>_vars
            => \A t \in Threads : wait_event[t] = e ~> wait_event[t] # e

(* Under the timer alone a finite wait ends: the thread is woken even if      *)
(* nobody ever signals the event.                                             *)
TimedWaitEnds ==
    \A t \in Threads :
        pc[t] = "waiting" /\ wake_at[t] # FOREVER ~> state[t] # "blocked"

(* The refinement: a grant is a thread that has been taken off its list and   *)
(* has not yet returned from kevent_wait.                                     *)
Granted == {t \in Threads : /\ pc[t] = "waiting" /\ wait_event[t] = NoEvent
                            /\ state[t] # "zombie"}

Event == INSTANCE AutoResetEvent
            WITH token <- {e \in Events : signaled[e]},
                 waiting <- wait_event, granted <- Granted, result <- ret

(* sync.c keeps the promise of an auto-reset event: one success per signal.   *)
ImplementsEvent == Event!Spec
=============================================================================
