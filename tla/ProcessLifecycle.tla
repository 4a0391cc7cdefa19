-------------------------- MODULE ProcessLifecycle --------------------------
(***************************************************************************)
(* src/kernel/process.c: how process_t structs, each with its kernel stack, *)
(* are allocated, shared by the threads of a process, joined, detached,     *)
(* waited for, killed, put in the graveyard and used again.                 *)
(*                                                                         *)
(* User threads are pinned to CPU 0 and have interrupts off inside a system  *)
(* call, so a call is one action.  The other CPU only runs schedule(), which *)
(* empties the graveyard, and in console mode the kernel shell, which spawns *)
(* programs and kills what overlaps their load address.  g_procs, the        *)
(* freelist and the graveyard have no lock; here each use of one is atomic.  *)
(***************************************************************************)
EXTENDS Integers, FiniteSets

CONSTANTS Structs,         \* the process_t structs the heap has room for
          NULL,
          PROC_MAX,        \* slots of g_procs
          PROC_THREADS_MAX,
          MaxPid,          \* bound: pids handed out
          Smp,             \* there is a second CPU
          Console          \* no GUI: the kernel shell runs, on that CPU

ASSUME ProcessAssumption ==
    /\ NULL \notin Structs /\ IsFiniteSet(Structs) /\ Structs # {}
    /\ PROC_MAX \in Nat \ {0} /\ PROC_THREADS_MAX \in Nat \ {0} /\ MaxPid \in Nat \ {0}
    /\ Smp \in BOOLEAN /\ Console \in BOOLEAN /\ (Console => Smp)

VARIABLES proc,            \* the structs
          table,           \* the structs g_procs points to
          freelist,        \* g_proc_freelist, in any order
          graveyard,       \* g_exit_graveyard, in any order
          cur,             \* the struct whose stack CPU 0 is on, NULL for idle's
          mode,            \* CPU 0: "user"; "sched" and "pick" in schedule(),
                           \* "join" back from it in process_thread_join
          next_pid,
          home             \* home[p]: the pid p was allocated for (not in the code)

lifecycleVars == <<proc, table, freelist, graveyard, cur, mode, next_pid, home>>
lists == <<table, freelist, graveyard>>

Cleared == [state |-> "UNUSED", tid |-> 0, group |-> NULL, ppid |-> 0,
            detached |-> FALSE, join_tid |-> 0, kill_pending |-> FALSE]
Fresh(group, tid, ppid) ==
    [Cleared EXCEPT !.state = "READY", !.tid = tid, !.group = group, !.ppid = ppid]

KshellPid == MaxPid + 1
InitStruct == CHOOSE p \in Structs : TRUE

(* At boot there is /init, spawned by no process, or only the kernel shell.  *)
LifecycleInit ==
    /\ proc = [p \in Structs |-> IF ~Console /\ p = InitStruct THEN Fresh(NULL, 1, 0) ELSE Cleared]
    /\ table = IF Console THEN {} ELSE {InitStruct}
    /\ freelist = {} /\ graveyard = {}
    /\ cur = NULL /\ mode = "sched"
    /\ next_pid = IF Console THEN 1 ELSE 2
    /\ home = [p \in Structs |-> IF ~Console /\ p = InitStruct THEN 1 ELSE 0]
-----------------------------------------------------------------------------
State(p) == proc[p].state
Alive(p) == State(p) \notin {"UNUSED", "ZOMBIE"}

(* process_leader                                                           *)
Leader(p) == IF proc[p].group = NULL THEN p ELSE proc[p].group

(* The threads of l other than l itself that g_procs shows.                 *)
Members(l) == {t \in table : State(t) # "UNUSED" /\ proc[t].group = l}

(* process_get                                                              *)
IsProcess(p) == p \in table /\ State(p) # "UNUSED" /\ proc[p].group = NULL

(* thread_get, and the test of join and detach that the thread is the        *)
(* caller's.                                                                *)
IsSibling(t, tid) == /\ t \in table /\ State(t) # "UNUSED" /\ proc[t].tid = tid
                     /\ Leader(t) = Leader(cur)

(* process_clear_slot for every struct of S                                  *)
ClearSlots(P, S) == [p \in Structs |-> IF p \in S THEN Cleared ELSE P[p]]

(* process_wake_joiners(tid)                                                *)
WakeJoiners(P, tid) ==
    [p \in Structs |-> IF p \in table /\ P[p].state = "BLOCKED" /\ P[p].join_tid = tid
                       THEN [P[p] EXCEPT !.state = "READY"] ELSE P[p]]
-----------------------------------------------------------------------------
(* process_find_slot                                                        *)
HasSlot(T) == Cardinality(T) < PROC_MAX

(* alloc_process: zombies are taken back only when the table is full; then    *)
(* the freelist, or else the heap, gives the struct.  rec is what the caller *)
(* makes of it, for the process pid.                                         *)
AllocFrom(zombies, rec, pid) ==
    LET free == freelist \cup zombies
        unused == Structs \ (table \cup freelist \cup graveyard)
    IN  /\ next_pid <= MaxPid
        /\ next_pid' = next_pid + 1
        /\ HasSlot(table \ zombies)
        /\ \E p \in (IF free # {} THEN free ELSE unused) :
              /\ proc' = [ClearSlots(proc, zombies) EXCEPT ![p] = rec]
              /\ table' = (table \ zombies) \cup {p}
              /\ freelist' = free \ {p}
              /\ home' = [home EXCEPT ![p] = pid]
        /\ UNCHANGED graveyard

Zombies == {p \in table : State(p) = "ZOMBIE"}

Alloc(rec, pid) == AllocFrom(IF HasSlot(table) THEN {} ELSE Zombies, rec, pid)
-----------------------------------------------------------------------------
(* process_kill_thread_slot for every thread of S, called on CPU 0 or not:   *)
(* one that runs on CPU 0 while the caller does not is asked to end, the     *)
(* others end at once.  A thread joining one of S is one of S itself.        *)
AskedToEnd(S, onCpu0) == {t \in S : State(t) = "RUNNING" /\ ~onCpu0}
EndedOf(S, onCpu0) == {t \in S : Alive(t)} \ AskedToEnd(S, onCpu0)
EndedDetached(S, onCpu0) == {t \in EndedOf(S, onCpu0) : proc[t].detached}

(* KillThreads without the kill of the siblings that are blocked.            *)
KillReady(S, onCpu0) ==
    [t \in Structs |-> IF t \in EndedOf(S, onCpu0) /\ State(t) # "BLOCKED"
                       THEN [proc[t] EXCEPT !.state = "ZOMBIE"] ELSE proc[t]]

KillThreads(S, onCpu0) ==
    [t \in Structs |->
        CASE t \in AskedToEnd(S, onCpu0) -> [proc[t] EXCEPT !.kill_pending = TRUE]
          [] t \in EndedDetached(S, onCpu0) -> Cleared
          [] t \in EndedOf(S, onCpu0) \ EndedDetached(S, onCpu0) ->
                [proc[t] EXCEPT !.state = "ZOMBIE", !.kill_pending = FALSE]
          [] OTHER -> proc[t]]

(* The leader l ends, its threads in S already dead in P: detached from the  *)
(* table if no process spawned it, a zombie for its parent otherwise.        *)
(* enders is empty for process_kill and {cur, l} for process_exit, which      *)
(* buries a worker that calls it and drops their pending kills.              *)
EndProcess(P, l, enders, S, onCpu0) ==
    LET gone == (enders \ {l}) \cup IF P[l].ppid = 0 THEN {l} ELSE {}
        cleared == EndedDetached(S, onCpu0)
    IN  /\ proc' = [p \in Structs |->
                       [P[p] EXCEPT !.state = CASE p \in gone -> "UNUSED"
                                                [] p = l /\ l \notin gone -> "ZOMBIE"
                                                [] OTHER -> @,
                                    !.kill_pending = @ /\ p \notin enders]]
        /\ table' = table \ (gone \cup cleared)
        /\ freelist' = freelist \cup cleared
        /\ graveyard' = graveyard \cup gone

(* process_exit                                                             *)
ExitNow ==
    LET l == Leader(cur)
        S == (Members(l) \cup {l}) \ {cur}
    IN  /\ EndProcess(KillThreads(S, TRUE), l, {cur, l}, S, TRUE)
        /\ mode' = "sched"
        /\ UNCHANGED <<cur, next_pid, home>>

(* Two wrong forms of the next definition: no process_wake_joiners, and a     *)
(* detached thread left in the table.                                       *)
EndThreadSilently ==
    /\ proc' = [proc EXCEPT ![cur].state = "ZOMBIE"]
    /\ mode' = "sched"
    /\ UNCHANGED <<lists, cur, next_pid, home>>

EndThreadListed ==
    /\ proc' = WakeJoiners([proc EXCEPT ![cur].state = "UNUSED"], proc[cur].tid)
    /\ graveyard' = graveyard \cup {cur}
    /\ mode' = "sched"
    /\ UNCHANGED <<table, freelist, cur, next_pid, home>>

(* process_thread_exit of a thread that is not the main one                  *)
EndThread ==
    LET P == [WakeJoiners(proc, proc[cur].tid) EXCEPT
                 ![cur] = [@ EXCEPT !.state = IF proc[cur].detached THEN "UNUSED" ELSE "ZOMBIE",
                                    !.kill_pending = FALSE]]
    IN  /\ proc' = P
        /\ table' = IF proc[cur].detached THEN table \ {cur} ELSE table
        /\ graveyard' = IF proc[cur].detached THEN graveyard \cup {cur} ELSE graveyard
        /\ mode' = "sched"
        /\ UNCHANGED <<freelist, cur, next_pid, home>>

ThreadExitNow == IF proc[cur].group = NULL THEN ExitNow ELSE EndThread
-----------------------------------------------------------------------------
(* System calls of the thread running on CPU 0.                              *)
InUser == mode = "user" /\ cur # NULL

ExitCall == InUser /\ ExitNow
ThreadExit == InUser /\ ThreadExitNow

(* exec_spawn -> process_create_user                                        *)
SpawnChild ==
    /\ InUser
    /\ Alloc(Fresh(NULL, next_pid, proc[Leader(cur)].tid), next_pid)
    /\ UNCHANGED <<cur, mode>>

ThreadCount(l) == Cardinality(Members(l) \cup ({l} \cap table))

ThreadCreate ==
    /\ InUser
    /\ ThreadCount(Leader(cur)) < PROC_THREADS_MAX
    /\ Alloc(Fresh(Leader(cur), next_pid, proc[Leader(cur)].ppid), proc[Leader(cur)].tid)
    /\ UNCHANGED <<cur, mode>>

(* One round of process_thread_join's loop; the thread that waits goes on in *)
(* JoinResume.                                                              *)
JoinRound(tid) ==
    \E t \in Structs :
        /\ IsSibling(t, tid)
        /\ t # cur /\ ~proc[t].detached
        /\ \/ /\ State(t) = "ZOMBIE"
              /\ proc' = [ClearSlots(proc, {t}) EXCEPT ![cur].join_tid = 0]
              /\ table' = table \ {t}
              /\ freelist' = freelist \cup {t}
              /\ mode' = "user"
           \/ /\ State(t) # "ZOMBIE"
              /\ proc' = [proc EXCEPT ![cur].join_tid = tid, ![cur].state = "BLOCKED"]
              /\ mode' = "sched"
              /\ UNCHANGED <<table, freelist>>

Join(tid) == /\ InUser /\ JoinRound(tid)
             /\ UNCHANGED <<graveyard, cur, next_pid, home>>

(* Back from schedule(): thread_get once more, without the tests that came   *)
(* before the loop.                                                         *)
JoinResume ==
    LET tid == proc[cur].join_tid
        found == {t \in table : State(t) # "UNUSED" /\ proc[t].tid = tid}
        zombies == {t \in found : State(t) = "ZOMBIE"}
        waits == ~proc[cur].kill_pending /\ found # {} /\ zombies = {}
        reaped == IF proc[cur].kill_pending THEN {} ELSE zombies
    IN  /\ mode = "join"
        /\ proc' = [ClearSlots(proc, reaped) EXCEPT
                       ![cur] = [@ EXCEPT !.join_tid = IF waits THEN tid ELSE 0,
                                          !.state = IF waits THEN "BLOCKED" ELSE State(cur)]]
        /\ table' = table \ reaped
        /\ freelist' = freelist \cup reaped
        /\ mode' = IF waits THEN "sched" ELSE "user"
        /\ UNCHANGED <<graveyard, cur, next_pid, home>>

(* process_thread_detach of a thread that is not the main one: programs       *)
(* detach what they made.                                                   *)
Detach(tid) ==
    /\ InUser
    /\ \E t \in Structs :
          /\ IsSibling(t, tid)
          /\ proc[t].group # NULL
          /\ \/ /\ State(t) = "ZOMBIE"
                /\ proc' = ClearSlots(proc, {t})
                /\ table' = table \ {t}
                /\ freelist' = freelist \cup {t}
             \/ /\ State(t) # "ZOMBIE"
                /\ proc' = [proc EXCEPT ![t].detached = TRUE]
                /\ UNCHANGED <<table, freelist>>
    /\ UNCHANGED <<graveyard, cur, mode, next_pid, home>>

(* process_waitpid takes a zombie child, which one is left open.             *)
Waitpid ==
    /\ InUser
    /\ \E p \in table :
          /\ State(p) = "ZOMBIE" /\ proc[p].group = NULL
          /\ proc[p].ppid = proc[Leader(cur)].tid
          /\ proc' = ClearSlots(proc, {p})
          /\ table' = table \ {p}
          /\ freelist' = freelist \cup {p}
    /\ UNCHANGED <<graveyard, cur, mode, next_pid, home>>

(* process_kill(p) by a thread of another process                            *)
KillProcess(p, onCpu0) ==
    LET S == Members(p)
        P == KillThreads(S, onCpu0)
    IN  /\ IsProcess(p) /\ State(p) # "ZOMBIE"
        /\ \/ /\ State(p) = "RUNNING" /\ ~onCpu0
              /\ proc' = [P EXCEPT ![p].kill_pending = TRUE]
              /\ table' = table \ EndedDetached(S, onCpu0)
              /\ freelist' = freelist \cup EndedDetached(S, onCpu0)
              /\ UNCHANGED graveyard
           \/ /\ ~(State(p) = "RUNNING" /\ ~onCpu0)
              /\ EndProcess(P, p, {}, S, onCpu0)
        /\ UNCHANGED <<cur, mode, next_pid, home>>

Kill(p) == InUser /\ p # Leader(cur) /\ KillProcess(p, TRUE)

(* A wait for anything but a thread, and its end.                            *)
Block == /\ InUser
         /\ proc' = [proc EXCEPT ![cur].state = "BLOCKED"]
         /\ mode' = "sched"
         /\ UNCHANGED <<lists, cur, next_pid, home>>

Wake(t) == /\ t \in table /\ State(t) = "BLOCKED" /\ proc[t].join_tid = 0
           /\ proc' = [proc EXCEPT ![t].state = "READY"]
           /\ UNCHANGED <<lists, cur, mode, next_pid, home>>

(* A timer or reschedule interrupt, or a yield                               *)
Interrupt == InUser /\ mode' = "sched" /\ UNCHANGED <<proc, lists, cur, next_pid, home>>
-----------------------------------------------------------------------------
(* process_reap_graveyard, current being p                                   *)
ReapGraveyard(p) == /\ freelist' = freelist \cup (graveyard \ {p})
                    /\ graveyard' = graveyard \cap {p}

(* schedule() on CPU 0, in three steps: the graveyard, a pending kill, and    *)
(* the choice of a thread.                                                  *)
Reap == /\ mode = "sched"
        /\ ReapGraveyard(cur)
        /\ mode' = "pick"
        /\ UNCHANGED <<proc, table, cur, next_pid, home>>

KillPendingLeader == cur # NULL /\ proc[cur].kill_pending /\ proc[cur].group = NULL

KillPending == cur # NULL /\ proc[cur].kill_pending

EndKilled == mode = "pick" /\ KillPending /\ ThreadExitNow

ReturnTo(t) == IF proc[t].join_tid # 0 THEN "join" ELSE "user"

(* The current thread is kept while it can run; with nothing to run the CPU  *)
(* halts on the stack it is on, or on idle's.                                *)
Pick ==
    LET ready == {t \in table : State(t) \in {"READY", "RUNNING"}}
    IN  /\ mode = "pick" /\ ~KillPending
        /\ \/ /\ ready # {}
              /\ \E t \in (IF cur \in ready THEN {cur} ELSE ready) :
                    /\ proc' = [proc EXCEPT ![t].state = "RUNNING"]
                    /\ cur' = t
                    /\ mode' = ReturnTo(t)
           \/ /\ ready = {}
              /\ cur' \in {cur, NULL}
              /\ mode' = "sched"
              /\ UNCHANGED proc
        /\ UNCHANGED <<lists, next_pid, home>>
-----------------------------------------------------------------------------
(* The other CPU: its schedule(), and the kernel shell.                      *)
OtherReap == Smp /\ ReapGraveyard(NULL) /\ UNCHANGED <<proc, table, cur, mode, next_pid, home>>

ShellRun == /\ Console
            /\ Alloc(Fresh(NULL, next_pid, KshellPid), next_pid)
            /\ UNCHANGED <<cur, mode>>

ShellKill(p) == Console /\ KillProcess(p, FALSE)

LifecycleNext ==
    \/ ExitCall \/ ThreadExit \/ SpawnChild \/ ThreadCreate \/ Waitpid \/ Block \/ Interrupt
    \/ \E tid \in 1 .. MaxPid : Join(tid) \/ Detach(tid)
    \/ \E p \in Structs : Kill(p) \/ Wake(p) \/ ShellKill(p)
    \/ JoinResume \/ Reap \/ EndKilled \/ Pick
    \/ OtherReap \/ ShellRun

LifecycleSpec == LifecycleInit /\ [][LifecycleNext]_lifecycleVars

(* Interrupts keep coming (the timer, and the IPI process_kill sends), and   *)
(* the kernel's own steps are taken.                                        *)
FairLifecycleSpec ==
    LifecycleSpec /\ WF_lifecycleVars(Interrupt) /\ WF_lifecycleVars(Reap \/ EndKilled \/ Pick \/ JoinResume)
-----------------------------------------------------------------------------
LifecycleTypeOK ==
    /\ proc \in [Structs -> [state : {"UNUSED", "READY", "RUNNING", "BLOCKED", "ZOMBIE"},
                             tid : 0 .. MaxPid, group : Structs \cup {NULL},
                             ppid : 0 .. KshellPid, detached : BOOLEAN,
                             join_tid : 0 .. MaxPid, kill_pending : BOOLEAN]]
    /\ table \subseteq Structs /\ freelist \subseteq Structs /\ graveyard \subseteq Structs
    /\ cur \in Structs \cup {NULL}
    /\ mode \in {"user", "sched", "pick", "join"}
    /\ next_pid \in 1 .. MaxPid + 1
    /\ home \in [Structs -> 0 .. MaxPid]
    /\ Cardinality(table) <= PROC_MAX

(* A struct is in the table, on the freelist or in the graveyard, never in    *)
(* two of them: alloc_process never hands out one that is still a thread, and *)
(* nothing is freed twice.                                                  *)
OneOwner ==
    /\ table \cap freelist = {} /\ table \cap graveyard = {} /\ freelist \cap graveyard = {}
    /\ \A p \in Structs : State(p) # "UNUSED" <=> p \in table

(* When a process ends, none of its threads lives on: a live thread that has  *)
(* no kill pending has a live leader, the one it was made for.               *)
NoSurvivor == \A t \in table : Alive(t) /\ ~proc[t].kill_pending =>
    LET l == Leader(t) IN l \in table /\ Alive(l) /\ proc[l].tid = home[t]

(* A thread asleep in process_thread_join has a live thread to wait for: an   *)
(* exit, a kill, a detach or the reuse of a struct never leaves it behind.   *)
NoStuckJoiner == \A t \in table : State(t) = "BLOCKED" /\ proc[t].join_tid # 0 =>
    \E u \in table : Alive(u) /\ proc[u].tid = proc[t].join_tid

(* The struct whose kernel stack CPU 0 is on is neither cleared nor given to  *)
(* another thread ("so we do not memset a struct whose stack may still be    *)
(* frozen mid-run", process_kill).                                          *)
StackKept == [][cur' = cur /\ cur # NULL => proc'[cur].tid = proc[cur].tid]_lifecycleVars

(* A kill asked of a thread that runs on another CPU is carried out.          *)
KillArrives == \A p \in Structs : proc[p].kill_pending ~> ~proc[p].kill_pending
=============================================================================
