---------------------------- MODULE ThreadProofs ----------------------------
(* Theorems about the threads of programs: how they end (ProcessLifecycle)   *)
(* and how they wait for each other (SdkSync), for any number of them.       *)
(*                                                                           *)
(* ProcessLifecycle where there is no kernel shell: every caller of the      *)
(* process code is then a system call on CPU 0, the other CPU only empties   *)
(* the graveyard, and no kill is ever left pending.  (With the shell,        *)
(* StackKept is false: a run shows it.)  The proof is about who leads whom:  *)
(* a live thread's leader is a live process that was never detached, and a   *)
(* thread joins only threads with its own leader, so that whatever ends the  *)
(* one it waits for ends or wakes it as well.                                *)
(*                                                                           *)
(* SdkSync, preemptive or not: what a thread at the gate is owed.            *)
EXTENDS ProcessLifecycle, SdkSync, FiniteSetTheorems, TLAPS

(* No kill waits for another CPU.                                            *)
NoneAsked == \A p \in Structs : proc[p].kill_pending = FALSE

(* The thread in user code, or back in process_thread_join, is RUNNING.      *)
CallerRuns == mode \in {"user", "join"} =>
    /\ cur \in table /\ State(cur) = "RUNNING"
    /\ mode = "user" => proc[cur].join_tid = 0

(* A live thread has a live leader, the one it was made for.                 *)
WellLed == \A t \in table : Alive(t) =>
    LET l == Leader(t)
    IN  l \in table /\ Alive(l) /\ proc[l].group = NULL /\ proc[l].tid = home[t]

(* Only threads are detached.                                                *)
LeadersAttached == \A t \in table : proc[t].group = NULL => proc[t].detached = FALSE

(* pids are given once.                                                      *)
TidsApart ==
    /\ \A t \in table : proc[t].tid \in 1 .. next_pid - 1
    /\ \A t, u \in table : proc[t].tid = proc[u].tid => t = u

(* What has the tid a live thread joins has that thread's leader.            *)
JoinsSibling == \A t \in table : Alive(t) /\ proc[t].join_tid # 0 =>
    /\ proc[t].join_tid < next_pid
    /\ \A u \in table : proc[u].tid = proc[t].join_tid => Leader(u) = Leader(t)

LifecycleInv == /\ LifecycleTypeOK /\ OneOwner /\ NoneAsked /\ CallerRuns /\ WellLed
        /\ LeadersAttached /\ TidsApart /\ JoinsSibling /\ NoStuckJoiner

(* The struct whose stack CPU 0 is on stays the same thread's.               *)
Kept == cur # NULL => proc'[cur].tid = proc[cur].tid
-----------------------------------------------------------------------------
(* What is in a struct.                                                      *)
LEMMA Shapes ==
    /\ Cleared.state = "UNUSED" /\ Cleared.tid = 0 /\ Cleared.group = NULL
    /\ Cleared.detached = FALSE /\ Cleared.join_tid = 0 /\ Cleared.kill_pending = FALSE
    /\ \A g, tid, ppid :
          /\ Fresh(g, tid, ppid).state = "READY" /\ Fresh(g, tid, ppid).tid = tid
          /\ Fresh(g, tid, ppid).group = g /\ Fresh(g, tid, ppid).detached = FALSE
          /\ Fresh(g, tid, ppid).join_tid = 0 /\ Fresh(g, tid, ppid).kill_pending = FALSE
BY DEF Cleared, Fresh

Records == [state : {"UNUSED", "READY", "RUNNING", "BLOCKED", "ZOMBIE"},
            tid : 0 .. MaxPid, group : Structs \cup {NULL},
            ppid : 0 .. KshellPid, detached : BOOLEAN,
            join_tid : 0 .. MaxPid, kill_pending : BOOLEAN]

LEMMA ShapesType ==
    /\ Cleared \in Records
    /\ \A g \in Structs \cup {NULL}, tid \in 0 .. MaxPid, ppid \in 0 .. KshellPid :
          Fresh(g, tid, ppid) \in Records
<1>1. Cleared \in Records
  BY ProcessAssumption DEF Cleared, Records, KshellPid
<1> QED BY <1>1, ProcessAssumption DEF Fresh, Cleared, Records

LEMMA RecordUpdate ==
    ASSUME NEW r \in Records, NEW kill \in BOOLEAN,
           NEW s \in {"UNUSED", "READY", "RUNNING", "BLOCKED", "ZOMBIE"}
    PROVE  /\ [r EXCEPT !.state = s, !.kill_pending = kill] \in Records
           /\ [r EXCEPT !.state = s] \in Records
           /\ \A t \in 0 .. MaxPid :
                 [r EXCEPT !.join_tid = t, !.state = s] \in Records
           /\ [r EXCEPT !.detached = TRUE] \in Records
BY DEF Records

LEMMA RecordSame ==
    ASSUME NEW r \in Records
    PROVE  /\ r.kill_pending = FALSE => [r EXCEPT !.state = r.state, !.kill_pending = FALSE] = r
           /\ [r EXCEPT !.join_tid = r.join_tid, !.state = r.state] = r
BY DEF Records

(* Taking structs out of the table, and putting one in where there is a slot.*)
LEMMA TableBound ==
    ASSUME NEW T, T \subseteq Structs, NEW D, D \subseteq T
    PROVE  /\ Cardinality(T) <= PROC_MAX => Cardinality(D) <= PROC_MAX
           /\ \A p \in Structs : HasSlot(D) => Cardinality(D \cup {p}) <= PROC_MAX
<1>1. IsFiniteSet(T) /\ IsFiniteSet(D) BY FS_Subset, ProcessAssumption
<1>2. Cardinality(D) <= Cardinality(T) /\ Cardinality(D) \in Nat /\ Cardinality(T) \in Nat
  BY <1>1, FS_Subset, FS_CardinalityType
<1>3. \A p \in Structs : Cardinality(D \cup {p}) <= Cardinality(D) + 1
  <2> TAKE p \in Structs
  <2>1. CASE p \in D
    <3>1. D \cup {p} = D BY <2>1
    <3> QED BY <1>2, <3>1
  <2>2. CASE p \notin D
    <3>1. Cardinality(D \cup {p}) = Cardinality(D) + 1 BY <1>1, <2>2, FS_AddElement
    <3> QED BY <1>2, <3>1
  <2> QED BY <2>1, <2>2
<1>4. \A p \in Structs : Cardinality(D \cup {p}) \in Nat
  BY <1>1, FS_AddElement, FS_CardinalityType
<1> QED BY <1>2, <1>3, <1>4, ProcessAssumption DEF HasSlot

LEMMA InitLifecycle == ~Console /\ LifecycleInit => LifecycleInv
<1> SUFFICES ASSUME ~Console, LifecycleInit PROVE LifecycleInv OBVIOUS
<1> DEFINE i == InitStruct
<1>1. i \in Structs BY ProcessAssumption DEF InitStruct
<1>2. Cardinality(table) <= PROC_MAX
  <2>1. table = {i} BY DEF LifecycleInit
  <2>2. Cardinality({i}) = 1 BY FS_Singleton
  <2>3. PROC_MAX \in Nat /\ 1 <= PROC_MAX BY ProcessAssumption
  <2> HIDE DEF i
  <2> QED BY <2>1, <2>2, <2>3
<1>3. proc \in [Structs -> Records]
  BY ShapesType, ProcessAssumption DEF LifecycleInit, KshellPid
<1>4. LifecycleTypeOK
  BY <1>1, <1>2, <1>3, ProcessAssumption DEF LifecycleTypeOK, LifecycleInit, Records
<1>5. /\ table = {i} /\ next_pid = 2 /\ home[i] = 1 /\ mode = "sched"
      /\ freelist = {} /\ graveyard = {}
      /\ proc[i].state = "READY" /\ proc[i].tid = 1 /\ proc[i].group = NULL
      /\ proc[i].detached = FALSE /\ proc[i].join_tid = 0
      /\ \A p \in Structs : /\ proc[p].kill_pending = FALSE
                            /\ p # i => proc[p].state = "UNUSED"
  <2> HIDE DEF i
  <2>1. proc[i] = Fresh(NULL, 1, 0) /\ \A p \in Structs : p # i => proc[p] = Cleared
    BY <1>1 DEF LifecycleInit, i
  <2> QED BY <1>1, <2>1, Shapes DEF LifecycleInit, i
<1> HIDE DEF i
<1>6. OneOwner BY <1>1, <1>5 DEF OneOwner, State
<1>9. NoneAsked BY <1>5 DEF NoneAsked
<1>7. WellLed /\ LeadersAttached /\ TidsApart
  BY <1>1, <1>5 DEF WellLed, Leader, Alive, State, LeadersAttached, TidsApart
<1>8. CallerRuns /\ JoinsSibling /\ NoStuckJoiner
  BY <1>5 DEF CallerRuns, JoinsSibling, NoStuckJoiner, State
<1> QED BY <1>4, <1>6, <1>7, <1>8, <1>9 DEF LifecycleInv
-----------------------------------------------------------------------------
(* The zombies of Z make room and p becomes a thread of g, or a process.     *)
LEMMA AllocIInv ==
    ASSUME LifecycleInv, InUser, NEW Z, Z \subseteq Zombies,
           NEW g \in Structs \cup {NULL}, NEW ppid \in 0 .. KshellPid, NEW pid \in 0 .. MaxPid,
           IF g = NULL THEN pid = next_pid
           ELSE g \in table /\ Alive(g) /\ proc[g].group = NULL /\ proc[g].tid = pid,
           AllocFrom(Z, Fresh(g, next_pid, ppid), pid), UNCHANGED <<cur, mode>>
    PROVE  LifecycleInv' /\ Kept
<1> DEFINE rec == Fresh(g, next_pid, ppid)
<1>1. PICK p \in (IF freelist \cup Z # {} THEN freelist \cup Z
                  ELSE Structs \ (table \cup freelist \cup graveyard)) :
          /\ proc' = [ClearSlots(proc, Z) EXCEPT ![p] = rec]
          /\ table' = (table \ Z) \cup {p}
          /\ freelist' = (freelist \cup Z) \ {p}
          /\ home' = [home EXCEPT ![p] = pid]
  BY DEF AllocFrom
<1>2. /\ next_pid \in 1 .. MaxPid /\ next_pid' = next_pid + 1 /\ HasSlot(table \ Z)
      /\ graveyard' = graveyard /\ cur' = cur /\ mode' = mode
  BY DEF AllocFrom, LifecycleInv, LifecycleTypeOK
<1>3. /\ Z \subseteq table /\ \A z \in Z : State(z) = "ZOMBIE"
      /\ table \subseteq Structs /\ NULL \notin Structs
  BY ProcessAssumption DEF Zombies, LifecycleInv, LifecycleTypeOK
<1>4. p \in Structs /\ p \notin table \ Z /\ p \notin graveyard
  BY <1>1, <1>3 DEF LifecycleInv, OneOwner, LifecycleTypeOK
<1>5. /\ rec.state = "READY" /\ rec.tid = next_pid /\ rec.group = g /\ rec.detached = FALSE
      /\ rec.join_tid = 0 /\ rec.kill_pending = FALSE
  BY Shapes
<1>18. rec \in Records BY <1>2, ShapesType, ProcessAssumption
<1> HIDE DEF rec
<1>6. /\ proc'[p] = rec /\ home'[p] = pid
      /\ \A q \in Structs : q # p => /\ proc'[q] = IF q \in Z THEN Cleared ELSE proc[q]
                                     /\ home'[q] = home[q]
  BY <1>1, <1>4 DEF ClearSlots, LifecycleInv, LifecycleTypeOK
<1>7. \A q \in table' : q = p \/ (q \in table /\ q \notin Z /\ proc'[q] = proc[q] /\ home'[q] = home[q])
  BY <1>1, <1>3, <1>6
<1>8. \A q \in table : Alive(q) => q \in table' /\ q # p /\ proc'[q] = proc[q]
  BY <1>1, <1>3, <1>4, <1>6 DEF Alive, State
<1>9. LifecycleTypeOK'
  <2>1. proc' \in [Structs -> Records]
    <3>1. proc \in [Structs -> Records] BY DEF LifecycleInv, LifecycleTypeOK, Records
    <3> QED BY <1>1, <1>4, <1>18, <3>1, ShapesType DEF ClearSlots
  <2>2. Cardinality(table') <= PROC_MAX BY <1>1, <1>2, <1>3, <1>4, TableBound
  <2>3. home' \in [Structs -> 0 .. MaxPid] BY <1>1 DEF LifecycleInv, LifecycleTypeOK
  <2> QED BY <1>1, <1>2, <1>3, <1>4, <2>1, <2>2, <2>3, ProcessAssumption
          DEF LifecycleInv, LifecycleTypeOK, Records
<1>10. OneOwner'
  <2>1. /\ table' \cap freelist' = {} /\ table' \cap graveyard' = {}
        /\ freelist' \cap graveyard' = {}
    BY <1>1, <1>2, <1>3, <1>4 DEF LifecycleInv, OneOwner
  <2>2. \A q \in Structs : proc'[q].state # "UNUSED" <=> q \in table'
    BY <1>1, <1>3, <1>4, <1>5, <1>6, Shapes DEF LifecycleInv, OneOwner, State
  <2> QED BY <2>1, <2>2 DEF OneOwner, State
<1>11. NoneAsked'
  <2> SUFFICES ASSUME NEW q \in Structs PROVE proc'[q].kill_pending = FALSE
    BY DEF NoneAsked
  <2>1. proc'[q] = rec \/ proc'[q] = Cleared \/ proc'[q] = proc[q] BY <1>6
  <2> QED BY <1>5, <2>1, Shapes DEF LifecycleInv, NoneAsked
<1>12. CallerRuns'
  BY <1>2, <1>8 DEF LifecycleInv, CallerRuns, State, Alive
<1>13. WellLed'
  <2> SUFFICES ASSUME NEW t \in table', Alive(t)'
               PROVE  /\ Leader(t)' \in table' /\ Alive(Leader(t))'
                      /\ proc'[Leader(t)'].group = NULL /\ proc'[Leader(t)'].tid = home'[t]
    BY DEF WellLed, Alive, State, Leader
  <2>1. CASE t = p
    BY <1>1, <1>3, <1>4, <1>5, <1>6, <1>8, <2>1 DEF Leader, Alive, State
  <2>2. CASE t # p
    <3>1. t \in table /\ Alive(t) /\ proc'[t] = proc[t] /\ home'[t] = home[t]
      BY <1>7, <2>2 DEF Alive, State
    <3>2. Leader(t)' = Leader(t) BY <3>1 DEF Leader
    <3> QED BY <1>8, <3>1, <3>2 DEF LifecycleInv, WellLed, Alive, State
  <2> QED BY <2>1, <2>2
<1>14. LeadersAttached'
  <2> SUFFICES ASSUME NEW t \in table', proc'[t].group = NULL PROVE proc'[t].detached = FALSE
    BY DEF LeadersAttached
  <2>1. CASE t = p BY <1>5, <1>6, <2>1
  <2>2. CASE t # p
    <3>1. t \in table /\ proc'[t] = proc[t] BY <1>7, <2>2
    <3> QED BY <3>1 DEF LifecycleInv, LeadersAttached
  <2> QED BY <2>1, <2>2
<1>15. TidsApart'
  <2>1. \A t \in table' : t # p => t \in table /\ proc'[t].tid = proc[t].tid /\ proc[t].tid \in 1 .. next_pid - 1
    BY <1>7 DEF LifecycleInv, TidsApart
  <2>2. proc'[p].tid = next_pid BY <1>5, <1>6
  <2>3. \A t \in table' : proc'[t].tid \in 1 .. next_pid' - 1 BY <1>2, <2>1, <2>2
  <2>4. ASSUME NEW t \in table', NEW u \in table', proc'[t].tid = proc'[u].tid PROVE t = u
    <3>1. CASE t = p \/ u = p BY <1>2, <2>1, <2>2, <2>4, <3>1
    <3>2. CASE t # p /\ u # p BY <2>1, <2>4, <3>2 DEF LifecycleInv, TidsApart
    <3> QED BY <3>1, <3>2
  <2> QED BY <2>3, <2>4 DEF TidsApart
<1>16. JoinsSibling'
  <2> SUFFICES ASSUME NEW t \in table', Alive(t)', proc'[t].join_tid # 0
               PROVE  /\ proc'[t].join_tid < next_pid'
                      /\ \A u \in table' : proc'[u].tid = proc'[t].join_tid => Leader(u)' = Leader(t)'
    BY DEF JoinsSibling, Alive, State, Leader
  <2>1. t # p BY <1>5, <1>6
  <2>2. t \in table /\ Alive(t) /\ proc'[t] = proc[t] BY <1>7, <2>1 DEF Alive, State
  <2>3. proc[t].join_tid < next_pid /\ proc[t].join_tid \in Nat
    BY <1>3, <2>2 DEF LifecycleInv, JoinsSibling, LifecycleTypeOK
  <2>4. \A u \in table' : proc'[u].tid = proc'[t].join_tid => u # p
    BY <1>2, <1>5, <1>6, <2>2, <2>3
  <2>5. \A u \in table' : proc'[u].tid = proc'[t].join_tid => Leader(u)' = Leader(t)'
    BY <1>7, <2>2, <2>4 DEF LifecycleInv, JoinsSibling, Leader
  <2> QED BY <1>2, <2>2, <2>3, <2>5
<1>17. NoStuckJoiner'
  <2> SUFFICES ASSUME NEW t \in table', proc'[t].state = "BLOCKED", proc'[t].join_tid # 0
               PROVE  \E u \in table' : Alive(u)' /\ proc'[u].tid = proc'[t].join_tid
    BY DEF NoStuckJoiner, Alive, State
  <2>1. t # p BY <1>5, <1>6
  <2>2. t \in table /\ proc'[t] = proc[t] BY <1>7, <2>1
  <2>3. PICK u \in table : Alive(u) /\ proc[u].tid = proc[t].join_tid
    BY <2>2 DEF LifecycleInv, NoStuckJoiner, State
  <2> QED BY <1>8, <2>2, <2>3 DEF Alive, State
<1>19. Kept BY <1>8 DEF Kept, LifecycleInv, CallerRuns, InUser, Alive
<1> QED BY <1>19, <1>9, <1>10, <1>11, <1>12, <1>13, <1>14, <1>15, <1>16, <1>17 DEF LifecycleInv
-----------------------------------------------------------------------------
(* The process l ends with all its threads: by process_exit of one of them,  *)
(* which enders then names with l, or by a kill from outside.                *)
LEMMA EndsIInv ==
    ASSUME LifecycleInv, InUser, NEW l \in table, Alive(l), proc[l].group = NULL,
           NEW enders, NEW S, S = (Members(l) \cup enders) \ {cur},
           \/ enders = {cur, l} /\ Leader(cur) = l /\ mode' = "sched"
           \/ enders = {} /\ Leader(cur) # l /\ mode' = mode,
           EndProcess(KillThreads(S, TRUE), l, enders, S, TRUE),
           UNCHANGED <<cur, next_pid, home>>
    PROVE  LifecycleInv' /\ Kept
<1> DEFINE cleared == EndedDetached(S, TRUE)
           P == KillThreads(S, TRUE)
           gone == (enders \ {l}) \cup IF P[l].ppid = 0 THEN {l} ELSE {}
           Q(p) == [P[p] EXCEPT !.state = CASE p \in gone -> "UNUSED"
                                            [] p = l /\ l \notin gone -> "ZOMBIE"
                                            [] OTHER -> @,
                                !.kill_pending = @ /\ p \notin enders]
<1>1. /\ table \subseteq Structs /\ NULL \notin Structs /\ l \in Structs
      /\ cur \in table /\ cur # NULL /\ State(cur) = "RUNNING"
  BY ProcessAssumption DEF LifecycleInv, LifecycleTypeOK, InUser, CallerRuns
<1>2. /\ S \subseteq table /\ cur \notin S
      /\ \A p \in table : p \in S => p = l \/ proc[p].group = l
      /\ \A p \in table : Alive(p) /\ Leader(p) = l => p \in S \/ p = l \/ p = cur
  BY <1>1 DEF Members, Leader, Alive, State
<1>3. /\ gone \subseteq {cur, l} /\ (cur \in gone \/ cur = l \/ enders = {})
      /\ cur \in gone => Leader(cur) = l
      /\ enders = {} => cur # l
  BY <1>1 DEF Leader
<1>4. cleared = {t \in S : Alive(t) /\ proc[t].detached}
  <2>1. AskedToEnd(S, TRUE) = {} BY DEF AskedToEnd
  <2>2. EndedOf(S, TRUE) = {t \in S : Alive(t)} BY <2>1 DEF EndedOf
  <2> QED BY <2>2, Zenon DEF EndedDetached
<1>5. l \notin cleared /\ cleared \subseteq table /\ cur \notin cleared
  <2>1. proc[l].detached = FALSE BY DEF LifecycleInv, LeadersAttached
  <2> QED BY <1>2, <1>4, <2>1
<1>6. /\ proc' = [p \in Structs |-> Q(p)]
      /\ table' = table \ (gone \cup cleared)
      /\ freelist' = freelist \cup cleared /\ graveyard' = graveyard \cup gone
      /\ cur' = cur /\ next_pid' = next_pid /\ home' = home
  BY DEF EndProcess
<1>7. ASSUME NEW p \in Structs
      PROVE  P[p] = IF p \in cleared THEN Cleared
                    ELSE IF p \in S /\ Alive(p)
                         THEN [proc[p] EXCEPT !.state = "ZOMBIE", !.kill_pending = FALSE]
                         ELSE proc[p]
  <2>1. AskedToEnd(S, TRUE) = {} BY DEF AskedToEnd
  <2>2. EndedOf(S, TRUE) = {t \in S : Alive(t)} BY <2>1 DEF EndedOf
  <2> HIDE DEF cleared
  <2>3. P[p] = CASE p \in cleared -> Cleared
                 [] p \in {t \in S : Alive(t)} \ cleared ->
                       [proc[p] EXCEPT !.state = "ZOMBIE", !.kill_pending = FALSE]
                 [] OTHER -> proc[p]
    BY <2>1, <2>2, Zenon DEF KillThreads, cleared
  <2>4. \A t \in cleared : t \in S /\ Alive(t) BY <1>4
  <2> HIDE DEF P
  <2> QED BY <2>3, <2>4
<1> HIDE DEF cleared, P, gone
<1>8. /\ \A p \in cleared : p \in S /\ p \in table /\ p # l /\ p # cur /\ Alive(p) /\ p \notin gone
      /\ \A p \in gone : p \in table /\ (p = cur \/ p = l) /\ Alive(p)
  BY <1>1, <1>3, <1>4, <1>5 DEF Alive, State
<1>9. ASSUME NEW p \in Structs, p \notin cleared
      PROVE  /\ proc'[p].tid = proc[p].tid /\ proc'[p].group = proc[p].group
             /\ proc'[p].ppid = proc[p].ppid /\ proc'[p].detached = proc[p].detached
             /\ proc'[p].join_tid = proc[p].join_tid /\ proc'[p].kill_pending = FALSE
             /\ proc'[p].state = IF p \in gone THEN "UNUSED"
                                 ELSE IF p = l \/ (p \in S /\ Alive(p)) THEN "ZOMBIE" ELSE proc[p].state
             /\ proc'[p] \in Records
  <2>1. proc[p] \in Records /\ proc[p].kill_pending = FALSE
    BY DEF LifecycleInv, LifecycleTypeOK, NoneAsked, Records
  <2>2. P[p] = IF p \in S /\ Alive(p)
               THEN [proc[p] EXCEPT !.state = "ZOMBIE", !.kill_pending = FALSE] ELSE proc[p]
    BY <1>7, <1>9
  <2> HIDE DEF Q
  <2>3. P[p] \in Records
    <3>1. [proc[p] EXCEPT !.state = "ZOMBIE", !.kill_pending = FALSE] \in Records
      BY <2>1, RecordUpdate
    <3> QED BY <2>1, <2>2, <3>1
  <2>4. /\ P[p].tid = proc[p].tid /\ P[p].group = proc[p].group
        /\ P[p].ppid = proc[p].ppid /\ P[p].detached = proc[p].detached
        /\ P[p].join_tid = proc[p].join_tid /\ P[p].kill_pending = FALSE
        /\ P[p].state = IF p \in S /\ Alive(p) THEN "ZOMBIE" ELSE proc[p].state
    BY <2>1, <2>2 DEF Records
  <2>5. (P[p].kill_pending /\ p \notin enders) = FALSE BY <2>4
  <2>6. proc'[p] = [P[p] EXCEPT !.state = CASE p \in gone -> "UNUSED"
                                            [] p = l /\ l \notin gone -> "ZOMBIE"
                                            [] OTHER -> @,
                                !.kill_pending = FALSE]
    BY <1>6, <2>5 DEF Q
  <2> QED BY <2>3, <2>4, <2>6 DEF Records
<1>10. \A p \in cleared : proc'[p] = Cleared
  <2> SUFFICES ASSUME NEW p \in cleared PROVE proc'[p] = Cleared OBVIOUS
  <2>1. p \in Structs /\ p \notin gone /\ p # l BY <1>1, <1>8
  <2>2. P[p] = Cleared BY <1>7, <2>1
  <2>3. (P[p].kill_pending /\ p \notin enders) = FALSE BY <2>2, Shapes
  <2>4. proc'[p] = [P[p] EXCEPT !.state = @, !.kill_pending = FALSE]
    BY <1>6, <2>1, <2>3
  <2>5. [Cleared EXCEPT !.state = Cleared.state, !.kill_pending = FALSE] = Cleared
    BY RecordSame, ShapesType, Shapes
  <2> QED BY <2>2, <2>4, <2>5
<1> HIDE DEF Q
<1>11. \A p \in table' : p \in table /\ p \in Structs /\ p \notin cleared /\ p \notin gone
  BY <1>1, <1>6
(* Who lives on is not of l's process, and is as it was.                     *)
<1>12. \A p \in table' : Alive(p)' => Alive(p) /\ Leader(p) # l /\ proc'[p].state = proc[p].state
  <2> SUFFICES ASSUME NEW p \in table', Alive(p)'
               PROVE  Alive(p) /\ Leader(p) # l /\ proc'[p].state = proc[p].state
    OBVIOUS
  <2>1. proc'[p].state = proc[p].state /\ p # l /\ ~(p \in S /\ Alive(p))
    BY <1>9, <1>11 DEF Alive, State
  <2>2. Alive(p) BY <2>1 DEF Alive, State
  <2>3. p = cur => enders = {} /\ Leader(cur) # l BY <1>1, <1>3, <1>11, <2>1
  <2> QED BY <1>2, <1>11, <2>1, <2>2, <2>3
<1>13. \A p \in table : Alive(p) /\ Leader(p) # l =>
          p \in table' /\ proc'[p].state = proc[p].state /\ Alive(p)'
  <2> SUFFICES ASSUME NEW p \in table, Alive(p), Leader(p) # l
               PROVE  p \in table' /\ proc'[p].state = proc[p].state /\ Alive(p)'
    OBVIOUS
  <2>1. p # l BY DEF Leader
  <2>2. p \notin S BY <1>1, <1>2, <2>1 DEF Leader
  <2>3. p \notin gone /\ p \notin cleared BY <1>3, <1>8, <2>1, <2>2
  <2> QED BY <1>1, <1>6, <1>9, <2>1, <2>2, <2>3 DEF Alive, State
<1>23. \A p \in table' : /\ p \in table /\ proc'[p].tid = proc[p].tid
                          /\ proc'[p].group = proc[p].group
                          /\ proc'[p].join_tid = proc[p].join_tid
  BY <1>9, <1>11
<1>24. next_pid' = next_pid BY <1>6
<1>14. LifecycleTypeOK'
  <2>1. proc' \in [Structs -> Records]
    <3>1. \A p \in Structs : proc'[p] \in Records BY <1>9, <1>10, ShapesType
    <3> QED BY <1>6, <3>1
  <2>2. Cardinality(table') <= PROC_MAX
    BY <1>1, <1>6, TableBound DEF LifecycleInv, LifecycleTypeOK
  <2>3. table' \subseteq Structs /\ freelist' \subseteq Structs /\ graveyard' \subseteq Structs
    BY <1>1, <1>6, <1>8 DEF LifecycleInv, LifecycleTypeOK
  <2>4. cur' \in Structs \cup {NULL} /\ mode' \in {"user", "sched", "pick", "join"}
    BY <1>6 DEF LifecycleInv, LifecycleTypeOK
  <2> QED BY <1>6, <2>1, <2>2, <2>3, <2>4 DEF LifecycleInv, LifecycleTypeOK, Records
<1>15. OneOwner'
  <2>1. /\ table' \cap freelist' = {} /\ table' \cap graveyard' = {}
        /\ freelist' \cap graveyard' = {}
    BY <1>6, <1>8 DEF LifecycleInv, OneOwner
  <2>2. ASSUME NEW p \in Structs PROVE proc'[p].state # "UNUSED" <=> p \in table'
    <3>1. CASE p \in cleared BY <1>6, <1>10, <3>1, Shapes
    <3>2. CASE p \notin cleared
      <4>1. CASE p \in gone BY <1>6, <1>9, <3>2, <4>1
      <4>2. CASE p \notin gone
        <5>1. p \in table' <=> p \in table BY <1>6, <3>2, <4>2
        <5>2. (p = l \/ p \in S) => p \in table BY <1>2
        <5> QED BY <1>9, <3>2, <4>2, <5>1, <5>2 DEF LifecycleInv, OneOwner, State
      <4> QED BY <4>1, <4>2
    <3> QED BY <3>1, <3>2
  <2> QED BY <2>1, <2>2 DEF OneOwner, State
<1>16. NoneAsked'
  <2> SUFFICES ASSUME NEW q \in Structs PROVE proc'[q].kill_pending = FALSE
    BY DEF NoneAsked
  <2>1. CASE q \in cleared BY <1>10, <2>1, Shapes
  <2>2. CASE q \notin cleared BY <1>9, <2>2
  <2> QED BY <2>1, <2>2
<1>17. CallerRuns'
  <2>1. CASE enders = {} /\ Leader(cur) # l /\ mode' = mode
    <3>1. Alive(cur) BY <1>1 DEF Alive
    <3>2. cur \in table' /\ proc'[cur].state = proc[cur].state BY <1>1, <1>13, <2>1, <3>1
    <3>3. proc'[cur].join_tid = proc[cur].join_tid BY <1>9, <1>11, <3>2
    <3> QED BY <1>1, <1>6, <2>1, <3>2, <3>3 DEF LifecycleInv, CallerRuns, State
  <2>2. CASE mode' = "sched" BY <2>2 DEF CallerRuns
  <2> QED BY <2>1, <2>2
<1>18. WellLed'
  <2> SUFFICES ASSUME NEW t \in table', Alive(t)'
               PROVE  /\ Leader(t)' \in table' /\ Alive(Leader(t))'
                      /\ proc'[Leader(t)'].group = NULL /\ proc'[Leader(t)'].tid = home'[t]
    BY DEF WellLed, Alive, State, Leader
  <2>1. t \in table /\ Alive(t) /\ Leader(t) # l BY <1>11, <1>12
  <2>2. Leader(t)' = Leader(t) BY <1>9, <1>11 DEF Leader
  <2>3. /\ Leader(t) \in table /\ Alive(Leader(t)) /\ proc[Leader(t)].group = NULL
        /\ proc[Leader(t)].tid = home[t]
    BY <2>1 DEF LifecycleInv, WellLed
  <2>4. Leader(t) \in table' /\ Alive(Leader(t))' BY <1>13, <2>1, <2>3, <2>2 DEF Leader
  <2> QED BY <1>6, <1>9, <1>11, <2>2, <2>3, <2>4
<1>19. LeadersAttached'
  BY <1>9, <1>11 DEF LifecycleInv, LeadersAttached
<1>20. TidsApart'
  <2>1. TidsApart BY DEF LifecycleInv
  <2> QED BY <1>23, <1>24, <2>1 DEF TidsApart
<1>21. JoinsSibling'
  <2> SUFFICES ASSUME NEW t \in table', Alive(t)', proc'[t].join_tid # 0
               PROVE  /\ proc'[t].join_tid < next_pid'
                      /\ \A u \in table' : proc'[u].tid = proc'[t].join_tid => Leader(u)' = Leader(t)'
    BY DEF JoinsSibling, Alive, State, Leader
  <2>1. t \in table /\ Alive(t) BY <1>11, <1>12
  <2>2. JoinsSibling BY DEF LifecycleInv
  <2> QED BY <1>23, <1>24, <2>1, <2>2 DEF JoinsSibling, Leader
<1>22. NoStuckJoiner'
  <2> SUFFICES ASSUME NEW t \in table', proc'[t].state = "BLOCKED", proc'[t].join_tid # 0
               PROVE  \E u \in table' : Alive(u)' /\ proc'[u].tid = proc'[t].join_tid
    BY DEF NoStuckJoiner, Alive, State
  <2>1. Alive(t)' BY DEF Alive, State
  <2>2. t \in table /\ Alive(t) /\ Leader(t) # l /\ State(t) = "BLOCKED"
    BY <1>11, <1>12, <2>1 DEF State
  <2>3. proc'[t].join_tid = proc[t].join_tid BY <1>9, <1>11
  <2>4. PICK u \in table : Alive(u) /\ proc[u].tid = proc[t].join_tid
    BY <2>2, <2>3 DEF LifecycleInv, NoStuckJoiner
  <2>5. Leader(u) = Leader(t) BY <2>2, <2>3, <2>4 DEF LifecycleInv, JoinsSibling
  <2>6. u \in table' /\ Alive(u)' BY <1>13, <2>2, <2>4, <2>5
  <2>7. proc'[u].tid = proc[u].tid BY <1>9, <1>11, <2>6
  <2> QED BY <2>3, <2>4, <2>6, <2>7
<1>25. Kept BY <1>1, <1>5, <1>9 DEF Kept
<1> QED BY <1>25, <1>14, <1>15, <1>16, <1>17, <1>18, <1>19, <1>20, <1>21, <1>22 DEF LifecycleInv
-----------------------------------------------------------------------------
(* The caller takes the zombies of Z back and goes on, or waits: in           *)
(* process_thread_join for the thread j, or for something else.              *)
LEMMA CallerIInv ==
    ASSUME LifecycleInv, cur \in table, State(cur) = "RUNNING", NEW Z, Z \subseteq Zombies,
           NEW s \in {"RUNNING", "BLOCKED"}, NEW j \in 0 .. MaxPid,
           proc' = [ClearSlots(proc, Z) EXCEPT ![cur] = [@ EXCEPT !.join_tid = j, !.state = s]],
           table' = table \ Z, freelist' = freelist \cup Z,
           UNCHANGED <<graveyard, cur, next_pid, home>>,
           mode' \in {"user", "sched"}, mode' = "user" => s = "RUNNING" /\ j = 0,
           j # 0 => /\ j < next_pid
                    /\ \A u \in table : proc[u].tid = j => Leader(u) = Leader(cur),
           s = "BLOCKED" /\ j # 0 => \E u \in table : Alive(u) /\ proc[u].tid = j
    PROVE  LifecycleInv' /\ Kept
<1>1. /\ Z \subseteq table /\ \A z \in Z : State(z) = "ZOMBIE"
      /\ table \subseteq Structs /\ cur \in Structs /\ cur \notin Z
  BY DEF Zombies, LifecycleInv, LifecycleTypeOK
<1>2. proc \in [Structs -> Records] BY DEF LifecycleInv, LifecycleTypeOK, Records
<1>3. \A q \in Structs : q \in Z => proc'[q] = Cleared
  BY <1>1 DEF ClearSlots
<1>4. ASSUME NEW q \in Structs, q \notin Z
      PROVE  /\ proc'[q].tid = proc[q].tid /\ proc'[q].group = proc[q].group
             /\ proc'[q].detached = proc[q].detached /\ proc'[q].kill_pending = FALSE
             /\ proc'[q].join_tid = IF q = cur THEN j ELSE proc[q].join_tid
             /\ proc'[q].state = IF q = cur THEN s ELSE proc[q].state
             /\ proc'[q] \in Records
  <2>1. proc'[q] = IF q = cur THEN [proc[q] EXCEPT !.join_tid = j, !.state = s] ELSE proc[q]
    BY <1>1, <1>4 DEF ClearSlots
  <2>2. proc[q].kill_pending = FALSE /\ proc[q] \in Records BY <1>2 DEF LifecycleInv, NoneAsked
  <2>3. [proc[q] EXCEPT !.join_tid = j, !.state = s] \in Records BY <2>2, RecordUpdate
  <2>4. /\ [proc[q] EXCEPT !.join_tid = j, !.state = s].tid = proc[q].tid
        /\ [proc[q] EXCEPT !.join_tid = j, !.state = s].group = proc[q].group
        /\ [proc[q] EXCEPT !.join_tid = j, !.state = s].detached = proc[q].detached
        /\ [proc[q] EXCEPT !.join_tid = j, !.state = s].kill_pending = FALSE
        /\ [proc[q] EXCEPT !.join_tid = j, !.state = s].join_tid = j
        /\ [proc[q] EXCEPT !.join_tid = j, !.state = s].state = s
    BY <2>2 DEF Records
  <2>5. CASE q = cur
    <3>1. proc'[q] = [proc[q] EXCEPT !.join_tid = j, !.state = s] BY <2>1, <2>5
    <3> QED BY <2>3, <2>4, <2>5, <3>1
  <2>6. CASE q # cur
    <3>1. proc'[q] = proc[q] BY <2>1, <2>6
    <3> QED BY <2>2, <2>6, <3>1
  <2> QED BY <2>5, <2>6
<1>5. \A q \in table' : /\ q \in table /\ q \in Structs /\ q \notin Z
                        /\ proc'[q].tid = proc[q].tid /\ proc'[q].group = proc[q].group
                        /\ proc'[q].detached = proc[q].detached
                        /\ Alive(q)' => Alive(q)
  BY <1>1, <1>4, ZenonT(60) DEF Alive, State
<1>6. \A q \in table : Alive(q) => q \in table' /\ Alive(q)'
  BY <1>1, <1>4, ZenonT(60) DEF Alive, State
<1>7. LifecycleTypeOK'
  <2>1. proc' \in [Structs -> Records]
    <3>1. \A p \in Structs : proc'[p] \in Records BY <1>3, <1>4, ShapesType
    <3> QED BY <3>1 DEF ClearSlots
  <2>2. Cardinality(table') <= PROC_MAX BY <1>1, TableBound DEF LifecycleInv, LifecycleTypeOK
  <2> QED BY <1>1, <2>1, <2>2 DEF LifecycleInv, LifecycleTypeOK, Records
<1>8. OneOwner'
  <2>1. ASSUME NEW q \in Structs PROVE proc'[q].state # "UNUSED" <=> q \in table'
    <3>1. CASE q \in Z BY <1>1, <1>3, <3>1, Shapes
    <3>2. CASE q \notin Z
      <4>1. proc'[q].state # "UNUSED" <=> proc[q].state # "UNUSED" BY <1>1, <1>4, <3>2 DEF State
      <4>2. q \in table' <=> q \in table BY <3>2
      <4> QED BY <4>1, <4>2 DEF LifecycleInv, OneOwner, State
    <3> QED BY <3>1, <3>2
  <2> QED BY <1>1, <2>1 DEF LifecycleInv, OneOwner, State
<1>9. NoneAsked'
  BY <1>3, <1>4, Shapes DEF NoneAsked
<1>10. CallerRuns'
  BY <1>1, <1>4 DEF CallerRuns, State
<1>11. WellLed'
  <2> SUFFICES ASSUME NEW t \in table', Alive(t)'
               PROVE  /\ Leader(t)' \in table' /\ Alive(Leader(t))'
                      /\ proc'[Leader(t)'].group = NULL /\ proc'[Leader(t)'].tid = home'[t]
    BY DEF WellLed, Alive, State, Leader
  <2>1. Leader(t)' = Leader(t) /\ t \in table /\ Alive(t) BY <1>5 DEF Leader
  <2>2. /\ Leader(t) \in table /\ Alive(Leader(t)) /\ proc[Leader(t)].group = NULL
        /\ proc[Leader(t)].tid = home[t]
    BY <2>1 DEF LifecycleInv, WellLed
  <2>3. Leader(t)' \in table' /\ Alive(Leader(t))' BY <1>6, <2>1, <2>2
  <2> QED BY <1>5, <2>1, <2>2, <2>3
<1>12. LeadersAttached' BY <1>5 DEF LifecycleInv, LeadersAttached
<1>13. TidsApart'
  <2>1. TidsApart BY DEF LifecycleInv
  <2> QED BY <1>5, <2>1 DEF TidsApart
<1>14. JoinsSibling'
  <2> SUFFICES ASSUME NEW t \in table', Alive(t)', proc'[t].join_tid # 0
               PROVE  /\ proc'[t].join_tid < next_pid
                      /\ \A u \in table' : proc'[u].tid = proc'[t].join_tid => Leader(u)' = Leader(t)'
    BY DEF JoinsSibling, Alive, State, Leader
  <2>1. t \in table /\ Alive(t) /\ t \in Structs /\ t \notin Z BY <1>5
  <2>2. \A u \in table' : Leader(u)' = Leader(u) BY <1>5 DEF Leader
  <2>3. CASE t = cur
    <3>1. proc'[t].join_tid = j BY <1>4, <2>1, <2>3
    <3> QED BY <1>5, <2>2, <2>3, <3>1
  <2>4. CASE t # cur
    <3>1. proc'[t].join_tid = proc[t].join_tid BY <1>4, <2>1, <2>4
    <3>2. JoinsSibling BY DEF LifecycleInv
    <3> QED BY <1>5, <2>1, <2>2, <3>1, <3>2 DEF JoinsSibling
  <2> QED BY <2>3, <2>4
<1>15. NoStuckJoiner'
  <2> SUFFICES ASSUME NEW t \in table', proc'[t].state = "BLOCKED", proc'[t].join_tid # 0
               PROVE  \E u \in table' : Alive(u)' /\ proc'[u].tid = proc'[t].join_tid
    BY DEF NoStuckJoiner, Alive, State
  <2>1. t \in table /\ t \in Structs /\ t \notin Z BY <1>5
  <2>2. \E u \in table : Alive(u) /\ proc[u].tid = proc'[t].join_tid
    <3>1. CASE t = cur
      <4>1. proc'[t].join_tid = j /\ proc'[t].state = s BY <1>4, <2>1, <3>1
      <4> QED BY <4>1
    <3>2. CASE t # cur
      <4>1. proc'[t].join_tid = proc[t].join_tid /\ proc'[t].state = proc[t].state
        BY <1>4, <2>1, <3>2
      <4> QED BY <2>1, <4>1 DEF LifecycleInv, NoStuckJoiner, State
    <3> QED BY <3>1, <3>2
  <2> QED BY <1>5, <1>6, <2>2
<1>16. Kept BY <1>1, <1>4 DEF Kept
<1> QED BY <1>16, <1>7, <1>8, <1>9, <1>10, <1>11, <1>12, <1>13, <1>14, <1>15 DEF LifecycleInv

(* A thread that lives becomes READY or RUNNING.                             *)
LEMMA RunsIInv ==
    ASSUME LifecycleInv, NEW t \in table, Alive(t), NEW s \in {"READY", "RUNNING"},
           proc' = [proc EXCEPT ![t].state = s],
           UNCHANGED <<lists, next_pid, home>>,
           cur' \in Structs \cup {NULL}, mode' \in {"user", "sched", "pick", "join"}, CallerRuns'
    PROVE  LifecycleInv' /\ Kept
<1>1. table \subseteq Structs /\ proc \in [Structs -> Records] /\ table' = table
  BY DEF LifecycleInv, LifecycleTypeOK, Records, lists
<1>2. ASSUME NEW q \in Structs
      PROVE  /\ proc'[q].tid = proc[q].tid /\ proc'[q].group = proc[q].group
             /\ proc'[q].detached = proc[q].detached /\ proc'[q].kill_pending = FALSE
             /\ proc'[q].join_tid = proc[q].join_tid
             /\ proc'[q].state = IF q = t THEN s ELSE proc[q].state
             /\ proc'[q] \in Records
  <2>1. proc[q] \in Records /\ proc[q].kill_pending = FALSE BY <1>1 DEF LifecycleInv, NoneAsked
  <2>2. proc'[q] = IF q = t THEN [proc[q] EXCEPT !.state = s] ELSE proc[q] BY <1>1
  <2>3. [proc[q] EXCEPT !.state = s] \in Records BY <2>1, RecordUpdate
  <2> QED BY <2>1, <2>2, <2>3 DEF Records
<1>3. \A q \in table : (Alive(q) <=> Alive(q)') /\ Leader(q)' = Leader(q)
  BY <1>1, <1>2 DEF Alive, State, Leader
<1>4. LifecycleTypeOK'
  <2>1. proc' \in [Structs -> Records] BY <1>1, <1>2
  <2> QED BY <1>1, <2>1 DEF LifecycleInv, LifecycleTypeOK, Records, lists
<1>5. OneOwner'
  <2>1. \A q \in Structs : proc'[q].state # "UNUSED" <=> q \in table
    BY <1>1, <1>2 DEF LifecycleInv, OneOwner, State
  <2> QED BY <1>1, <2>1 DEF LifecycleInv, OneOwner, State, lists
<1>6. NoneAsked' BY <1>2 DEF NoneAsked
<1>7. WellLed' BY <1>1, <1>2, <1>3 DEF LifecycleInv, WellLed
<1>8. LeadersAttached' BY <1>1, <1>2 DEF LifecycleInv, LeadersAttached
<1>9. TidsApart'
  <2>1. TidsApart BY DEF LifecycleInv
  <2> QED BY <1>1, <1>2, <2>1 DEF TidsApart
<1>10. JoinsSibling' BY <1>1, <1>2, <1>3 DEF LifecycleInv, JoinsSibling
<1>11. NoStuckJoiner'
  BY <1>1, <1>2, <1>3 DEF LifecycleInv, NoStuckJoiner, State
<1>12. Kept BY <1>2 DEF Kept, LifecycleInv, LifecycleTypeOK
<1> QED BY <1>12, <1>4, <1>5, <1>6, <1>7, <1>8, <1>9, <1>10, <1>11 DEF LifecycleInv

(* A step of schedule() that only buries: the graveyard goes to the freelist.*)
LEMMA BuriesIInv ==
    ASSUME LifecycleInv, UNCHANGED <<proc, table, next_pid, home>>,
           \/ \E p : ReapGraveyard(p)
           \/ UNCHANGED <<freelist, graveyard>>,
           cur' \in Structs \cup {NULL}, mode' \in {"user", "sched", "pick", "join"}, CallerRuns'
    PROVE  LifecycleInv' /\ Kept
<1>1. /\ freelist' \cup graveyard' \subseteq freelist \cup graveyard
      /\ freelist' \cap graveyard' = {}
  BY DEF ReapGraveyard, LifecycleInv, OneOwner
<1>2. LifecycleTypeOK' BY <1>1 DEF LifecycleInv, LifecycleTypeOK
<1>3. OneOwner' BY <1>1 DEF LifecycleInv, OneOwner, State
<1>4. /\ NoneAsked' /\ WellLed' /\ LeadersAttached' /\ TidsApart' /\ JoinsSibling'
      /\ NoStuckJoiner'
  BY DEF LifecycleInv, NoneAsked, WellLed, LeadersAttached, TidsApart, JoinsSibling, NoStuckJoiner,
         Alive, State, Leader
<1>5. Kept BY DEF Kept
<1> QED BY <1>5, <1>2, <1>3, <1>4 DEF LifecycleInv

(* A thread ends, and wakes those who join it.                               *)
LEMMA EndThreadIInv ==
    ASSUME LifecycleInv, InUser, proc[cur].group # NULL, EndThread
    PROVE  LifecycleInv' /\ Kept
<1> DEFINE end == IF proc[cur].detached THEN "UNUSED" ELSE "ZOMBIE"
           Woken(q) == q \in table /\ proc[q].state = "BLOCKED" /\ proc[q].join_tid = proc[cur].tid
<1>1. /\ table \subseteq Structs /\ cur \in table /\ State(cur) = "RUNNING"
      /\ proc \in [Structs -> Records]
  BY DEF LifecycleInv, LifecycleTypeOK, InUser, CallerRuns, Records
<1>2. /\ end \in {"UNUSED", "ZOMBIE"}
      /\ table' = IF end = "UNUSED" THEN table \ {cur} ELSE table
      /\ graveyard' = IF end = "UNUSED" THEN graveyard \cup {cur} ELSE graveyard
  BY DEF EndThread
<1>3. /\ freelist' = freelist /\ cur' = cur /\ next_pid' = next_pid /\ home' = home
      /\ mode' = "sched"
  BY DEF EndThread
<1>4. proc' = [WakeJoiners(proc, proc[cur].tid) EXCEPT ![cur] = [@ EXCEPT !.state = end, !.kill_pending = FALSE]]
  BY DEF EndThread
<1> HIDE DEF end
<1>5. ASSUME NEW q \in Structs
      PROVE  /\ proc'[q].tid = proc[q].tid /\ proc'[q].group = proc[q].group
             /\ proc'[q].detached = proc[q].detached /\ proc'[q].kill_pending = FALSE
             /\ proc'[q].join_tid = proc[q].join_tid /\ proc'[q] \in Records
             /\ q = cur => proc'[q].state = end
             /\ q # cur => proc'[q].state = IF Woken(q) THEN "READY" ELSE proc[q].state
  <2>1. proc[q] \in Records /\ proc[q].kill_pending = FALSE BY <1>1 DEF LifecycleInv, NoneAsked
  <2>2. CASE q = cur
    <3>1. proc'[q] = [proc[q] EXCEPT !.state = end, !.kill_pending = FALSE]
      BY <1>1, <1>4, <2>2 DEF WakeJoiners, State
    <3>2. [proc[q] EXCEPT !.state = end, !.kill_pending = FALSE] \in Records
      BY <1>2, <2>1, RecordUpdate
    <3> QED BY <1>2, <2>1, <2>2, <3>1, <3>2 DEF Records
  <2>3. CASE q # cur
    <3>1. proc'[q] = IF Woken(q) THEN [proc[q] EXCEPT !.state = "READY"] ELSE proc[q]
      BY <1>1, <1>4, <2>3 DEF WakeJoiners
    <3>2. [proc[q] EXCEPT !.state = "READY"] \in Records BY <2>1, RecordUpdate
    <3> QED BY <2>1, <2>3, <3>1, <3>2 DEF Records
  <2> QED BY <2>2, <2>3
<1>6. \A q \in table' : q \in table /\ q \in Structs /\ (Alive(q)' => q # cur /\ Alive(q))
  BY <1>1, <1>2, <1>5 DEF Alive, State
<1>7. \A q \in table : Alive(q) /\ q # cur => q \in table' /\ Alive(q)'
  BY <1>1, <1>2, <1>5 DEF Alive, State
<1>8. \A q \in table' : Leader(q)' = Leader(q) /\ proc'[q].tid = proc[q].tid
  BY <1>5, <1>6 DEF Leader
<1>9. LifecycleTypeOK'
  <2>1. proc' \in [Structs -> Records] BY <1>4, <1>5 DEF WakeJoiners
  <2>2. Cardinality(table') <= PROC_MAX BY <1>1, <1>2, TableBound DEF LifecycleInv, LifecycleTypeOK
  <2> QED BY <1>1, <1>2, <1>3, <2>1, <2>2 DEF LifecycleInv, LifecycleTypeOK, Records
<1>10. OneOwner'
  <2>1. \A q \in Structs : proc'[q].state # "UNUSED" <=> q \in table'
    BY <1>1, <1>2, <1>5 DEF LifecycleInv, OneOwner, State
  <2> QED BY <1>1, <1>2, <1>3, <2>1 DEF LifecycleInv, OneOwner, State
<1>11. NoneAsked' BY <1>5 DEF NoneAsked
<1>12. CallerRuns' BY <1>3 DEF CallerRuns
<1>13. WellLed'
  <2> SUFFICES ASSUME NEW t \in table', Alive(t)'
               PROVE  /\ Leader(t)' \in table' /\ Alive(Leader(t))'
                      /\ proc'[Leader(t)'].group = NULL /\ proc'[Leader(t)'].tid = home'[t]
    BY DEF WellLed, Alive, State, Leader
  <2>1. t \in table /\ Alive(t) /\ Leader(t)' = Leader(t) BY <1>6, <1>8
  <2>2. /\ Leader(t) \in table /\ Alive(Leader(t)) /\ proc[Leader(t)].group = NULL
        /\ proc[Leader(t)].tid = home[t]
    BY <2>1 DEF LifecycleInv, WellLed
  <2>3. Leader(t)' \in table' /\ Alive(Leader(t))' BY <1>7, <2>1, <2>2
  <2> QED BY <1>1, <1>3, <1>5, <2>1, <2>2, <2>3
<1>14. LeadersAttached' BY <1>5, <1>6 DEF LifecycleInv, LeadersAttached
<1>15. TidsApart'
  <2>1. TidsApart BY DEF LifecycleInv
  <2> QED BY <1>3, <1>6, <1>8, <2>1 DEF TidsApart
<1>16. JoinsSibling'
  <2>1. JoinsSibling BY DEF LifecycleInv
  <2>2. \A t \in table' : proc'[t].join_tid = proc[t].join_tid BY <1>5, <1>6
  <2> QED BY <1>3, <1>6, <1>8, <2>1, <2>2 DEF JoinsSibling
<1>17. NoStuckJoiner'
  <2> SUFFICES ASSUME NEW t \in table', proc'[t].state = "BLOCKED", proc'[t].join_tid # 0
               PROVE  \E u \in table' : Alive(u)' /\ proc'[u].tid = proc'[t].join_tid
    BY DEF NoStuckJoiner, Alive, State
  <2>1. t \in table /\ t \in Structs /\ t # cur BY <1>2, <1>5, <1>6
  <2>2. /\ proc[t].state = "BLOCKED" /\ proc[t].join_tid # proc[cur].tid
        /\ proc'[t].join_tid = proc[t].join_tid
    BY <1>5, <2>1
  <2>3. PICK u \in table : Alive(u) /\ proc[u].tid = proc[t].join_tid
    BY <2>1, <2>2 DEF LifecycleInv, NoStuckJoiner, State
  <2> QED BY <1>7, <1>8, <2>2, <2>3
<1>18. Kept BY <1>1, <1>5 DEF Kept
<1> QED BY <1>18, <1>9, <1>10, <1>11, <1>12, <1>13, <1>14, <1>15, <1>16, <1>17 DEF LifecycleInv

(* A thread that lives is detached.                                          *)
LEMMA DetachIInv ==
    ASSUME LifecycleInv, NEW t \in table, proc[t].group # NULL,
           proc' = [proc EXCEPT ![t].detached = TRUE],
           UNCHANGED <<lists, cur, mode, next_pid, home>>
    PROVE  LifecycleInv' /\ Kept
<1>1. table \subseteq Structs /\ proc \in [Structs -> Records] /\ table' = table
  BY DEF LifecycleInv, LifecycleTypeOK, Records, lists
<1>2. ASSUME NEW q \in Structs
      PROVE  /\ proc'[q].tid = proc[q].tid /\ proc'[q].group = proc[q].group
             /\ q # t => proc'[q].detached = proc[q].detached
             /\ proc'[q].kill_pending = FALSE /\ proc'[q].join_tid = proc[q].join_tid
             /\ proc'[q].state = proc[q].state /\ proc'[q] \in Records
  <2>1. proc[q] \in Records /\ proc[q].kill_pending = FALSE BY <1>1 DEF LifecycleInv, NoneAsked
  <2>2. proc'[q] = IF q = t THEN [proc[q] EXCEPT !.detached = TRUE] ELSE proc[q] BY <1>1
  <2>3. CASE q = t
    <3>1. [proc[q] EXCEPT !.detached = TRUE] \in Records BY <2>1, RecordUpdate
    <3>2. proc'[q] = [proc[q] EXCEPT !.detached = TRUE] BY <2>2, <2>3
    <3> QED BY <2>1, <2>3, <3>1, <3>2 DEF Records
  <2>4. CASE q # t
    <3>1. proc'[q] = proc[q] BY <2>2, <2>4
    <3> QED BY <2>1, <2>4, <3>1
  <2> QED BY <2>3, <2>4
<1>3. \A q \in table : (Alive(q) <=> Alive(q)') /\ Leader(q)' = Leader(q)
  BY <1>1, <1>2 DEF Alive, State, Leader
<1>4. LifecycleTypeOK'
  <2>1. proc' \in [Structs -> Records] BY <1>1, <1>2
  <2> QED BY <1>1, <2>1 DEF LifecycleInv, LifecycleTypeOK, Records, lists
<1>5. OneOwner' BY <1>1, <1>2 DEF LifecycleInv, OneOwner, State, lists
<1>6. NoneAsked' BY <1>2 DEF NoneAsked
<1>7. CallerRuns' BY <1>1, <1>2 DEF LifecycleInv, CallerRuns, State
<1>8. WellLed' BY <1>1, <1>2, <1>3 DEF LifecycleInv, WellLed
<1>9. LeadersAttached' BY <1>1, <1>2 DEF LifecycleInv, LeadersAttached
<1>10. TidsApart'
  <2>1. TidsApart BY DEF LifecycleInv
  <2>2. \A q \in table : proc'[q].tid = proc[q].tid BY <1>1, <1>2
  <2> QED BY <1>1, <2>1, <2>2 DEF TidsApart
<1>11. JoinsSibling' BY <1>1, <1>2, <1>3 DEF LifecycleInv, JoinsSibling
<1>12. NoStuckJoiner' BY <1>1, <1>2, <1>3 DEF LifecycleInv, NoStuckJoiner, State
<1>13. Kept BY <1>2 DEF Kept, LifecycleInv, LifecycleTypeOK
<1> QED BY <1>13, <1>4, <1>5, <1>6, <1>7, <1>8, <1>9, <1>10, <1>11, <1>12 DEF LifecycleInv
-----------------------------------------------------------------------------
(* Where no thread is asked to end, none has a kill pending when picked.     *)
LEMMA NoKillPending == LifecycleInv => ~KillPending
<1> SUFFICES ASSUME LifecycleInv, KillPending PROVE FALSE OBVIOUS
<1>1. cur # NULL /\ cur \in Structs BY DEF KillPending, LifecycleInv, LifecycleTypeOK
<1> QED BY <1>1, Zenon DEF KillPending, LifecycleInv, NoneAsked

LEMMA ExitIInv == ASSUME LifecycleInv, InUser, ExitNow PROVE LifecycleInv' /\ Kept
<1> DEFINE l == Leader(cur)
           S == (Members(l) \cup {l}) \ {cur}
<1>1. /\ cur \in table /\ Alive(cur) BY DEF LifecycleInv, CallerRuns, InUser, Alive
<1>2. l \in table /\ Alive(l) /\ proc[l].group = NULL BY <1>1 DEF LifecycleInv, WellLed
<1>3. S = (Members(l) \cup {cur, l}) \ {cur} OBVIOUS
<1>4. EndProcess(KillThreads(S, TRUE), l, {cur, l}, S, TRUE) BY DEF ExitNow
<1>5. mode' = "sched" /\ UNCHANGED <<cur, next_pid, home>> BY DEF ExitNow
<1> HIDE DEF S
<1> QED BY <1>2, <1>3, <1>4, <1>5, EndsIInv

LEMMA ThreadExitIInv == ASSUME LifecycleInv, InUser, ThreadExitNow PROVE LifecycleInv' /\ Kept
BY ExitIInv, EndThreadIInv DEF ThreadExitNow

LEMMA SpawnIInv == ASSUME LifecycleInv, SpawnChild PROVE LifecycleInv' /\ Kept
<1>1. InUser /\ UNCHANGED <<cur, mode>> BY DEF SpawnChild
<1>2. PICK Z \in {{}, Zombies} : AllocFrom(Z, Fresh(NULL, next_pid, proc[Leader(cur)].tid), next_pid)
  BY DEF SpawnChild, Alloc
<1>3. Leader(cur) \in table
  BY <1>1 DEF LifecycleInv, CallerRuns, WellLed, InUser, Alive
<1>4. proc[Leader(cur)].tid \in 0 .. KshellPid
  BY <1>3, ProcessAssumption DEF LifecycleInv, LifecycleTypeOK, KshellPid
<1>5. next_pid \in 0 .. MaxPid BY <1>2, ProcessAssumption DEF AllocFrom, LifecycleInv, LifecycleTypeOK
<1>6. Z \subseteq Zombies OBVIOUS
<1> QED BY <1>1, <1>2, <1>4, <1>5, <1>6, AllocIInv

LEMMA CreateIInv == ASSUME LifecycleInv, ThreadCreate PROVE LifecycleInv' /\ Kept
<1> DEFINE l == Leader(cur)
<1>1. InUser /\ UNCHANGED <<cur, mode>> BY DEF ThreadCreate
<1>2. PICK Z \in {{}, Zombies} : AllocFrom(Z, Fresh(l, next_pid, proc[l].ppid), proc[l].tid)
  BY DEF ThreadCreate, Alloc
<1>3. l \in table /\ Alive(l) /\ proc[l].group = NULL
  BY <1>1 DEF LifecycleInv, CallerRuns, WellLed, InUser, Alive
<1>4. /\ l \in Structs /\ l # NULL
      /\ proc[l].ppid \in 0 .. KshellPid /\ proc[l].tid \in 0 .. MaxPid
  BY <1>3, ProcessAssumption DEF LifecycleInv, LifecycleTypeOK
<1>5. Z \subseteq Zombies OBVIOUS
<1> HIDE DEF l
<1> QED BY <1>1, <1>2, <1>3, <1>4, <1>5, AllocIInv

LEMMA KillIInv == ASSUME LifecycleInv, NEW p \in Structs, Kill(p) PROVE LifecycleInv' /\ Kept
<1> DEFINE S == Members(p)
<1>1. InUser /\ Leader(cur) # p BY DEF Kill
<1>2. /\ p \in table /\ Alive(p) /\ proc[p].group = NULL
      /\ EndProcess(KillThreads(S, TRUE), p, {}, S, TRUE)
      /\ UNCHANGED <<cur, mode, next_pid, home>>
  BY DEF Kill, KillProcess, IsProcess, Alive
<1>3. S = (Members(p) \cup {}) \ {cur}
  BY <1>1, ProcessAssumption DEF Members, Leader
<1> HIDE DEF S
<1> QED BY <1>1, <1>2, <1>3, EndsIInv

(* The calls that wait, or take zombies back.                                *)
LEMMA CallerRunning ==
    ASSUME LifecycleInv, mode \in {"user", "join"}
    PROVE  /\ cur \in table /\ cur \in Structs /\ State(cur) = "RUNNING" /\ Alive(cur)
           /\ mode = "user" => proc[cur].join_tid = 0
           /\ proc[cur] \in Records
           /\ ClearSlots(proc, {}) = proc
BY DEF LifecycleInv, LifecycleTypeOK, CallerRuns, Alive, Records, ClearSlots

LEMMA JoinIInv == ASSUME LifecycleInv, NEW tid \in 1 .. MaxPid, Join(tid) PROVE LifecycleInv' /\ Kept
<1>1. mode = "user" /\ UNCHANGED <<graveyard, cur, next_pid, home>> BY DEF Join, InUser
<1>2. PICK t \in Structs :
          /\ IsSibling(t, tid) /\ t # cur
          /\ \/ /\ State(t) = "ZOMBIE"
                /\ proc' = [ClearSlots(proc, {t}) EXCEPT ![cur].join_tid = 0]
                /\ table' = table \ {t}
                /\ freelist' = freelist \cup {t}
                /\ mode' = "user"
             \/ /\ State(t) # "ZOMBIE"
                /\ proc' = [proc EXCEPT ![cur].join_tid = tid, ![cur].state = "BLOCKED"]
                /\ mode' = "sched"
                /\ UNCHANGED <<table, freelist>>
  BY DEF Join, JoinRound
<1>3. t \in table /\ proc[t].tid = tid /\ Leader(t) = Leader(cur) /\ State(t) # "UNUSED"
  BY <1>2 DEF IsSibling
<1>4. CASE State(t) = "ZOMBIE"
  <2>1. {t} \subseteq Zombies BY <1>3, <1>4 DEF Zombies
  <2>2. proc' = [ClearSlots(proc, {t}) EXCEPT ![cur] = [@ EXCEPT !.join_tid = 0, !.state = "RUNNING"]]
    <3>1. proc' = [ClearSlots(proc, {t}) EXCEPT ![cur] = [@ EXCEPT !.join_tid = 0]] BY <1>2, <1>4
    <3>2. ClearSlots(proc, {t})[cur] = proc[cur] /\ proc[cur].state = "RUNNING"
      BY <1>1, <1>2, CallerRunning DEF ClearSlots, State
    <3>3. [proc[cur] EXCEPT !.join_tid = 0] = [proc[cur] EXCEPT !.join_tid = 0, !.state = "RUNNING"]
      BY <1>1, <3>2, CallerRunning DEF Records
    <3> QED BY <3>1, <3>2, <3>3
  <2>3. 0 \in 0 .. MaxPid BY ProcessAssumption
  <2> QED BY <1>1, <1>2, <1>4, <2>1, <2>2, <2>3, CallerRunning, CallerIInv
<1>5. CASE State(t) # "ZOMBIE"
  <2>1. proc' = [ClearSlots(proc, {}) EXCEPT ![cur] = [@ EXCEPT !.join_tid = tid, !.state = "BLOCKED"]]
    BY <1>1, <1>2, <1>5, CallerRunning
  <2>2. Alive(t) BY <1>3, <1>5 DEF Alive
  <2>3. tid < next_pid /\ \A u \in table : proc[u].tid = tid => Leader(u) = Leader(cur)
    BY <1>3 DEF LifecycleInv, TidsApart, LifecycleTypeOK
  <2>4. table' = table \ {} /\ freelist' = freelist \cup {} BY <1>2, <1>5
  <2>5. \E u \in table : Alive(u) /\ proc[u].tid = tid BY <1>3, <2>2
  <2>6. mode' = "sched" /\ {} \subseteq Zombies /\ tid \in 0 .. MaxPid BY <1>2, <1>5
  <2>7. cur \in table /\ State(cur) = "RUNNING" BY <1>1, CallerRunning
  <2> HIDE <1>2
  <2> QED BY <1>1, <2>1, <2>3, <2>4, <2>5, <2>6, <2>7, CallerIInv
<1> QED BY <1>4, <1>5

LEMMA ResumeIInv == ASSUME LifecycleInv, JoinResume PROVE LifecycleInv' /\ Kept
<1> DEFINE tid == proc[cur].join_tid
           found == {t \in table : State(t) # "UNUSED" /\ proc[t].tid = tid}
           zombies == {t \in found : State(t) = "ZOMBIE"}
           waits == ~proc[cur].kill_pending /\ found # {} /\ zombies = {}
           reaped == IF proc[cur].kill_pending THEN {} ELSE zombies
<1>1. /\ mode = "join"
      /\ proc' = [ClearSlots(proc, reaped) EXCEPT
                       ![cur] = [@ EXCEPT !.join_tid = IF waits THEN tid ELSE 0,
                                          !.state = IF waits THEN "BLOCKED" ELSE State(cur)]]
      /\ table' = table \ reaped
      /\ freelist' = freelist \cup reaped
      /\ mode' = IF waits THEN "sched" ELSE "user"
      /\ UNCHANGED <<graveyard, cur, next_pid, home>>
  BY Zenon DEF JoinResume
<1>2. cur \in table /\ Alive(cur) /\ State(cur) = "RUNNING" BY <1>1, CallerRunning
<1>3. reaped \subseteq Zombies /\ cur \notin reaped BY <1>2 DEF Zombies
<1> DEFINE j == IF waits THEN tid ELSE 0
           s == IF waits THEN "BLOCKED" ELSE "RUNNING"
<1>4. waits \in BOOLEAN OBVIOUS
<1>5. waits => found # {} /\ zombies = {} OBVIOUS
<1> HIDE DEF waits, reaped
<1>6. proc' = [ClearSlots(proc, reaped) EXCEPT ![cur] = [@ EXCEPT !.join_tid = j, !.state = s]]
  BY <1>1, <1>2
<1>7. j # 0 => /\ j < next_pid
               /\ \A u \in table : proc[u].tid = j => Leader(u) = Leader(cur)
  BY <1>2 DEF LifecycleInv, JoinsSibling
<1>8. s = "BLOCKED" /\ j # 0 => \E u \in table : Alive(u) /\ proc[u].tid = j
  BY <1>5 DEF Alive
<1>9. j \in 0 .. MaxPid /\ s \in {"RUNNING", "BLOCKED"}
  BY <1>2, ProcessAssumption DEF LifecycleInv, LifecycleTypeOK
<1>10. mode' \in {"user", "sched"} /\ (mode' = "user" => s = "RUNNING" /\ j = 0)
  BY <1>1
<1> HIDE DEF j, s
<1> QED BY <1>1, <1>2, <1>3, <1>6, <1>7, <1>8, <1>9, <1>10, CallerIInv

LEMMA WaitpidIInv == ASSUME LifecycleInv, Waitpid PROVE LifecycleInv' /\ Kept
<1>1. mode = "user" /\ UNCHANGED <<graveyard, cur, mode, next_pid, home>> BY DEF Waitpid, InUser
<1>2. PICK p \in table : /\ State(p) = "ZOMBIE" /\ proc' = ClearSlots(proc, {p})
                         /\ table' = table \ {p} /\ freelist' = freelist \cup {p}
  BY DEF Waitpid
<1>3. {p} \subseteq Zombies BY <1>2 DEF Zombies
<1>4. cur \in table /\ State(cur) = "RUNNING" /\ proc[cur].join_tid = 0 BY <1>1, CallerRunning
<1>5. proc' = [ClearSlots(proc, {p}) EXCEPT ![cur] = [@ EXCEPT !.join_tid = 0, !.state = "RUNNING"]]
  <2> DEFINE C == ClearSlots(proc, {p})
  <2>1. C[cur] = proc[cur] /\ C = [C EXCEPT ![cur] = C[cur]]
    BY <1>1, <1>2, <1>4, CallerRunning DEF ClearSlots, State
  <2>2. [C[cur] EXCEPT !.join_tid = 0, !.state = "RUNNING"] = C[cur]
    BY <1>1, <1>4, <2>1, CallerRunning, RecordSame DEF State
  <2> HIDE DEF C
  <2>3. C = [C EXCEPT ![cur] = [C[cur] EXCEPT !.join_tid = 0, !.state = "RUNNING"]]
    BY <2>1, <2>2
  <2> QED BY <1>2, <2>3 DEF C
<1>6. 0 \in 0 .. MaxPid /\ mode' = "user" BY <1>1, ProcessAssumption
<1> QED BY <1>1, <1>2, <1>3, <1>4, <1>5, <1>6, CallerIInv

LEMMA DetachStepIInv == ASSUME LifecycleInv, NEW tid \in 1 .. MaxPid, Detach(tid) PROVE LifecycleInv' /\ Kept
<1>1. mode = "user" /\ UNCHANGED <<graveyard, cur, mode, next_pid, home>> BY DEF Detach, InUser
<1>2. PICK t \in Structs :
          /\ IsSibling(t, tid) /\ proc[t].group # NULL
          /\ \/ /\ State(t) = "ZOMBIE"
                /\ proc' = ClearSlots(proc, {t})
                /\ table' = table \ {t}
                /\ freelist' = freelist \cup {t}
             \/ /\ State(t) # "ZOMBIE"
                /\ proc' = [proc EXCEPT ![t].detached = TRUE]
                /\ UNCHANGED <<table, freelist>>
  BY DEF Detach
<1>3. t \in table BY <1>2 DEF IsSibling
<1>4. CASE State(t) = "ZOMBIE"
  <2>1. {t} \subseteq Zombies BY <1>3, <1>4 DEF Zombies
  <2>2. cur \in table /\ State(cur) = "RUNNING" /\ proc[cur].join_tid = 0 BY <1>1, CallerRunning
  <2>3. proc' = [ClearSlots(proc, {t}) EXCEPT ![cur] = [@ EXCEPT !.join_tid = 0, !.state = "RUNNING"]]
    <3> DEFINE C == ClearSlots(proc, {t})
    <3>1. C[cur] = proc[cur] /\ C = [C EXCEPT ![cur] = C[cur]]
      BY <1>1, <1>2, <1>4, <2>2, CallerRunning DEF ClearSlots, State
    <3>2. [C[cur] EXCEPT !.join_tid = 0, !.state = "RUNNING"] = C[cur]
      BY <1>1, <2>2, <3>1, CallerRunning, RecordSame DEF State
    <3> HIDE DEF C
    <3>3. C = [C EXCEPT ![cur] = [C[cur] EXCEPT !.join_tid = 0, !.state = "RUNNING"]]
      BY <3>1, <3>2
    <3> QED BY <1>2, <1>4, <3>3 DEF C
  <2>4. 0 \in 0 .. MaxPid /\ mode' = "user" BY <1>1, ProcessAssumption
  <2>5. table' = table \ {t} /\ freelist' = freelist \cup {t} BY <1>2, <1>4
  <2> QED BY <1>1, <2>1, <2>2, <2>3, <2>4, <2>5, CallerIInv
<1>5. CASE State(t) # "ZOMBIE"
  BY <1>1, <1>2, <1>3, <1>5, DetachIInv DEF lists
<1> QED BY <1>4, <1>5

LEMMA BlockIInv == ASSUME LifecycleInv, Block PROVE LifecycleInv' /\ Kept
<1>1. /\ mode = "user" /\ UNCHANGED <<graveyard, cur, next_pid, home>> /\ mode' = "sched"
      /\ table' = table \ {} /\ freelist' = freelist \cup {}
      /\ proc' = [proc EXCEPT ![cur].state = "BLOCKED"]
  BY DEF Block, InUser, lists
<1>2. /\ cur \in table /\ State(cur) = "RUNNING" /\ proc[cur].join_tid = 0
      /\ proc[cur] \in Records /\ ClearSlots(proc, {}) = proc
  BY <1>1, CallerRunning
<1>3. proc' = [ClearSlots(proc, {}) EXCEPT ![cur] = [@ EXCEPT !.join_tid = 0, !.state = "BLOCKED"]]
  <2>1. [proc[cur] EXCEPT !.state = "BLOCKED"] = [proc[cur] EXCEPT !.join_tid = 0, !.state = "BLOCKED"]
    BY <1>2 DEF Records
  <2> QED BY <1>1, <1>2, <2>1
<1>4. 0 \in 0 .. MaxPid /\ {} \subseteq Zombies BY ProcessAssumption
<1> QED BY <1>1, <1>2, <1>3, <1>4, CallerIInv
-----------------------------------------------------------------------------
LEMMA WakeIInv == ASSUME LifecycleInv, NEW t \in Structs, Wake(t) PROVE LifecycleInv' /\ Kept
<1>1. /\ t \in table /\ State(t) = "BLOCKED" /\ proc' = [proc EXCEPT ![t].state = "READY"]
      /\ UNCHANGED <<lists, cur, mode, next_pid, home>>
  BY DEF Wake
<1>2. Alive(t) BY <1>1 DEF Alive
<1>3. CallerRuns'
  BY <1>1 DEF LifecycleInv, LifecycleTypeOK, CallerRuns, State, lists
<1> QED BY <1>1, <1>2, <1>3, RunsIInv DEF LifecycleInv, LifecycleTypeOK

LEMMA PickIInv == ASSUME LifecycleInv, Pick PROVE LifecycleInv' /\ Kept
<1> DEFINE ready == {t \in table : State(t) \in {"READY", "RUNNING"}}
<1>1. UNCHANGED <<lists, next_pid, home>> BY DEF Pick
<1>2. CASE \E t \in ready : /\ proc' = [proc EXCEPT ![t].state = "RUNNING"]
                            /\ cur' = t
                            /\ mode' = ReturnTo(t)
  <2>1. PICK t \in ready : /\ proc' = [proc EXCEPT ![t].state = "RUNNING"]
                           /\ cur' = t
                           /\ mode' = ReturnTo(t)
    BY <1>2
  <2>2. t \in table /\ t \in Structs /\ Alive(t) BY DEF Alive, LifecycleInv, LifecycleTypeOK
  <2>3. proc[t] \in Records /\ proc'[t] = [proc[t] EXCEPT !.state = "RUNNING"]
    BY <2>1, <2>2 DEF LifecycleInv, LifecycleTypeOK, Records
  <2>4. proc'[t].state = "RUNNING" /\ proc'[t].join_tid = proc[t].join_tid
    BY <2>3 DEF Records
  <2>5. CallerRuns'
    BY <1>1, <2>1, <2>2, <2>4 DEF CallerRuns, State, ReturnTo, lists
  <2>6. cur' \in Structs \cup {NULL} /\ mode' \in {"user", "sched", "pick", "join"}
    BY <2>1, <2>2 DEF ReturnTo
  <2> QED BY <1>1, <2>1, <2>2, <2>5, <2>6, RunsIInv
<1>3. CASE cur' \in {cur, NULL} /\ mode' = "sched" /\ UNCHANGED proc
  <2>1. CallerRuns' BY <1>3 DEF CallerRuns
  <2>2. cur' \in Structs \cup {NULL} BY <1>3 DEF LifecycleInv, LifecycleTypeOK
  <2> QED BY <1>1, <1>3, <2>1, <2>2, BuriesIInv DEF lists
<1> QED BY <1>2, <1>3 DEF Pick

(* Interrupt, Reap and OtherReap, which touch no struct.                     *)
LEMMA QuietIInv ==
    ASSUME LifecycleInv, Interrupt \/ Reap \/ OtherReap \/ UNCHANGED lifecycleVars
    PROVE  LifecycleInv' /\ Kept
<1>1. /\ UNCHANGED <<proc, table, next_pid, home, cur>>
      /\ \/ \E p : ReapGraveyard(p)
         \/ UNCHANGED <<freelist, graveyard>>
      /\ mode' \in {mode, "sched", "pick"}
  BY DEF Interrupt, Reap, OtherReap, lifecycleVars, lists
<1>2. CallerRuns' BY <1>1 DEF LifecycleInv, CallerRuns, State
<1>3. cur' \in Structs \cup {NULL} /\ mode' \in {"user", "sched", "pick", "join"}
  BY <1>1 DEF LifecycleInv, LifecycleTypeOK
<1> QED BY <1>1, <1>2, <1>3, BuriesIInv

LEMMA NextLifecycle == ASSUME ~Console, LifecycleInv, [LifecycleNext]_lifecycleVars PROVE LifecycleInv' /\ Kept
<1>1. CASE ExitCall BY <1>1, ExitIInv DEF ExitCall
<1>2. CASE ThreadExit BY <1>2, ThreadExitIInv DEF ThreadExit
<1>3. CASE SpawnChild BY <1>3, SpawnIInv
<1>4. CASE ThreadCreate BY <1>4, CreateIInv
<1>5. CASE Waitpid BY <1>5, WaitpidIInv
<1>6. CASE Block BY <1>6, BlockIInv
<1>7. CASE \E tid \in 1 .. MaxPid : Join(tid) \/ Detach(tid)
  BY <1>7, JoinIInv, DetachStepIInv
<1>8. CASE \E p \in Structs : Kill(p) \/ Wake(p) \/ ShellKill(p)
  BY <1>8, KillIInv, WakeIInv DEF ShellKill
<1>9. CASE JoinResume BY <1>9, ResumeIInv
<1>10. CASE EndKilled BY <1>10, NoKillPending DEF EndKilled
<1>11. CASE Pick BY <1>11, PickIInv
<1>12. CASE Interrupt \/ Reap \/ OtherReap \/ UNCHANGED lifecycleVars BY <1>12, QuietIInv
<1>13. CASE ShellRun BY <1>13 DEF ShellRun
<1> QED BY <1>1, <1>2, <1>3, <1>4, <1>5, <1>6, <1>7, <1>8, <1>9, <1>10, <1>11, <1>12, <1>13
        DEF LifecycleNext

LEMMA Invariance == ASSUME ~Console PROVE LifecycleSpec => []LifecycleInv
<1>1. LifecycleInit => LifecycleInv BY InitLifecycle
<1>2. LifecycleInv /\ [LifecycleNext]_lifecycleVars => LifecycleInv' BY NextLifecycle
<1> QED BY <1>1, <1>2, PTL DEF LifecycleSpec
-----------------------------------------------------------------------------
(* Without the shell, a process_t is on one list only, and in the table      *)
(* exactly as long as it is somebody: nothing is freed or handed out twice.  *)
THEOREM StructsHaveOneOwner == ASSUME ~Console PROVE LifecycleSpec => []OneOwner
<1>1. LifecycleInv => OneOwner BY DEF LifecycleInv
<1> QED BY <1>1, Invariance, PTL

(* Without the shell, no thread outlives its process.                        *)
THEOREM ProcessesEndWhole == ASSUME ~Console PROVE LifecycleSpec => []NoSurvivor
<1>1. LifecycleInv => NoSurvivor BY DEF LifecycleInv, WellLed, NoSurvivor
<1> QED BY <1>1, Invariance, PTL

(* Without the shell, whoever sleeps in process_thread_join waits for a      *)
(* thread that lives: no exit, kill, detach or reuse of a struct leaves it   *)
(* asleep for good.                                                          *)
THEOREM JoinersHaveATarget == ASSUME ~Console PROVE LifecycleSpec => []NoStuckJoiner
<1>1. LifecycleInv => NoStuckJoiner BY DEF LifecycleInv
<1> QED BY <1>1, Invariance, PTL

(* Without the shell, the struct whose kernel stack CPU 0 is on is neither    *)
(* cleared nor given to another thread, whatever that stack's thread does.    *)
THEOREM StackIsKept == ASSUME ~Console PROVE LifecycleSpec => StackKept
<1>1. LifecycleInv /\ [LifecycleNext]_lifecycleVars =>
          [cur' = cur /\ cur # NULL => proc'[cur].tid = proc[cur].tid]_lifecycleVars
  BY NextLifecycle DEF Kept
<1> QED BY <1>1, Invariance, PTL DEF LifecycleSpec, StackKept

(* Types, and a table that never holds more than PROC_MAX threads.            *)
THEOREM LifecycleTypes == ASSUME ~Console PROVE LifecycleSpec => []LifecycleTypeOK
<1>1. LifecycleInv => LifecycleTypeOK BY DEF LifecycleInv
<1> QED BY <1>1, Invariance, PTL
-----------------------------------------------------------------------------
(* The SDK's Mutex and ConditionVariable.                                    *)

(* Held says that locked_ counts the threads in the critical section.        *)
Held == /\ locked = 0 => \A t \in Threads : pc[t] # "in"
        /\ MutualExclusion

(* A thread about to wait at the gate needs a signal as one that waits does.  *)
AtGate == {t \in Threads : pc[t] = "gate" \/ waiting[t] = "gate"}

Served == \/ locked = 1
          \/ "gate" \in token
          \/ \E t \in Threads : \/ pc[t] \in {"lock", "unlocked", "cvunlocked"}
                                \/ pc[t] = "atgate" /\ t \in granted

(* A thread that waits for the gate is in lock(), one for ev_ in wait().      *)
Placed == \A t \in Threads : /\ waiting[t] = "gate" => pc[t] = "atgate"
                             /\ waiting[t] = "ev" => pc[t] = "atev"
                             /\ t \in granted => waiting[t] = NoEvent

SdkInv == /\ TypeOK
          /\ Held
          /\ Placed
          /\ AtGate # {} => Served
-----------------------------------------------------------------------------
LEMMA InitSdk == ASSUME SdkAssumption, Init PROVE SdkInv
  <1>1. Main \in Threads
    BY DEF Main, SdkAssumption
  <1>2. TypeOK
    BY <1>1 DEF Init, TypeOK, PCs, NoEvent
  <1>3. Held /\ Placed /\ AtGate = {}
    BY DEF Init, Held, MutualExclusion, Placed, AtGate, NoEvent
  <1> QED BY <1>2, <1>3 DEF SdkInv

(* What a signal of the gate or of ev_ does to the two waiter sets.           *)
LEMMA SignalEffect ==
    ASSUME TypeOK, Placed, NEW t \in Threads, NEW e \in {"gate", "ev"}, E!Signal(t, e)
    PROVE /\ \/ /\ \A u \in Threads : waiting[u] # e
                /\ token' = token \cup {e}
                /\ UNCHANGED <<waiting, granted>>
             \/ \E w \in Threads : /\ waiting[w] = e
                                   /\ waiting' = [waiting EXCEPT ![w] = NoEvent]
                                   /\ granted' = granted \cup {w}
                                   /\ UNCHANGED token
          /\ UNCHANGED <<owner, result>>
  <1>1. CASE E!WaitersOf(e) = {} /\ token' = token \cup {e} /\ UNCHANGED <<waiting, granted>>
    BY <1>1 DEF E!Signal, E!WaitersOf
  <1>2. CASE (\E w \in E!WaitersOf(e) : E!Grant({w})) /\ UNCHANGED token
    <2>1. PICK w \in E!WaitersOf(e) : E!Grant({w})
      BY <1>2
    <2>2. w \in Threads /\ waiting[w] = e
      BY <2>1 DEF E!WaitersOf
    <2>3. waiting' = [waiting EXCEPT ![w] = NoEvent] /\ granted' = granted \cup {w}
      BY <2>1 DEF E!Grant, TypeOK
    <2> QED BY <1>2, <2>2, <2>3 DEF E!Signal
  <1> QED BY <1>1, <1>2 DEF E!Signal
-----------------------------------------------------------------------------
LEMMA StepIInv == ASSUME SdkAssumption, SdkInv, [Next]_vars PROVE SdkInv'
  <1> USE DEF Goto, NoEvent
  <1>0. TypeOK /\ Held /\ Placed /\ (AtGate # {} => Served)
    BY DEF SdkInv
  <1>1. CASE UNCHANGED vars
    BY <1>0, <1>1 DEF SdkInv, TypeOK, Held, MutualExclusion, Placed, AtGate, Served, vars, eventVars
  <1>2. ASSUME NEW t \in Threads, Enter(t) PROVE SdkInv'
    BY <1>0, <1>2, ZenonT(60) DEF SdkInv, TypeOK, Held, MutualExclusion, Placed, AtGate, Served,
                     eventVars, Enter, Runs, PCs
  <1>3. ASSUME NEW t \in Threads, Lock(t) PROVE SdkInv'
    <2>1. pc[t] = "lock" /\ UNCHANGED <<owner, token, waiting, granted, result, run, preemptive, owed>>
      BY <1>3 DEF Lock, eventVars
    <2>2. \/ locked = 0 /\ locked' = 1 /\ pc' = [pc EXCEPT ![t] = "in"]
          \/ locked = 1 /\ locked' = 1 /\ pc' = [pc EXCEPT ![t] = "gate"]
      BY <1>0, <1>3 DEF Lock, TryLock, TypeOK
    <2>3. TypeOK' /\ Placed'
      BY <1>0, <2>1, <2>2 DEF TypeOK, Placed, PCs
    <2>4. ASSUME NEW u \in Threads, NEW v \in Threads, pc'[u] = "in", pc'[v] = "in"
          PROVE u = v
      <3>1. CASE locked = 0 /\ pc' = [pc EXCEPT ![t] = "in"]
        <4>1. pc[u] # "in" /\ pc[v] # "in"
          BY <1>0, <3>1 DEF Held
        <4> QED BY <1>0, <2>4, <3>1, <4>1 DEF TypeOK
      <3>2. CASE pc' = [pc EXCEPT ![t] = "gate"]
        <4>1. pc[u] = "in" /\ pc[v] = "in"
          BY <1>0, <2>4, <3>2 DEF TypeOK
        <4> QED BY <1>0, <4>1 DEF Held, MutualExclusion
      <3> QED BY <2>2, <3>1, <3>2
    <2>5. Held'
      BY <2>2, <2>4 DEF Held, MutualExclusion
    <2> QED BY <2>2, <2>3, <2>5 DEF SdkInv, Served
  <1>4. ASSUME NEW t \in Threads, TryLockOnce(t) PROVE SdkInv'
    <2>1. pc[t] = "out" /\ UNCHANGED <<owner, token, waiting, granted, result, run, preemptive, owed>>
      BY <1>4 DEF TryLockOnce, eventVars
    <2>2. locked = 0 /\ locked' = 1 /\ pc' = [pc EXCEPT ![t] = "in"]
      BY <1>4 DEF TryLockOnce
    <2>3. TypeOK' /\ Placed'
      BY <1>0, <2>1, <2>2 DEF TypeOK, Placed, PCs
    <2>4. \A u \in Threads : pc[u] # "in"
      BY <1>0, <2>2 DEF Held
    <2>5. \A u \in Threads : pc'[u] = "in" => u = t
      BY <1>0, <2>2, <2>4 DEF TypeOK
    <2>6. Held'
      BY <2>2, <2>5 DEF Held, MutualExclusion
    <2> QED BY <2>2, <2>3, <2>6 DEF SdkInv, Served
  <1>5. ASSUME NEW t \in Threads, WaitGate(t) PROVE SdkInv'
    <2>1. CASE E!Take(t, "gate")
      <3>1. /\ pc[t] = "gate" /\ token' = token \ {"gate"}
            /\ result' = [result EXCEPT ![t] = "OK"]
            /\ UNCHANGED <<owner, waiting, granted, locked, run, preemptive>>
        BY <1>5, <2>1 DEF WaitGate, E!Take
      <3>2. pc' = [pc EXCEPT ![t] = "lock"] /\ owed' \subseteq Threads
        BY <1>0, <1>5, <2>1 DEF WaitGate, Wait, E!Take, E!Block, TypeOK
      <3>3. TypeOK'
        BY <1>0, <3>1, <3>2 DEF TypeOK, PCs
      <3>4. Held' /\ Placed'
        BY <1>0, <3>1, <3>2 DEF TypeOK, Held, MutualExclusion, Placed
      <3>5. Served'
        BY <1>0, <3>1, <3>2 DEF TypeOK, Served
      <3> QED BY <3>3, <3>4, <3>5 DEF SdkInv
    <2>2. CASE E!Block(t, "gate")
      <3>1. /\ pc[t] = "gate" /\ t \notin granted
            /\ waiting' = [waiting EXCEPT ![t] = "gate"]
            /\ result' = [result EXCEPT ![t] = "none"]
            /\ UNCHANGED <<owner, token, granted, locked, run, preemptive>>
        BY <1>5, <2>2 DEF WaitGate, E!Block, E!Idle
      <3>2. pc' = [pc EXCEPT ![t] = "atgate"] /\ owed' \subseteq Threads
        BY <1>0, <1>5, <2>2 DEF WaitGate, Wait, E!Take, E!Block, E!Live, TypeOK
      <3>3. TypeOK'
        BY <1>0, <3>1, <3>2 DEF TypeOK, PCs
      <3>4. Held' /\ Placed'
        BY <1>0, <3>1, <3>2 DEF TypeOK, Held, MutualExclusion, Placed
      <3>5. AtGate' # {} => AtGate # {}
        BY <1>0, <3>1, <3>2 DEF TypeOK, AtGate
      <3>6. Served => Served'
        BY <1>0, <3>1, <3>2 DEF TypeOK, Served
      <3> QED BY <1>0, <3>3, <3>4, <3>5, <3>6 DEF SdkInv
    <2> QED BY <1>5, <2>1, <2>2 DEF WaitGate, Wait
  <1>6. ASSUME NEW t \in Threads, WaitEv(t) PROVE SdkInv'
    <2>1. CASE E!Take(t, "ev")
      <3>1. /\ pc[t] = "cvwait" /\ token' = token \ {"ev"}
            /\ result' = [result EXCEPT ![t] = "OK"]
            /\ UNCHANGED <<owner, waiting, granted, locked, run, preemptive>>
        BY <1>6, <2>1 DEF WaitEv, E!Take
      <3>2. pc' = [pc EXCEPT ![t] = "lock"] /\ owed' \subseteq Threads
        BY <1>0, <1>6, <2>1 DEF WaitEv, Wait, E!Take, E!Block, TypeOK
      <3>3. TypeOK'
        BY <1>0, <3>1, <3>2 DEF TypeOK, PCs
      <3>4. Held' /\ Placed'
        BY <1>0, <3>1, <3>2 DEF TypeOK, Held, MutualExclusion, Placed
      <3>5. Served'
        BY <1>0, <3>1, <3>2 DEF TypeOK, Served
      <3> QED BY <3>3, <3>4, <3>5 DEF SdkInv
    <2>2. CASE E!Block(t, "ev")
      <3>1. /\ pc[t] = "cvwait" /\ t \notin granted
            /\ waiting' = [waiting EXCEPT ![t] = "ev"]
            /\ result' = [result EXCEPT ![t] = "none"]
            /\ UNCHANGED <<owner, token, granted, locked, run, preemptive>>
        BY <1>6, <2>2 DEF WaitEv, E!Block, E!Idle
      <3>2. pc' = [pc EXCEPT ![t] = "atev"] /\ owed' \subseteq Threads
        BY <1>0, <1>6, <2>2 DEF WaitEv, Wait, E!Take, E!Block, E!Live, TypeOK
      <3>3. TypeOK'
        BY <1>0, <3>1, <3>2 DEF TypeOK, PCs
      <3>4. Held' /\ Placed'
        BY <1>0, <3>1, <3>2 DEF TypeOK, Held, MutualExclusion, Placed
      <3>5. AtGate' # {} => AtGate # {}
        BY <1>0, <3>1, <3>2 DEF TypeOK, AtGate
      <3>6. Served => Served'
        BY <1>0, <3>1, <3>2 DEF TypeOK, Served
      <3> QED BY <1>0, <3>3, <3>4, <3>5, <3>6 DEF SdkInv
    <2> QED BY <1>6, <2>1, <2>2 DEF WaitEv, Wait
  <1>7. ASSUME NEW t \in Threads, WaitReturns(t) PROVE SdkInv'
    BY <1>0, <1>7, ZenonT(60) DEF SdkInv, TypeOK, Held, MutualExclusion, Placed, AtGate, Served,
                     eventVars, WaitReturns, Runs, PCs, E!Return
  <1>8. ASSUME NEW t \in Threads, WaitEvTimesOut(t) PROVE SdkInv'
    BY <1>0, <1>8, ZenonT(60) DEF SdkInv, TypeOK, Held, MutualExclusion, Placed, AtGate, Served,
                     eventVars, WaitEvTimesOut, PCs, E!Timeout
  <1>9. ASSUME NEW t \in Threads, Release(t) PROVE SdkInv'
    <2>1. /\ pc[t] = "in" /\ locked' = 0
          /\ UNCHANGED <<owner, token, waiting, granted, result, run, preemptive, owed>>
      BY <1>9 DEF Release, eventVars
    <2>2. PICK l \in {"unlocked", "cvunlocked"} : pc' = [pc EXCEPT ![t] = l]
      BY <1>9 DEF Release
    <2>3. TypeOK' /\ Placed'
      BY <1>0, <2>1, <2>2 DEF TypeOK, Placed, PCs
    <2>4. Held'
      BY <1>0, <2>1, <2>2 DEF TypeOK, Held, MutualExclusion
    <2>5. Served'
      BY <1>0, <2>1, <2>2 DEF TypeOK, Served
    <2> QED BY <2>3, <2>4, <2>5 DEF SdkInv
  <1>10. ASSUME NEW t \in Threads, SignalGate(t) PROVE SdkInv'
    <2>1. SignalGate(t) /\ E!Signal(t, "gate")
      BY <1>10 DEF SignalGate
    <2>2. pc[t] \in {"unlocked", "cvunlocked"} /\ UNCHANGED <<locked, run, preemptive, owed>>
          /\ pc' = [pc EXCEPT ![t] = IF pc[t] = "unlocked" THEN "out" ELSE "cvwait"]
      BY <2>1 DEF SignalGate
    <2>3. t \notin granted /\ waiting[t] = NoEvent
      BY <2>1 DEF E!Signal, E!Idle
    <2>4. CASE /\ \A u \in Threads : waiting[u] # "gate"
               /\ token' = token \cup {"gate"}
               /\ UNCHANGED <<waiting, granted, owner, result>>
      BY <1>0, <2>2, <2>3, <2>4, ZenonT(60) DEF SdkInv, TypeOK, Held, MutualExclusion, Placed, AtGate,
                     Served, PCs
    <2>5. ASSUME NEW w \in Threads, waiting[w] = "gate",
                 waiting' = [waiting EXCEPT ![w] = NoEvent],
                 granted' = granted \cup {w}, UNCHANGED <<token, owner, result>>
          PROVE SdkInv'
      <3>1. w # t /\ pc[w] = "atgate" /\ pc'[w] = "atgate" /\ w \in granted'
        BY <1>0, <2>2, <2>3, <2>5 DEF TypeOK, Placed
      <3>2. TypeOK'
        BY <1>0, <2>2, <2>3, <2>5, <3>1 DEF TypeOK, PCs
      <3>3. Held' /\ Placed'
        BY <1>0, <2>2, <2>3, <2>5, <3>1, ZenonT(60) DEF TypeOK, Held, MutualExclusion, Placed, PCs
      <3>4. Served'
        BY <3>1 DEF Served
      <3> QED BY <3>2, <3>3, <3>4 DEF SdkInv
    <2> QED BY <1>0, <2>1, <2>4, <2>5, SignalEffect
  <1>11. ASSUME NEW t \in Threads, E!Signal(t, "ev"), UNCHANGED <<locked, pc, run, preemptive, owed>>
         PROVE SdkInv'
    <2>1. CASE /\ \A u \in Threads : waiting[u] # "ev"
               /\ token' = token \cup {"ev"}
               /\ UNCHANGED <<waiting, granted, owner, result>>
      BY <1>0, <1>11, <2>1 DEF SdkInv, TypeOK, Held, MutualExclusion, Placed, AtGate, Served
    <2>2. ASSUME NEW w \in Threads, waiting[w] = "ev",
                 waiting' = [waiting EXCEPT ![w] = NoEvent],
                 granted' = granted \cup {w}, UNCHANGED <<token, owner, result>>
          PROVE SdkInv'
      BY <1>0, <1>11, <2>2 DEF SdkInv, TypeOK, Held, MutualExclusion, Placed, AtGate, Served
    <2> QED BY <1>0, <1>11, <2>1, <2>2, SignalEffect
  <1>12. ASSUME NEW t \in Threads, NotifyAll(t) PROVE SdkInv'
    <2>1. /\ waiting' = [u \in Threads |-> IF waiting[u] = "ev" THEN NoEvent ELSE waiting[u]]
          /\ granted' = granted \cup {u \in Threads : waiting[u] = "ev"}
          /\ token \subseteq token' /\ token' \subseteq token \cup {"ev"}
          /\ UNCHANGED <<owner, result, locked, pc, run, preemptive>>
      BY <1>12 DEF NotifyAll, WakeAll, E!Broadcast, E!Grant, E!WaitersOf
    <2>2. owed' \subseteq Threads
      BY <1>0, <1>12 DEF NotifyAll, TypeOK
    <2>3. TypeOK'
      BY <1>0, <2>1, <2>2 DEF TypeOK, Placed
    <2>4. Held' /\ Placed'
      BY <1>0, <2>1 DEF TypeOK, Held, MutualExclusion, Placed
    <2>5. AtGate' = AtGate /\ (Served => Served')
      BY <1>0, <2>1 DEF TypeOK, AtGate, Served
    <2> QED BY <1>0, <2>3, <2>4, <2>5 DEF SdkInv
  <1>13. ASSUME NEW t \in Threads, Dispatch(t) PROVE SdkInv'
    BY <1>0, <1>13 DEF SdkInv, TypeOK, Held, MutualExclusion, Placed, AtGate, Served,
                     eventVars, Dispatch
  <1> QED BY <1>1, <1>2, <1>3, <1>4, <1>5, <1>6, <1>7, <1>8, <1>9, <1>10, <1>11, <1>12, <1>13
          DEF Next, NotifyOne
-----------------------------------------------------------------------------
(* The invariant holds in every run.                                         *)
THEOREM SdkInvariant == Spec => []SdkInv
  <1>1. Init => SdkInv
    BY InitSdk, SdkAssumption
  <1>2. SdkInv /\ [Next]_vars => SdkInv'
    BY StepIInv, SdkAssumption
  <1> QED BY <1>1, <1>2, PTL DEF Spec

(* Mutex lets one thread at a time between lock() and unlock(), also when a   *)
(* waiter is woken and another thread takes the mutex before it.             *)
THEOREM MutexSafety == Spec => []MutualExclusion
  <1>1. SdkInv => MutualExclusion
    BY DEF SdkInv, Held
  <1> QED BY <1>1, SdkInvariant, PTL

(* The signal of unlock() is never lost between the failed swap of lock() and *)
(* its wait: a thread asleep at the gate is owed one or the mutex is held.   *)
THEOREM LockerSafety == Spec => []NoStuckLocker
  <1>1. SdkInv => NoStuckLocker
    <2> SUFFICES ASSUME SdkInv, E!WaitersOf("gate") # {} PROVE Served
      BY DEF NoStuckLocker, Served
    <2> QED BY DEF SdkInv, AtGate, E!WaitersOf
  <1> QED BY <1>1, SdkInvariant, PTL

(* The variables keep their types, and a thread that waits or has been let    *)
(* through is at one of the two waits.                                       *)
THEOREM SdkTypeCorrect == Spec => []TypeOK
  <1>1. SdkInv => TypeOK
    BY DEF SdkInv
  <1> QED BY <1>1, SdkInvariant, PTL
-----------------------------------------------------------------------------
(* Without preemption only the thread that has the CPU can be between the    *)
(* release of the mutex and the wait for ev_, and a thread that is owed a     *)
(* wake-up has it already: it is on its way out of that wait.                *)
Unseen == {"cvunlocked", "cvwait"}
Reached == ~preemptive =>
    /\ \A t \in Threads : pc[t] \in Unseen => run = t
    /\ \A t \in owed : pc[t] = "atev" /\ waiting[t] # "ev"

LEMMA StepReached ==
    ASSUME SdkAssumption, SdkInv, Reached, [Next]_vars
    PROVE  Reached'
<1> SUFFICES ASSUME ~preemptive' PROVE Reached' BY DEF Reached
<1> USE DEF Goto, NoEvent
<1>0. TypeOK /\ Placed /\ "ev" # NoEvent BY DEF SdkInv
<1>1. preemptive' = preemptive
  BY DEF Next, vars, eventVars, Enter, Lock, TryLockOnce, WaitGate, WaitEv, WaitReturns, WaitEvTimesOut, Release,
         SignalGate, NotifyOne, NotifyAll, Dispatch
<1>2. ASSUME NEW t \in Threads, Runs(t) PROVE run = t BY <1>1, <1>2, Zenon DEF Runs
<1>3. /\ \A t \in Threads : pc[t] \in Unseen => run = t
      /\ \A t \in owed : pc[t] = "atev" /\ waiting[t] # "ev"
  BY <1>1 DEF Reached
<1>4. pc \in [Threads -> PCs] /\ waiting \in [Threads -> {"gate", "ev", NoEvent}] /\ owed \subseteq Threads
  BY <1>0 DEF TypeOK
<1>5. CASE UNCHANGED vars
  BY <1>3, <1>5 DEF Reached, vars, eventVars
<1>6. ASSUME NEW t \in Threads, NEW l, l \notin Unseen, pc[t] # "atev", pc' = [pc EXCEPT ![t] = l],
             UNCHANGED <<waiting, owed, run>>
      PROVE  Reached'
  BY <1>3, <1>4, <1>6 DEF Reached
<1>7. ASSUME NEW t \in Threads, Enter(t) PROVE Reached'
  <2>1. pc' = [pc EXCEPT ![t] = "lock"] /\ pc[t] = "out" /\ UNCHANGED <<waiting, owed, run>>
    BY <1>7 DEF Enter, eventVars
  <2> QED BY <1>6, <2>1 DEF Unseen
<1>8. ASSUME NEW t \in Threads, Lock(t) PROVE Reached'
  <2>1. pc[t] = "lock" /\ UNCHANGED <<waiting, owed, run>> BY <1>8 DEF Lock, eventVars
  <2>2. \E l \in {"in", "gate"} : pc' = [pc EXCEPT ![t] = l] BY <1>8 DEF Lock, TryLock
  <2> QED BY <1>6, <2>1, <2>2 DEF Unseen
<1>9. ASSUME NEW t \in Threads, TryLockOnce(t) PROVE Reached'
  <2>1. pc' = [pc EXCEPT ![t] = "in"] /\ pc[t] = "out" /\ UNCHANGED <<waiting, owed, run>>
    BY <1>9 DEF TryLockOnce, eventVars
  <2> QED BY <1>6, <2>1 DEF Unseen
<1>10. ASSUME NEW t \in Threads, NEW e \in {"gate", "ev"}, NEW l \in {"lock", "atgate", "atev"},
             pc[t] \in {"gate", "cvwait"}, pc' = [pc EXCEPT ![t] = l],
             waiting' = waiting \/ waiting' = [waiting EXCEPT ![t] = e],
             owed' \subseteq owed, run' = run
      PROVE  Reached'
  <2>1. t \notin owed BY <1>3, <1>10
  <2>2. \A u \in Threads \ {t} : pc'[u] = pc[u] /\ waiting'[u] = waiting[u] BY <1>4, <1>10
  <2>3. pc'[t] \notin Unseen BY <1>4, <1>10 DEF Unseen
  <2> QED BY <1>3, <1>4, <1>10, <2>1, <2>2, <2>3 DEF Reached
<1>11. ASSUME NEW t \in Threads, WaitGate(t) PROVE Reached'
  <2>1. pc[t] = "gate" /\ UNCHANGED <<owed, run>> /\ Wait(t, "gate", "atgate") BY <1>11 DEF WaitGate
  <2>2. \/ waiting' = waiting /\ pc' = [pc EXCEPT ![t] = "lock"]
        \/ waiting' = [waiting EXCEPT ![t] = "gate"] /\ pc' = [pc EXCEPT ![t] = "atgate"]
    BY <2>1 DEF Wait, E!Take, E!Block
  <2> QED BY <1>10, <2>1, <2>2
<1>12. ASSUME NEW t \in Threads, WaitEv(t) PROVE Reached'
  <2>1. pc[t] = "cvwait" /\ owed' \subseteq owed /\ run' = run /\ Wait(t, "ev", "atev") BY <1>12 DEF WaitEv
  <2>2. \/ waiting' = waiting /\ pc' = [pc EXCEPT ![t] = "lock"]
        \/ waiting' = [waiting EXCEPT ![t] = "ev"] /\ pc' = [pc EXCEPT ![t] = "atev"]
    BY <2>1 DEF Wait, E!Take, E!Block
  <2> QED BY <1>10, <2>1, <2>2
<1>13. ASSUME NEW t \in Threads, pc' = [pc EXCEPT ![t] = "lock"], owed' = owed \ {t}, run' = run,
              waiting' = waiting \/ waiting' = [waiting EXCEPT ![t] = NoEvent]
       PROVE  Reached'
  BY <1>3, <1>4, <1>13 DEF Reached, Unseen
<1>14. ASSUME NEW t \in Threads, WaitReturns(t) PROVE Reached'
  BY <1>13, <1>14 DEF WaitReturns, E!Return
<1>15. ASSUME NEW t \in Threads, WaitEvTimesOut(t) PROVE Reached'
  BY <1>13, <1>15 DEF WaitEvTimesOut, E!Timeout
<1>16. ASSUME NEW t \in Threads, Release(t) PROVE Reached'
  <2>1. pc[t] = "in" /\ run = t /\ UNCHANGED <<waiting, owed, run>> BY <1>16, <1>2 DEF Release, eventVars
  <2>2. PICK l \in {"unlocked", "cvunlocked"} : pc' = [pc EXCEPT ![t] = l] BY <1>16 DEF Release
  <2> QED BY <1>3, <1>4, <2>1, <2>2 DEF Reached
<1>17. ASSUME NEW t \in Threads, NEW e \in {"gate", "ev"}, E!Signal(t, e)
       PROVE  \A u \in Threads : waiting'[u] \in {waiting[u], NoEvent}
  BY <1>0, <1>4, <1>17, SignalEffect
<1>18. ASSUME NEW t \in Threads, SignalGate(t) PROVE Reached'
  <2>1. /\ pc[t] \in {"unlocked", "cvunlocked"} /\ run = t /\ UNCHANGED <<owed, run>>
        /\ pc' = [pc EXCEPT ![t] = IF pc[t] = "unlocked" THEN "out" ELSE "cvwait"]
    BY <1>18, <1>2 DEF SignalGate
  <2>2. \A u \in Threads : waiting'[u] \in {waiting[u], NoEvent} BY <1>17, <1>18 DEF SignalGate
  <2> QED BY <1>3, <1>4, <2>1, <2>2 DEF Reached
<1>19. ASSUME NEW t \in Threads, NotifyOne(t) PROVE Reached'
  <2>1. UNCHANGED <<owed, run, pc>> BY <1>19 DEF NotifyOne
  <2>2. \A u \in Threads : waiting'[u] \in {waiting[u], NoEvent} BY <1>17, <1>19 DEF NotifyOne
  <2> QED BY <1>3, <1>4, <2>1, <2>2 DEF Reached
<1>20. ASSUME NEW t \in Threads, NotifyAll(t) PROVE Reached'
  <2>0. run = t BY <1>20, <1>2 DEF NotifyAll
  <2>1. /\ pc[t] \in {"out", "in"} /\ run = t /\ UNCHANGED <<pc, run>>
        /\ waiting' = [u \in Threads |-> IF waiting[u] = "ev" THEN NoEvent ELSE waiting[u]]
        /\ owed' = owed \cup {u \in Threads : InWait(u)}
    BY <2>0, <1>20 DEF NotifyAll, WakeAll, E!Broadcast, E!Grant, E!WaitersOf
  <2>2. \A u \in Threads : InWait(u) => pc[u] = "atev" BY <1>3, <2>1 DEF InWait, Unseen
  <2> QED BY <1>0, <1>3, <1>4, <2>1, <2>2 DEF Reached
<1>21. ASSUME NEW t \in Threads, Dispatch(t) PROVE Reached'
  <2>1. UNCHANGED <<waiting, pc, owed>> /\ (waiting[run] # NoEvent \/ pc[run] \in {"out", "in"})
    BY <1>21 DEF Dispatch, eventVars
  <2>2. pc[run] \notin Unseen BY <1>0, <2>1 DEF TypeOK, Unseen
  <2> QED BY <1>3, <2>1, <2>2 DEF Reached
<1> QED BY <1>5, <1>7, <1>8, <1>9, <1>11, <1>12, <1>14, <1>15, <1>16, <1>18, <1>19, <1>20, <1>21 DEF Next

(* notify_all() reaches every thread in ConditionVariable.wait (sync.hpp), for *)
(* any number of threads, as long as a thread keeps the CPU between the        *)
(* unlock and the wait.                                                     *)
THEOREM NotifyAllReaches == Spec => []NotifyAllReachesAll
<1>1. Init => Reached BY DEF Init, Reached, Unseen
<1>2. SdkInv /\ Reached /\ [Next]_vars => Reached' BY StepReached, SdkAssumption
<1>3. Reached => NotifyAllReachesAll BY DEF Reached, NotifyAllReachesAll
<1> QED BY <1>1, <1>2, <1>3, SdkInvariant, PTL DEF Spec
=============================================================================
