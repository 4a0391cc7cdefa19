---------------------------- MODULE ProcSnapshot ----------------------------
(***************************************************************************)
(* The page of processes that programs have mapped: when the kernel makes  *)
(* it anew (kernel/process.c), how a program waits for that (SYS_PROC_WAIT,*)
(* kernel/syscall.c), and how it reads the page while the kernel may write *)
(* it (sdk/core/process.cpp).                                              *)
(*                                                                         *)
(* Calls run on CPU 0 with interrupts off and are one step each, but for   *)
(* the sleep in SYS_PROC_WAIT.  A reader is interrupted between any two of *)
(* its reads.  What stands in an entry besides the process is left out.    *)
(***************************************************************************)
EXTENDS Integers, FiniteSets

CONSTANTS
    Programs,       \* processes that come and go
    Watchers,       \* processes that wait for changes
    FRESH,          \* ticks a page without changes is good for (16)
    MaxNow,         \* bound on the ticks
    MaxChanges      \* bound on the changes of the table and the waits

ASSUME SnapshotAssumption ==
    /\ Programs \cap Watchers = {}
    /\ FRESH \in Nat /\ MaxNow \in Nat /\ MaxChanges \in Nat

VARIABLES
    life,      \* program -> "none", "live" or "zombie"
    snap,       \* [page, dirty, last, watch]: the page with its seq, generation and entries;
                \* whether the table changed since; its tick; watcher -> what it does
    now,        \* scheduler_tick_count()
    reader,     \* read_snapshot: [pc, s1, info, list]
    changes

snapshotVars == <<life, snap, now, reader, changes>>

Up(st) == {p \in Programs : st[p] = "live"} \cup Watchers
NotReading == [pc |-> "idle", s1 |-> 0, info |-> {}, list |-> {}]

SnapshotInit ==
    /\ life = [p \in Programs |-> "none"]
    /\ snap = [page |-> [seq |-> 0, generation |-> 0, info |-> {}, list |-> {}], dirty |-> TRUE, last |-> 0,
               watch |-> [w \in Watchers |-> [pc |-> "runs", gen |-> 0, proc_wait_gen |-> 0]]]
    /\ now = 1
    /\ reader = NotReading
    /\ changes = 0

MarkedDirty(s) == [s EXCEPT !.dirty = TRUE]

\* process_wake clears what the process waits for.
Woken(s, w) == [s.watch[w] EXCEPT !.pc = "woken", !.proc_wait_gen = 0]

\* process_wake_proc_waiters
ToldWatchers(s, gen) ==
    [s EXCEPT !.watch = [w \in Watchers |->
        IF s.watch[w].pc = "asleep" /\ s.watch[w].proc_wait_gen \notin {0, gen}
        THEN Woken(s, w) ELSE s.watch[w]]]

Bumped(s) ==
    IF s.dirty THEN ToldWatchers([s EXCEPT !.page.generation = @ + 1], s.page.generation + 1) ELSE s

Fresh16(s) == ~s.dirty /\ s.last # 0 /\ now - s.last < FRESH

\* process_snapshot_publish, which also forgets that waking the watchers changed the table.
PublishPage(s, st) ==
    LET b == Bumped(s)
    IN  IF Fresh16(s) THEN s
        ELSE [page |-> [seq |-> b.page.seq + 2, generation |-> b.page.generation,
                        info |-> Up(st), list |-> Up(st)],
              dirty |-> FALSE, last |-> now, watch |-> b.watch]

Changing == changes < MaxChanges /\ changes' = changes + 1

\* process_create_user: the page is not made anew.
SpawnProgram(p) ==
    /\ Changing
    /\ life[p] = "none"
    /\ life' = [life EXCEPT ![p] = "live"]
    /\ snap' = MarkedDirty(snap)
    /\ UNCHANGED <<now, reader>>

\* A mutant: the table is not marked as changed.
EndUnmarked(p, st) == snap' = PublishPage(snap, st)

\* The end of process_exit and process_kill.
EndMarked(p, st) == snap' = PublishPage(MarkedDirty(snap), st)

EndProgram(p, st) ==
    /\ Changing
    /\ life[p] = "live"
    /\ life' = st
    /\ EndMarked(p, st)
    /\ UNCHANGED <<now, reader>>

ReapProgram(p) ==
    /\ Changing
    /\ life[p] = "zombie"
    /\ life' = [life EXCEPT ![p] = "none"]
    /\ snap' = MarkedDirty(snap)
    /\ UNCHANGED <<now, reader>>

\* A thread is made, blocks, is woken or ends.
TableChanges ==
    /\ Changing
    /\ snap' = MarkedDirty(snap)
    /\ UNCHANGED <<life, now, reader>>

\* SYS_PROC_MAP marks the table first, SYS_PROC_LIST and SYS_SYSINFO do not.
ProcMap  == Changing /\ snap' = PublishPage(MarkedDirty(snap), life) /\ UNCHANGED <<life, now, reader>>
ProcList == snap' = PublishPage(snap, life) /\ UNCHANGED <<life, now, reader, changes>>

\* SYS_PROC_WAIT with the generation the watcher has; process_block marks the table.
ProcWait(w) ==
    LET s == PublishPage(snap, life)
        g == s.watch[w].gen
    IN  /\ Changing
        /\ snap.watch[w].pc = "runs"
        /\ snap' = IF s.page.generation # g THEN [s EXCEPT !.watch[w].gen = s.page.generation]
                   ELSE MarkedDirty([s EXCEPT !.watch[w].pc = "asleep", !.watch[w].proc_wait_gen = g])
        /\ UNCHANGED <<life, now, reader>>

ProcWaitEnds(w) ==
    LET s == PublishPage([snap EXCEPT !.watch[w].pc = "runs", !.watch[w].proc_wait_gen = 0], life)
    IN  /\ snap.watch[w].pc = "woken"
        /\ snap' = [s EXCEPT !.watch[w].gen = s.page.generation]
        /\ UNCHANGED <<life, now, reader, changes>>

SnapshotTick ==
    /\ now < MaxNow
    /\ now' = now + 1
    /\ \E late \in SUBSET {w \in Watchers : snap.watch[w].pc = "asleep"} :
          snap' = IF late = {} THEN snap
                  ELSE MarkedDirty([snap EXCEPT !.watch = [w \in Watchers |->
                           IF w \in late THEN Woken(snap, w) ELSE snap.watch[w]]])
    /\ UNCHANGED <<life, reader, changes>>

\* read_snapshot: the sequence number, the figures, the entries, the number again.
ReadSeq ==
    /\ reader.pc \in {"idle", "got"}
    /\ reader' = [reader EXCEPT !.pc = "info", !.s1 = snap.page.seq]
    /\ UNCHANGED <<life, snap, now, changes>>
ReadInfo ==
    /\ reader.pc = "info"
    /\ reader' = [reader EXCEPT !.pc = "entries", !.info = snap.page.info]
    /\ UNCHANGED <<life, snap, now, changes>>
ReadEntries ==
    /\ reader.pc = "entries"
    /\ reader' = [reader EXCEPT !.pc = "check", !.list = snap.page.list]
    /\ UNCHANGED <<life, snap, now, changes>>
Recheck ==
    /\ reader.pc = "check"
    /\ reader' = IF reader.s1 = snap.page.seq THEN [reader EXCEPT !.pc = "got"] ELSE NotReading
    /\ UNCHANGED <<life, snap, now, changes>>

SnapshotNext ==
    \/ \E p \in Programs :
          \/ SpawnProgram(p) \/ ReapProgram(p)
          \/ \E st \in {[life EXCEPT ![p] = e] : e \in {"none", "zombie"}} : EndProgram(p, st)
    \/ TableChanges \/ ProcMap \/ ProcList
    \/ \E w \in Watchers : ProcWait(w) \/ ProcWaitEnds(w)
    \/ SnapshotTick
    \/ ReadSeq \/ ReadInfo \/ ReadEntries \/ Recheck

SnapshotSpec == SnapshotInit /\ [][SnapshotNext]_snapshotVars

\* -------------------------------------------------------- properties

\* The page shows nobody who has ended, whatever was published or put off before; who sleeps
\* in SYS_PROC_WAIT has the page's generation, so that no end of a program was missed; and
\* what a reader takes for a sample is of one page, however often it was interrupted
\* (process.c:462-554, 893, 950; syscall.c:451-483; process.cpp:31-73).
SnapshotTells ==
    /\ snap.page.list \subseteq Up(life)
    /\ \A w \in Watchers : snap.watch[w].pc = "asleep" => snap.watch[w].gen = snap.page.generation
    /\ reader.pc = "got" => reader.info = reader.list

=============================================================================
