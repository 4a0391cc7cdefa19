------------------------------ MODULE FsNotify ------------------------------
(***************************************************************************)
(* Change notification (drivers/vfs/vfs_fsnotify.c): watches on paths, each*)
(* with a ring of events that loses its oldest entry when it is full.  A   *)
(* path is the sequence of its characters, because what a watch matches is *)
(* decided on characters.                                                  *)
(***************************************************************************)
EXTENDS Integers, Sequences, FiniteSets, SequencesExt

CONSTANTS
    WATCH_MAX, EVENT_MAX,
    Watched,        \* paths programs watch
    Changed,        \* paths events are about
    Masks,          \* kinds of events
    NoWatch,
    MaxWd,          \* bound on the watch descriptors given out
    MaxLog          \* bound on the events of a watch nobody read

Ring == 0..(EVENT_MAX - 1)
\* watch_t; a program does not watch the empty path.
WatchRecords == [wd : Nat, path : Watched, mask : SUBSET Masks, head : Ring, tail : Ring, count : 0..EVENT_MAX]

ASSUME FsNotifyAssumption ==
    /\ WATCH_MAX \in Nat \ {0} /\ EVENT_MAX \in Nat \ {0} /\ MaxWd \in Nat /\ MaxLog \in Nat
    /\ Watched \cup Changed \subseteq Seq(STRING) /\ <<>> \notin Watched
    /\ NoWatch \notin WatchRecords

VARIABLES
    watches,    \* slot -> NoWatch or [wd, path, mask, head, tail, count]
    ring,       \* slot -> its array q, which outlives the watch
    nextWd,     \* g_next_wd
    log         \* wd -> every event about its path since it was made that was not read

notifyVars == <<watches, ring, nextWd, log>>
WatchSlots == 1..WATCH_MAX
NoEvent == [mask |-> 0, path |-> <<>>]

NotifyInit ==
    /\ watches = [i \in WatchSlots |-> NoWatch]
    /\ ring = [i \in WatchSlots |-> [k \in Ring |-> NoEvent]]
    /\ nextWd = 1
    /\ log = <<>>

InUseWatches == {i \in WatchSlots : watches[i] # NoWatch}

AddWatch(path, mask) ==
    LET i == CHOOSE x \in WatchSlots \ InUseWatches : \A y \in WatchSlots \ InUseWatches : x <= y
    IN  /\ InUseWatches # WatchSlots /\ nextWd <= MaxWd
        /\ watches' = [watches EXCEPT ![i] = [wd |-> nextWd, path |-> path, mask |-> mask,
                                              head |-> 0, tail |-> 0, count |-> 0]]
        /\ nextWd' = nextWd + 1
        /\ log' = Append(log, <<>>)
        /\ UNCHANGED ring

RmWatch(wd) ==
    \E i \in InUseWatches :
        /\ watches[i].wd = wd
        /\ watches' = [watches EXCEPT ![i] = NoWatch]
        /\ UNCHANGED <<ring, nextWd, log>>

\* strncmp over the watch's length; a prefix counts only up to a slash or the end.
MatchesPrefix(w, path, mask) == mask \in w.mask /\ IsPrefix(w.path, path)

Matches(w, path, mask) ==
    LET n == Len(w.path)
    IN  /\ mask \in w.mask
        /\ IsPrefix(w.path, path)
        /\ w.path[n] = "/" \/ Len(path) = n \/ path[n + 1] = "/"

\* A full ring gives up its oldest event.
MakeRoom(w) == IF w.count >= EVENT_MAX
               THEN [w EXCEPT !.head = (@ + 1) % EVENT_MAX, !.count = @ - 1] ELSE w
Pushed(w) == [MakeRoom(w) EXCEPT !.tail = (@ + 1) % EVENT_MAX, !.count = @ + 1]

\* What a watch on a path is for: the path itself, and everything below the directory it names.
Under(w, path) ==
    LET directory == IF Last(w.path) = "/" THEN w.path ELSE Append(w.path, "/")
    IN  path = w.path \/ IsPrefix(directory, path)

\* vfs_fsnotify_event, which unlink, rmdir, rename and setxattr call.
Event(path, mask) ==
    LET hit == {i \in InUseWatches : Matches(watches[i], path, mask)}
        owed == {watches[i].wd : i \in {j \in InUseWatches : mask \in watches[j].mask /\ Under(watches[j], path)}}
        e == [mask |-> mask, path |-> path]
    IN  /\ \A wd \in owed : Len(log[wd]) < MaxLog
        /\ watches' = [i \in WatchSlots |-> IF i \in hit THEN Pushed(watches[i]) ELSE watches[i]]
        /\ ring' = [i \in WatchSlots |-> IF i \in hit THEN [ring[i] EXCEPT ![watches[i].tail] = e] ELSE ring[i]]
        /\ log' = [wd \in DOMAIN log |-> IF wd \in owed THEN Append(log[wd], e) ELSE log[wd]]
        /\ UNCHANGED nextWd

\* vfs_fsnotify_read takes at most max events from the head.
Read(wd, max) ==
    \E i \in InUseWatches :
        LET n == IF watches[i].count < max THEN watches[i].count ELSE max
            lost == Len(log[wd]) - watches[i].count
        IN  /\ watches[i].wd = wd /\ n > 0
            /\ watches' = [watches EXCEPT ![i].head = (@ + n) % EVENT_MAX, ![i].count = @ - n]
            /\ log' = [log EXCEPT ![wd] = SubSeq(@, lost + n + 1, Len(@))]
            /\ UNCHANGED <<ring, nextWd>>

NotifyNext ==
    \/ \E path \in Watched, mask \in (SUBSET Masks) \ {{}} : AddWatch(path, mask)
    \/ \E wd \in 1..MaxWd : RmWatch(wd)
    \/ \E path \in Changed, mask \in Masks : Event(path, mask)
    \/ \E wd \in 1..MaxWd, max \in 1..EVENT_MAX : Read(wd, max)

NotifySpec == NotifyInit /\ [][NotifyNext]_notifyVars

\* What a reader finds is the newest events about its path and below it, in the order they
\* happened and as many as the ring holds, with none about a sibling whose name begins alike
\* and none of the watch that had the slot before (vfs_fsnotify.c:26-112).
Content(i) == [k \in 1..watches[i].count |-> ring[i][(watches[i].head + k - 1) % EVENT_MAX]]
NewestInOrder ==
    \A i \in InUseWatches :
        LET all == log[watches[i].wd]
            n == IF Len(all) < EVENT_MAX THEN Len(all) ELSE EVENT_MAX
        IN  Content(i) = SubSeq(all, Len(all) - n + 1, Len(all))

=============================================================================
