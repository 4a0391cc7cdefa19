------------------------------- MODULE Flock -------------------------------
(***************************************************************************)
(* Advisory record locks (drivers/vfs/vfs_flock.c): one table for all      *)
(* files, and in it at most one slot for a file and a process.             *)
(***************************************************************************)
EXTENDS Integers, FiniteSets

CONSTANTS
    Inodes, Pids,
    FLOCK_MAX,      \* slots of g_locks
    OFF_MAX,        \* 0x7fffffff, the end of a lock without a length
    NoLock

LockRecords == [inode : Inodes, type : {"F_RDLCK", "F_WRLCK"}, start : 0..(OFF_MAX - 1),
                len : 0..(OFF_MAX - 1), pid : Pids]

ASSUME FlockAssumption ==
    FLOCK_MAX \in Nat \ {0} /\ OFF_MAX \in Nat \ {0} /\ NoLock \notin LockRecords

VARIABLE locks      \* slot -> NoLock or a lock

flockVars == <<locks>>
LockSlots == 1..FLOCK_MAX
Held == {i \in LockSlots : locks[i] # NoLock}

\* Where a lock ends, exclusive.
EndOf(l) == IF l.len # 0 THEN l.start + l.len ELSE OFF_MAX
Overlaps(a, b) == ~(EndOf(a) <= b.start \/ EndOf(b) <= a.start)

ConflictsWithWriters(l) ==
    \E i \in Held : /\ locks[i].inode = l.inode /\ locks[i].pid # l.pid
                    /\ Overlaps(locks[i], l) /\ locks[i].type = "F_WRLCK"

Conflicts(l) ==
    \E i \in Held : /\ locks[i].inode = l.inode /\ locks[i].pid # l.pid
                    /\ Overlaps(locks[i], l) /\ "F_WRLCK" \in {locks[i].type, l.type}

FlockInit == locks = [i \in LockSlots |-> NoLock]

Mine(l) == {i \in Held : locks[i].inode = l.inode /\ locks[i].pid = l.pid}
First(S) == CHOOSE i \in S : \A j \in S : i <= j

\* F_SETLK: a process's new lock on a file takes the place of its old one, whatever bytes
\* that one covered; -EAGAIN and -ENOSPC change nothing.
SetLock(l) ==
    /\ ~Conflicts(l)
    /\ \/ /\ Mine(l) # {}
          /\ locks' = [locks EXCEPT ![First(Mine(l))] = l]
       \/ /\ Mine(l) = {} /\ Held # LockSlots
          /\ locks' = [locks EXCEPT ![First(LockSlots \ Held)] = l]

\* F_UNLCK drops every lock of the process on the file, without a look at the range.
Unlock(ino, pid) ==
    LET mine == {i \in Held : locks[i].inode = ino /\ locks[i].pid = pid}
    IN  /\ mine # {}
        /\ locks' = [i \in LockSlots |-> IF i \in mine THEN NoLock ELSE locks[i]]

FlockNext ==
    \/ \E ino \in Inodes, pid \in Pids, ty \in {"F_RDLCK", "F_WRLCK"}, s, n \in 0..(OFF_MAX - 1) :
          /\ s + n <= OFF_MAX
          /\ SetLock([inode |-> ino, type |-> ty, start |-> s, len |-> n, pid |-> pid])
    \/ \E ino \in Inodes, pid \in Pids : Unlock(ino, pid)

FlockSpec == FlockInit /\ [][FlockNext]_flockVars

\* No byte of a file is locked by two processes when one of them locked it to write, over any
\* sequence of locking, replacing, upgrading and unlocking (vfs_flock.c:28-98).
Bytes(l) == {b \in 0..(OFF_MAX - 1) : b >= l.start /\ (l.len = 0 \/ b < l.start + l.len)}
LocksExclude ==
    \A i, j \in Held :
        /\ locks[i].inode = locks[j].inode /\ i # j
        /\ Bytes(locks[i]) \cap Bytes(locks[j]) # {}
        => locks[i].pid # locks[j].pid /\ {locks[i].type, locks[j].type} = {"F_RDLCK"}

=============================================================================
