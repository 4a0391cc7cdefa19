--------------------------- MODULE StorageProofs ---------------------------
(* Theorems about files and disks: record locks (Flock), descriptors (Fds),   *)
(* change notification (FsNotify), files of ramfs (RamFile), the disk's queue *)
(* (BlockQueue) and the FAT driver's writes (Fat).  The tables look for the   *)
(* first slot that will do, the files grow by doubling, a poll takes all      *)
(* completions, a chain is walked over a table: NumberLemmas has what they    *)
(* need of the natural numbers.                                              *)
EXTENDS Flock, Fds, FsNotify, RamFile, BlockQueue, Fat, FiniteSetTheorems, NumberLemmas, TLAPS

LEMMA FirstIn ==
    ASSUME NEW S, S \subseteq Nat, S # {}
    PROVE  First(S) \in S
BY HasLeast DEF First

LEMMA LeastIn ==
    ASSUME NEW S, S \subseteq Nat, S # {}
    PROVE  Least(S) \in S
BY HasLeast DEF Least
-----------------------------------------------------------------------------
(* Record locks.                                                             *)

(* The table holds locks, and at most one of a process on a file.            *)
LocksTypeOK == \A i \in LockSlots : locks[i] = NoLock \/ locks[i] \in LockRecords
LocksWhole == DOMAIN locks = LockSlots

(* Locks of one file are of different processes, and where one of them is to  *)
(* write they are apart, as the code measures it.                            *)
LocksApart ==
    \A i, j \in Held : i # j /\ locks[i].inode = locks[j].inode =>
        /\ locks[i].pid # locks[j].pid
        /\ Overlaps(locks[i], locks[j]) => {locks[i].type, locks[j].type} = {"F_RDLCK"}

FlockInv == LocksWhole /\ LocksTypeOK /\ LocksApart

(* Locks that share a byte overlap as the code measures it.                  *)
LEMMA BytesOverlap ==
    ASSUME NEW a \in LockRecords, NEW b \in LockRecords, Bytes(a) \cap Bytes(b) # {}
    PROVE  Overlaps(a, b)
BY FlockAssumption DEF LockRecords, Bytes, Overlaps, EndOf

LEMMA OverlapsSymmetric ==
    ASSUME NEW a \in LockRecords, NEW b \in LockRecords
    PROVE  Overlaps(a, b) <=> Overlaps(b, a)
BY DEF Overlaps

(* A new lock in slot k, the process's old slot or a free one.               *)
LEMMA PutKeepsFlockInv ==
    ASSUME FlockInv, NEW l \in LockRecords, l # NoLock, ~Conflicts(l),
           NEW k \in LockSlots, Mine(l) \subseteq {k}, k \in Held => k \in Mine(l),
           locks' = [locks EXCEPT ![k] = l]
    PROVE  FlockInv'
<1>1. LocksWhole' /\ LocksTypeOK' BY DEF FlockInv, LocksWhole, LocksTypeOK
<1>2. Held' = Held \cup {k} BY DEF Held, FlockInv, LocksWhole
<1>3. \A i \in Held \ {k} :
         /\ locks'[i] = locks[i] /\ locks[i] \in LockRecords
         /\ locks[i].inode = l.inode =>
               /\ locks[i].pid # l.pid
               /\ Overlaps(locks[i], l) => locks[i].type = "F_RDLCK" /\ l.type = "F_RDLCK"
  BY DEF FlockInv, LocksWhole, LocksTypeOK, Held, Mine, Conflicts, LockRecords
<1>4. locks'[k] = l BY DEF FlockInv, LocksWhole
<1>5. LocksApart'
  <2> SUFFICES ASSUME NEW i \in Held', NEW j \in Held', i # j, locks'[i].inode = locks'[j].inode
               PROVE  /\ locks'[i].pid # locks'[j].pid
                      /\ Overlaps(locks'[i], locks'[j]) => {locks'[i].type, locks'[j].type} = {"F_RDLCK"}
    BY DEF LocksApart
  <2>1. CASE i = k
    <3>1. j \in Held \ {k} /\ locks[j].inode = l.inode BY <2>1, <1>2, <1>3, <1>4
    <3>2. locks'[j] = locks[j] /\ locks'[i] = l BY <3>1, <2>1, <1>3, <1>4
    <3>3. locks[j] \in LockRecords BY <3>1, <1>3
    <3>4. Overlaps(l, locks[j]) => Overlaps(locks[j], l) BY <3>3, OverlapsSymmetric
    <3>5. /\ locks[j].pid # l.pid
          /\ Overlaps(locks[j], l) => locks[j].type = "F_RDLCK" /\ l.type = "F_RDLCK"
      BY <3>1, <1>3
    <3> QED BY <3>2, <3>4, <3>5
  <2>2. CASE j = k
    <3>1. i \in Held \ {k} /\ locks[i].inode = l.inode BY <2>2, <1>2, <1>3, <1>4
    <3>2. locks'[i] = locks[i] /\ locks'[j] = l BY <3>1, <2>2, <1>3, <1>4
    <3>3. /\ locks[i].pid # l.pid
          /\ Overlaps(locks[i], l) => locks[i].type = "F_RDLCK" /\ l.type = "F_RDLCK"
      BY <3>1, <1>3
    <3> QED BY <3>2, <3>3
  <2>3. CASE i # k /\ j # k BY <2>3, <1>2, <1>3 DEF FlockInv, LocksApart
  <2> QED BY <2>1, <2>2, <2>3
<1> QED BY <1>1, <1>5 DEF FlockInv

(* F_SETLK: the slot of the old lock is the only one of the process's.       *)
LEMMA SetLockKeepsFlockInv ==
    ASSUME FlockInv, NEW l \in LockRecords, SetLock(l)
    PROVE  FlockInv'
<1>1. l # NoLock BY FlockAssumption
<1>2. Mine(l) \subseteq LockSlots /\ Held \subseteq LockSlots /\ LockSlots \subseteq Nat
  BY DEF Mine, Held, LockSlots
<1>3. CASE Mine(l) # {} /\ locks' = [locks EXCEPT ![First(Mine(l))] = l]
  <2>1. First(Mine(l)) \in Mine(l) BY <1>2, <1>3, FirstIn
  <2>2. \A i, j \in Mine(l) : i = j BY DEF Mine, FlockInv, LocksApart
  <2> QED BY <1>1, <1>2, <1>3, <2>1, <2>2, PutKeepsFlockInv DEF SetLock
<1>4. CASE Mine(l) = {} /\ Held # LockSlots /\ locks' = [locks EXCEPT ![First(LockSlots \ Held)] = l]
  <2>1. First(LockSlots \ Held) \in LockSlots \ Held BY <1>2, <1>4, FirstIn
  <2> QED BY <1>1, <1>4, <2>1, PutKeepsFlockInv DEF SetLock
<1> QED BY <1>3, <1>4 DEF SetLock

LEMMA UnlockKeepsFlockInv ==
    ASSUME FlockInv, NEW ino, NEW pid, Unlock(ino, pid)
    PROVE  FlockInv'
<1>1. \A i \in LockSlots : locks'[i] = NoLock \/ locks'[i] = locks[i] BY DEF Unlock
<1>2. LocksWhole' BY DEF Unlock, LocksWhole
<1>3. LocksTypeOK' BY <1>1 DEF FlockInv, LocksTypeOK
<1>4. \A i \in Held' : i \in Held /\ locks'[i] = locks[i] BY <1>1 DEF Held
<1>5. LocksApart' BY <1>4 DEF FlockInv, LocksApart
<1> QED BY <1>2, <1>3, <1>5 DEF FlockInv

LEMMA FlockInvariant == FlockSpec => []FlockInv
<1>1. FlockInit => FlockInv
  BY DEF FlockInit, FlockInv, LocksWhole, LocksTypeOK, LocksApart, Held
<1>2. FlockInv /\ [FlockNext]_flockVars => FlockInv'
  <2> SUFFICES ASSUME FlockInv, [FlockNext]_flockVars PROVE FlockInv' OBVIOUS
  <2>1. ASSUME NEW ino \in Inodes, NEW pid \in Pids, NEW ty \in {"F_RDLCK", "F_WRLCK"},
               NEW s \in 0..(OFF_MAX - 1), NEW n \in 0..(OFF_MAX - 1),
               SetLock([inode |-> ino, type |-> ty, start |-> s, len |-> n, pid |-> pid])
        PROVE  FlockInv'
    <3>1. [inode |-> ino, type |-> ty, start |-> s, len |-> n, pid |-> pid] \in LockRecords
      BY DEF LockRecords
    <3> QED BY <2>1, <3>1, SetLockKeepsFlockInv
  <2>2. ASSUME NEW ino \in Inodes, NEW pid \in Pids, Unlock(ino, pid) PROVE FlockInv'
    BY <2>2, UnlockKeepsFlockInv
  <2>3. CASE UNCHANGED flockVars
    BY <2>3 DEF flockVars, FlockInv, LocksWhole, LocksTypeOK, LocksApart, Held
  <2> QED BY <2>1, <2>2, <2>3 DEF FlockNext
<1> QED BY <1>1, <1>2, PTL DEF FlockSpec

(* No byte of a file is locked by two processes when one of them locked it to *)
(* write, for any files, processes and number of slots.                      *)
THEOREM FlockExcludes == FlockSpec => []LocksExclude
<1>1. FlockInv => LocksExclude
  <2> SUFFICES ASSUME FlockInv, NEW i \in Held, NEW j \in Held, locks[i].inode = locks[j].inode,
                      i # j, Bytes(locks[i]) \cap Bytes(locks[j]) # {}
               PROVE  locks[i].pid # locks[j].pid /\ {locks[i].type, locks[j].type} = {"F_RDLCK"}
    BY DEF LocksExclude
  <2>1. locks[i] \in LockRecords /\ locks[j] \in LockRecords
    BY DEF FlockInv, LocksTypeOK, Held
  <2>2. Overlaps(locks[i], locks[j]) BY <2>1, BytesOverlap
  <2> QED BY <2>2 DEF FlockInv, LocksApart
<1> QED BY <1>1, FlockInvariant, PTL
-----------------------------------------------------------------------------
(* Descriptors.                                                              *)

(* A descriptor is free or names a file or a socket by its index.            *)
Descriptors == {FdNone} \cup {AFile(i) : i \in FileIds} \cup {ASock(i) : i \in SockIds}
FdsTypeOK ==
    /\ isOpen \subseteq FileIds /\ isSock \subseteq SockIds
    /\ fds \in [FdProcs -> {FdNone} \cup [Fds -> Descriptors]]

(* The standard descriptors share files only: close() of one of them leaves a *)
(* file open, but ends a socket.                                             *)
SocketsUnshared ==
    \A p \in FdProcs : fds[p] # FdNone =>
        \A i, j \in Fds : fds[p][i] # FdNone /\ fds[p][i] = fds[p][j] /\ i # j => ~fds[p][i].sock

FdsInv == FdsTypeOK /\ FdsSound /\ SocketsUnshared

(* Two descriptors of the same thing.                                        *)
Shared(p, i, q, j, d) == p = q /\ (i = j \/ ({i, j} \subseteq Stdio /\ ~d.sock))

LEMMA DescriptorShapes ==
    /\ \A d \in Descriptors : d # FdNone =>
          \/ ~d.sock /\ d.id \in FileIds /\ d = AFile(d.id)
          \/ d.sock /\ d.id \in SockIds /\ d = ASock(d.id)
    /\ \A i \in FileIds : AFile(i) # FdNone /\ AFile(i) \in Descriptors /\ AFile(i).id = i /\ ~AFile(i).sock
    /\ \A i \in SockIds : ASock(i) # FdNone /\ ASock(i) \in Descriptors /\ ASock(i).id = i /\ ASock(i).sock
    /\ FdNone \notin [Fds -> Descriptors]
<1>1. \A i \in FileIds : AFile(i) \in [id : Nat, sock : BOOLEAN] /\ AFile(i).id = i /\ ~AFile(i).sock
  BY FdsAssumption DEF AFile, FileIds
<1>2. \A i \in SockIds : ASock(i) \in [id : Nat, sock : BOOLEAN] /\ ASock(i).id = i /\ ASock(i).sock
  BY FdsAssumption DEF ASock, SockIds
<1>3. Descriptors \subseteq {FdNone} \cup [id : Nat, sock : BOOLEAN]
  BY <1>1, <1>2 DEF Descriptors
<1>4. FdNone \notin [Fds -> Descriptors]
  BY <1>3, FdsAssumption DEF Fds
<1> QED BY <1>1, <1>2, <1>3, <1>4, FdsAssumption DEF Descriptors

LEMMA StdioIsFds == Stdio \subseteq Fds /\ Fds \subseteq Nat
BY FdsAssumption DEF Stdio, Fds

(* What the invariant says of two descriptors.                               *)
FdEntry(p, i) == fds[p] # FdNone /\ fds[p][i] # FdNone

LEMMA EntriesOf ==
    ASSUME FdsInv, NEW p \in FdProcs, NEW i \in Fds, FdEntry(p, i)
    PROVE  /\ fds[p] \in [Fds -> Descriptors]
           /\ fds[p][i] \in Descriptors
           /\ \/ ~fds[p][i].sock /\ fds[p][i].id \in isOpen /\ fds[p][i] = AFile(fds[p][i].id)
              \/ fds[p][i].sock /\ fds[p][i].id \in isSock /\ fds[p][i] = ASock(fds[p][i].id)
<1>1. fds[p] \in [Fds -> Descriptors] BY DEF FdsInv, FdsTypeOK, FdEntry
<1>2. fds[p][i] \in Descriptors BY <1>1
<1> QED BY <1>1, <1>2, DescriptorShapes DEF FdsInv, FdsSound, FdEntry

LEMMA EntriesDiffer ==
    ASSUME FdsInv, NEW p \in FdProcs, NEW i \in Fds, FdEntry(p, i),
           NEW q \in FdProcs, NEW j \in Fds, FdEntry(q, j), fds[p][i] = fds[q][j]
    PROVE  Shared(p, i, q, j, fds[p][i])
BY DEF FdsInv, FdsSound, SocketsUnshared, Shared, FdEntry

LEMMA EntrySock ==
    ASSUME FdsInv, NEW p \in FdProcs, NEW i \in Fds, FdEntry(p, i)
    PROVE  fds[p][i].sock \in BOOLEAN
<1>1. fds[p][i] = AFile(fds[p][i].id) \/ fds[p][i] = ASock(fds[p][i].id) BY EntriesOf
<1>2. \A n : AFile(n).sock \in BOOLEAN /\ ASock(n).sock \in BOOLEAN BY DEF AFile, ASock
<1> QED BY <1>1, <1>2, Zenon

(* To show it of the next state.                                             *)
LEMMA SoundNext ==
    ASSUME \A p \in FdProcs, i \in Fds : FdEntry(p, i)' =>
               fds'[p][i].id \in (IF fds'[p][i].sock THEN isSock' ELSE isOpen'),
           \A p, q \in FdProcs, i, j \in Fds : FdEntry(p, i)' /\ FdEntry(q, j)' /\ fds'[p][i] = fds'[q][j] =>
               Shared(p, i, q, j, fds'[p][i])
    PROVE  FdsSound' /\ SocketsUnshared'
BY DEF FdsSound, SocketsUnshared, Shared, FdEntry

(* A descriptor that nobody has in a place that is free.                     *)
LEMMA GiveKeepsFdsInv ==
    ASSUME FdsInv, NEW p \in FdProcs, fds[p] # FdNone, FreeFds(p) # {},
           NEW d \in Descriptors, d # FdNone,
           fds' = [fds EXCEPT ![p][Least(FreeFds(p))] = d],
           isOpen \subseteq isOpen', isOpen' \subseteq FileIds,
           isSock \subseteq isSock', isSock' \subseteq SockIds,
           d.id \in (IF d.sock THEN isSock' ELSE isOpen'),
           d.id \notin (IF d.sock THEN isSock ELSE isOpen)
    PROVE  FdsInv'
<1> DEFINE k == Least(FreeFds(p))
<1>1. k \in Fds /\ fds[p][k] = FdNone
  <2>1. FreeFds(p) \subseteq Nat BY StdioIsFds DEF FreeFds
  <2>2. k \in FreeFds(p) BY <2>1, LeastIn
  <2> QED BY <2>2 DEF FreeFds
<1> HIDE DEF k
<1>2. fds[p] \in [Fds -> Descriptors] BY DEF FdsInv, FdsTypeOK
<1>3. fds' = [fds EXCEPT ![p] = [fds[p] EXCEPT ![k] = d]] BY DEF k
<1>4. [fds[p] EXCEPT ![k] = d] \in [Fds -> Descriptors] BY <1>2
<1>5. FdsTypeOK' BY <1>3, <1>4 DEF FdsInv, FdsTypeOK
<1>6. \A q \in FdProcs, j \in Fds : FdEntry(q, j)' =>
          \/ q = p /\ j = k /\ fds'[q][j] = d
          \/ ~(q = p /\ j = k) /\ FdEntry(q, j) /\ fds'[q][j] = fds[q][j]
  BY <1>1, <1>2, <1>3, <1>4 DEF FdEntry, FdsInv, FdsTypeOK
<1>7. \A q \in FdProcs, j \in Fds : FdEntry(q, j) =>
          fds[q][j] # d /\ fds[q][j].id \in (IF fds[q][j].sock THEN isSock' ELSE isOpen')
  BY EntriesOf
<1>8. \A q \in FdProcs, j \in Fds : FdEntry(q, j)' =>
          fds'[q][j].id \in (IF fds'[q][j].sock THEN isSock' ELSE isOpen')
  BY <1>6, <1>7
<1>9. \A q, r \in FdProcs, i, j \in Fds : FdEntry(q, i)' /\ FdEntry(r, j)' /\ fds'[q][i] = fds'[r][j] =>
          Shared(q, i, r, j, fds'[q][i])
  BY <1>6, <1>7, EntriesDiffer DEF Shared
<1>10. FdsSound' /\ SocketsUnshared' BY <1>8, <1>9, SoundNext
<1> QED BY <1>5, <1>10 DEF FdsInv

(* Descriptors taken away, of files and sockets that no other one names.     *)
LEMMA TakeKeepsFdsInv ==
    ASSUME FdsInv, FdsTypeOK',
           \A p \in FdProcs, i \in Fds : FdEntry(p, i)' =>
               /\ FdEntry(p, i) /\ fds'[p][i] = fds[p][i]
               /\ fds[p][i].id \in (IF fds[p][i].sock THEN isSock' ELSE isOpen')
    PROVE  FdsInv'
<1>1. \A p \in FdProcs, i \in Fds : FdEntry(p, i)' =>
          fds'[p][i].id \in (IF fds'[p][i].sock THEN isSock' ELSE isOpen')
  OBVIOUS
<1>2. \A p, q \in FdProcs, i, j \in Fds : FdEntry(p, i)' /\ FdEntry(q, j)' /\ fds'[p][i] = fds'[q][j] =>
          Shared(p, i, q, j, fds'[p][i])
  BY EntriesDiffer
<1> QED BY <1>1, <1>2, SoundNext DEF FdsInv

LEMMA NewProcessKeepsFdsInv ==
    ASSUME FdsInv, NEW p \in FdProcs, NewProcess(p)
    PROVE  FdsInv'
<1> DEFINE free == FileIds \ isOpen
           d == AFile(Least(free))
<1>1. CASE /\ free # {}
           /\ isOpen' = isOpen \cup {Least(free)}
           /\ fds' = [fds EXCEPT ![p] = [i \in Fds |-> IF i \in Stdio THEN d ELSE FdNone]]
  <2>1. Least(free) \in free BY <1>1, LeastIn DEF FileIds
  <2> HIDE DEF free
  <2>2. Least(free) \in FileIds /\ Least(free) \notin isOpen BY <2>1 DEF free
  <2>3. d \in Descriptors /\ d # FdNone /\ d.id = Least(free) /\ ~d.sock BY <2>2, DescriptorShapes
  <2> HIDE DEF d
  <2>4. FdNone \in Descriptors BY DEF Descriptors
  <2>5. [i \in Fds |-> IF i \in Stdio THEN d ELSE FdNone] \in [Fds -> Descriptors] BY <2>3, <2>4
  <2>6. FdsTypeOK' BY <1>1, <2>2, <2>5 DEF FdsInv, FdsTypeOK, NewProcess
  <2>7. \A q \in FdProcs, j \in Fds : FdEntry(q, j)' =>
            \/ q = p /\ j \in Stdio /\ fds'[q][j] = d
            \/ q # p /\ FdEntry(q, j) /\ fds'[q][j] = fds[q][j]
    BY <1>1, <2>5 DEF FdEntry, FdsInv, FdsTypeOK
  <2>8. \A q \in FdProcs, j \in Fds : FdEntry(q, j) =>
            fds[q][j] # d /\ fds[q][j].id \in (IF fds[q][j].sock THEN isSock' ELSE isOpen')
    BY <1>1, <2>2, <2>3, EntriesOf DEF NewProcess
  <2>9. \A q \in FdProcs, j \in Fds : FdEntry(q, j)' =>
            fds'[q][j].id \in (IF fds'[q][j].sock THEN isSock' ELSE isOpen')
    BY <1>1, <2>3, <2>7, <2>8
  <2>10. \A q, r \in FdProcs, i, j \in Fds : FdEntry(q, i)' /\ FdEntry(r, j)' /\ fds'[q][i] = fds'[r][j] =>
            Shared(q, i, r, j, fds'[q][i])
    BY <2>3, <2>7, <2>8, EntriesDiffer DEF Shared
  <2> QED BY <2>6, <2>9, <2>10, SoundNext DEF FdsInv
<1>2. CASE fds' = [fds EXCEPT ![p] = [i \in Fds |-> FdNone]] /\ UNCHANGED <<isOpen, isSock>>
  <2>1. [i \in Fds |-> FdNone] \in [Fds -> Descriptors] BY DEF Descriptors
  <2>2. FdsTypeOK' BY <1>2, <2>1 DEF FdsInv, FdsTypeOK
  <2>3. \A q \in FdProcs, i \in Fds : FdEntry(q, i)' =>
            /\ FdEntry(q, i) /\ fds'[q][i] = fds[q][i]
            /\ fds[q][i].id \in (IF fds[q][i].sock THEN isSock' ELSE isOpen')
    BY <1>2, <2>1, EntriesOf DEF FdEntry, FdsInv, FdsTypeOK
  <2> QED BY <2>2, <2>3, TakeKeepsFdsInv
<1> QED BY <1>1, <1>2 DEF NewProcess

LEMMA OpenKeepsFdsInv ==
    ASSUME FdsInv, NEW p \in FdProcs, OpenFile(p) \/ OpenSocket(p)
    PROVE  FdsInv'
<1>1. CASE OpenFile(p)
  <2> DEFINE free == FileIds \ isOpen
  <2>1. Least(free) \in free BY <1>1, LeastIn DEF OpenFile, FileIds
  <2>2. Least(free) \in FileIds /\ Least(free) \notin isOpen BY <2>1
  <2> HIDE DEF free
  <2>3. /\ AFile(Least(free)) \in Descriptors /\ AFile(Least(free)) # FdNone
        /\ AFile(Least(free)).id = Least(free) /\ ~AFile(Least(free)).sock
    BY <2>2, DescriptorShapes
  <2>4. /\ isOpen' = isOpen \cup {Least(free)} /\ isSock' = isSock
        /\ fds' = [fds EXCEPT ![p][Least(FreeFds(p))] = AFile(Least(free))]
    BY <1>1 DEF OpenFile, free
  <2>5. fds[p] # FdNone /\ FreeFds(p) # {} BY <1>1 DEF OpenFile
  <2>6. isOpen' \subseteq FileIds /\ isSock' \subseteq SockIds BY <2>2, <2>4 DEF FdsInv, FdsTypeOK
  <2> QED BY <2>2, <2>3, <2>4, <2>5, <2>6, GiveKeepsFdsInv
<1>2. CASE OpenSocket(p)
  <2> DEFINE free == SockIds \ isSock
  <2>1. Least(free) \in free BY <1>2, LeastIn DEF OpenSocket, SockIds
  <2>2. Least(free) \in SockIds /\ Least(free) \notin isSock BY <2>1
  <2> HIDE DEF free
  <2>3. /\ ASock(Least(free)) \in Descriptors /\ ASock(Least(free)) # FdNone
        /\ ASock(Least(free)).id = Least(free) /\ ASock(Least(free)).sock
    BY <2>2, DescriptorShapes
  <2>4. /\ isSock' = isSock \cup {Least(free)} /\ isOpen' = isOpen
        /\ fds' = [fds EXCEPT ![p][Least(FreeFds(p))] = ASock(Least(free))]
    BY <1>2 DEF OpenSocket, free
  <2>5. fds[p] # FdNone /\ FreeFds(p) # {} BY <1>2 DEF OpenSocket
  <2>6. isOpen' \subseteq FileIds /\ isSock' \subseteq SockIds BY <2>2, <2>4 DEF FdsInv, FdsTypeOK
  <2> QED BY <2>2, <2>3, <2>4, <2>5, <2>6, GiveKeepsFdsInv
<1> QED BY <1>1, <1>2

(* Nobody else names what a descriptor outside the standard ones does.       *)
LEMMA CloseKeepsFdsInv ==
    ASSUME FdsInv, NEW p \in FdProcs, NEW fd \in Fds, CloseFd(p, fd)
    PROVE  FdsInv'
<1>1. FdEntry(p, fd) BY DEF CloseFd, FdEntry
<1>2. fds[p] \in [Fds -> Descriptors] BY <1>1, EntriesOf
<1>3. fds' = [fds EXCEPT ![p] = [fds[p] EXCEPT ![fd] = FdNone]] BY DEF CloseFd
<1>4. [fds[p] EXCEPT ![fd] = FdNone] \in [Fds -> Descriptors] BY <1>2 DEF Descriptors
<1>5. FdsTypeOK' BY <1>3, <1>4 DEF FdsInv, FdsTypeOK, CloseFd
<1>6. ASSUME NEW q \in FdProcs, NEW i \in Fds, FdEntry(q, i)'
      PROVE  /\ FdEntry(q, i) /\ fds'[q][i] = fds[q][i]
             /\ fds[q][i].id \in (IF fds[q][i].sock THEN isSock' ELSE isOpen')
  <2>1. FdEntry(q, i) /\ fds'[q][i] = fds[q][i] /\ ~(q = p /\ i = fd)
    <3>1. CASE q = p
      <4>1. fds'[q] = [fds[p] EXCEPT ![fd] = FdNone] BY <3>1, <1>3 DEF FdsInv, FdsTypeOK
      <4> QED BY <3>1, <4>1, <1>1, <1>2, <1>6 DEF FdEntry
    <3>2. CASE q # p BY <3>2, <1>3, <1>6 DEF FdEntry, FdsInv, FdsTypeOK
    <3> QED BY <3>1, <3>2
  <2>2. fds[q][i] = fds[p][fd] => fd \in Stdio /\ ~fds[p][fd].sock
    BY <1>1, <2>1, EntriesDiffer DEF Shared
  <2>3. fds[q][i].sock = fds[p][fd].sock /\ fds[q][i].id = fds[p][fd].id => fds[q][i] = fds[p][fd]
    BY <1>1, <2>1, EntriesOf
  <2>4. \/ ~fds[q][i].sock /\ fds[q][i].id \in isOpen
        \/ fds[q][i].sock /\ fds[q][i].id \in isSock
    BY <2>1, EntriesOf
  <2>5. \/ ~fds[p][fd].sock /\ isSock' = isSock
           /\ isOpen' = IF ClosesFile(fd) THEN isOpen \ {fds[p][fd].id} ELSE isOpen
        \/ fds[p][fd].sock /\ isSock' = isSock \ {fds[p][fd].id} /\ isOpen' = isOpen
    BY DEF CloseFd
  <2>6. fds[p][fd].sock \in BOOLEAN /\ fds[q][i].sock \in BOOLEAN
    BY <1>1, <2>1, EntrySock
  <2>7. fds[q][i] = fds[p][fd] => ~ClosesFile(fd) /\ ~fds[p][fd].sock
    BY <2>2 DEF ClosesFile
  <2> QED BY <2>1, <2>3, <2>4, <2>5, <2>6, <2>7
<1> QED BY <1>5, <1>6, TakeKeepsFdsInv

LEMMA ReleaseKeepsFdsInv ==
    ASSUME FdsInv, NEW p \in FdProcs, ReleaseFds(p)
    PROVE  FdsInv'
<1> DEFINE held == {fds[p][i] : i \in Fds} \ {FdNone}
<1>1. FdsTypeOK' BY DEF ReleaseFds, FdsInv, FdsTypeOK
<1>2. ASSUME NEW q \in FdProcs, NEW i \in Fds, FdEntry(q, i)'
      PROVE  /\ FdEntry(q, i) /\ fds'[q][i] = fds[q][i]
             /\ fds[q][i].id \in (IF fds[q][i].sock THEN isSock' ELSE isOpen')
  <2>1. FdEntry(q, i) /\ fds'[q][i] = fds[q][i] /\ q # p
    BY <1>2 DEF FdEntry, FdsInv, FdsTypeOK, ReleaseFds
  <2>2. ASSUME NEW d \in held, d.sock = fds[q][i].sock, d.id = fds[q][i].id PROVE FALSE
    <3>1. PICK j \in Fds : d = fds[p][j] /\ FdEntry(p, j) BY <2>2 DEF FdEntry, ReleaseFds
    <3>2. fds[p][j] = fds[q][i] BY <2>1, <2>2, <3>1, EntriesOf
    <3> QED BY <2>1, <3>1, <3>2, EntriesDiffer DEF Shared
  <2>3. /\ isOpen' = isOpen \ {e.id : e \in {x \in held : ~x.sock}}
        /\ isSock' = isSock \ {e.id : e \in {x \in held : x.sock}}
    BY DEF ReleaseFds
  <2>4. ASSUME NEW d \in held PROVE d.sock \in BOOLEAN
    <3>1. PICK j \in Fds : d = fds[p][j] /\ FdEntry(p, j) BY <2>4 DEF FdEntry, ReleaseFds
    <3> QED BY <3>1, EntrySock
  <2>5. \/ fds[q][i].sock = FALSE /\ fds[q][i].id \in isOpen
        \/ fds[q][i].sock = TRUE /\ fds[q][i].id \in isSock
    <3>1. fds[q][i] = AFile(fds[q][i].id) \/ fds[q][i] = ASock(fds[q][i].id) BY <2>1, EntriesOf
    <3> QED BY <2>1, <3>1, EntriesOf DEF AFile, ASock
  <2> HIDE DEF held
  <2> QED BY <2>1, <2>2, <2>3, <2>4, <2>5
<1> QED BY <1>1, <1>2, TakeKeepsFdsInv

(* A descriptor names a file or a socket that is open and nobody else's, but  *)
(* for the console under the standard ones, for any number of processes and  *)
(* any size of the tables.                                                   *)
THEOREM DescriptorsSound == FdsSpec => []FdsSound
<1>1. FdsInit => FdsInv
  BY DEF FdsInit, FdsInv, FdsTypeOK, FdsSound, SocketsUnshared
<1>2. FdsInv /\ [FdsNext]_fdsVars => FdsInv'
  <2>1. ASSUME FdsInv, FdsNext PROVE FdsInv'
    BY <2>1, NewProcessKeepsFdsInv, OpenKeepsFdsInv, CloseKeepsFdsInv, ReleaseKeepsFdsInv DEF FdsNext
  <2>2. ASSUME FdsInv, UNCHANGED fdsVars PROVE FdsInv'
    BY <2>2 DEF fdsVars, FdsInv, FdsTypeOK, FdsSound, SocketsUnshared
  <2> QED BY <2>1, <2>2
<1>3. FdsInv => FdsSound BY DEF FdsInv
<1> QED BY <1>1, <1>2, <1>3, PTL DEF FdsSpec
-----------------------------------------------------------------------------
NotifyEvents == [mask : Masks, path : Changed]
RingEvents == NotifyEvents \cup {NoEvent}

(* The ring q, from head to tail, holds the newest of the events all.         *)
NewestAt(head, count, tail, q, all) ==
    /\ q \in [Ring -> RingEvents] /\ all \in Seq(NotifyEvents)
    /\ count = IF Len(all) < EVENT_MAX THEN Len(all) ELSE EVENT_MAX
    /\ tail = Turn(head + count, EVENT_MAX)
    /\ \A k \in 1 .. count : q[Turn(head + k - 1, EVENT_MAX)] = all[Len(all) - count + k]
Newest(w, q, all) == NewestAt(w.head, w.count, w.tail, q, all)

LEMMA MakeRoomIs ==
    ASSUME NEW w \in WatchRecords, NEW q, NEW all, Newest(w, q, all)
    PROVE  LET v == MakeRoom(w)
           IN  /\ v \in WatchRecords /\ v.wd = w.wd /\ v.path = w.path /\ v.mask = w.mask /\ v.tail = w.tail
               /\ v.count = IF Len(all) < EVENT_MAX THEN Len(all) ELSE EVENT_MAX - 1
               /\ v.tail = Turn(v.head + v.count, EVENT_MAX)
               /\ \A k \in 1 .. v.count : q[Turn(v.head + k - 1, EVENT_MAX)] = all[Len(all) - v.count + k]
<1> DEFINE v == MakeRoom(w)
           r == w.head
           n == w.count
           x == Turn(r + 1, EVENT_MAX)
<1>1. EVENT_MAX \in Nat \ {0} /\ Ring = 0 .. EVENT_MAX - 1 BY FsNotifyAssumption DEF Ring
<1>2. r \in 0 .. EVENT_MAX - 1 /\ n \in 0 .. EVENT_MAX BY <1>1 DEF WatchRecords
<1>3. CASE w.count >= EVENT_MAX
  <2>1. v = [w EXCEPT !.head = x, !.count = n - 1] BY <1>3 DEF MakeRoom, Turn
  <2>2. n = EVENT_MAX /\ 1 \in 0 .. n /\ x = Turn(r + 1, EVENT_MAX) BY <1>1, <1>2, <1>3
  <2>3. w.tail = Turn(r + n, EVENT_MAX) BY DEF Newest, NewestAt
  <2> HIDE DEF v, r, n, x
  <2>4. Popping(EVENT_MAX, r, n, 1, x) BY <1>1, <1>2, <2>2, RingPop
  <2>5. x \in Ring /\ n - 1 \in 0 .. EVENT_MAX BY <1>1, <2>2, <2>4 DEF Popping
  <2>6. /\ v \in WatchRecords /\ v.wd = w.wd /\ v.path = w.path /\ v.mask = w.mask /\ v.tail = w.tail
        /\ v.head = x /\ v.count = n - 1
    BY <2>1, <2>5 DEF WatchRecords
  <2>7. v.tail = Turn(v.head + v.count, EVENT_MAX) BY <2>3, <2>4, <2>6 DEF Popping
  <2>8. all \in Seq(NotifyEvents) /\ n = IF Len(all) < EVENT_MAX THEN Len(all) ELSE EVENT_MAX BY DEF Newest, NewestAt, n
  <2>9. Len(all) \in Nat /\ Len(all) >= EVENT_MAX BY <1>1, <2>2, <2>8
  <2>10. ASSUME NEW k \in 1 .. n - 1
         PROVE  q[Turn(x + k - 1, EVENT_MAX)] = all[Len(all) - (n - 1) + k]
    <3>1. k + 1 \in 1 .. n /\ Len(all) - n + (k + 1) = Len(all) - (n - 1) + k BY <1>2, <2>9
    <3>2. q[Turn(r + (k + 1) - 1, EVENT_MAX)] = all[Len(all) - n + (k + 1)] BY <3>1 DEF Newest, NewestAt, r, n
    <3>3. Turn(x + k - 1, EVENT_MAX) = Turn(r + (k + 1) - 1, EVENT_MAX) BY <2>4 DEF Popping
    <3> QED BY <3>1, <3>2, <3>3
  <2> QED BY <1>1, <2>2, <2>6, <2>7, <2>9, <2>10 DEF v
<1>4. CASE ~(w.count >= EVENT_MAX)
  <2>1. v = w BY <1>4 DEF MakeRoom
  <2>2. n = Len(all) /\ Len(all) < EVENT_MAX BY <1>1, <1>2, <1>4 DEF Newest, NewestAt
  <2> QED BY <2>1, <2>2 DEF Newest, NewestAt
<1> QED BY <1>3, <1>4

LEMMA PushedIs ==
    ASSUME NEW w \in WatchRecords, NEW q, NEW all, Newest(w, q, all), NEW e \in NotifyEvents
    PROVE  LET u == Pushed(w)
           IN  /\ u \in WatchRecords /\ u.wd = w.wd /\ u.path = w.path /\ u.mask = w.mask
               /\ Newest(u, [q EXCEPT ![w.tail] = e], Append(all, e))
<1> DEFINE v == MakeRoom(w)
           u == Pushed(w)
           r == v.head
           n == v.count
           t == v.tail
           y == Turn(t + 1, EVENT_MAX)
           p == [q EXCEPT ![w.tail] = e]
           a == Append(all, e)
           l == Len(all)
<1>1. EVENT_MAX \in Nat \ {0} /\ Ring = 0 .. EVENT_MAX - 1 BY FsNotifyAssumption DEF Ring
<1>2. /\ v \in WatchRecords /\ v.wd = w.wd /\ v.path = w.path /\ v.mask = w.mask /\ t = w.tail
      /\ n = IF l < EVENT_MAX THEN l ELSE EVENT_MAX - 1
      /\ t = Turn(r + n, EVENT_MAX)
      /\ \A k \in 1 .. n : q[Turn(r + k - 1, EVENT_MAX)] = all[l - n + k]
  BY MakeRoomIs
<1>3. u = [v EXCEPT !.tail = y, !.count = n + 1] BY DEF Pushed, Turn
<1>4. r \in 0 .. EVENT_MAX - 1 BY <1>1, <1>2 DEF WatchRecords
<1>5. /\ q \in [Ring -> RingEvents] /\ all \in Seq(NotifyEvents) BY DEF Newest, NewestAt
<1>6. l \in Nat /\ n \in 0 .. EVENT_MAX - 1 /\ n <= l BY <1>1, <1>2, <1>5
<1>7. a \in Seq(NotifyEvents) /\ Len(a) = l + 1 /\ a[l + 1] = e /\ \A k \in 1 .. l : a[k] = all[k] BY <1>5
<1> HIDE DEF v, u, r, n, t, y, a, l
<1>8. Pushing(EVENT_MAX, r, n, t) BY <1>1, <1>2, <1>4, <1>6, RingPush
<1>9. y \in 0 .. EVENT_MAX - 1 /\ y = Turn(r + (n + 1), EVENT_MAX) /\ t \in 0 .. EVENT_MAX - 1
  <2>1. y = Turn(t + 1, EVENT_MAX) BY DEF y
  <2> QED BY <1>8, <2>1 DEF Pushing
<1>10. /\ u \in WatchRecords /\ u.wd = w.wd /\ u.path = w.path /\ u.mask = w.mask
       /\ u.head = r /\ u.tail = y /\ u.count = n + 1
  <2>1. n + 1 \in 0 .. EVENT_MAX BY <1>1, <1>6
  <2> QED BY <1>1, <1>2, <1>3, <1>9, <2>1 DEF WatchRecords, r
<1>11. p \in [Ring -> RingEvents] BY <1>5 DEF RingEvents
<1>12. ASSUME NEW k \in 1 .. n + 1 PROVE p[Turn(r + k - 1, EVENT_MAX)] = a[Len(a) - (n + 1) + k]
  <2>1. CASE k = n + 1
    <3>1. Turn(r + k - 1, EVENT_MAX) = t /\ Len(a) - (n + 1) + k = l + 1 BY <1>6, <1>7, <1>8, <2>1 DEF Pushing
    <3>2. t \in Ring BY <1>1, <1>9
    <3>3. p[t] = e BY <1>2, <1>5, <3>2
    <3> QED BY <1>7, <3>1, <3>3
  <2>2. CASE k # n + 1
    <3>0. Len(a) = l + 1 /\ n \in Nat BY <1>1, <1>6, <1>7
    <3>1. k \in 1 .. n /\ l - n + k \in 1 .. l /\ Len(a) - (n + 1) + k = l - n + k
      BY <1>6, <2>2, <3>0
    <3> DEFINE j == Turn(r + k - 1, EVENT_MAX)
    <3>2. j \in 0 .. EVENT_MAX - 1 /\ j # t BY <1>8, <3>1 DEF Pushing
    <3>3. q[j] = all[l - n + k] BY <1>2, <3>1
    <3> HIDE DEF j
    <3>4. p[j] = q[j] BY <1>1, <1>2, <1>5, <3>2
    <3>5. a[l - n + k] = all[l - n + k] BY <1>7, <3>1
    <3> QED BY <3>1, <3>3, <3>4, <3>5 DEF j
  <2> QED BY <2>1, <2>2
<1>13. n + 1 = IF l + 1 < EVENT_MAX THEN l + 1 ELSE EVENT_MAX BY <1>1, <1>2, <1>6
<1> HIDE DEF p
<1>14. NewestAt(r, n + 1, y, p, a)
  <2>1. n + 1 = IF Len(a) < EVENT_MAX THEN Len(a) ELSE EVENT_MAX BY <1>7, <1>13
  <2> QED BY <1>7, <1>9, <1>11, <1>12, <2>1 DEF NewestAt
<1>15. Newest(u, p, a) BY <1>10, <1>14 DEF Newest
<1> QED BY <1>10, <1>15 DEF u, p, a

LEMMA PoppedIs ==
    ASSUME NEW w \in WatchRecords, NEW q, NEW all, Newest(w, q, all), NEW n \in 1 .. w.count
    PROVE  LET u == [w EXCEPT !.head = (w.head + n) % EVENT_MAX, !.count = w.count - n]
           IN  /\ u \in WatchRecords /\ u.wd = w.wd
               /\ Newest(u, q, SubSeq(all, Len(all) - w.count + n + 1, Len(all)))
<1> DEFINE r == w.head
           c == w.count
           x == Turn(r + n, EVENT_MAX)
           u == [w EXCEPT !.head = (w.head + n) % EVENT_MAX, !.count = w.count - n]
           l == Len(all)
           a == SubSeq(all, l - c + n + 1, l)
<1>1. EVENT_MAX \in Nat \ {0} /\ Ring = 0 .. EVENT_MAX - 1 BY FsNotifyAssumption DEF Ring
<1>2. r \in 0 .. EVENT_MAX - 1 /\ c \in 0 .. EVENT_MAX /\ n \in 1 .. c BY <1>1 DEF WatchRecords
<1>3. /\ q \in [Ring -> RingEvents] /\ all \in Seq(NotifyEvents)
      /\ c = (IF l < EVENT_MAX THEN l ELSE EVENT_MAX) /\ w.tail = Turn(r + c, EVENT_MAX)
      /\ \A k \in 1 .. c : q[Turn(r + k - 1, EVENT_MAX)] = all[l - c + k]
  BY DEF Newest, NewestAt
<1>4. u = [w EXCEPT !.head = x, !.count = c - n] BY DEF Turn
<1>5. l \in Nat /\ c <= l BY <1>1, <1>3
<1>6. a \in Seq(NotifyEvents) /\ Len(a) = c - n /\ \A k \in 1 .. c - n : a[k] = all[l - c + n + k]
  BY <1>2, <1>3, <1>5
<1>7. n \in 0 .. c /\ x = Turn(r + n, EVENT_MAX) BY <1>2
<1> HIDE DEF u, r, c, x, l, a
<1>8. Popping(EVENT_MAX, r, c, n, x) BY <1>1, <1>2, <1>7, RingPop
<1>9. c - n \in 0 .. EVENT_MAX /\ x \in Ring BY <1>1, <1>2, <1>8 DEF Popping
<1>10. u \in WatchRecords /\ u.wd = w.wd /\ u.head = x /\ u.count = c - n /\ u.tail = w.tail
  BY <1>4, <1>9 DEF WatchRecords
<1>11. w.tail = Turn(x + (c - n), EVENT_MAX) BY <1>3, <1>8 DEF Popping
<1>12. ASSUME NEW k \in 1 .. c - n PROVE q[Turn(x + k - 1, EVENT_MAX)] = a[Len(a) - (c - n) + k]
  <2>0. k \in Nat /\ n \in Nat /\ c \in Nat /\ l \in Nat BY <1>1, <1>2, <1>5
  <2>1. k + n \in 1 .. c /\ l - c + (k + n) = l - c + n + k /\ Len(a) - (c - n) + k = k
    <3>1. k + n \in 1 .. c BY <1>2, <2>0
    <3>2. l - c + (k + n) = l - c + n + k BY <2>0
    <3>3. Len(a) - (c - n) + k = k BY <1>6, <2>0
    <3> QED BY <3>1, <3>2, <3>3
  <2>2. q[Turn(r + (k + n) - 1, EVENT_MAX)] = all[l - c + (k + n)] BY <1>3, <2>1
  <2>3. Turn(x + k - 1, EVENT_MAX) = Turn(r + (k + n) - 1, EVENT_MAX) BY <1>8 DEF Popping
  <2>4. a[k] = all[l - c + n + k] BY <1>6
  <2> QED BY <2>1, <2>2, <2>3, <2>4
<1>13. c - n = IF Len(a) < EVENT_MAX THEN Len(a) ELSE EVENT_MAX
  <2>1. c \in Nat /\ n \in Nat /\ n >= 1 /\ c <= EVENT_MAX /\ EVENT_MAX \in Nat BY <1>1, <1>2
  <2>2. c - n < EVENT_MAX BY <2>1
  <2>3. Len(a) = c - n BY <1>6
  <2> QED BY <2>2, <2>3
<1>14. NewestAt(x, c - n, w.tail, q, a) BY <1>3, <1>6, <1>11, <1>12, <1>13 DEF NewestAt
<1>15. Newest(u, q, a) BY <1>10, <1>14 DEF Newest
<1> QED BY <1>10, <1>15 DEF u, a, l, c

LEMMA NothingIs ==
    ASSUME NEW w \in WatchRecords, w.head = 0, w.tail = 0, w.count = 0, NEW q \in [Ring -> RingEvents]
    PROVE  Newest(w, q, << >>)
<1>1. EVENT_MAX \in Nat \ {0} BY FsNotifyAssumption
<1>2. Turn(0 + 0, EVENT_MAX) = 0 BY <1>1, TurnIs
<1>3. << >> \in Seq(NotifyEvents) /\ Len(<< >>) = 0 OBVIOUS
<1>4. NewestAt(0, 0, 0, q, << >>) BY <1>1, <1>2, <1>3 DEF NewestAt
<1> QED BY <1>4 DEF Newest

LEMMA BeginningIs ==
    ASSUME NEW S, NEW s \in Seq(S), NEW m \in 0 .. Len(s)
    PROVE  /\ SubSeq(s, 1, m) \in Seq(S) /\ Len(SubSeq(s, 1, m)) = m
           /\ \A k \in 1 .. m : SubSeq(s, 1, m)[k] = s[k]
OBVIOUS

LEMMA SameSequences ==
    ASSUME NEW S, NEW s \in Seq(S), NEW p \in Seq(S), Len(s) = Len(p), \A k \in 1 .. Len(s) : s[k] = p[k]
    PROVE  s = p
OBVIOUS

LEMMA AppendIs ==
    ASSUME NEW S, NEW s \in Seq(S), NEW e \in S
    PROVE  /\ Append(s, e) \in Seq(S) /\ Len(Append(s, e)) = Len(s) + 1 /\ Append(s, e)[Len(s) + 1] = e
           /\ \A k \in 1 .. Len(s) : Append(s, e)[k] = s[k]
OBVIOUS

LEMMA PrefixIs ==
    ASSUME NEW S, NEW s \in Seq(S), NEW p \in Seq(S)
    PROVE  IsPrefix(s, p) <=> Len(s) <= Len(p) /\ \A k \in 1 .. Len(s) : s[k] = p[k]
<1> DEFINE m == Len(s)
           a == SubSeq(s, 1, m)
           b == SubSeq(p, 1, m)
<1>0. m \in Nat /\ m \in 0 .. Len(s) OBVIOUS
<1>1. a \in Seq(S) /\ Len(a) = m /\ \A k \in 1 .. m : a[k] = s[k] BY <1>0, BeginningIs
<1>2. ASSUME m <= Len(p) PROVE b \in Seq(S) /\ Len(b) = m /\ \A k \in 1 .. m : b[k] = p[k]
  <2>1. m \in 0 .. Len(p) BY <1>0, <1>2
  <2> QED BY <2>1, BeginningIs
<1>3. IsPrefix(s, p) <=> m <= Len(p) /\ a = b BY DEF IsPrefix
<1> HIDE DEF a, b, m
<1>4. ASSUME m <= Len(p), \A k \in 1 .. m : s[k] = p[k] PROVE a = b
  <2>1. b \in Seq(S) /\ Len(b) = m /\ \A k \in 1 .. m : b[k] = p[k] BY <1>2, <1>4
  <2> QED BY <1>1, <1>4, <2>1, SameSequences
<1>5. ASSUME m <= Len(p), a = b PROVE \A k \in 1 .. m : s[k] = p[k]
  <2>1. b \in Seq(S) /\ Len(b) = m /\ \A k \in 1 .. m : b[k] = p[k] BY <1>2, <1>5
  <2> QED BY <1>1, <1>5, <2>1
<1> QED BY <1>3, <1>4, <1>5 DEF m

(* The comparison of vfs_fsnotify_event finds what the watch is for.          *)
LEMMA MatchesIs ==
    ASSUME NEW w \in WatchRecords, NEW path \in Changed, NEW mask
    PROVE  Matches(w, path, mask) <=> mask \in w.mask /\ Under(w, path)
<1> DEFINE p == w.path
           n == Len(p)
           d == Append(p, "/")
<1> DEFINE S == STRING \cup {"/"}
<1>0. p \in Seq(STRING) /\ p # << >> /\ path \in Seq(STRING) BY FsNotifyAssumption DEF WatchRecords
<1>1. p \in Seq(S) /\ p # << >> /\ path \in Seq(S) /\ "/" \in S BY <1>0
<1> HIDE DEF S
<1>2. n \in Nat \ {0} /\ Last(p) = p[n] /\ Len(path) \in Nat BY <1>1 DEF Last
<1>3. d \in Seq(S) /\ Len(d) = n + 1 /\ d[n + 1] = "/" /\ \A k \in 1 .. n : d[k] = p[k]
  <2> HIDE DEF p
  <2> QED BY <1>1, AppendIs
<1>4. Matches(w, path, mask) = /\ mask \in w.mask /\ IsPrefix(p, path)
                               /\ p[n] = "/" \/ Len(path) = n \/ path[n + 1] = "/"
  BY DEF Matches
<1>5. /\ p[n] = "/" => (Under(w, path) <=> path = p \/ IsPrefix(p, path))
      /\ p[n] # "/" => (Under(w, path) <=> path = p \/ IsPrefix(d, path))
  BY <1>2 DEF Under
<1> HIDE DEF p, d
<1>6. IsPrefix(p, path) <=> n <= Len(path) /\ \A k \in 1 .. n : p[k] = path[k] BY <1>1, PrefixIs
<1>7. IsPrefix(d, path) <=> n + 1 <= Len(path) /\ \A k \in 1 .. n + 1 : d[k] = path[k] BY <1>1, <1>3, PrefixIs
<1>8. ASSUME path = p PROVE IsPrefix(p, path) /\ Len(path) = n BY <1>1, <1>2, <1>6, <1>8
<1>9. ASSUME IsPrefix(p, path), Len(path) = n PROVE path = p BY <1>1, <1>6, <1>9, SameSequences
<1> HIDE DEF n
<1>10. IsPrefix(d, path) <=> IsPrefix(p, path) /\ n + 1 <= Len(path) /\ path[n + 1] = "/"
  <2>1. ASSUME IsPrefix(d, path) PROVE IsPrefix(p, path) /\ n + 1 <= Len(path) /\ path[n + 1] = "/"
    <3>1. \A k \in 1 .. n : k \in 1 .. n + 1 BY <1>2
    <3>2. n <= Len(path) /\ n + 1 \in 1 .. n + 1 BY <1>2, <1>7, <2>1
    <3> QED BY <1>3, <1>6, <1>7, <2>1, <3>1, <3>2
  <2>2. ASSUME IsPrefix(p, path), n + 1 <= Len(path), path[n + 1] = "/" PROVE IsPrefix(d, path)
    <3>1. \A k \in 1 .. n + 1 : k = n + 1 \/ k \in 1 .. n BY <1>2
    <3> QED BY <1>3, <1>6, <1>7, <2>2, <3>1
  <2> QED BY <2>1, <2>2
<1>11. CASE p[n] = "/" BY <1>4, <1>5, <1>8, <1>11
<1>12. CASE p[n] # "/"
  <2>1. IsPrefix(p, path) => n <= Len(path) BY <1>6
  <2>2. IsPrefix(p, path) => Len(path) = n \/ n + 1 <= Len(path) BY <1>2, <2>1
  <2> QED BY <1>4, <1>5, <1>8, <1>9, <1>10, <1>12, <2>2
<1> QED BY <1>11, <1>12
-----------------------------------------------------------------------------
(* Every watch has a descriptor of its own and holds the newest events of the *)
(* log of that descriptor.                                                   *)
Logs == Seq(Seq(NotifyEvents))
Holds(w, q, lg) == w \in WatchRecords /\ w.wd \in 1 .. Len(lg) /\ Newest(w, q, lg[w.wd])
NotifyInv ==
    /\ log \in Logs /\ nextWd = Len(log) + 1
    /\ watches = [i \in WatchSlots |-> watches[i]] /\ ring \in [WatchSlots -> [Ring -> RingEvents]]
    /\ \A i \in WatchSlots : watches[i] # NoWatch => Holds(watches[i], ring[i], log)
    /\ \A i, j \in WatchSlots : i # j /\ watches[i] # NoWatch /\ watches[j] # NoWatch
                                => watches[i].wd # watches[j].wd

LEMMA NotifyInitInv == NotifyInit => NotifyInv
<1> SUFFICES ASSUME NotifyInit PROVE NotifyInv OBVIOUS
<1>1. log = << >> /\ << >> \in Logs /\ Len(<< >>) = 0 BY DEF NotifyInit, Logs
<1>2. ring \in [WatchSlots -> [Ring -> RingEvents]] BY DEF NotifyInit, RingEvents
<1> QED BY <1>1, <1>2 DEF NotifyInit, NotifyInv

LEMMA LogGrows ==
    ASSUME NEW lg \in Logs
    PROVE  LET l == Append(lg, << >>)
           IN  l \in Logs /\ Len(l) = Len(lg) + 1 /\ l[Len(lg) + 1] = << >> /\ \A k \in 1 .. Len(lg) : l[k] = lg[k]
<1>1. << >> \in Seq(NotifyEvents) OBVIOUS
<1> QED BY <1>1, AppendIs DEF Logs

LEMMA AddWatchInv ==
    ASSUME NotifyInv, NEW path \in Watched, NEW mask \in SUBSET Masks, AddWatch(path, mask)
    PROVE  NotifyInv'
<1> DEFINE S == WatchSlots \ InUseWatches
           i == CHOOSE x \in S : \A y \in S : x <= y
           w == [wd |-> nextWd, path |-> path, mask |-> mask, head |-> 0, tail |-> 0, count |-> 0]
<1>1. /\ S # {} /\ watches' = [watches EXCEPT ![i] = w] /\ nextWd' = nextWd + 1
      /\ log' = Append(log, << >>) /\ ring' = ring
  BY DEF AddWatch, InUseWatches
<1>2. S \subseteq Nat BY FsNotifyAssumption DEF WatchSlots
<1>3. \E x \in S : \A y \in S : x <= y BY <1>1, <1>2, HasLeast
<1> HIDE DEF S
<1>4. i \in S BY <1>3
<1> HIDE DEF i
<1>5. i \in WatchSlots BY <1>4 DEF S
<1>6. /\ log \in Logs /\ Len(log) \in Nat /\ nextWd = Len(log) + 1
      /\ ring \in [WatchSlots -> [Ring -> RingEvents]]
  BY DEF NotifyInv, Logs
<1>7. /\ log' \in Logs /\ Len(log') = nextWd /\ log'[nextWd] = << >> /\ nextWd' = Len(log') + 1
      /\ \A k \in 1 .. Len(log) : log'[k] = log[k]
  BY <1>1, <1>6, LogGrows
<1>8. w \in WatchRecords /\ w.wd = nextWd /\ w.head = 0 /\ w.tail = 0 /\ w.count = 0
  BY <1>6, FsNotifyAssumption DEF WatchRecords, Ring
<1> HIDE DEF w
<1>9. watches'[i] = w /\ (\A j \in WatchSlots \ {i} : watches'[j] = watches[j])
      /\ watches' = [j \in WatchSlots |-> watches'[j]]
  BY <1>1, <1>5 DEF NotifyInv
<1>10. Holds(w, ring[i], log')
  <2>1. Newest(w, ring[i], << >>) BY <1>5, <1>6, <1>8, NothingIs
  <2> QED BY <1>6, <1>7, <1>8, <2>1 DEF Holds
<1>11. ASSUME NEW j \in WatchSlots \ {i}, watches'[j] # NoWatch
       PROVE  Holds(watches'[j], ring'[j], log') /\ watches'[j].wd # nextWd
  <2>1. watches'[j] = watches[j] /\ ring'[j] = ring[j] BY <1>1, <1>9
  <2>2. Holds(watches[j], ring[j], log) BY <1>11, <2>1 DEF NotifyInv
  <2>3. watches[j].wd \in 1 .. Len(log) BY <2>2 DEF Holds
  <2>4. log'[watches[j].wd] = log[watches[j].wd] /\ watches[j].wd \in 1 .. Len(log') /\ watches[j].wd # nextWd
    BY <1>6, <1>7, <2>3
  <2> QED BY <2>1, <2>2, <2>4 DEF Holds
<1>12. ASSUME NEW j \in WatchSlots, NEW k \in WatchSlots, j # k, watches'[j] # NoWatch, watches'[k] # NoWatch
       PROVE  watches'[j].wd # watches'[k].wd
  <2>1. CASE j = i \/ k = i BY <1>8, <1>9, <1>11, <1>12, <2>1
  <2>2. CASE j # i /\ k # i
    <3>1. watches'[j] = watches[j] /\ watches'[k] = watches[k] BY <1>9, <2>2
    <3> QED BY <1>12, <3>1 DEF NotifyInv
  <2> QED BY <2>1, <2>2
<1>13. \A j \in WatchSlots : watches'[j] # NoWatch => Holds(watches'[j], ring'[j], log')
  BY <1>1, <1>9, <1>10, <1>11
<1> QED BY <1>1, <1>6, <1>7, <1>9, <1>12, <1>13 DEF NotifyInv

LEMMA RmWatchInv == ASSUME NotifyInv, NEW wd, RmWatch(wd) PROVE NotifyInv'
<1>1. PICK i \in InUseWatches : watches' = [watches EXCEPT ![i] = NoWatch] /\ UNCHANGED <<ring, nextWd, log>>
  BY DEF RmWatch
<1>2. i \in WatchSlots BY DEF InUseWatches
<1>3. watches'[i] = NoWatch /\ (\A j \in WatchSlots \ {i} : watches'[j] = watches[j])
      /\ watches' = [j \in WatchSlots |-> watches'[j]]
  BY <1>1, <1>2 DEF NotifyInv
<1> QED BY <1>1, <1>3 DEF NotifyInv

LEMMA EventInv ==
    ASSUME NotifyInv, NEW path \in Changed, NEW mask \in Masks, Event(path, mask)
    PROVE  NotifyInv'
<1> DEFINE hit == {i \in InUseWatches : Matches(watches[i], path, mask)}
           owed == {watches[i].wd : i \in {j \in InUseWatches : mask \in watches[j].mask /\ Under(watches[j], path)}}
           e == [mask |-> mask, path |-> path]
<1>1. /\ watches' = [i \in WatchSlots |-> IF i \in hit THEN Pushed(watches[i]) ELSE watches[i]]
      /\ ring' = [i \in WatchSlots |-> IF i \in hit THEN [ring[i] EXCEPT ![watches[i].tail] = e] ELSE ring[i]]
      /\ log' = [wd \in DOMAIN log |-> IF wd \in owed THEN Append(log[wd], e) ELSE log[wd]]
      /\ nextWd' = nextWd
  BY DEF Event
<1>2. e \in NotifyEvents BY DEF NotifyEvents
<1> HIDE DEF e
<1>3. log \in Logs /\ ring \in [WatchSlots -> [Ring -> RingEvents]] /\ nextWd = Len(log) + 1 BY DEF NotifyInv
<1>4. ASSUME NEW i \in WatchSlots, watches[i] # NoWatch
      PROVE  /\ watches[i] \in WatchRecords /\ watches[i].wd \in DOMAIN log
             /\ Newest(watches[i], ring[i], log[watches[i].wd])
             /\ i \in hit <=> watches[i].wd \in owed
  <2>1. Holds(watches[i], ring[i], log) BY <1>4 DEF NotifyInv
  <2>2. watches[i] \in WatchRecords /\ watches[i].wd \in DOMAIN log /\ Newest(watches[i], ring[i], log[watches[i].wd])
    BY <1>3, <2>1 DEF Holds, Logs
  <2>3. i \in hit <=> mask \in watches[i].mask /\ Under(watches[i], path)
    <3>1. Matches(watches[i], path, mask) <=> mask \in watches[i].mask /\ Under(watches[i], path)
      BY <2>2, MatchesIs
    <3> QED BY <1>4, <3>1 DEF InUseWatches
  <2>4. ASSUME watches[i].wd \in owed PROVE mask \in watches[i].mask /\ Under(watches[i], path)
    <3>1. PICK j \in InUseWatches : /\ mask \in watches[j].mask /\ Under(watches[j], path)
                                    /\ watches[j].wd = watches[i].wd
      BY <2>4
    <3>2. j = i BY <1>4, <3>1 DEF NotifyInv, InUseWatches
    <3> QED BY <3>1, <3>2
  <2>5. ASSUME mask \in watches[i].mask, Under(watches[i], path) PROVE watches[i].wd \in owed
    BY <1>4, <2>5 DEF InUseWatches
  <2> QED BY <2>2, <2>3, <2>4, <2>5
<1> HIDE DEF hit, owed
<1>5. log' \in Logs /\ Len(log') = Len(log) /\ DOMAIN log' = DOMAIN log
  <2>1. \A wd \in DOMAIN log : log[wd] \in Seq(NotifyEvents) BY <1>3 DEF Logs
  <2>2. \A wd \in DOMAIN log : log'[wd] \in Seq(NotifyEvents)
    <3> SUFFICES ASSUME NEW wd \in DOMAIN log PROVE log'[wd] \in Seq(NotifyEvents) OBVIOUS
    <3>1. log[wd] \in Seq(NotifyEvents) /\ Append(log[wd], e) \in Seq(NotifyEvents) BY <1>2, <2>1
    <3> QED BY <1>1, <3>1
  <2>3. DOMAIN log = 1 .. Len(log) /\ Len(log) \in Nat BY <1>3 DEF Logs
  <2> DEFINE S == Seq(NotifyEvents)
             n == Len(log)
  <2>4. log' \in [1 .. n -> S] /\ n \in Nat BY <1>1, <2>2, <2>3
  <2> HIDE DEF S, n
  <2>5. log' \in Seq(S) /\ Len(log') = n BY <2>4
  <2> QED BY <1>1, <2>5 DEF Logs, S, n
<1>6. ASSUME NEW i \in WatchSlots, watches'[i] # NoWatch
      PROVE  /\ watches[i] # NoWatch /\ watches'[i].wd = watches[i].wd
             /\ Holds(watches'[i], ring'[i], log')
  <2> DEFINE w == watches[i]
             q == ring[i]
             all == log[watches[i].wd]
  <2>1. watches[i] # NoWatch
    <3>1. i \notin hit => watches'[i] = watches[i] BY <1>1
    <3>2. i \in hit => watches[i] # NoWatch BY DEF hit, InUseWatches
    <3> QED BY <1>6, <3>1, <3>2
  <2>2. w \in WatchRecords /\ w.wd \in DOMAIN log /\ Newest(w, q, all) /\ (i \in hit <=> w.wd \in owed)
    BY <1>4, <2>1
  <2>3. log'[w.wd] = IF w.wd \in owed THEN Append(log[w.wd], e) ELSE log[w.wd] BY <1>1, <2>2
  <2>4. w.wd \in 1 .. Len(log') BY <1>3, <1>5, <2>2 DEF Logs
  <2>5. CASE i \in hit
    <3>1. watches'[i] = Pushed(w) /\ ring'[i] = [q EXCEPT ![w.tail] = e] /\ log'[w.wd] = Append(all, e)
      BY <1>1, <2>2, <2>3, <2>5
    <3> HIDE DEF w, q, all
    <3>2. /\ Pushed(w) \in WatchRecords /\ Pushed(w).wd = w.wd
          /\ Newest(Pushed(w), [q EXCEPT ![w.tail] = e], Append(all, e))
      BY <1>2, <2>2, PushedIs
    <3> QED BY <2>1, <2>4, <3>1, <3>2 DEF Holds, w
  <2>6. CASE i \notin hit
    <3>1. watches'[i] = w /\ ring'[i] = q /\ log'[w.wd] = all BY <1>1, <2>2, <2>3, <2>6
    <3> HIDE DEF w, q, all
    <3> QED BY <2>1, <2>2, <2>4, <3>1 DEF Holds, w
  <2> QED BY <2>5, <2>6
<1>7. ring' \in [WatchSlots -> [Ring -> RingEvents]]
  <2>1. \A i \in WatchSlots : ring[i] \in [Ring -> RingEvents] /\ [ring[i] EXCEPT ![watches[i].tail] = e] \in [Ring -> RingEvents]
    BY <1>2, <1>3 DEF RingEvents
  <2> QED BY <1>1, <2>1
<1>8. watches' = [i \in WatchSlots |-> watches'[i]] BY <1>1
<1>9. \A i, j \in WatchSlots : i # j /\ watches'[i] # NoWatch /\ watches'[j] # NoWatch
                               => watches'[i].wd # watches'[j].wd
  BY <1>6 DEF NotifyInv
<1> QED BY <1>1, <1>3, <1>5, <1>6, <1>7, <1>8, <1>9 DEF NotifyInv

LEMMA ReadInv == ASSUME NotifyInv, NEW wd, NEW max \in Nat, Read(wd, max) PROVE NotifyInv'
<1>1. PICK i \in InUseWatches :
          LET n == IF watches[i].count < max THEN watches[i].count ELSE max
              lost == Len(log[wd]) - watches[i].count
          IN  /\ watches[i].wd = wd /\ n > 0
              /\ watches' = [watches EXCEPT ![i].head = (@ + n) % EVENT_MAX, ![i].count = @ - n]
              /\ log' = [log EXCEPT ![wd] = SubSeq(@, lost + n + 1, Len(@))]
              /\ UNCHANGED <<ring, nextWd>>
  BY DEF Read
<1> DEFINE w == watches[i]
           q == ring[i]
           all == log[wd]
           n == IF w.count < max THEN w.count ELSE max
           u == [w EXCEPT !.head = (w.head + n) % EVENT_MAX, !.count = w.count - n]
           a == SubSeq(all, Len(all) - w.count + n + 1, Len(all))
<1>2. i \in WatchSlots /\ w # NoWatch BY DEF InUseWatches
<1>3. /\ log \in Logs /\ ring \in [WatchSlots -> [Ring -> RingEvents]] /\ nextWd = Len(log) + 1
      /\ watches = [j \in WatchSlots |-> watches[j]]
  BY DEF NotifyInv
<1>4. w \in WatchRecords /\ wd \in 1 .. Len(log) /\ w.wd = wd /\ Newest(w, q, all)
  BY <1>1, <1>2 DEF NotifyInv, Holds
<1>5. n \in 1 .. w.count BY <1>1, <1>4, FsNotifyAssumption DEF WatchRecords
<1>6. watches' = [watches EXCEPT ![i] = u] BY <1>1, <1>2, <1>3
<1>7. log' = [log EXCEPT ![wd] = a] /\ ring' = ring /\ nextWd' = nextWd BY <1>1
<1>8. u \in WatchRecords /\ u.wd = w.wd /\ Newest(u, q, a)
  <2> HIDE DEF w, q, all, n
  <2> QED BY <1>4, <1>5, PoppedIs
<1> HIDE DEF w, u, a, n
<1>9. a \in Seq(NotifyEvents) BY <1>8 DEF Newest, NewestAt
<1>10. log' \in Logs /\ Len(log') = Len(log) /\ log'[wd] = a /\ \A k \in 1 .. Len(log) : k # wd => log'[k] = log[k]
  <2> DEFINE S == Seq(NotifyEvents)
  <2>1. log \in Seq(S) /\ wd \in 1 .. Len(log) /\ a \in S BY <1>3, <1>4, <1>9 DEF Logs
  <2> HIDE DEF S
  <2>2. log' \in Seq(S) /\ Len(log') = Len(log) /\ log'[wd] = a /\ \A k \in 1 .. Len(log) : k # wd => log'[k] = log[k]
    BY <1>7, <2>1
  <2> QED BY <2>2 DEF S, Logs
<1>11. watches'[i] = u /\ (\A j \in WatchSlots \ {i} : watches'[j] = watches[j])
       /\ watches' = [j \in WatchSlots |-> watches'[j]]
  BY <1>2, <1>3, <1>6
<1>12. Holds(u, ring[i], log') BY <1>4, <1>8, <1>10 DEF Holds
<1>13. ASSUME NEW j \in WatchSlots \ {i}, watches'[j] # NoWatch
       PROVE  Holds(watches'[j], ring'[j], log') /\ watches'[j].wd # wd
  <2>1. watches'[j] = watches[j] /\ ring'[j] = ring[j] /\ watches[j] # NoWatch BY <1>7, <1>11, <1>13
  <2>2. Holds(watches[j], ring[j], log) BY <2>1 DEF NotifyInv
  <2>3. watches[j].wd # wd BY <1>2, <1>4, <2>1 DEF NotifyInv, w
  <2>4. log'[watches[j].wd] = log[watches[j].wd] BY <1>10, <2>2, <2>3 DEF Holds
  <2> QED BY <1>10, <2>1, <2>2, <2>3, <2>4 DEF Holds
<1>14. ASSUME NEW j \in WatchSlots, NEW k \in WatchSlots, j # k, watches'[j] # NoWatch, watches'[k] # NoWatch
       PROVE  watches'[j].wd # watches'[k].wd
  <2>1. CASE j = i \/ k = i BY <1>4, <1>8, <1>11, <1>13, <1>14, <2>1
  <2>2. CASE j # i /\ k # i
    <3>1. watches'[j] = watches[j] /\ watches'[k] = watches[k] BY <1>11, <2>2
    <3> QED BY <1>14, <3>1 DEF NotifyInv
  <2> QED BY <2>1, <2>2
<1>15. \A j \in WatchSlots : watches'[j] # NoWatch => Holds(watches'[j], ring'[j], log')
  BY <1>7, <1>11, <1>12, <1>13
<1> QED BY <1>3, <1>7, <1>10, <1>11, <1>14, <1>15 DEF NotifyInv

(* Who reads a watch finds the newest events that are its own (vfs_fsnotify.c,*)
(* every function), for any number of watches, ring places, paths and masks.  *)
THEOREM NewestAreRead == NotifySpec => []NewestInOrder
<1>1. NotifyInv /\ [NotifyNext]_notifyVars => NotifyInv'
  <2> SUFFICES ASSUME NotifyInv, [NotifyNext]_notifyVars PROVE NotifyInv' OBVIOUS
  <2>1. ASSUME NEW path \in Watched, NEW mask \in (SUBSET Masks) \ {{}}, AddWatch(path, mask) PROVE NotifyInv'
    BY <2>1, AddWatchInv
  <2>2. ASSUME NEW wd \in 1 .. MaxWd, RmWatch(wd) PROVE NotifyInv' BY <2>2, RmWatchInv
  <2>3. ASSUME NEW path \in Changed, NEW mask \in Masks, Event(path, mask) PROVE NotifyInv' BY <2>3, EventInv
  <2>4. ASSUME NEW wd \in 1 .. MaxWd, NEW max \in 1 .. EVENT_MAX, Read(wd, max) PROVE NotifyInv'
    <3>1. max \in Nat BY FsNotifyAssumption
    <3> QED BY <2>4, <3>1, ReadInv
  <2>5. CASE UNCHANGED notifyVars BY <2>5 DEF notifyVars, NotifyInv
  <2> QED BY <2>1, <2>2, <2>3, <2>4, <2>5 DEF NotifyNext
<1>2. NotifyInv => NewestInOrder
  <2> SUFFICES ASSUME NotifyInv, NEW i \in InUseWatches
               PROVE  LET all == log[watches[i].wd]
                          n == IF Len(all) < EVENT_MAX THEN Len(all) ELSE EVENT_MAX
                      IN  Content(i) = SubSeq(all, Len(all) - n + 1, Len(all))
    BY DEF NewestInOrder
  <2> DEFINE w == watches[i]
             q == ring[i]
             all == log[watches[i].wd]
             c == w.count
             r == w.head
             l == Len(all)
  <2>1. Newest(w, q, all) BY DEF NotifyInv, Holds, InUseWatches
  <2>2. /\ all \in Seq(NotifyEvents) /\ c = IF l < EVENT_MAX THEN l ELSE EVENT_MAX
        /\ \A k \in 1 .. c : q[Turn(r + k - 1, EVENT_MAX)] = all[l - c + k]
    BY <2>1 DEF Newest, NewestAt
  <2>3. Content(i) = [k \in 1 .. c |-> q[Turn(r + k - 1, EVENT_MAX)]] BY DEF Content, Turn
  <2> HIDE DEF w, q, all, c, r, l
  <2>4. Content(i) = [k \in 1 .. c |-> all[l - c + k]] BY <2>2, <2>3
  <2>5. l \in Nat /\ c \in Nat /\ c <= l BY <2>2, FsNotifyAssumption DEF l
  <2>6. SubSeq(all, l - c + 1, l) = [k \in 1 .. c |-> all[l - c + k]]
    <3> DEFINE b == SubSeq(all, l - c + 1, l)
    <3>1. b \in Seq(NotifyEvents) /\ Len(b) = c /\ \A k \in 1 .. c : b[k] = all[l - c + k] BY <2>2, <2>5 DEF l
    <3> HIDE DEF b
    <3>2. b = [k \in 1 .. c |-> b[k]] BY <3>1
    <3> QED BY <3>1, <3>2 DEF b
  <2>7. Content(i) = SubSeq(all, l - c + 1, l) BY <2>4, <2>6
  <2> QED BY <2>2, <2>7 DEF all, l
<1> QED BY <1>1, <1>2, NotifyInitInv, PTL DEF NotifySpec
-----------------------------------------------------------------------------
(* Doubling reaches what is needed: each round adds a byte at least.          *)
LEMMA CapacityIs == ASSUME data \in Seq(Nat), NEW need \in Nat PROVE Capacity(need) \in Nat /\ Capacity(need) >= need
<1> DEFINE a == IF data = <<>> THEN FirstCap ELSE 2 * Len(data)
           P == Nat \ {0}
           Step(e) == IF e < need THEN 2 * e ELSE e
           F == [p \in P \X (1 .. need) |-> Step(p[1])]
           Is(g) == g = [k \in 0 .. need |-> IF k = 0 THEN a ELSE Step(g[k - 1])]
           up == CHOOSE g : Is(g)
<1>1. a \in P
  <2>1. data # <<>> => Len(data) \in Nat \ {0} BY RamFileAssumption
  <2> QED BY <2>1, RamFileAssumption
<1>2. \A e \in P : Step(e) \in P /\ (Step(e) >= need \/ Step(e) >= e + 1) /\ (e >= need => Step(e) = e) OBVIOUS
<1>3. Capacity(need) = up[need] BY DEF Capacity
<1>4. F \in Steps(P, need) BY <1>2 DEF Steps
<1>5. \A e \in P, k \in 1 .. need : F[<<e, k>>] = Step(e) OBVIOUS
<1> HIDE DEF F, a, P, Step
<1>6. PICK g : Recurs(g, P, need, a, F) BY <1>1, <1>4, Recursion
<1>7. g \in [0 .. need -> P] /\ g[0] = a /\ \A k \in 1 .. need : g[k] = F[<<g[k - 1], k>>]
  BY <1>6 DEF Recurs
<1>8. Is(g)
  <2>1. \A k \in 0 .. need : g[k] = IF k = 0 THEN a ELSE Step(g[k - 1])
    <3> SUFFICES ASSUME NEW k \in 0 .. need, k # 0 PROVE g[k] = Step(g[k - 1]) BY <1>7
    <3>1. k \in 1 .. need /\ k - 1 \in 0 .. need OBVIOUS
    <3>2. g[k - 1] \in P BY <1>7, <3>1
    <3> QED BY <1>5, <1>7, <3>1, <3>2
  <2>2. g = [k \in 0 .. need |-> g[k]] BY <1>7
  <2> QED BY <2>1, <2>2
<1> HIDE DEF Is
<1>9. Is(up) BY <1>8
<1>10. up = [k \in 0 .. need |-> IF k = 0 THEN a ELSE Step(up[k - 1])] BY <1>9 DEF Is
<1> HIDE DEF up
<1>11. up[0] = a /\ \A k \in 1 .. need : up[k] = Step(up[k - 1]) BY <1>10
<1>12. \A k \in 0 .. need : up[k] \in P /\ (up[k] >= need \/ up[k] > k)
  <2> DEFINE S == {k \in 0 .. need : up[k] \in P /\ (up[k] >= need \/ up[k] > k)}
  <2>1. 0 \in S BY <1>1, <1>11 DEF P
  <2>2. ASSUME NEW k \in 1 .. need, k - 1 \in S PROVE k \in S
    <3> DEFINE e == up[k - 1]
    <3>1. e \in P /\ (e >= need \/ e > k - 1) /\ up[k] = Step(e) BY <1>11, <2>2
    <3> HIDE DEF e
    <3>2. Step(e) \in P /\ (Step(e) >= need \/ Step(e) >= e + 1) /\ (e >= need => Step(e) = e) BY <1>2, <3>1
    <3>3. Step(e) >= need \/ Step(e) > k BY <3>1, <3>2 DEF P
    <3> QED BY <3>1, <3>2, <3>3
  <2> HIDE DEF S
  <2>3. \A k \in 0 .. need : k \in S BY <2>1, <2>2, UpTo
  <2> QED BY <2>3 DEF S
<1>13. up[need] \in P /\ (up[need] >= need \/ up[need] > need) BY <1>12
<1> QED BY <1>3, <1>13 DEF P

(* The bytes of the buffer, those behind the file's end too, are its own: the *)
(* file may grow over them without clearing them.                            *)
Kept(d, w, p, s) ==
    \A i \in FilePlaces : i < Len(d) => IF w[i] # 0 THEN i < s /\ d[i + 1] = w[i] ELSE d[i + 1] \in p[i]
RamFileInv ==
    /\ size \in 0 .. MaxSize /\ data \in Seq(Nat) /\ size <= Len(data)
    /\ handle \in [Handles -> {Shut} \cup (0 .. MaxSize)] /\ writes \in Nat
    /\ wrote \in [FilePlaces -> Nat] /\ past \in [FilePlaces -> SUBSET Nat] /\ \A i \in FilePlaces : 0 \in past[i]
    /\ \A i \in FilePlaces : wrote[i] # 0 => i < size /\ wrote[i] \in past[i]
    /\ Kept(data, wrote, past, size)

LEMMA GrownIs ==
    ASSUME RamFileInv, NEW need \in 0 .. MaxSize
    PROVE  LET b == Grown(need)
           IN  /\ b \in Seq(Nat) /\ need <= Len(b) /\ size <= Len(b)
               /\ \A i \in 1 .. Len(b) : b[i] = IF i <= Len(data) /\ (i <= size \/ Len(b) = Len(data)) THEN data[i] ELSE 0
<1> DEFINE b == Grown(need)
           c == Capacity(need)
<1>1. data \in Seq(Nat) /\ Len(data) \in Nat /\ size \in Nat /\ size <= Len(data) /\ need \in Nat
      /\ DOMAIN data = 1 .. Len(data)
  BY RamFileAssumption DEF RamFileInv
<1>2. CASE need <= Len(data)
  <2>1. b = data BY <1>2 DEF Grown
  <2> QED BY <1>1, <1>2, <2>1
<1>3. CASE ~(need <= Len(data))
  <2>1. c \in Nat /\ c >= need BY <1>1, CapacityIs
  <2>2. b = [i \in 1 .. c |-> IF i <= size THEN data[i] ELSE 0] BY <1>3 DEF Grown
  <2> HIDE DEF b, c
  <2>3. \A i \in 1 .. c : i <= size => i <= Len(data) /\ data[i] \in Nat BY <1>1
  <2>4. b \in [1 .. c -> Nat] BY <2>2, <2>3
  <2>5. b \in Seq(Nat) /\ Len(b) = c BY <2>1, <2>4
  <2>6. c # Len(data) /\ need <= c /\ size <= c
    <3> DEFINE l == Len(data)
    <3>1. l \in Nat /\ need \in Nat /\ size \in Nat /\ c \in Nat /\ ~(need <= l) /\ size <= l /\ c >= need
      BY <1>1, <1>3, <2>1
    <3> HIDE DEF l
    <3>2. c # l /\ need <= c /\ size <= c BY ONLY <3>1
    <3> QED BY <3>2 DEF l
  <2>7. ASSUME NEW i \in 1 .. Len(b)
        PROVE  b[i] = IF i <= Len(data) /\ (i <= size \/ Len(b) = Len(data)) THEN data[i] ELSE 0
    <3>1. i \in 1 .. c /\ Len(b) # Len(data) BY <2>5, <2>6, Zenon
    <3>2. b[i] = IF i <= size THEN data[i] ELSE 0 BY <2>2, <3>1
    <3>3. i <= size => i <= Len(data) BY <2>3, <3>1
    <3> QED BY <3>1, <3>2, <3>3
  <2>8. need <= Len(b) /\ size <= Len(b) BY <2>5, <2>6
  <2> QED BY <2>5, <2>7, <2>8 DEF b
<1> QED BY <1>2, <1>3

LEMMA WriteFileInv ==
    ASSUME RamFileInv, NEW h \in Handles, NEW count \in 1 .. MaxCount, WriteFile(h, count)
    PROVE  RamFileInv'
<1> DEFINE pos == handle[h]
           stamp == writes + 1
           b == Grown(pos + count)
           hit == pos .. pos + count - 1
           end == pos + count
<1>1. /\ pos # Shut /\ end <= MaxSize
      /\ data' = [i \in 1 .. Len(b) |-> IF i - 1 \in hit THEN stamp ELSE b[i]]
      /\ handle' = [handle EXCEPT ![h] = end]
      /\ size' = IF end > size THEN end ELSE size
      /\ writes' = stamp
      /\ wrote' = [i \in FilePlaces |-> IF i \in hit THEN stamp ELSE wrote[i]]
      /\ past' = [i \in FilePlaces |-> IF i \in hit THEN past[i] \cup {stamp} ELSE past[i]]
  BY DEF WriteFile
<1>2. /\ size \in 0 .. MaxSize /\ data \in Seq(Nat) /\ size <= Len(data) /\ Len(data) \in Nat
      /\ handle \in [Handles -> {Shut} \cup (0 .. MaxSize)] /\ writes \in Nat /\ MaxSize \in Nat
      /\ wrote \in [FilePlaces -> Nat] /\ past \in [FilePlaces -> SUBSET Nat]
  BY RamFileAssumption DEF RamFileInv
<1>3. pos \in 0 .. MaxSize /\ count \in Nat \ {0} /\ end \in 0 .. MaxSize BY <1>1, <1>2, RamFileAssumption
<1>4. /\ b \in Seq(Nat) /\ Len(b) \in Nat /\ end <= Len(b) /\ size <= Len(b)
      /\ \A i \in 1 .. Len(b) : b[i] = IF i <= Len(data) /\ (i <= size \/ Len(b) = Len(data)) THEN data[i] ELSE 0
  BY <1>3, GrownIs
<1>5. stamp \in Nat \ {0} BY <1>2
<1>6. \A i \in Int : i \in hit <=> pos <= i /\ i < end BY <1>3
<1> HIDE DEF pos, stamp, b, hit, end
<1>7. size' \in 0 .. MaxSize /\ size' <= Len(b) /\ size <= size' /\ end <= size' BY <1>1, <1>2, <1>3, <1>4
<1>8. data' \in Seq(Nat) /\ Len(data') = Len(b) /\ \A i \in 1 .. Len(b) : data'[i] = IF i - 1 \in hit THEN stamp ELSE b[i]
  <2> DEFINE n == Len(b)
  <2>1. n \in Nat /\ \A i \in 1 .. n : b[i] \in Nat BY <1>4
  <2>2. data' \in [1 .. n -> Nat] /\ \A i \in 1 .. n : data'[i] = IF i - 1 \in hit THEN stamp ELSE b[i]
    BY <1>1, <1>5, <2>1
  <2> HIDE DEF n
  <2>3. data' \in Seq(Nat) /\ Len(data') = n BY <2>1, <2>2
  <2> QED BY <2>2, <2>3 DEF n
<1>9. handle' \in [Handles -> {Shut} \cup (0 .. MaxSize)] BY <1>1, <1>2, <1>3
<1>10. wrote' \in [FilePlaces -> Nat] /\ past' \in [FilePlaces -> SUBSET Nat] BY <1>1, <1>2, <1>5
<1>11. ASSUME NEW i \in FilePlaces
       PROVE  /\ 0 \in past'[i]
              /\ wrote'[i] # 0 => i < size' /\ wrote'[i] \in past'[i]
              /\ i < Len(data') => IF wrote'[i] # 0 THEN i < size' /\ data'[i + 1] = wrote'[i] ELSE data'[i + 1] \in past'[i]
  <2>1. i \in Nat /\ i \in Int BY <1>2 DEF FilePlaces
  <2>2. 0 \in past[i] /\ (wrote[i] # 0 => i < size /\ wrote[i] \in past[i]) BY DEF RamFileInv
  <2>3. i < Len(data) => IF wrote[i] # 0 THEN i < size /\ data[i + 1] = wrote[i] ELSE data[i + 1] \in past[i]
    BY DEF RamFileInv, Kept
  <2>4. ASSUME i < Len(data')
        PROVE  i + 1 \in 1 .. Len(b) /\ data'[i + 1] = IF i \in hit THEN stamp ELSE b[i + 1]
    <3> DEFINE j == i + 1
    <3>1. j \in 1 .. Len(b) /\ j - 1 = i BY <1>4, <1>8, <2>1, <2>4
    <3> HIDE DEF j
    <3>2. data'[j] = IF i \in hit THEN stamp ELSE b[j] BY <1>8, <3>1
    <3> QED BY <3>1, <3>2 DEF j
  <2>5. CASE i \in hit
    <3>1. wrote'[i] = stamp /\ past'[i] = past[i] \cup {stamp} BY <1>1, <2>5
    <3>2. i < size' BY <1>2, <1>3, <1>6, <1>7, <2>1, <2>5
    <3>3. i < Len(data') => data'[i + 1] = stamp BY <2>4, <2>5
    <3> QED BY <1>5, <2>2, <3>1, <3>2, <3>3
  <2>6. CASE i \notin hit
    <3>1. wrote'[i] = wrote[i] /\ past'[i] = past[i] BY <1>1, <2>6
    <3>2. i < size => i < size' BY <1>2, <1>7, <2>1
    <3>3. i < Len(data') => data'[i + 1] = b[i + 1] BY <2>4, <2>6
    <3>4. ASSUME i < Len(data')
          PROVE  b[i + 1] = IF i < Len(data) /\ (i < size \/ Len(b) = Len(data)) THEN data[i + 1] ELSE 0
      <4>1. (i + 1 <= Len(data) <=> i < Len(data)) /\ (i + 1 <= size <=> i < size) BY <1>2, <2>1
      <4> QED BY <1>4, <2>4, <3>4, <4>1
    <3>5. i < size => i < Len(data) BY <1>2, <2>1
    <3> QED BY <2>2, <2>3, <3>1, <3>2, <3>3, <3>4, <3>5
  <2> QED BY <2>5, <2>6
<1>12. Kept(data', wrote', past', size') BY <1>11 DEF Kept
<1> QED BY <1>1, <1>5, <1>7, <1>8, <1>9, <1>10, <1>11, <1>12 DEF RamFileInv

LEMMA RamFileNextInv == RamFileInv /\ [RamFileNext]_ramFileVars => RamFileInv'
<1> SUFFICES ASSUME RamFileInv, [RamFileNext]_ramFileVars PROVE RamFileInv' OBVIOUS
<1>1. MaxSize \in Nat /\ size \in 0 .. MaxSize /\ handle \in [Handles -> {Shut} \cup (0 .. MaxSize)]
  BY RamFileAssumption DEF RamFileInv
<1>2. ASSUME NEW h \in Handles, NEW trunc \in BOOLEAN, OpenRam(h, trunc) PROVE RamFileInv'
  <2>1. handle' \in [Handles -> {Shut} \cup (0 .. MaxSize)] /\ UNCHANGED <<data, writes, past>>
    BY <1>1, <1>2 DEF OpenRam
  <2>2. CASE trunc = TRUE
    <3>1. size' = 0 /\ wrote' = [i \in FilePlaces |-> 0] BY <1>2, <2>2 DEF OpenRam
    <3>2. \A i \in FilePlaces : i < Len(data) => data[i + 1] \in past[i] BY DEF RamFileInv, Kept
    <3>3. \A i \in FilePlaces : wrote'[i] = 0 BY <3>1
    <3>4. Kept(data', wrote', past', size') BY <2>1, <3>2, <3>3 DEF Kept
    <3>5. 0 \in 0 .. MaxSize /\ 0 <= Len(data) BY <1>1 DEF RamFileInv
    <3> QED BY <2>1, <3>1, <3>3, <3>4, <3>5 DEF RamFileInv
  <2>3. CASE trunc = FALSE
    <3>1. size' = size /\ wrote' = wrote BY <1>2, <2>3 DEF OpenRam
    <3> QED BY <2>1, <3>1 DEF RamFileInv
  <2> QED BY <2>2, <2>3
<1>3. ASSUME handle' \in [Handles -> {Shut} \cup (0 .. MaxSize)], UNCHANGED <<size, data, writes, wrote, past>>
      PROVE  RamFileInv'
  BY <1>3 DEF RamFileInv
<1>4. ASSUME NEW h \in Handles, CloseFile(h) PROVE RamFileInv' BY <1>1, <1>3, <1>4 DEF CloseFile
<1>5. ASSUME NEW h \in Handles, NEW base, NEW off, Seek(h, base, off) PROVE RamFileInv'
  BY <1>1, <1>3, <1>5 DEF Seek
<1>6. ASSUME NEW h \in Handles, NEW count \in 1 .. MaxCount, ReadFile(h, count) PROVE RamFileInv'
  <2> DEFINE pos == handle[h]
             n == IF pos >= size THEN 0 ELSE IF count > size - pos THEN size - pos ELSE count
  <2>1. /\ pos # Shut /\ handle' = [handle EXCEPT ![h] = pos + n]
        /\ UNCHANGED <<size, data, writes, wrote, past>>
    BY <1>6 DEF ReadFile
  <2>2. pos \in 0 .. MaxSize BY <1>1, <2>1
  <2> HIDE DEF pos
  <2>3. pos + n \in 0 .. MaxSize BY <1>1, <2>2, RamFileAssumption
  <2> HIDE DEF n
  <2> QED BY <1>1, <1>3, <2>1, <2>3
<1>7. CASE UNCHANGED ramFileVars BY <1>7 DEF ramFileVars, RamFileInv
<1> QED BY <1>2, <1>4, <1>5, <1>6, <1>7, WriteFileInv DEF RamFileNext

(* A read gives out what was written last, or what the file held there        *)
(* (ramfs.c, ram_write and ramfs_open), for any number of descriptors and any *)
(* sizes.                                                                    *)
THEOREM FilesReadBack == RamFileSpec => []ReadsBack
<1>1. RamFileInit => RamFileInv
  <2> SUFFICES ASSUME RamFileInit PROVE RamFileInv OBVIOUS
  <2>1. data = <<>> /\ <<>> \in Seq(Nat) /\ Len(<<>>) = 0 BY DEF RamFileInit
  <2>2. size = 0 /\ MaxSize \in Nat BY RamFileAssumption DEF RamFileInit
  <2>3. Kept(data, wrote, past, size) BY <2>1, RamFileAssumption DEF RamFileInit, Kept, FilePlaces
  <2>4. /\ handle \in [Handles -> {Shut} \cup (0 .. MaxSize)] /\ writes \in Nat
        /\ wrote \in [FilePlaces -> Nat] /\ past \in [FilePlaces -> SUBSET Nat]
        /\ \A i \in FilePlaces : 0 \in past[i] /\ wrote[i] = 0
    BY DEF RamFileInit
  <2> QED BY <2>1, <2>2, <2>3, <2>4 DEF RamFileInv
<1>2. RamFileInv => ReadsBack
  <2> SUFFICES ASSUME RamFileInv, NEW i \in 0 .. size - 1
               PROVE  IF wrote[i] # 0 THEN data[i + 1] = wrote[i] ELSE data[i + 1] \in past[i]
    BY DEF ReadsBack
  <2>1. i \in FilePlaces /\ i < Len(data) BY RamFileAssumption DEF RamFileInv, FilePlaces
  <2> QED BY <2>1 DEF RamFileInv, Kept
<1> QED BY <1>1, <1>2, RamFileNextInv, PTL DEF RamFileSpec

-----------------------------------------------------------------------------
(* BlockQueue. The descriptors of a queue with links nx, flags mo and         *)
(* requests at the heads H: L is the free list, n long from fh on.            *)
PendingHeads(pd) == {pd[p].head : p \in {q \in Places : pd[q].req # 0}}
DescChain(nx, h) == {h, nx[h], nx[nx[h]]}

FreeAs(nx, fh, n, L) ==
    /\ L \in [1 .. n -> Descs]
    /\ \A i, j \in 1 .. n : L[i] = L[j] => i = j
    /\ n > 0 => L[1] = fh
    /\ \A i \in 1 .. n - 1 : nx[L[i]] = L[i + 1]

Three(nx, mo, h) ==
    /\ h \in Descs /\ nx[h] \in Descs /\ nx[nx[h]] \in Descs
    /\ h # nx[h] /\ h # nx[nx[h]] /\ nx[h] # nx[nx[h]]
    /\ h \in mo /\ nx[h] \in mo /\ nx[nx[h]] \notin mo

Chained(nx, mo, H, n, L) ==
    /\ \A h \in H : Three(nx, mo, h) /\ \A i \in 1 .. n : L[i] \notin DescChain(nx, h)
    /\ \A g, h \in H : g # h => DescChain(nx, g) \cap DescChain(nx, h) = {}

(* What a submit that found less than three has lost was the rest that three *)
(* do not divide.                                                            *)
Counted(n, H) ==
    /\ n \in Nat /\ IsFiniteSet(H)
    /\ \E l \in 0 .. 2 : /\ QSize = n + 3 * Cardinality(H) + l
                         /\ l = 0 \/ \E m \in Nat : n = 3 * m

DescsKept(nx, mo, fh, n, H) ==
    /\ nx \in [Descs -> 0 .. QSize] /\ fh \in 0 .. QSize
    /\ Counted(n, H)
    /\ \E L : FreeAs(nx, fh, n, L) /\ Chained(nx, mo, H, n, L)

-----------------------------------------------------------------------------
(* The free list is followed as far as it goes.                              *)
LEMMA ListIs ==
    ASSUME NEW n \in Nat, NEW L, FreeAs(next, freeHead, n, L), NEW k \in Nat, k <= n
    PROVE  FreeList(k) = [i \in 1 .. k |-> L[i]]
<1> DEFINE Is(f) == f = [i \in 1 .. k |-> IF i = 1 THEN freeHead ELSE next[f[i - 1]]]
           at == CHOOSE f : Is(f)
           g == [i \in 1 .. k |-> L[i]]
<1>1. FreeList(k) = [i \in 1 .. k |-> at[i]] BY DEF FreeList
<1>2. Is(g)
  <2>1. ASSUME NEW i \in 1 .. k PROVE g[i] = IF i = 1 THEN freeHead ELSE next[g[i - 1]]
    <3>1. CASE i = 1
      <4>1. n > 0 /\ g[i] = L[1] BY <3>1
      <4> QED BY <3>1, <4>1 DEF FreeAs
    <3>2. CASE i # 1
      <4>1. i - 1 \in 1 .. k /\ i - 1 \in 1 .. n - 1 /\ (i - 1) + 1 = i BY <3>2
      <4>2. next[L[i - 1]] = L[i] BY <4>1 DEF FreeAs
      <4>3. g[i] = L[i] /\ g[i - 1] = L[i - 1] BY <4>1
      <4> QED BY <3>2, <4>2, <4>3
    <3> QED BY <3>1, <3>2
  <2> QED BY <2>1
<1> HIDE DEF Is, g
<1>3. Is(at) BY <1>2
<1> USE DEF Is
<1> HIDE DEF at
<1>4. at = [i \in 1 .. k |-> IF i = 1 THEN freeHead ELSE next[at[i - 1]]] BY <1>3
<1> HIDE DEF Is
<1>5. \A i \in 1 .. k : at[i] = L[i]
  <2> DEFINE S == {i \in 0 .. k : i = 0 \/ at[i] = L[i]}
  <2>1. 0 \in S OBVIOUS
  <2>2. ASSUME NEW i \in 1 .. k, i - 1 \in S PROVE i \in S
    <3>1. at[i] = IF i = 1 THEN freeHead ELSE next[at[i - 1]] BY <1>4
    <3>2. CASE i = 1
      <4>1. n > 0 BY <3>2
      <4> QED BY <3>1, <3>2, <4>1 DEF FreeAs
    <3>3. CASE i # 1
      <4>1. i - 1 \in 1 .. n - 1 /\ (i - 1) + 1 = i /\ at[i - 1] = L[i - 1] BY <2>2, <3>3
      <4>2. next[L[i - 1]] = L[i] BY <4>1 DEF FreeAs
      <4> QED BY <3>1, <3>3, <4>1, <4>2
    <3> QED BY <3>2, <3>3
  <2> HIDE DEF S
  <2>3. \A i \in 0 .. k : i \in S BY <2>1, <2>2, UpTo
  <2>4. ASSUME NEW i \in 1 .. k PROVE at[i] = L[i]
    <3>1. i \in 0 .. k /\ i # 0 OBVIOUS
    <3> QED BY <2>3, <3>1 DEF S
  <2> QED BY <2>4
<1> QED BY <1>1, <1>5

(* Three are taken off the list and linked.                                  *)
Taking(nx, L) == [nx EXCEPT ![L[1]] = L[2], ![L[2]] = L[3], ![L[3]] = 0]
Flags(mo, L) == (mo \cup {L[1], L[2]}) \ {L[3]}
Rest(L, n) == [i \in 1 .. n - 3 |-> L[i + 3]]

LEMMA ThreeTaken ==
    ASSUME NEW nx, nx \in [Descs -> 0 .. QSize], NEW fh, NEW n \in Nat, n >= 3, NEW L, FreeAs(nx, fh, n, L)
    PROVE  /\ Taking(nx, L) \in [Descs -> 0 .. QSize]
           /\ Taking(nx, L)[L[1]] = L[2] /\ Taking(nx, L)[L[2]] = L[3]
           /\ \A d \in Descs : (\A i \in 1 .. 3 : d # L[i]) => Taking(nx, L)[d] = nx[d]
<1>1. 1 \in 1 .. n /\ 2 \in 1 .. n /\ 3 \in 1 .. n OBVIOUS
<1>2. L[1] \in Descs /\ L[2] \in Descs /\ L[3] \in Descs BY <1>1 DEF FreeAs
<1>3. L[1] # L[2] /\ L[1] # L[3] /\ L[2] # L[3] BY <1>1 DEF FreeAs
<1>4. L[2] \in 0 .. QSize /\ L[3] \in 0 .. QSize /\ 0 \in 0 .. QSize BY <1>2, BlockAssumption DEF Descs, BlockAssumption
<1>5. 1 \in 1 .. 3 /\ 2 \in 1 .. 3 /\ 3 \in 1 .. 3 OBVIOUS
<1> QED BY <1>2, <1>3, <1>4, <1>5 DEF Taking

LEMMA TakeKeeps ==
    ASSUME NEW nx, NEW mo, NEW fh, NEW n \in Nat, n >= 3, NEW H, NEW L, nx \in [Descs -> 0 .. QSize],
           FreeAs(nx, fh, n, L), Chained(nx, mo, H, n, L)
    PROVE  /\ FreeAs(Taking(nx, L), nx[L[3]], n - 3, Rest(L, n))
           /\ Chained(Taking(nx, L), Flags(mo, L), H \cup {L[1]}, n - 3, Rest(L, n))
           /\ L[1] \notin H
<1> DEFINE t == Taking(nx, L)
           f == Flags(mo, L)
           R == Rest(L, n)
<1>1. L \in [1 .. n -> Descs] /\ \A i, j \in 1 .. n : L[i] = L[j] => i = j BY DEF FreeAs
<1>2. 1 \in 1 .. n /\ 2 \in 1 .. n /\ 3 \in 1 .. n /\ n - 3 \in Nat OBVIOUS
<1>3. L[1] \in Descs /\ L[2] \in Descs /\ L[3] \in Descs BY <1>1, <1>2
<1>4. L[1] # L[2] /\ L[1] # L[3] /\ L[2] # L[3] BY <1>1, <1>2
<1>5. /\ t[L[1]] = L[2] /\ t[L[2]] = L[3]
      /\ \A d \in Descs : (d # L[1] /\ d # L[2] /\ d # L[3]) => t[d] = nx[d]
  <2>1. \A i \in 1 .. 3 : i = 1 \/ i = 2 \/ i = 3 OBVIOUS
  <2> HIDE DEF t
  <2>2. /\ t[L[1]] = L[2] /\ t[L[2]] = L[3]
        /\ \A d \in Descs : (\A i \in 1 .. 3 : d # L[i]) => t[d] = nx[d]
    BY ThreeTaken DEF t
  <2>3. \A d \in Descs : (d # L[1] /\ d # L[2] /\ d # L[3]) => \A i \in 1 .. 3 : d # L[i] BY <2>1
  <2> QED BY <2>2, <2>3
<1>6. \A i \in 1 .. n - 3 : i + 3 \in 1 .. n /\ i + 3 # 1 /\ i + 3 # 2 /\ i + 3 # 3 BY <1>2
<1>7. R \in [1 .. n - 3 -> Descs] /\ \A i \in 1 .. n - 3 : R[i] = L[i + 3] BY <1>1, <1>6 DEF Rest
<1>8. \A i \in 1 .. n - 3 : R[i] # L[1] /\ R[i] # L[2] /\ R[i] # L[3] BY <1>1, <1>2, <1>6, <1>7
<1> HIDE DEF t, f, R
<1>9. FreeAs(t, nx[L[3]], n - 3, R)
  <2>1. \A i, j \in 1 .. n - 3 : R[i] = R[j] => i = j
    <3> SUFFICES ASSUME NEW i \in 1 .. n - 3, NEW j \in 1 .. n - 3, R[i] = R[j] PROVE i = j OBVIOUS
    <3>1. i + 3 = j + 3 BY <1>1, <1>6, <1>7
    <3> QED BY <3>1
  <2>2. n - 3 > 0 => R[1] = nx[L[3]]
    <3> SUFFICES ASSUME n - 3 > 0 PROVE R[1] = nx[L[3]] OBVIOUS
    <3>1. 1 \in 1 .. n - 3 /\ 3 \in 1 .. n - 1 /\ 1 + 3 = 4 /\ 3 + 1 = 4 BY <1>2
    <3>2. R[1] = L[4] BY <1>7, <3>1
    <3>3. nx[L[3]] = L[3 + 1] BY <3>1 DEF FreeAs
    <3> QED BY <3>1, <3>2, <3>3
  <2>3. ASSUME NEW i \in 1 .. (n - 3) - 1 PROVE t[R[i]] = R[i + 1]
    <3>1. i \in 1 .. n - 3 /\ i + 1 \in 1 .. n - 3 /\ i + 3 \in 1 .. n - 1 /\ (i + 1) + 3 = (i + 3) + 1 BY <1>2
    <3>2. R[i] = L[i + 3] /\ R[i + 1] = L[(i + 3) + 1] BY <1>7, <3>1
    <3>3. nx[L[i + 3]] = L[(i + 3) + 1] BY <3>1 DEF FreeAs
    <3>4. t[R[i]] = nx[R[i]] BY <1>5, <1>7, <1>8, <3>1
    <3> QED BY <3>2, <3>3, <3>4
  <2> QED BY <1>7, <2>1, <2>2, <2>3 DEF FreeAs
<1>10. \A h \in H : /\ Three(nx, mo, h) /\ \A i \in 1 .. n : L[i] \notin DescChain(nx, h)
                    /\ h # L[1] /\ h # L[2] /\ h # L[3]
                    /\ nx[h] # L[1] /\ nx[h] # L[2] /\ nx[h] # L[3]
                    /\ nx[nx[h]] # L[1] /\ nx[nx[h]] # L[2] /\ nx[nx[h]] # L[3]
  BY <1>2 DEF Chained, DescChain
<1>11. \A h \in H : t[h] = nx[h] /\ t[nx[h]] = nx[nx[h]] BY <1>5, <1>10 DEF Three
<1>12. \A h \in H : DescChain(t, h) = DescChain(nx, h) BY <1>11 DEF DescChain
<1>13. DescChain(t, L[1]) = {L[1], L[2], L[3]} BY <1>5 DEF DescChain
<1>14. \A h \in H : Three(t, f, h) BY <1>10, <1>11 DEF Three, f, Flags
<1>15. Three(t, f, L[1]) BY <1>3, <1>4, <1>5 DEF Three, f, Flags
<1>16. Chained(t, f, H \cup {L[1]}, n - 3, R)
  <2>1. \A h \in H, i \in 1 .. n - 3 : R[i] \notin DescChain(t, h) BY <1>6, <1>7, <1>10, <1>12
  <2>2. \A i \in 1 .. n - 3 : R[i] \notin DescChain(t, L[1]) BY <1>8, <1>13
  <2>3. \A g, h \in H : g # h => DescChain(t, g) \cap DescChain(t, h) = {} BY <1>12 DEF Chained
  <2>4. \A h \in H : DescChain(t, h) \cap DescChain(t, L[1]) = {} BY <1>10, <1>12, <1>13 DEF DescChain
  <2> QED BY <1>14, <1>15, <2>1, <2>2, <2>3, <2>4 DEF Chained
<1> QED BY <1>9, <1>10, <1>16 DEF t, f, R

(* A chain is put on the free list from its head on.                         *)
Freed(nx, fh, h) == [[[nx EXCEPT ![h] = fh] EXCEPT ![nx[h]] = h] EXCEPT ![nx[nx[h]]] = nx[h]]
Longer(nx, L, n, h) ==
    [i \in 1 .. n + 3 |-> IF i = 1 THEN nx[nx[h]] ELSE IF i = 2 THEN nx[h] ELSE IF i = 3 THEN h ELSE L[i - 3]]

LEMMA FreeKeeps ==
    ASSUME NEW nx, NEW mo, NEW fh \in 0 .. QSize, NEW n \in Nat, NEW H, NEW h \in H, NEW L,
           nx \in [Descs -> 0 .. QSize], FreeAs(nx, fh, n, L), Chained(nx, mo, H, n, L)
    PROVE  /\ Freed(nx, fh, h) \in [Descs -> 0 .. QSize]
           /\ FreeAs(Freed(nx, fh, h), nx[nx[h]], n + 3, Longer(nx, L, n, h))
           /\ Chained(Freed(nx, fh, h), mo, H \ {h}, n + 3, Longer(nx, L, n, h))
<1> DEFINE t == Freed(nx, fh, h)
           M == Longer(nx, L, n, h)
           b == nx[h]
           c == nx[nx[h]]
<1>1. L \in [1 .. n -> Descs] /\ \A i, j \in 1 .. n : L[i] = L[j] => i = j BY DEF FreeAs
<1>2. Three(nx, mo, h) /\ \A i \in 1 .. n : L[i] \notin DescChain(nx, h) BY DEF Chained
<1>3. h \in Descs /\ b \in Descs /\ c \in Descs /\ h # b /\ h # c /\ b # c BY <1>2 DEF Three
<1>4. \A i \in 1 .. n : L[i] # h /\ L[i] # b /\ L[i] # c BY <1>2 DEF DescChain
<1>5. h \in 0 .. QSize /\ b \in 0 .. QSize BY <1>3, BlockAssumption DEF Descs, BlockAssumption
<1>6. t = [[[nx EXCEPT ![h] = fh] EXCEPT ![b] = h] EXCEPT ![c] = b] BY DEF Freed
<1>7. M = [i \in 1 .. n + 3 |-> IF i = 1 THEN c ELSE IF i = 2 THEN b ELSE IF i = 3 THEN h ELSE L[i - 3]] BY DEF Longer
<1> HIDE DEF t, M, b, c
<1>8. /\ t \in [Descs -> 0 .. QSize] /\ t[h] = fh /\ t[b] = h /\ t[c] = b
      /\ \A d \in Descs : (d # h /\ d # b /\ d # c) => t[d] = nx[d]
  BY <1>3, <1>5, <1>6
<1>9. \A i \in 1 .. n + 3 : i = 1 \/ i = 2 \/ i = 3 \/ (i # 1 /\ i # 2 /\ i # 3 /\ i - 3 \in 1 .. n) OBVIOUS
<1>10. 1 \in 1 .. n + 3 /\ 2 \in 1 .. n + 3 /\ 3 \in 1 .. n + 3 OBVIOUS
<1>11. /\ M[1] = c /\ M[2] = b /\ M[3] = h
       /\ \A i \in 1 .. n + 3 : i - 3 \in 1 .. n => M[i] = L[i - 3]
  BY <1>7, <1>10
<1>12. M \in [1 .. n + 3 -> Descs]
  <2>1. \A i \in 1 .. n + 3 : M[i] \in Descs BY <1>1, <1>3, <1>9, <1>11
  <2>2. DOMAIN M = 1 .. n + 3 /\ M = [i \in DOMAIN M |-> M[i]] BY <1>7
  <2> QED BY <2>1, <2>2
<1>13. FreeAs(t, c, n + 3, M)
  <2>1. ASSUME NEW i \in 1 .. n + 3, NEW j \in 1 .. n + 3, M[i] = M[j] PROVE i = j
    <3>1. CASE i - 3 \in 1 .. n /\ j - 3 \in 1 .. n
      <4>1. L[i - 3] = L[j - 3] BY <1>11, <2>1, <3>1
      <4>2. i - 3 = j - 3 BY <1>1, <3>1, <4>1
      <4> QED BY <4>2
    <3>2. CASE i - 3 \in 1 .. n /\ j \in {1, 2, 3} BY <1>4, <1>11, <2>1, <3>2
    <3>3. CASE j - 3 \in 1 .. n /\ i \in {1, 2, 3} BY <1>4, <1>11, <2>1, <3>3
    <3>4. CASE i \in {1, 2, 3} /\ j \in {1, 2, 3} BY <1>3, <1>11, <2>1, <3>4
    <3> QED BY <1>9, <3>1, <3>2, <3>3, <3>4
  <2>2. ASSUME NEW i \in 1 .. (n + 3) - 1 PROVE t[M[i]] = M[i + 1]
    <3>1. i \in 1 .. n + 3 /\ i + 1 \in 1 .. n + 3 OBVIOUS
    <3>2. CASE i = 1
      <4>1. M[i + 1] = b BY <1>11, <3>2
      <4> QED BY <1>8, <1>11, <3>2, <4>1
    <3>3. CASE i = 2
      <4>1. M[i + 1] = h BY <1>11, <3>3
      <4> QED BY <1>8, <1>11, <3>3, <4>1
    <3>4. CASE i = 3
      <4>1. n > 0 /\ (i + 1) - 3 = 1 /\ 1 \in 1 .. n BY <3>4
      <4>2. M[i + 1] = L[1] BY <1>11, <3>1, <4>1
      <4>3. fh = L[1] BY <4>1 DEF FreeAs
      <4> QED BY <1>8, <1>11, <3>4, <4>2, <4>3
    <3>5. CASE i - 3 \in 1 .. n
      <4>1. i - 3 \in 1 .. n - 1 /\ (i + 1) - 3 \in 1 .. n /\ (i - 3) + 1 = (i + 1) - 3 BY <3>5
      <4>2. M[i] = L[i - 3] /\ M[i + 1] = L[(i - 3) + 1] BY <1>11, <3>1, <4>1
      <4>3. nx[L[i - 3]] = L[(i - 3) + 1] BY <4>1 DEF FreeAs
      <4>4. t[L[i - 3]] = nx[L[i - 3]] BY <1>1, <1>4, <1>8, <3>5
      <4> QED BY <4>2, <4>3, <4>4
    <3> QED BY <1>9, <3>1, <3>2, <3>3, <3>4, <3>5
  <2> QED BY <1>11, <1>12, <2>1, <2>2 DEF FreeAs
<1>14. ASSUME NEW g \in H \ {h}
       PROVE  /\ Three(nx, mo, g) /\ \A i \in 1 .. n : L[i] \notin DescChain(nx, g)
              /\ h \notin DescChain(nx, g) /\ b \notin DescChain(nx, g) /\ c \notin DescChain(nx, g)
  <2>1. Three(nx, mo, g) /\ \A i \in 1 .. n : L[i] \notin DescChain(nx, g) BY DEF Chained
  <2>2. DescChain(nx, g) \cap DescChain(nx, h) = {} BY DEF Chained
  <2>3. h \in DescChain(nx, h) /\ b \in DescChain(nx, h) /\ c \in DescChain(nx, h) BY DEF DescChain, b, c
  <2> QED BY <2>1, <2>2, <2>3
<1>15. ASSUME NEW g \in H \ {h} PROVE t[g] = nx[g] /\ t[nx[g]] = nx[nx[g]]
  <2>1. g # h /\ g # b /\ g # c /\ nx[g] # h /\ nx[g] # b /\ nx[g] # c BY <1>14 DEF DescChain
  <2>2. g \in Descs /\ nx[g] \in Descs BY <1>14 DEF Three
  <2> QED BY <1>8, <2>1, <2>2
<1>16. \A g \in H \ {h} : DescChain(t, g) = DescChain(nx, g) BY <1>15 DEF DescChain
<1>17. \A g \in H \ {h} : Three(t, mo, g) BY <1>14, <1>15 DEF Three
<1>18. Chained(t, mo, H \ {h}, n + 3, M)
  <2>1. \A g \in H \ {h}, i \in 1 .. n + 3 : M[i] \notin DescChain(t, g) BY <1>9, <1>11, <1>14, <1>16
  <2>2. \A g, k \in H \ {h} : g # k => DescChain(t, g) \cap DescChain(t, k) = {} BY <1>16 DEF Chained
  <2> QED BY <1>17, <2>1, <2>2 DEF Chained
<1> QED BY <1>8, <1>13, <1>18 DEF t, M, c

LEMMA CountTake ==
    ASSUME NEW n, NEW H, Counted(n, H), n >= 3, NEW x, x \notin H
    PROVE  Counted(n - 3, H \cup {x})
<1>1. n \in Nat /\ IsFiniteSet(H) BY DEF Counted
<1>2. PICK l \in 0 .. 2 : QSize = n + 3 * Cardinality(H) + l /\ (l = 0 \/ \E m \in Nat : n = 3 * m) BY DEF Counted
<1>3. IsFiniteSet(H \cup {x}) /\ Cardinality(H \cup {x}) = Cardinality(H) + 1 BY <1>1, FS_AddElement
<1>4. Cardinality(H) \in Nat BY <1>1, FS_CardinalityType
<1>5. n - 3 \in Nat /\ QSize = (n - 3) + 3 * Cardinality(H \cup {x}) + l BY <1>1, <1>2, <1>3, <1>4
<1>6. ASSUME NEW m \in Nat, n = 3 * m PROVE \E k \in Nat : n - 3 = 3 * k
  <2>1. m - 1 \in Nat /\ n - 3 = 3 * (m - 1) BY <1>6
  <2> QED BY <2>1
<1> QED BY <1>2, <1>3, <1>5, <1>6 DEF Counted

LEMMA CountLost ==
    ASSUME NEW n, NEW H, Counted(n, H), n < 3
    PROVE  Counted(0, H)
<1>1. n \in Nat /\ IsFiniteSet(H) BY DEF Counted
<1>2. PICK l \in 0 .. 2 : QSize = n + 3 * Cardinality(H) + l /\ (l = 0 \/ \E m \in Nat : n = 3 * m) BY DEF Counted
<1>3. Cardinality(H) \in Nat BY <1>1, FS_CardinalityType
<1>4. 0 = 3 * 0 /\ 0 \in Nat OBVIOUS
<1>5. CASE l = 0
  <2>1. n \in 0 .. 2 /\ QSize = 0 + 3 * Cardinality(H) + n BY <1>1, <1>2, <1>3, <1>5
  <2> QED BY <1>1, <1>4, <2>1 DEF Counted
<1>6. CASE l # 0
  <2>1. PICK m \in Nat : n = 3 * m BY <1>2, <1>6
  <2>2. n = 0 BY <1>1, <2>1
  <2> QED BY <1>1, <1>2, <1>4, <2>2 DEF Counted
<1> QED BY <1>5, <1>6

LEMMA CountFree ==
    ASSUME NEW n, NEW H, Counted(n, H), NEW x \in H
    PROVE  Counted(n + 3, H \ {x})
<1>1. n \in Nat /\ IsFiniteSet(H) BY DEF Counted
<1>2. PICK l \in 0 .. 2 : QSize = n + 3 * Cardinality(H) + l /\ (l = 0 \/ \E m \in Nat : n = 3 * m) BY DEF Counted
<1>3. IsFiniteSet(H \ {x}) /\ Cardinality(H \ {x}) = Cardinality(H) - 1 BY <1>1, FS_RemoveElement
<1>4. Cardinality(H) \in Nat BY <1>1, FS_CardinalityType
<1>5. n + 3 \in Nat /\ QSize = (n + 3) + 3 * Cardinality(H \ {x}) + l BY <1>1, <1>2, <1>3, <1>4
<1>6. ASSUME NEW m \in Nat, n = 3 * m PROVE \E k \in Nat : n + 3 = 3 * k
  <2>1. m + 1 \in Nat /\ n + 3 = 3 * (m + 1) BY <1>6
  <2> QED BY <2>1
<1> QED BY <1>2, <1>3, <1>5, <1>6 DEF Counted

LEMMA CountSmall == ASSUME NEW n, NEW H, Counted(n, H), H # {} PROVE n + 3 <= QSize
<1>1. n \in Nat /\ IsFiniteSet(H) BY DEF Counted
<1>2. PICK l \in 0 .. 2 : QSize = n + 3 * Cardinality(H) + l BY DEF Counted
<1>3. Cardinality(H) \in Nat /\ Cardinality(H) # 0 BY <1>1, FS_CardinalityType, FS_EmptySet
<1> QED BY <1>1, <1>2, <1>3

-----------------------------------------------------------------------------
LEMMA QueueIsSound ==
    ASSUME DescsKept(next, more, freeHead, numFree, PendingHeads(pend))
    PROVE  QueueSound
<1> DEFINE n == numFree
           H == PendingHeads(pend)
<1>1. PICK L : FreeAs(next, freeHead, n, L) /\ Chained(next, more, H, n, L) BY DEF DescsKept
<1>2. Counted(n, H) /\ n \in Nat /\ IsFiniteSet(H) BY DEF DescsKept, Counted
<1>3. Flying = H BY DEF Flying, PendingHeads, InUse
<1>4. FreeDescs = {L[i] : i \in 1 .. n}
  <2>1. FreeList(n) = [i \in 1 .. n |-> L[i]] BY <1>1, <1>2, ListIs
  <2> QED BY <2>1 DEF FreeDescs
<1> HIDE DEF n, H
<1>5. Cardinality(FreeDescs) = n
  <2>1. L \in [1 .. n -> Descs] /\ \A i, j \in 1 .. n : L[i] = L[j] => i = j BY <1>1 DEF FreeAs
  <2>2. L \in [1 .. n -> FreeDescs] BY <1>4, <2>1
  <2>3. L \in Injection(1 .. n, FreeDescs) BY <2>1, <2>2 DEF Injection, IsInjective
  <2>4. L \in Surjection(1 .. n, FreeDescs) BY <1>4, <2>2 DEF Surjection
  <2>5. ExistsBijection(1 .. n, FreeDescs) BY <2>3, <2>4 DEF ExistsBijection, Bijection
  <2>6. IsFiniteSet(1 .. n) /\ Cardinality(1 .. n) = n
    <3>1. 1 \in Int /\ n \in Int /\ (IF 1 > n THEN 0 ELSE n - 1 + 1) = n BY <1>2
    <3> QED BY <3>1, FS_Interval
  <2> QED BY <2>5, <2>6, FS_Bijection
<1>6. ASSUME NEW h \in H PROVE Cardinality(Chain(h)) = 3 /\ Chain(h) \cap FreeDescs = {}
  <2>1. Three(next, more, h) /\ \A i \in 1 .. n : L[i] \notin DescChain(next, h) BY <1>1 DEF Chained
  <2>2. Chain(h) = DescChain(next, h) BY DEF Chain, DescChain
  <2>3. Chain(h) \cap FreeDescs = {} BY <1>4, <2>1, <2>2
  <2> DEFINE b == next[h]
             c == next[next[h]]
  <2>4. h # b /\ h # c /\ b # c /\ Chain(h) = {h, b, c} BY <2>1 DEF Three, Chain
  <2> HIDE DEF b, c
  <2>5. IsFiniteSet({h}) /\ Cardinality({h}) = 1 BY FS_Singleton
  <2>6. IsFiniteSet({h} \cup {b}) /\ Cardinality({h} \cup {b}) = 2 BY <2>4, <2>5, FS_AddElement
  <2>7. Cardinality(({h} \cup {b}) \cup {c}) = 3
    <3>1. c \notin {h} \cup {b} BY <2>4
    <3>2. Cardinality(({h} \cup {b}) \cup {c}) = Cardinality({h} \cup {b}) + 1 BY <2>6, <3>1, FS_AddElement
    <3> QED BY <2>6, <3>2
  <2>8. ({h} \cup {b}) \cup {c} = {h, b, c} OBVIOUS
  <2> QED BY <2>3, <2>4, <2>7, <2>8
<1>7. \A g, h \in H : g # h => Chain(g) \cap Chain(h) = {}
  <2>1. \A h : Chain(h) = DescChain(next, h) BY DEF Chain, DescChain
  <2> QED BY <1>1, <2>1 DEF Chained
<1>8. QSize - n - 3 * Cardinality(H) \in 0 .. 2
  <2>1. PICK l \in 0 .. 2 : QSize = n + 3 * Cardinality(H) + l BY <1>2 DEF Counted
  <2>2. Cardinality(H) \in Nat BY <1>2, FS_CardinalityType
  <2> QED BY <1>2, <2>1, <2>2
<1> QED BY <1>3, <1>5, <1>6, <1>7, <1>8 DEF QueueSound, n

-----------------------------------------------------------------------------
Rows == [bio : Bios \cup {Nested}, head : 0 .. QSize, req : Nat]
Memories == [Bios \cup {Nested} -> [done : BOOLEAN, error : BOOLEAN]]
Queues == [next : [Descs -> 0 .. QSize], freeHead : 0 .. QSize, numFree : Nat, pend : [Places -> Rows],
           memory : Memories, crossed : SUBSET Nat]

Step(r) ==
    IF r.last THEN r
    ELSE [at |-> r.s.next[r.at], s |-> FreeOne(r.s, r.at), last |-> r.at \notin more]

LEMMA StepGoes ==
    ASSUME NEW h, NEW s, NEW r, r.at = h, r.s = s, ~r.last
    PROVE  Step(r).at = s.next[h] /\ Step(r).s = FreeOne(s, h) /\ (Step(r).last <=> h \notin more)
BY Zenon DEF Step

LEMMA StepStays == ASSUME NEW r, r.last PROVE Step(r) = r
BY Zenon DEF Step

LEMMA FreeOneIs ==
    ASSUME NEW s \in Queues, NEW i \in Descs
    PROVE  LET r == FreeOne(s, i)
           IN  /\ r \in Queues /\ r.next = [s.next EXCEPT ![i] = s.freeHead] /\ r.freeHead = i
               /\ r.numFree = s.numFree + 3 - 2 /\ r.pend = s.pend /\ r.memory = s.memory /\ r.crossed = s.crossed
<1> DEFINE m == Memories
           r == FreeOne(s, i)
           nx == [s.next EXCEPT ![i] = s.freeHead]
           k == s.numFree + 1
<1>1. Queues = [next : [Descs -> 0 .. QSize], freeHead : 0 .. QSize, numFree : Nat, pend : [Places -> Rows],
                memory : m, crossed : SUBSET Nat] BY DEF Queues
<1> HIDE DEF m
<1>2. s.next \in [Descs -> 0 .. QSize] /\ s.freeHead \in 0 .. QSize /\ s.numFree \in Nat /\ s.pend \in [Places -> Rows]
      /\ s.memory \in m /\ s.crossed \in SUBSET Nat BY <1>1
<1>3. i \in 0 .. QSize BY BlockAssumption DEF Descs, BlockAssumption
<1>4. nx \in [Descs -> 0 .. QSize] /\ k \in Nat /\ k = s.numFree + 3 - 2 BY <1>2
<1>5. r = [next |-> nx, freeHead |-> i, numFree |-> k, pend |-> s.pend, memory |-> s.memory, crossed |-> s.crossed]
  <2>1. s = [next |-> s.next, freeHead |-> s.freeHead, numFree |-> s.numFree, pend |-> s.pend, memory |-> s.memory,
             crossed |-> s.crossed] BY <1>1
  <2>2. r = [[[s EXCEPT !.next = [s.next EXCEPT ![i] = s.freeHead]] EXCEPT !.freeHead = i] EXCEPT !.numFree = k]
    BY <1>1 DEF FreeOne
  <2>3. r = [[[s EXCEPT !.next = nx] EXCEPT !.freeHead = i] EXCEPT !.numFree = k] BY <2>2
  <2> HIDE DEF r, nx, k
  <2> QED BY <2>1, <2>3
<1> HIDE DEF r, nx, k
<1> QED BY <1>1, <1>2, <1>3, <1>4, <1>5 DEF r, nx

LEMMA ChainFreed ==
    ASSUME NEW s \in Queues, NEW h, Three(s.next, more, h), QSize >= 3
    PROVE  LET r == FreeDescChain(s, h)
           IN  /\ r \in Queues /\ r.next = Freed(s.next, s.freeHead, h) /\ r.freeHead = s.next[s.next[h]]
               /\ r.numFree = s.numFree + 3 /\ r.pend = s.pend /\ r.memory = s.memory /\ r.crossed = s.crossed
<1> DEFINE b == s.next[h]
           c == s.next[s.next[h]]
           r0 == [at |-> h, s |-> s, last |-> FALSE]
           r1 == Step(r0)
           r2 == Step(r1)
           r3 == Step(r2)
           s1 == FreeOne(s, h)
           s2 == FreeOne(s1, b)
           s3 == FreeOne(s2, c)
           Is(f) == f = [i \in Nat |-> IF i = 0 THEN r0 ELSE Step(f[i - 1])]
           f0 == CHOOSE f : Is(f)
           g == [i \in Nat |-> IF i = 0 THEN r0 ELSE IF i = 1 THEN r1 ELSE IF i = 2 THEN r2 ELSE r3]
<1>1. h \in Descs /\ b \in Descs /\ c \in Descs /\ h # b /\ h # c /\ b # c /\ h \in more /\ b \in more /\ c \notin more
  BY DEF Three
<1>2. s.next \in [Descs -> 0 .. QSize] /\ s.numFree \in Nat
  <2> DEFINE m == Memories
  <2>1. Queues = [next : [Descs -> 0 .. QSize], freeHead : 0 .. QSize, numFree : Nat, pend : [Places -> Rows],
                  memory : m, crossed : SUBSET Nat] BY DEF Queues
  <2> HIDE DEF m
  <2> QED BY <2>1
<1>3. /\ s1 \in Queues /\ s1.next = [s.next EXCEPT ![h] = s.freeHead] /\ s1.freeHead = h
      /\ s1.numFree = s.numFree + 3 - 2 /\ s1.pend = s.pend /\ s1.memory = s.memory /\ s1.crossed = s.crossed
  BY <1>1, FreeOneIs
<1> HIDE DEF s1
<1>4. /\ s2 \in Queues /\ s2.next = [s1.next EXCEPT ![b] = s1.freeHead] /\ s2.freeHead = b
      /\ s2.numFree = s1.numFree + 3 - 2 /\ s2.pend = s1.pend /\ s2.memory = s1.memory /\ s2.crossed = s1.crossed
  BY <1>1, <1>3, FreeOneIs
<1> HIDE DEF s2
<1>5. /\ s3 \in Queues /\ s3.next = [s2.next EXCEPT ![c] = s2.freeHead] /\ s3.freeHead = c
      /\ s3.numFree = s2.numFree + 3 - 2 /\ s3.pend = s2.pend /\ s3.memory = s2.memory /\ s3.crossed = s2.crossed
  BY <1>1, <1>4, FreeOneIs
<1> HIDE DEF s3
<1>6. FreeDescChain(s, h) = f0[QSize].s BY Zenon DEF FreeDescChain, Step
<1>7. r0.at = h /\ r0.s = s /\ ~r0.last BY Zenon
<1> HIDE DEF r0, b, c
<1>8. r1.at = b /\ r1.s = s1 /\ ~r1.last
  <2>1. r1.at = s.next[h] /\ r1.s = FreeOne(s, h) /\ (r1.last <=> h \notin more) BY <1>7, StepGoes, Zenon
  <2> QED BY <1>1, <2>1, Zenon DEF b, s1
<1> HIDE DEF r1
<1>9. r2.at = c /\ r2.s = s2 /\ ~r2.last
  <2>1. r2.at = s1.next[b] /\ r2.s = FreeOne(s1, b) /\ (r2.last <=> b \notin more) BY <1>8, StepGoes, Zenon
  <2>2. s1.next[b] = s.next[b] BY <1>1, <1>2, <1>3
  <2> QED BY <1>1, <2>1, <2>2, Zenon DEF b, c, s2
<1> HIDE DEF r2
<1>10. r3.s = s3 /\ r3.last
  <2>1. r3.s = FreeOne(s2, c) /\ (r3.last <=> c \notin more) BY <1>9, StepGoes, Zenon
  <2> QED BY <1>1, <2>1, Zenon DEF s3
<1> HIDE DEF r3
<1>11. Step(r0) = r1 /\ Step(r1) = r2 /\ Step(r2) = r3 /\ Step(r3) = r3
  BY <1>10, StepStays, Zenon DEF r1, r2, r3
<1>12. Is(g)
  <2>1. ASSUME NEW i \in Nat PROVE g[i] = IF i = 0 THEN r0 ELSE Step(g[i - 1])
    <3>1. i = 0 \/ i = 1 \/ i = 2 \/ i = 3
          \/ (i - 1 \in Nat /\ i - 1 # 0 /\ i - 1 # 1 /\ i - 1 # 2 /\ i # 0 /\ i # 1 /\ i # 2)
      OBVIOUS
    <3> QED BY <1>11, <3>1
  <2> QED BY <2>1
<1> HIDE DEF Is, g
<1>13. Is(f0) BY <1>12
<1> HIDE DEF f0
<1>14. f0 = [i \in Nat |-> IF i = 0 THEN r0 ELSE Step(f0[i - 1])] BY <1>13 DEF Is
<1>15. f0[0] = r0 /\ \A i \in Nat \ {0} : f0[i] = Step(f0[i - 1]) BY <1>14
<1>16. f0[3] = r3
  <2>1. f0[1] = r1 BY <1>11, <1>15
  <2>2. f0[2] = r2 BY <1>11, <1>15, <2>1
  <2> QED BY <1>11, <1>15, <2>2
<1>17. QSize \in Nat BY BlockAssumption DEF BlockAssumption
<1>18. f0[QSize] = r3
  <2> DEFINE S == {k \in 0 .. QSize : k >= 3 => f0[k] = r3}
  <2>1. 0 \in S BY <1>17
  <2>2. ASSUME NEW k \in 1 .. QSize, k - 1 \in S PROVE k \in S
    <3>1. k \in Nat \ {0} /\ f0[k] = Step(f0[k - 1]) BY <1>15
    <3>2. CASE k > 3
      <4>1. f0[k - 1] = r3 BY <2>2, <3>2
      <4> QED BY <1>11, <3>1, <4>1
    <3>3. CASE k = 3 BY <1>16, <3>3
    <3>4. CASE k < 3 BY <3>4
    <3> QED BY <3>2, <3>3, <3>4
  <2> HIDE DEF S
  <2>3. \A k \in 0 .. QSize : k \in S BY <1>17, <2>1, <2>2, UpTo
  <2>4. QSize \in 0 .. QSize BY <1>17
  <2> QED BY <2>3, <2>4 DEF S
<1>19. FreeDescChain(s, h) = s3 BY <1>6, <1>10, <1>18
<1>20. s3.next = Freed(s.next, s.freeHead, h) BY <1>3, <1>4, <1>5 DEF Freed, b, c
<1>21. s3.numFree = s.numFree + 3 BY <1>2, <1>3, <1>4, <1>5
<1> QED BY <1>3, <1>4, <1>5, <1>19, <1>20, <1>21 DEF c

Elements == [id : Descs, ok : BOOLEAN]
Distinct(pd) ==
    \A p, q \in Places : pd[p].req # 0 /\ pd[q].req # 0 /\ pd[p].head = pd[q].head => p = q

(* Of the completions us those after the k-th are still to be looked at: each *)
(* is of a request that is waited for, and tells what the device did.         *)
Coming(H, av, us, k) ==
    /\ av \subseteq H
    /\ \A i \in k + 1 .. Len(us) : us[i].id \in H /\ us[i].id \notin av
    /\ \A i, j \in k + 1 .. Len(us) : us[i].id = us[j].id => i = j

Done(us, i) == us[i].ok
Well(pd, us, k, comp) ==
    \A i \in k + 1 .. Len(us), p \in Places :
        pd[p].req # 0 /\ pd[p].head = us[i].id /\ Done(us, i) => pd[p].req \in comp

Told(mem, a) == mem[a].done /\ ~mem[a].error
Claim(mem, a, r, comp, cr) == Told(mem, a) => r \in comp \cup cr

QueueGood(q, mo, av, us, k, comp) ==
    /\ q \in Queues
    /\ DescsKept(q.next, mo, q.freeHead, q.numFree, PendingHeads(q.pend))
    /\ Distinct(q.pend)
    /\ Coming(PendingHeads(q.pend), av, us, k)
    /\ Well(q.pend, us, k, comp)

-----------------------------------------------------------------------------
LEMMA PlaceIs ==
    ASSUME NEW s, NEW id, \E p \in Places : s.pend[p].req # 0 /\ s.pend[p].head = id
    PROVE  LET p == PlaceOf(s, id) IN p \in Places /\ s.pend[p].req # 0 /\ s.pend[p].head = id
<1> DEFINE inUse == {p \in Places : s.pend[p].req # 0}
           hits == {p \in inUse : s.pend[p].head = id}
<1>1. hits \subseteq Nat /\ hits # {} BY DEF Places
<1>2. PICK p \in hits : \A q \in hits : p <= q BY <1>1, HasLeast
<1>3. PlaceOf(s, id) = CHOOSE x \in hits : \A q \in hits : x <= q BY <1>1 DEF PlaceOf
<1>4. PlaceOf(s, id) \in hits BY <1>2, <1>3
<1> QED BY <1>4

Answered(u) == [done |-> TRUE, error |-> ~u.ok]

LEMMA AnsweredIs ==
    ASSUME NEW mem \in Memories, NEW b \in Bios \cup {Nested}, NEW u
    PROVE  /\ [mem EXCEPT ![b] = Answered(u)] \in Memories
           /\ \A a \in Bios \cup {Nested} : a # b => (Told([mem EXCEPT ![b] = Answered(u)], a) <=> Told(mem, a))
           /\ Told([mem EXCEPT ![b] = Answered(u)], b) => u.ok
<1> DEFINE row == Answered(u)
           m == [mem EXCEPT ![b] = row]
           R == [done : BOOLEAN, error : BOOLEAN]
<1>1. row \in R BY Zenon DEF Answered
<1>2. ~row.error => u.ok BY Zenon DEF Answered
<1>3. mem \in [Bios \cup {Nested} -> R] BY DEF Memories
<1> HIDE DEF row, R
<1>4. m \in [Bios \cup {Nested} -> R] /\ m[b] = row /\ \A a \in Bios \cup {Nested} : a # b => m[a] = mem[a]
  BY <1>1, <1>3
<1> HIDE DEF m
<1>5. \A a \in Bios \cup {Nested} : a # b => (Told(m, a) <=> Told(mem, a)) BY <1>4, Zenon DEF Told
<1>6. Told(m, b) => u.ok BY <1>2, <1>4, Zenon DEF Told
<1>7. m \in Memories BY <1>4 DEF Memories, R
<1> QED BY <1>5, <1>6, <1>7 DEF m, row

With(q, pd, mem, cr) == [[[q EXCEPT !.pend = pd] EXCEPT !.memory = mem] EXCEPT !.crossed = cr]
LEMMA WithIs ==
    ASSUME NEW q \in Queues, NEW pd, NEW mem, NEW cr
    PROVE  With(q, pd, mem, cr)
           = [next |-> q.next, freeHead |-> q.freeHead, numFree |-> q.numFree, pend |-> pd, memory |-> mem,
              crossed |-> cr]
<1> DEFINE q1 == [q EXCEPT !.pend = pd]
           q2 == [q1 EXCEPT !.memory = mem]
           q3 == [q2 EXCEPT !.crossed = cr]
<1>1. q = [next |-> q.next, freeHead |-> q.freeHead, numFree |-> q.numFree, pend |-> q.pend, memory |-> q.memory,
           crossed |-> q.crossed] BY DEF Queues
<1>2. q1 = [next |-> q.next, freeHead |-> q.freeHead, numFree |-> q.numFree, pend |-> pd, memory |-> q.memory,
           crossed |-> q.crossed] BY <1>1
<1> HIDE DEF q1
<1>3. q2 = [next |-> q.next, freeHead |-> q.freeHead, numFree |-> q.numFree, pend |-> pd, memory |-> mem,
           crossed |-> q.crossed] BY <1>2
<1> HIDE DEF q2
<1>4. q3 = [next |-> q.next, freeHead |-> q.freeHead, numFree |-> q.numFree, pend |-> pd, memory |-> mem,
           crossed |-> cr] BY <1>3
<1> QED BY <1>4 DEF q1, q2, With

(* One completion: the place is free, its bio answered, its chain put back.   *)
LEMMA FinishGood ==
    ASSUME NEW q, NEW k \in 1 .. Len(used), used \in Seq(Elements), call.req \in Nat,
           Awaited \in Bios \cup {Nested}, NEW r, r = Finish(q, used[k]),
           QueueGood(q, more, avail, used, k - 1, completed)
    PROVE  /\ QueueGood(r, more, avail, used, k, completed)
           /\ q.crossed \subseteq r.crossed
           /\ Claim(q.memory, Awaited, call.req, completed, q.crossed)
              => Claim(r.memory, Awaited, call.req, completed, r.crossed)
<1> DEFINE u == used[k]
           id == u.id
           p == PlaceOf(q, id)
           b == q.pend[p].bio
           pd == [q.pend EXCEPT ![p] = NoRequest]
           mem == [q.memory EXCEPT ![b] = Answered(u)]
           cr == IF b = Awaited /\ q.pend[p].req # call.req THEN q.crossed \cup {call.req} ELSE q.crossed
           t == [next |-> q.next, freeHead |-> q.freeHead, numFree |-> q.numFree, pend |-> pd, memory |-> mem,
                 crossed |-> cr]
           H == PendingHeads(q.pend)
           m == Memories
<1>1. Queues = [next : [Descs -> 0 .. QSize], freeHead : 0 .. QSize, numFree : Nat, pend : [Places -> Rows],
                memory : m, crossed : SUBSET Nat] BY DEF Queues
<1>2. Coming(H, avail, used, k - 1) /\ Distinct(q.pend) /\ Well(q.pend, used, k - 1, completed) /\ q \in Queues
      /\ DescsKept(q.next, more, q.freeHead, q.numFree, H)
  BY DEF QueueGood
<1>3. Len(used) \in Nat /\ k \in (k - 1) + 1 .. Len(used)
      /\ \A i \in k + 1 .. Len(used) : i \in (k - 1) + 1 .. Len(used) /\ i # k
  OBVIOUS
<1>4. id \in H /\ id \notin avail BY <1>2, <1>3 DEF Coming
<1>5. p \in Places /\ q.pend[p].req # 0 /\ q.pend[p].head = id
  <2>1. \E x \in Places : q.pend[x].req # 0 /\ q.pend[x].head = id BY <1>4 DEF PendingHeads
  <2> HIDE DEF id
  <2> QED BY <2>1, PlaceIs
<1> HIDE DEF m
<1>6. /\ q.next \in [Descs -> 0 .. QSize] /\ q.freeHead \in 0 .. QSize /\ q.numFree \in Nat
      /\ q.pend \in [Places -> Rows] /\ q.memory \in m /\ q.crossed \in SUBSET Nat
  BY <1>1, <1>2
<1> HIDE DEF p
<1>7. b \in Bios \cup {Nested}
  <2>1. q.pend[p] \in Rows BY <1>5, <1>6
  <2> QED BY <2>1 DEF Rows
<1>8. /\ mem \in m
      /\ \A a \in Bios \cup {Nested} : a # b => (Told(mem, a) <=> Told(q.memory, a))
      /\ Told(mem, b) => u.ok
  <2>1. q.memory \in Memories BY <1>6 DEF m
  <2> QED BY <1>7, <2>1, AnsweredIs DEF m
<1>9. r = FreeDescChain(t, id)
  <2>1. q = [next |-> q.next, freeHead |-> q.freeHead, numFree |-> q.numFree, pend |-> q.pend, memory |-> q.memory,
             crossed |-> q.crossed] BY <1>1, <1>2
  <2> DEFINE t0 == [[[q EXCEPT !.pend = pd] EXCEPT !.memory = mem] EXCEPT !.crossed = cr]
  <2>2. r = FreeDescChain([q EXCEPT !.pend[p] = NoRequest, !.memory[b] = Answered(u),
                                    !.crossed = IF b = Awaited /\ q.pend[p].req # call.req
                                                THEN @ \cup {call.req} ELSE @], id)
    BY Zenon DEF Finish, Answered, p
  <2>3. [q EXCEPT !.pend[p] = NoRequest, !.memory[b] = Answered(u),
                  !.crossed = IF b = Awaited /\ q.pend[p].req # call.req THEN @ \cup {call.req} ELSE @] = t0
    <3> DEFINE row == Answered(u)
    <3> HIDE DEF row, id
    <3> QED BY <1>1, <1>2
  <2> HIDE DEF pd, mem, cr
  <2> HIDE DEF t0, t
  <2>4. With(q, pd, mem, cr) = t BY <1>2, WithIs DEF t
  <2>5. With(q, pd, mem, cr) = t0 BY DEF With, t0
  <2> QED BY <2>2, <2>3, <2>4, <2>5
<1>10. NoRequest \in Rows /\ NoRequest.req = 0
  <2>1. QSize \in 0 .. QSize /\ 0 \in Nat BY BlockAssumption DEF BlockAssumption
  <2> QED BY <2>1 DEF NoRequest, Rows, NoDesc
<1>11. /\ pd \in [Places -> Rows] /\ pd[p].req = 0 /\ \A x \in Places : x # p => pd[x] = q.pend[x]
  BY <1>5, <1>6, <1>10
<1>12. cr \in SUBSET Nat /\ q.crossed \subseteq cr /\ (b = Awaited => call.req \in cr \/ q.pend[p].req = call.req)
  BY <1>6
<1> HIDE DEF pd, mem, cr
<1>13. /\ t \in Queues /\ t.next = q.next /\ t.freeHead = q.freeHead /\ t.numFree = q.numFree /\ t.pend = pd
       /\ t.memory = mem /\ t.crossed = cr
  BY <1>1, <1>6, <1>8, <1>11, <1>12
<1> HIDE DEF t, b
<1>14. Counted(q.numFree, H) /\ \E L : FreeAs(q.next, q.freeHead, q.numFree, L) /\ Chained(q.next, more, H, q.numFree, L)
  BY <1>2 DEF DescsKept
<1>15. QSize >= 3
  <2>1. q.numFree + 3 <= QSize BY <1>4, <1>14, CountSmall
  <2> QED BY <1>6, <2>1, BlockAssumption DEF BlockAssumption
<1>16. Three(q.next, more, id) BY <1>4, <1>14 DEF Chained
<1> HIDE DEF H, id
<1>17. /\ r \in Queues /\ r.next = Freed(q.next, q.freeHead, id) /\ r.freeHead = q.next[q.next[id]]
       /\ r.numFree = q.numFree + 3 /\ r.pend = pd /\ r.memory = mem /\ r.crossed = cr
  BY <1>9, <1>13, <1>15, <1>16, ChainFreed
<1>18. PendingHeads(pd) = H \ {id}
  <2>1. \A x \in Places : pd[x].req # 0 <=> q.pend[x].req # 0 /\ x # p BY <1>11
  <2>2. \A x \in Places : x # p /\ q.pend[x].req # 0 => q.pend[x].head # id BY <1>2, <1>5 DEF Distinct
  <2>3. PendingHeads(pd) = {q.pend[x].head : x \in {y \in Places : q.pend[y].req # 0 /\ y # p}} BY <1>11, <2>1 DEF PendingHeads
  <2> QED BY <1>5, <2>2, <2>3 DEF H, PendingHeads
<1>19. DescsKept(r.next, more, r.freeHead, r.numFree, H \ {id})
  <2>1. PICK L : FreeAs(q.next, q.freeHead, q.numFree, L) /\ Chained(q.next, more, H, q.numFree, L) BY <1>14
  <2> DEFINE nx == q.next
             n == q.numFree
             fh == q.freeHead
             c == q.next[q.next[id]]
             z == Freed(nx, fh, id)
             M == Longer(nx, L, n, id)
  <2>2. /\ z \in [Descs -> 0 .. QSize] /\ FreeAs(z, c, n + 3, M) /\ Chained(z, more, H \ {id}, n + 3, M)
    BY <1>4, <1>6, <2>1, FreeKeeps
  <2>3. c \in 0 .. QSize BY <1>6, <1>16, BlockAssumption DEF Three, Descs, BlockAssumption
  <2>4. Counted(n + 3, H \ {id}) BY <1>4, <1>14, CountFree
  <2> HIDE DEF z, M, c, n
  <2>5. DescsKept(z, more, c, n + 3, H \ {id}) BY <2>2, <2>3, <2>4 DEF DescsKept
  <2> QED BY <1>17, <2>5 DEF z, c, n
<1>20. Distinct(pd) BY <1>2, <1>11 DEF Distinct
<1>21. Coming(H \ {id}, avail, used, k)
  <2>1. avail \subseteq H \ {id} BY <1>2, <1>4 DEF Coming
  <2>2. \A i \in k + 1 .. Len(used) : used[i].id # id BY <1>2, <1>3 DEF Coming, id
  <2>3. \A i \in k + 1 .. Len(used) : used[i].id \in H \ {id} /\ used[i].id \notin avail BY <1>2, <1>3, <2>2 DEF Coming
  <2>4. \A i, j \in k + 1 .. Len(used) : used[i].id = used[j].id => i = j BY <1>2, <1>3 DEF Coming
  <2> QED BY <2>1, <2>3, <2>4 DEF Coming
<1>22. Well(pd, used, k, completed)
  <2> SUFFICES ASSUME NEW i \in k + 1 .. Len(used), NEW x \in Places, pd[x].req # 0, pd[x].head = used[i].id, Done(used, i)
               PROVE  pd[x].req \in completed
    BY DEF Well
  <2>1. x # p /\ pd[x] = q.pend[x] BY <1>11
  <2>2. i \in (k - 1) + 1 .. Len(used) BY <1>3
  <2> QED BY <1>2, <2>1, <2>2 DEF Well
<1>23. QueueGood(r, more, avail, used, k, completed) BY <1>17, <1>18, <1>19, <1>20, <1>21, <1>22 DEF QueueGood
<1>24. ASSUME Claim(q.memory, Awaited, call.req, completed, q.crossed)
       PROVE  Claim(r.memory, Awaited, call.req, completed, r.crossed)
  <2>1. SUFFICES ASSUME Told(mem, Awaited) PROVE call.req \in completed \cup cr BY <1>17 DEF Claim
  <2>2. CASE Awaited # b
    <3>1. Told(q.memory, Awaited) BY <1>8, <2>1, <2>2
    <3> QED BY <1>12, <1>24, <3>1 DEF Claim
  <2>3. CASE Awaited = b
    <3>1. u.ok BY <1>8, <2>1, <2>3, Zenon
    <3>2. Done(used, k) BY <3>1, Zenon DEF Done
    <3>3. q.pend[p].req \in completed BY <1>2, <1>3, <1>5, <3>2 DEF Well, id
    <3> QED BY <1>12, <2>3, <3>3
  <2> QED BY <2>2, <2>3
<1> QED BY <1>12, <1>17, <1>23, <1>24

Now == [next |-> next, freeHead |-> freeHead, numFree |-> numFree, pend |-> pend, memory |-> memory, crossed |-> crossed]

LEMMA NowIs ==
    ASSUME NEW q, NEW nx, NEW fh, NEW n, NEW pd, NEW mem, NEW cr,
           q = [next |-> nx, freeHead |-> fh, numFree |-> n, pend |-> pd, memory |-> mem, crossed |-> cr]
    PROVE  /\ q.next = nx /\ q.freeHead = fh /\ q.numFree = n /\ q.pend = pd /\ q.memory = mem /\ q.crossed = cr
           /\ q \in Queues <=> /\ nx \in [Descs -> 0 .. QSize] /\ fh \in 0 .. QSize /\ n \in Nat
                               /\ pd \in [Places -> Rows] /\ mem \in Memories /\ cr \in SUBSET Nat
<1> DEFINE m == Memories
<1>1. Queues = [next : [Descs -> 0 .. QSize], freeHead : 0 .. QSize, numFree : Nat, pend : [Places -> Rows],
                memory : m, crossed : SUBSET Nat] BY DEF Queues
<1> HIDE DEF m
<1>2. q.next = nx /\ q.freeHead = fh /\ q.numFree = n /\ q.pend = pd /\ q.memory = mem /\ q.crossed = cr OBVIOUS
<1>3. q \in Queues <=> /\ nx \in [Descs -> 0 .. QSize] /\ fh \in 0 .. QSize /\ n \in Nat
                       /\ pd \in [Places -> Rows] /\ mem \in m /\ cr \in SUBSET Nat
  BY <1>1
<1> QED BY <1>2, <1>3 DEF m

LEMMA NowHas ==
    /\ Now.next = next /\ Now.freeHead = freeHead /\ Now.numFree = numFree /\ Now.pend = pend
    /\ Now.memory = memory /\ Now.crossed = crossed
BY NowIs DEF Now

Claimed(q) == Claim(q.memory, Awaited, call.req, completed, q.crossed)
Fits(q, k) ==
    /\ QueueGood(q, more, avail, used, k, completed)
    /\ crossed \subseteq q.crossed
    /\ Claimed(Now) => Claimed(q)

(* A poll takes every completion there is, one after the other.               *)
LEMMA PolledGood ==
    ASSUME used \in Seq(Elements), call.req \in Nat, Awaited \in Bios \cup {Nested},
           QueueGood(Now, more, avail, used, 0, completed)
    PROVE  Fits(Polled, Len(used))
<1> DEFINE n == Len(used)
           P == Queues
           Next1(q, k) == IF Fits(q, k - 1) THEN Finish(q, used[k]) ELSE q
           F == [x \in P \X (1 .. n) |-> Next1(x[1], x[2])]
           Is(g) == g = [k \in 0 .. n |-> IF k = 0 THEN Now ELSE Finish(g[k - 1], used[k])]
           go == CHOOSE g : Is(g)
<1>1. n \in Nat OBVIOUS
<1>2. Fits(Now, 0) /\ Now \in P
  <2>1. Now.crossed = crossed BY NowHas
  <2> QED BY <2>1 DEF Fits, QueueGood
<1>3. ASSUME NEW q, NEW k \in 1 .. n, Fits(q, k - 1) PROVE Fits(Finish(q, used[k]), k) /\ Finish(q, used[k]) \in P
  <2> DEFINE r == Finish(q, used[k])
  <2>1. QueueGood(q, more, avail, used, k - 1, completed) BY <1>3 DEF Fits
  <2> HIDE DEF r
  <2>2. /\ QueueGood(r, more, avail, used, k, completed) /\ q.crossed \subseteq r.crossed
        /\ Claimed(q) => Claimed(r)
    BY <2>1, FinishGood DEF Claimed, r
  <2>3. Fits(r, k) /\ r \in P BY <1>3, <2>2 DEF Fits, QueueGood
  <2> QED BY <2>3 DEF r
<1>4. Polled = go[n] BY DEF Polled, Now
<1>5. \A q \in P, k \in 1 .. n : Next1(q, k) \in P BY <1>3
<1>6. F \in Steps(P, n) BY <1>5 DEF Steps
<1>7. \A q \in P, k \in 1 .. n : F[<<q, k>>] = Next1(q, k) OBVIOUS
<1> HIDE DEF F, P, n
<1>8. PICK g : Recurs(g, P, n, Now, F) BY <1>1, <1>2, <1>6, Recursion
<1>9. g \in [0 .. n -> P] /\ g[0] = Now /\ \A k \in 1 .. n : g[k] = F[<<g[k - 1], k>>] BY <1>8 DEF Recurs
<1>10. \A k \in 1 .. n : k - 1 \in 0 .. n /\ g[k - 1] \in P /\ g[k] = Next1(g[k - 1], k)
  <2> HIDE DEF Next1
  <2> SUFFICES ASSUME NEW k \in 1 .. n
               PROVE  k - 1 \in 0 .. n /\ g[k - 1] \in P /\ g[k] = Next1(g[k - 1], k)
    OBVIOUS
  <2>1. k - 1 \in 0 .. n BY <1>1
  <2>2. g[k - 1] \in P /\ g[k] = F[<<g[k - 1], k>>] BY <1>9, <2>1
  <2> QED BY <1>7, <2>1, <2>2
<1>11. \A k \in 0 .. n : Fits(g[k], k)
  <2> DEFINE S == {k \in 0 .. n : Fits(g[k], k)}
  <2>1. 0 \in S BY <1>1, <1>2, <1>9
  <2>2. ASSUME NEW k \in 1 .. n, k - 1 \in S PROVE k \in S
    <3>1. Fits(g[k - 1], k - 1) BY <2>2
    <3>2. g[k] = Finish(g[k - 1], used[k]) BY <1>10, <3>1
    <3>3. Fits(g[k], k) BY <1>3, <3>1, <3>2
    <3> QED BY <1>1, <3>3
  <2> HIDE DEF S
  <2>3. \A k \in 0 .. n : k \in S BY <1>1, <2>1, <2>2, UpTo
  <2> QED BY <2>3 DEF S
<1>12. Is(g)
  <2>1. \A k \in 1 .. n : g[k] = Finish(g[k - 1], used[k]) BY <1>10, <1>11
  <2>2. \A k \in 0 .. n : g[k] = IF k = 0 THEN Now ELSE Finish(g[k - 1], used[k]) BY <1>1, <1>9, <2>1
  <2>3. g = [k \in 0 .. n |-> g[k]] BY <1>9
  <2> QED BY <2>2, <2>3
<1> HIDE DEF Is
<1>13. Is(go) BY <1>12
<1> HIDE DEF go
<1>14. go = [k \in 0 .. n |-> IF k = 0 THEN Now ELSE Finish(go[k - 1], used[k])] BY <1>13 DEF Is
<1>15. \A k \in 0 .. n : Fits(go[k], k)
  <2> DEFINE S == {k \in 0 .. n : Fits(go[k], k)}
  <2>1. go[0] = Now /\ \A k \in 1 .. n : go[k] = Finish(go[k - 1], used[k])
    <3>1. 0 \in 0 .. n /\ \A k \in 1 .. n : k \in 0 .. n /\ k # 0 BY <1>1
    <3> QED BY <1>14, <3>1
  <2>2. 0 \in S BY <1>1, <1>2, <2>1
  <2>3. ASSUME NEW k \in 1 .. n, k - 1 \in S PROVE k \in S
    <3>1. Fits(go[k - 1], k - 1) BY <2>3
    <3>2. Fits(go[k], k) BY <1>3, <2>1, <3>1
    <3> QED BY <1>1, <3>2
  <2> HIDE DEF S
  <2>4. \A k \in 0 .. n : k \in S BY <1>1, <2>2, <2>3, UpTo
  <2> QED BY <2>4 DEF S
<1>16. n \in 0 .. n BY <1>1
<1>17. Fits(go[n], n) BY <1>15, <1>16
<1> QED BY <1>4, <1>17 DEF n

-----------------------------------------------------------------------------
CallRows == [bio : Bios \cup {Nested}, part : BOOLEAN, first : BOOLEAN, req : Nat]

BlockInv ==
    /\ QueueGood(Now, more, avail, used, 0, completed)
    /\ used \in Seq(Elements) /\ call \in CallRows /\ calls \in Nat
    /\ call.req # 0 => Claim(memory, Awaited, call.req, completed, crossed)
    /\ OwnAnswer

LEMMA AwaitedIs ==
    ASSUME call \in CallRows
    PROVE  /\ Awaited \in Bios \cup {Nested} /\ call.req \in Nat /\ call.bio \in Bios \cup {Nested}
<1>1. Awaited = Nested \/ Awaited = call.bio BY Zenon DEF Awaited
<1>2. call.req \in Nat /\ call.bio \in Bios \cup {Nested} BY DEF CallRows
<1> QED BY <1>1, <1>2

LEMMA PollSound == ASSUME BlockInv, Poll PROVE BlockInv'
<1> DEFINE s == Polled
           copied == IF call.part /\ call.first THEN [s.memory EXCEPT ![call.bio] = s.memory[Nested]] ELSE s.memory
           done == copied[call.bio].done
           failed == copied[call.bio].error
           m == Memories
<1>1. /\ QueueGood(Now, more, avail, used, 0, completed)
      /\ used \in Seq(Elements) /\ call \in CallRows /\ calls \in Nat
      /\ OwnAnswer
  BY DEF BlockInv
<1>2. Awaited \in Bios \cup {Nested} /\ call.req \in Nat /\ call.bio \in Bios \cup {Nested} BY <1>1, AwaitedIs
<1>3. /\ next' = s.next /\ freeHead' = s.freeHead /\ numFree' = s.numFree
      /\ pend' = s.pend /\ crossed' = s.crossed /\ used' = <<>> /\ memory' = copied
      /\ more' = more /\ avail' = avail /\ calls' = calls /\ completed' = completed /\ call.req # 0
  BY Zenon DEF Poll
<1>4. call' = IF done THEN NoCall ELSE [call EXCEPT !.first = FALSE] BY Zenon DEF Poll
<1>5. answer' = IF ~done THEN answer ELSE [result |-> IF failed THEN "failed" ELSE "ok", req |-> call.req]
  BY Zenon DEF Poll
<1>6. Fits(s, Len(used)) BY <1>1, <1>2, PolledGood
<1>7. Claim(s.memory, Awaited, call.req, completed, s.crossed)
  <2>1. Claim(memory, Awaited, call.req, completed, crossed) BY <1>3 DEF BlockInv
  <2>2. Claimed(Now) BY <2>1, NowHas DEF Claimed
  <2> QED BY <1>6, <2>2 DEF Fits, Claimed
<1> HIDE DEF s
<1>8. QueueGood(s, more, avail, used, Len(used), completed) /\ crossed \subseteq s.crossed BY <1>6 DEF Fits
<1>9. s \in Queues BY <1>8 DEF QueueGood
<1>10. s.memory \in m BY <1>9 DEF Queues
<1>11. copied \in m
  <2> DEFINE R == [done : BOOLEAN, error : BOOLEAN]
             c == [s.memory EXCEPT ![call.bio] = s.memory[Nested]]
  <2>1. m = [Bios \cup {Nested} -> R] BY DEF Memories
  <2> HIDE DEF R, m
  <2>2. c \in m BY <1>10, <2>1
  <2>3. copied = c \/ copied = s.memory BY Zenon
  <2> QED BY <1>10, <2>2, <2>3
<1>12. copied[call.bio] = s.memory[Awaited]
  <2>1. CASE call.part /\ call.first
    <3>1. Awaited = Nested BY <2>1, Zenon DEF Awaited
    <3>2. copied = [s.memory EXCEPT ![call.bio] = s.memory[Nested]] BY <2>1, Zenon
    <3>3. s.memory \in [Bios \cup {Nested} -> [done : BOOLEAN, error : BOOLEAN]] BY <1>10 DEF Memories
    <3> DEFINE R == [done : BOOLEAN, error : BOOLEAN]
    <3> HIDE DEF R, copied
    <3>4. copied[call.bio] = s.memory[Nested] BY <1>2, <3>2, <3>3
    <3> QED BY <3>1, <3>4
  <2>2. CASE ~(call.part /\ call.first)
    <3>1. Awaited = call.bio BY <2>2, Zenon DEF Awaited
    <3>2. copied = s.memory BY <2>2, Zenon
    <3> QED BY <3>1, <3>2
  <2> QED BY <2>1, <2>2
<1> HIDE DEF copied, m
<1>13. QueueGood(Now, more, avail, used, 0, completed)'
  <2>1. Now' = [next |-> s.next, freeHead |-> s.freeHead, numFree |-> s.numFree, pend |-> s.pend, memory |-> copied,
                crossed |-> s.crossed] BY <1>3 DEF Now
  <2>2. s = [next |-> s.next, freeHead |-> s.freeHead, numFree |-> s.numFree, pend |-> s.pend, memory |-> s.memory,
             crossed |-> s.crossed] BY <1>9 DEF Queues
  <2>3. Now' \in Queues /\ Now'.next = s.next /\ Now'.freeHead = s.freeHead /\ Now'.numFree = s.numFree /\ Now'.pend = s.pend
    BY <1>9, <1>11, <2>1, <2>2, NowIs DEF m
  <2>4. DescsKept(s.next, more, s.freeHead, s.numFree, PendingHeads(s.pend)) /\ Distinct(s.pend) /\ avail \subseteq PendingHeads(s.pend)
    BY <1>8 DEF QueueGood, Coming
  <2>5. Len(<<>>) = 0 /\ 0 + 1 .. Len(<<>>) = {} OBVIOUS
  <2>6. Coming(PendingHeads(s.pend), avail, <<>>, 0) /\ Well(s.pend, <<>>, 0, completed) BY <2>4, <2>5 DEF Coming, Well
  <2> HIDE DEF Now
  <2>7. QueueGood(Now', more, avail, <<>>, 0, completed) BY <2>3, <2>4, <2>6 DEF QueueGood
  <2> QED BY <1>3, <2>7
<1>14. used' \in Seq(Elements) /\ calls' \in Nat BY <1>1, <1>3
<1>15. CASE done
  <2>1. call' = NoCall BY <1>4, <1>15, Zenon
  <2>2. call' \in CallRows /\ call'.req = 0
    <3> DEFINE f == FALSE
    <3>1. f \in BOOLEAN OBVIOUS
    <3>2. NoCall = [bio |-> Nested, part |-> f, first |-> f, req |-> 0] BY Zenon DEF NoCall
    <3> HIDE DEF f
    <3> QED BY <2>1, <3>1, <3>2 DEF CallRows
  <2>3. answer' = [result |-> IF failed THEN "failed" ELSE "ok", req |-> call.req] BY <1>5, <1>15, Zenon
  <2>4. OwnAnswer'
    <3> SUFFICES ASSUME answer'.result = "ok" PROVE answer'.req \in completed' \/ answer'.req \in crossed' BY DEF OwnAnswer
    <3> DEFINE x == IF failed THEN "failed" ELSE "ok"
    <3>1. answer' = [result |-> x, req |-> call.req] BY <2>3
    <3>2. failed => x = "failed" BY Zenon
    <3> HIDE DEF x, failed
    <3>3. answer'.result = x /\ answer'.req = call.req BY <3>1
    <3>4. x # "failed" BY <3>3
    <3>5. ~failed BY <3>2, <3>4, Zenon
    <3>6. Told(s.memory, Awaited) BY <1>12, <1>15, <3>5, Zenon DEF Told, failed
    <3>7. call.req \in completed \cup s.crossed BY <1>7, <3>6 DEF Claim
    <3> QED BY <1>3, <3>3, <3>7
  <2> QED BY <1>13, <1>14, <2>2, <2>4 DEF BlockInv
<1>16. CASE ~done
  <2>1. call' = [call EXCEPT !.first = FALSE] /\ answer' = answer BY <1>4, <1>5, <1>16, Zenon
  <2> DEFINE f == FALSE
  <2>2. f \in BOOLEAN /\ ~f OBVIOUS
  <2>3. call' = [call EXCEPT !.first = f] BY <2>1
  <2> HIDE DEF f
  <2>4. call' \in CallRows /\ call'.first = f /\ call'.bio = call.bio /\ call'.req = call.req
    BY <1>1, <2>2, <2>3 DEF CallRows
  <2>5. Awaited' = call.bio
    <3>1. ~call'.first BY <2>2, <2>4, Zenon
    <3>2. Awaited' = call'.bio BY <3>1, Zenon DEF Awaited
    <3> QED BY <2>4, <3>2
  <2>6. ~Told(copied, call.bio) BY <1>16, Zenon DEF Told
  <2>7. Claim(memory, Awaited, call.req, completed, crossed)' BY <1>3, <2>5, <2>6 DEF Claim
  <2>8. OwnAnswer' BY <1>1, <1>3, <1>8, <2>1 DEF OwnAnswer
  <2> QED BY <1>13, <1>14, <2>4, <2>7, <2>8 DEF BlockInv
<1> QED BY <1>15, <1>16

NotDone == [done |-> FALSE, error |-> FALSE]

LEMMA NotDoneIs ==
    ASSUME NEW mem \in Memories, NEW b \in Bios \cup {Nested}, NEW c \in Bios \cup {Nested}, NEW m2,
           m2 = [mem EXCEPT ![b] = NotDone, ![c] = NotDone]
    PROVE  m2 \in Memories /\ ~Told(m2, b) /\ ~Told(m2, c)
<1> DEFINE R == [done : BOOLEAN, error : BOOLEAN]
           row == NotDone
<1>1. row \in R /\ ~row.done BY Zenon DEF NotDone
<1>2. mem \in [Bios \cup {Nested} -> R] BY DEF Memories
<1> HIDE DEF row, R
<1>3. m2 \in [Bios \cup {Nested} -> R] /\ m2[b] = row /\ m2[c] = row
  <2> DEFINE m1 == [mem EXCEPT ![b] = row]
  <2>1. m2 = [m1 EXCEPT ![c] = row] BY DEF row
  <2>2. m1 \in [Bios \cup {Nested} -> R] /\ m1[b] = row BY <1>1, <1>2
  <2> HIDE DEF m1
  <2> QED BY <1>1, <2>1, <2>2
<1>4. ~Told(m2, b) /\ ~Told(m2, c) BY <1>1, <1>3, Zenon DEF Told
<1> QED BY <1>3, <1>4 DEF Memories, R

(* A call that is refused waits for nothing.                                 *)
LEMMA RefusedSound ==
    ASSUME BlockInv, answer' = [result |-> "EAGAIN", req |-> 0], calls' = calls + 1,
           UNCHANGED <<more, avail, used, completed, crossed, memory, call>>,
           QueueGood(Now', more, avail, used, 0, completed)
    PROVE  BlockInv'
<1>1. /\ used' = used /\ call' = call /\ more' = more /\ avail' = avail /\ completed' = completed /\ crossed' = crossed
      /\ memory' = memory
  OBVIOUS
<1>2. used \in Seq(Elements) /\ call \in CallRows /\ calls \in Nat
      /\ (call.req # 0 => Claim(memory, Awaited, call.req, completed, crossed))
  BY DEF BlockInv
<1>3. calls' \in Nat BY <1>2
<1>4. Awaited' = Awaited BY <1>1 DEF Awaited
<1>5. OwnAnswer' BY DEF OwnAnswer
<1>6. (call.req # 0 => Claim(memory, Awaited, call.req, completed, crossed))' BY <1>1, <1>2, <1>4
<1>7. QueueGood(Now, more, avail, used, 0, completed)' BY <1>1
<1> QED BY <1>1, <1>2, <1>3, <1>5, <1>6, <1>7 DEF BlockInv

LEMMA SubmitSound == ASSUME BlockInv, NEW b \in Bios, NEW part \in BOOLEAN, Submit(b, part) PROVE BlockInv'
<1> DEFINE n == numFree
           H == PendingHeads(pend)
           q == Now
           m == Memories
<1>1. /\ QueueGood(Now, more, avail, used, 0, completed)
      /\ used \in Seq(Elements) /\ call \in CallRows /\ calls \in Nat
  BY DEF BlockInv
<1>2. /\ q \in Queues /\ DescsKept(next, more, freeHead, n, H) /\ Distinct(pend)
      /\ Coming(H, avail, used, 0) /\ Well(pend, used, 0, completed)
  BY <1>1, NowHas DEF QueueGood
<1>3. /\ next \in [Descs -> 0 .. QSize] /\ freeHead \in 0 .. QSize /\ n \in Nat
      /\ pend \in [Places -> Rows] /\ memory \in m /\ crossed \in SUBSET Nat
  BY <1>2, NowIs DEF Now
<1>4. calls' = calls + 1 /\ used' = used /\ completed' = completed /\ crossed' = crossed BY DEF Submit
<1>5. PICK L : FreeAs(next, freeHead, n, L) /\ Chained(next, more, H, n, L) BY <1>2 DEF DescsKept
<1>6. Counted(n, H) BY <1>2 DEF DescsKept
<1>7. L \in [1 .. n -> Descs] BY <1>5 DEF FreeAs
<1>8. ASSUME NEW k \in Nat, k <= n PROVE \A i \in 1 .. k : FreeList(k)[i] = L[i]
  <2>1. FreeList(k) = [i \in 1 .. k |-> L[i]] BY <1>3, <1>5, <1>8, ListIs
  <2> QED BY <2>1
<1>9. CASE FreePlaces = {}
  <2>1. /\ answer' = [result |-> "EAGAIN", req |-> 0] /\ UNCHANGED <<more, avail, used, completed, crossed, memory, call>>
        /\ UNCHANGED <<next, freeHead, numFree, pend>>
    BY <1>9 DEF Submit, Refused
  <2>2. Now' = Now BY <2>1 DEF Now
  <2> QED BY <1>1, <1>4, <2>1, <2>2, RefusedSound
<1>10. CASE FreePlaces # {} /\ numFree < 3
  <2>1. /\ answer' = [result |-> "EAGAIN", req |-> 0] /\ UNCHANGED <<more, avail, used, completed, crossed, memory, call>>
        /\ UNCHANGED <<next, pend>> /\ TakeDescs
    BY <1>10 DEF Submit, Refused
  <2>2. numFree' = 0 /\ freeHead' = IF n = 0 THEN freeHead ELSE next[FreeList(n)[n]] BY <1>3, <1>10, <2>1 DEF TakeDescs
  <2>3. freeHead' \in 0 .. QSize
    <3>1. n # 0 => FreeList(n)[n] = L[n] /\ n \in 1 .. n BY <1>3, <1>8
    <3>2. n # 0 => next[L[n]] \in 0 .. QSize BY <1>3, <1>7, <3>1
    <3> QED BY <1>3, <2>2, <3>1, <3>2
  <2>4. DescsKept(next, more, freeHead', 0, H)
    <3> DEFINE M == [i \in 1 .. 0 |-> 0]
    <3>1. 1 .. 0 = {} /\ 1 .. 0 - 1 = {} OBVIOUS
    <3>2. M \in [1 .. 0 -> Descs] BY <3>1
    <3> HIDE DEF M
    <3>3. FreeAs(next, freeHead', 0, M) BY <3>1, <3>2 DEF FreeAs
    <3>4. Chained(next, more, H, 0, M) BY <1>5, <3>1 DEF Chained
    <3>5. Counted(0, H) BY <1>6, <1>10, CountLost
    <3> QED BY <1>3, <2>3, <3>3, <3>4, <3>5 DEF DescsKept
  <2>5. Now' = [next |-> next, freeHead |-> freeHead', numFree |-> 0, pend |-> pend, memory |-> memory, crossed |-> crossed]
    BY <2>1, <2>2 DEF Now
  <2>6. /\ Now' \in Queues /\ Now'.next = next /\ Now'.freeHead = freeHead' /\ Now'.numFree = 0 /\ Now'.pend = pend
    BY <1>3, <2>3, <2>5, NowIs DEF m
  <2>7. QueueGood(Now', more, avail, used, 0, completed) BY <1>2, <2>4, <2>6 DEF QueueGood
  <2> QED BY <1>4, <2>1, <2>7, RefusedSound
<1>11. CASE FreePlaces # {} /\ numFree >= 3
  <2> DEFINE p == CHOOSE x \in FreePlaces : \A r \in FreePlaces : x <= r
             bio == IF part THEN Nested ELSE b
             row == [bio |-> bio, head |-> L[1], req |-> calls + 1]
  <2>1. p \in FreePlaces
    <3>1. FreePlaces \subseteq Nat BY DEF FreePlaces, Places
    <3>2. \E x \in FreePlaces : \A r \in FreePlaces : x <= r BY <1>11, <3>1, HasLeast
    <3> QED BY <3>2
  <2>2. p \in Places /\ pend[p].req = 0 BY <2>1 DEF FreePlaces, InUse
  <2>3. 3 \in Nat /\ 1 \in 1 .. 3 /\ 2 \in 1 .. 3 /\ 3 \in 1 .. 3 /\ 3 <= n /\ ~(numFree < 3) BY <1>3, <1>11
  <2>4. FreeList(3)[1] = L[1] /\ FreeList(3)[2] = L[2] /\ FreeList(3)[3] = L[3] BY <1>8, <2>3
  <2>5. /\ TakeDescs
        /\ pend' = [pend EXCEPT ![p] = [bio |-> bio, head |-> FreeList(3)[1], req |-> calls']]
        /\ next' = [next EXCEPT ![FreeList(3)[1]] = FreeList(3)[2],
                                ![FreeList(3)[2]] = FreeList(3)[3], ![FreeList(3)[3]] = 0]
        /\ more' = (more \cup {FreeList(3)[1], FreeList(3)[2]}) \ {FreeList(3)[3]}
        /\ avail' = avail \cup {FreeList(3)[1]}
        /\ memory' = [memory EXCEPT ![b] = NotDone, ![bio] = NotDone]
        /\ call' = [bio |-> b, part |-> part, first |-> TRUE, req |-> calls']
        /\ answer' = [result |-> "none", req |-> 0]
    <3> HIDE DEF p
    <3> QED BY <1>11, <2>3, Zenon DEF Submit, NotDone, p
  <2> HIDE DEF p
  <2>6. /\ next' = Taking(next, L) /\ more' = Flags(more, L) /\ avail' = avail \cup {L[1]}
        /\ pend' = [pend EXCEPT ![p] = row]
    BY <1>4, <2>4, <2>5 DEF Taking, Flags
  <2>7. numFree' = n - 3 /\ freeHead' = next[L[3]] BY <1>3, <2>3, <2>4, <2>5 DEF TakeDescs
  <2>8. L[1] \in Descs /\ L[2] \in Descs /\ L[3] \in Descs /\ next[L[3]] \in 0 .. QSize BY <1>3, <1>7, <2>3
  <2>9. /\ FreeAs(next', freeHead', n - 3, Rest(L, n))
        /\ Chained(next', more', H \cup {L[1]}, n - 3, Rest(L, n))
        /\ L[1] \notin H
    BY <1>3, <1>5, <2>3, <2>6, <2>7, TakeKeeps
  <2>10. bio \in Bios \cup {Nested} OBVIOUS
  <2>11. row \in Rows /\ row.req = calls + 1 /\ row.req # 0 /\ row.head = L[1]
    <3>1. L[1] \in 0 .. QSize BY <2>8, BlockAssumption DEF Descs, BlockAssumption
    <3>2. calls + 1 \in Nat /\ calls + 1 # 0 BY <1>1
    <3> HIDE DEF bio
    <3> QED BY <2>10, <3>1, <3>2 DEF Rows
  <2> HIDE DEF row, bio
  <2>12. /\ pend' \in [Places -> Rows] /\ pend'[p] = row /\ \A x \in Places : x # p => pend'[x] = pend[x]
    BY <1>3, <2>2, <2>6, <2>11
  <2>13. PendingHeads(pend') = H \cup {L[1]}
    <3>1. \A x \in Places : x # p => (pend'[x].req # 0 <=> pend[x].req # 0) /\ pend'[x].head = pend[x].head BY <2>12
    <3>2. pend'[p].req # 0 /\ pend'[p].head = L[1] BY <2>11, <2>12
    <3>3. H \subseteq PendingHeads(pend')
      <4> SUFFICES ASSUME NEW x \in Places, pend[x].req # 0 PROVE pend[x].head \in PendingHeads(pend') BY DEF PendingHeads
      <4>1. x # p BY <2>2
      <4> QED BY <3>1, <4>1 DEF PendingHeads
    <3>4. L[1] \in PendingHeads(pend') BY <2>2, <3>2 DEF PendingHeads
    <3>5. PendingHeads(pend') \subseteq H \cup {L[1]}
      <4> SUFFICES ASSUME NEW x \in Places, pend'[x].req # 0 PROVE pend'[x].head \in H \cup {L[1]} BY DEF PendingHeads
      <4>1. CASE x = p BY <3>2, <4>1
      <4>2. CASE x # p
        <5>1. pend[x].req # 0 /\ pend'[x].head = pend[x].head BY <3>1, <4>2
        <5> QED BY <5>1 DEF PendingHeads
      <4> QED BY <4>1, <4>2
    <3> QED BY <3>3, <3>4, <3>5
  <2>14. DescsKept(next', more', freeHead', n - 3, H \cup {L[1]})
    <3>1. Counted(n - 3, H \cup {L[1]}) BY <1>6, <2>3, <2>9, CountTake
    <3>2. next' \in [Descs -> 0 .. QSize]
      <4>1. Taking(next, L) \in [Descs -> 0 .. QSize] BY <1>3, <1>5, <2>3, ThreeTaken
      <4> QED BY <2>6, <4>1
    <3> QED BY <2>7, <2>8, <2>9, <3>1, <3>2 DEF DescsKept
  <2>15. Distinct(pend')
    <3> SUFFICES ASSUME NEW x \in Places, NEW y \in Places, pend'[x].req # 0, pend'[y].req # 0,
                        pend'[x].head = pend'[y].head
                 PROVE  x = y
      BY DEF Distinct
    <3>1. \A z \in Places : z # p /\ pend'[z].req # 0 => pend'[z].head # L[1] /\ pend'[z] = pend[z]
      BY <2>9, <2>12 DEF PendingHeads
    <3>2. CASE x # p /\ y # p BY <1>2, <3>1, <3>2 DEF Distinct
    <3>3. CASE x = p \/ y = p BY <2>11, <2>12, <3>1, <3>3
    <3> QED BY <3>2, <3>3
  <2>16. Coming(H \cup {L[1]}, avail', used, 0) BY <1>2, <2>6, <2>9 DEF Coming
  <2>17. Well(pend', used, 0, completed)
    <3> SUFFICES ASSUME NEW i \in 0 + 1 .. Len(used), NEW x \in Places, pend'[x].req # 0, pend'[x].head = used[i].id,
                        Done(used, i)
                 PROVE  pend'[x].req \in completed
      BY DEF Well
    <3>1. used[i].id \in H BY <1>2 DEF Coming
    <3>2. x # p BY <2>9, <2>11, <2>12, <3>1
    <3>3. pend'[x] = pend[x] BY <2>12, <3>2
    <3> QED BY <1>2, <3>3 DEF Well
  <2>18. memory' \in m /\ ~Told(memory', b) /\ ~Told(memory', bio) BY <1>3, <2>5, <2>10, NotDoneIs DEF m
  <2>19. QueueGood(Now', more', avail', used, 0, completed)
    <3>1. Now' = [next |-> next', freeHead |-> freeHead', numFree |-> n - 3, pend |-> pend',
                   memory |-> memory', crossed |-> crossed]
      BY <1>4, <2>7 DEF Now
    <3>2. n - 3 \in Nat /\ next' \in [Descs -> 0 .. QSize] /\ freeHead' \in 0 .. QSize
      BY <1>3, <2>3, <2>14 DEF DescsKept
    <3> DEFINE nx == next'
               fh == freeHead'
               k == n - 3
               pd == pend'
               mem == memory'
    <3>3. Now' = [next |-> nx, freeHead |-> fh, numFree |-> k, pend |-> pd, memory |-> mem, crossed |-> crossed]
      BY <3>1
    <3>4. /\ nx \in [Descs -> 0 .. QSize] /\ fh \in 0 .. QSize /\ k \in Nat /\ pd \in [Places -> Rows]
          /\ mem \in Memories /\ crossed \in SUBSET Nat
      BY <1>3, <2>12, <2>18, <3>2 DEF m
    <3> HIDE DEF nx, fh, k, pd, mem
    <3>5. Now' \in Queues /\ Now'.next = nx /\ Now'.freeHead = fh /\ Now'.numFree = k /\ Now'.pend = pd
      BY <3>3, <3>4, NowIs
    <3>6. /\ Now' \in Queues /\ Now'.next = next' /\ Now'.freeHead = freeHead' /\ Now'.numFree = n - 3
          /\ Now'.pend = pend'
      BY <3>5 DEF nx, fh, k, pd
    <3> QED BY <2>13, <2>14, <2>15, <2>16, <2>17, <3>6 DEF QueueGood
  <2>20. call' \in CallRows /\ call'.bio = b /\ Awaited' = bio
    <3> DEFINE f == TRUE
    <3>1. f \in BOOLEAN /\ f OBVIOUS
    <3>2. call' = [bio |-> b, part |-> part, first |-> f, req |-> calls'] BY <2>5, Zenon
    <3> HIDE DEF f
    <3>3. calls' \in Nat BY <1>1, <1>4
    <3>4. call' \in CallRows /\ call'.bio = b /\ call'.part = part /\ call'.first = f BY <3>1, <3>2, <3>3 DEF CallRows
    <3>5. Awaited' = bio BY <3>1, <3>4, Zenon DEF Awaited, bio
    <3> QED BY <3>4, <3>5
  <2>21. (call.req # 0 => Claim(memory, Awaited, call.req, completed, crossed))' BY <2>18, <2>20 DEF Claim
  <2>22. OwnAnswer' BY <2>5 DEF OwnAnswer
  <2>23. used' \in Seq(Elements) /\ calls' \in Nat BY <1>1, <1>4
  <2>24. QueueGood(Now, more, avail, used, 0, completed)' BY <1>4, <2>19
  <2> QED BY <2>20, <2>21, <2>22, <2>23, <2>24 DEF BlockInv
<1> QED BY <1>3, <1>9, <1>10, <1>11

(* The device: one of those it was given has come back.                      *)
LEMMA DeviceSound ==
    ASSUME BlockInv, NEW h \in Descs, NEW ok \in BOOLEAN, DeviceCompletes(h, ok)
    PROVE  BlockInv'
<1> DEFINE H == PendingHeads(pend)
           u == [id |-> h, ok |-> ok]
           n == Len(used)
<1>1. /\ QueueGood(Now, more, avail, used, 0, completed)
      /\ used \in Seq(Elements) /\ call \in CallRows /\ calls \in Nat
      /\ call.req # 0 => Claim(memory, Awaited, call.req, completed, crossed)
      /\ OwnAnswer
  BY DEF BlockInv
<1>2. /\ h \in avail /\ avail' = avail \ {h} /\ used' = Append(used, u)
      /\ UNCHANGED <<next, more, freeHead, numFree, pend, memory, call, calls, answer, crossed>>
      /\ completed' = completed \cup {pend[p].req : p \in {q \in Places : ok /\ InUse(q) /\ pend[q].head = h}}
  BY Zenon DEF DeviceCompletes
<1>3. Coming(H, avail, used, 0) /\ Well(pend, used, 0, completed) BY <1>1, NowHas DEF QueueGood
<1>4. u \in Elements /\ u.id = h /\ (u.ok = ok)
  <2>1. u \in Elements BY DEF Elements
  <2>2. u.id = h BY Zenon
  <2>3. u.ok = ok BY Zenon
  <2> QED BY <2>1, <2>2, <2>3
<1> HIDE DEF u
<1>5. n \in Nat /\ used' \in Seq(Elements) /\ Len(used') = n + 1 /\ used'[n + 1] = u
      /\ \A i \in 0 + 1 .. n : used'[i] = used[i]
  <2> DEFINE E == Elements
  <2>1. used \in Seq(E) /\ u \in E BY <1>1, <1>4
  <2> HIDE DEF E
  <2>2. n \in Nat /\ used' \in Seq(E) /\ Len(used') = n + 1 /\ used'[n + 1] = u
        /\ \A i \in 0 + 1 .. n : used'[i] = used[i]
    BY <1>2, <2>1
  <2> QED BY <2>2 DEF E
<1>6. \A i \in 0 + 1 .. n + 1 : i \in 0 + 1 .. n \/ i = n + 1 BY <1>5
<1>7. h \in H /\ \A i \in 0 + 1 .. n : used[i].id \in H /\ used[i].id # h BY <1>2, <1>3 DEF Coming
<1>8. used'[n + 1].id = h /\ \A i \in 0 + 1 .. n : used'[i].id = used[i].id BY <1>4, <1>5
<1> HIDE DEF n
<1>9. Coming(H, avail', used', 0)
  <2>1. avail' \subseteq H BY <1>2, <1>3 DEF Coming
  <2>2. \A i \in 0 + 1 .. n : used[i].id \notin avail BY <1>3 DEF Coming, n
  <2>3. \A i \in 0 + 1 .. n + 1 : used'[i].id \in H /\ used'[i].id \notin avail'
    BY <1>2, <1>6, <1>7, <1>8, <2>2
  <2>4. \A i, j \in 0 + 1 .. n : used[i].id = used[j].id => i = j BY <1>3 DEF Coming, n
  <2>5. ASSUME NEW i \in 0 + 1 .. n + 1, NEW j \in 0 + 1 .. n + 1, used'[i].id = used'[j].id PROVE i = j
    <3>1. CASE i \in 0 + 1 .. n /\ j \in 0 + 1 .. n BY <1>8, <2>4, <2>5, <3>1
    <3>2. CASE i \in 0 + 1 .. n /\ j = n + 1 BY <1>7, <1>8, <2>5, <3>2
    <3>3. CASE i = n + 1 /\ j \in 0 + 1 .. n BY <1>7, <1>8, <2>5, <3>3
    <3> QED BY <1>6, <3>1, <3>2, <3>3
  <2> QED BY <1>5, <2>1, <2>3, <2>5 DEF Coming
<1>10. Well(pend, used', 0, completed')
  <2> SUFFICES ASSUME NEW i \in 0 + 1 .. Len(used'), NEW p \in Places, pend[p].req # 0, pend[p].head = used'[i].id,
                      Done(used', i)
               PROVE  pend[p].req \in completed'
    BY DEF Well
  <2>1. CASE i \in 0 + 1 .. n
    <3>1. Done(used, i)
      <4>1. used'[i] = used[i] BY <1>5, <2>1
      <4> QED BY <4>1, Zenon DEF Done
    <3>2. pend[p].req \in completed BY <1>3, <1>8, <2>1, <3>1 DEF Well, n
    <3> QED BY <1>2, <3>2
  <2>2. CASE i = n + 1
    <3>1. ok
      <4>1. used'[i] = u BY <1>5, <2>2
      <4>2. u.ok BY <4>1, Zenon DEF Done
      <4> QED BY <1>4, <4>2, Zenon
    <3>2. InUse(p) /\ pend[p].head = h BY <1>8, <2>2 DEF InUse
    <3> QED BY <1>2, <3>1, <3>2, Zenon
  <2> QED BY <1>5, <1>6, <2>1, <2>2
<1>11. completed \subseteq completed' BY <1>2
<1>12. Now' = Now BY <1>2 DEF Now
<1>13. QueueGood(Now, more, avail, used, 0, completed)'
  <2>1. QueueGood(Now, more, avail', used', 0, completed') BY <1>1, <1>9, <1>10, NowHas DEF QueueGood
  <2> QED BY <1>2, <1>12, <2>1
<1>14. Awaited' = Awaited BY <1>2 DEF Awaited
<1>15. (call.req # 0 => Claim(memory, Awaited, call.req, completed, crossed))' BY <1>1, <1>2, <1>11, <1>14 DEF Claim
<1>16. OwnAnswer' BY <1>1, <1>2, <1>11 DEF OwnAnswer
<1> QED BY <1>1, <1>2, <1>5, <1>13, <1>15, <1>16 DEF BlockInv

NoCallRow == NoCall \in CallRows /\ NoCall.req = 0
LEMMA NoCallIs == NoCallRow
<1> DEFINE f == FALSE
<1>1. f \in BOOLEAN OBVIOUS
<1>2. NoCall = [bio |-> Nested, part |-> f, first |-> f, req |-> 0] BY Zenon DEF NoCall
<1> HIDE DEF f
<1> QED BY <1>1, <1>2 DEF CallRows, NoCallRow

LEMMA GiveUpSound == ASSUME BlockInv, GiveUp PROVE BlockInv'
<1>1. /\ QueueGood(Now, more, avail, used, 0, completed)
      /\ used \in Seq(Elements) /\ call \in CallRows /\ calls \in Nat
  BY DEF BlockInv
<1>2. /\ call' = NoCall /\ answer' = [result |-> "EIO", req |-> call.req]
      /\ UNCHANGED <<next, more, freeHead, numFree, pend, avail, used, memory, calls, completed, crossed>>
  BY Zenon DEF GiveUp
<1>3. call' \in CallRows /\ call'.req = 0 BY <1>2, NoCallIs DEF NoCallRow
<1>4. Now' = Now BY <1>2 DEF Now
<1>5. QueueGood(Now, more, avail, used, 0, completed)' BY <1>1, <1>2, <1>4
<1>6. OwnAnswer' BY <1>2 DEF OwnAnswer
<1> QED BY <1>1, <1>2, <1>3, <1>5, <1>6 DEF BlockInv

LEMMA BlockInitInv == BlockInit => BlockInv
<1> SUFFICES ASSUME BlockInit PROVE BlockInv OBVIOUS
<1> DEFINE L == [i \in 1 .. QSize |-> i - 1]
           mm == Memories
<1>1. /\ next = [i \in Descs |-> i + 1] /\ more = {} /\ freeHead = 0 /\ numFree = QSize
      /\ pend = [p \in Places |-> NoRequest] /\ avail = {} /\ used = <<>> /\ crossed = {}
      /\ call = NoCall /\ calls = 0
  BY Zenon DEF BlockInit
<1>2. QSize \in Nat \ {0} BY BlockAssumption DEF BlockAssumption
<1>3. memory \in mm
  <2> DEFINE R == [done : BOOLEAN, error : BOOLEAN]
             row == [done |-> FALSE, error |-> FALSE]
  <2>1. memory = [b \in Bios \cup {Nested} |-> row] BY Zenon DEF BlockInit
  <2>2. row \in R BY Zenon
  <2> HIDE DEF row, R
  <2>3. memory \in [Bios \cup {Nested} -> R] BY <2>1, <2>2
  <2> QED BY <2>3 DEF Memories, R
<1>4. FreeAs(next, 0, QSize, L)
  <2>1. \A i \in 1 .. QSize : i - 1 \in Descs /\ L[i] = i - 1 BY <1>2 DEF Descs
  <2>2. L \in [1 .. QSize -> Descs] BY <2>1
  <2>3. \A i \in 1 .. QSize - 1 : i \in 1 .. QSize /\ i + 1 \in 1 .. QSize BY <1>2
  <2> HIDE DEF L
  <2>4. \A i \in 1 .. QSize - 1 : next[L[i]] = L[i + 1]
    <3> SUFFICES ASSUME NEW i \in 1 .. QSize - 1 PROVE next[L[i]] = L[i + 1] OBVIOUS
    <3>1. L[i] = i - 1 /\ L[i + 1] = (i + 1) - 1 /\ i - 1 \in Descs BY <2>1, <2>3
    <3>2. next[i - 1] = (i - 1) + 1 BY <1>1, <3>1
    <3> QED BY <3>1, <3>2
  <2>5. L[1] = 0 /\ \A i, j \in 1 .. QSize : L[i] = L[j] => i = j BY <1>2, <2>1
  <2> QED BY <2>2, <2>4, <2>5 DEF FreeAs
<1>5. NoRequest \in Rows /\ NoRequest.req = 0
  <2>1. QSize \in 0 .. QSize /\ 0 \in Nat BY <1>2
  <2> QED BY <2>1 DEF NoRequest, Rows, NoDesc
<1>6. pend \in [Places -> Rows] /\ \A p \in Places : pend[p].req = 0 BY <1>1, <1>5
<1>7. PendingHeads(pend) = {} BY <1>6 DEF PendingHeads
<1>8. Counted(QSize, {})
  <2>1. IsFiniteSet({}) /\ Cardinality({}) = 0 BY FS_EmptySet
  <2>2. QSize = QSize + 3 * Cardinality({}) + 0 /\ 0 \in 0 .. 2 BY <1>2, <2>1
  <2> QED BY <1>2, <2>1, <2>2 DEF Counted
<1>9. next \in [Descs -> 0 .. QSize] /\ 0 \in 0 .. QSize BY <1>1, <1>2 DEF Descs
<1>10. DescsKept(next, more, 0, QSize, {})
  <2>1. Chained(next, more, {}, QSize, L) BY DEF Chained
  <2> HIDE DEF L
  <2> QED BY <1>4, <1>8, <1>9, <2>1 DEF DescsKept
<1>11. Now \in Queues /\ Now.next = next /\ Now.freeHead = 0 /\ Now.numFree = QSize /\ Now.pend = pend
  <2>1. Now = [next |-> next, freeHead |-> 0, numFree |-> QSize, pend |-> pend, memory |-> memory, crossed |-> {}]
    BY <1>1 DEF Now
  <2> QED BY <1>2, <1>3, <1>6, <1>9, <2>1, NowIs DEF mm
<1>12. Distinct(pend) BY <1>6 DEF Distinct
<1>13. Len(<<>>) = 0 /\ 0 + 1 .. Len(<<>>) = {} /\ <<>> \in Seq(Elements) /\ 0 \in Nat OBVIOUS
<1>14. Coming({}, avail, used, 0) /\ Well(pend, used, 0, completed) BY <1>1, <1>13 DEF Coming, Well
<1>15. QueueGood(Now, more, avail, used, 0, completed) BY <1>7, <1>10, <1>11, <1>12, <1>14 DEF QueueGood
<1>16. call \in CallRows /\ call.req = 0 BY <1>1, NoCallIs DEF NoCallRow
<1>17. OwnAnswer BY DEF BlockInit, OwnAnswer
<1> QED BY <1>1, <1>13, <1>15, <1>16, <1>17 DEF BlockInv

(* A caller is told that all went well only of a request the device did, or  *)
(* of one given up whose bio was where its own is, and descriptors are never *)
(* given out twice nor lost, for queues of any size (virtio_blk.c:180-340).   *)
THEOREM RequestsAreSound == BlockSpec => []RequestsSound
<1>1. BlockInv /\ [BlockNext]_blockVars => BlockInv'
  <2> SUFFICES ASSUME BlockInv, [BlockNext]_blockVars PROVE BlockInv' OBVIOUS
  <2>1. CASE UNCHANGED blockVars
    <3>1. UNCHANGED <<next, more, freeHead, numFree, pend, avail, used, memory, call, calls, answer, completed, crossed>>
      BY <2>1 DEF blockVars
    <3>2. Now' = Now /\ Awaited' = Awaited /\ (OwnAnswer' <=> OwnAnswer) BY <3>1 DEF Now, Awaited, OwnAnswer
    <3> QED BY <3>1, <3>2 DEF BlockInv
  <2> QED BY <2>1, SubmitSound, DeviceSound, PollSound, GiveUpSound DEF BlockNext
<1>2. BlockInv => RequestsSound
  <2> SUFFICES ASSUME BlockInv PROVE RequestsSound OBVIOUS
  <2>1. DescsKept(next, more, freeHead, numFree, PendingHeads(pend)) BY NowHas DEF BlockInv, QueueGood
  <2>2. QueueSound BY <2>1, QueueIsSound
  <2> QED BY <2>2 DEF BlockInv, RequestsSound
<1> QED BY <1>1, <1>2, BlockInitInv, PTL DEF BlockSpec
-----------------------------------------------------------------------------
(* The FAT driver: its table is a forest of chains.                          *)

(* The walk over a chain, of whatever table f.                               *)
Next(f, c) == IF c \in DOMAIN f THEN f[c] ELSE Free
Go(f, c, k) ==
    LET go[i \in 0 .. k] == IF i = 0 THEN c ELSE Next(f, go[i - 1])
    IN  go[k]

Goes(f, c, k, g) == g = [i \in 0 .. k |-> IF i = 0 THEN c ELSE Next(f, g[i - 1])]

LEMMA GoesSome == ASSUME NEW f, NEW c, NEW k \in Nat PROVE \E g : Goes(f, c, k, g)
<1> DEFINE S == {c, Free} \cup {f[x] : x \in DOMAIN f}
           F == [p \in S \X (1 .. k) |-> Next(f, p[1])]
<1>1. \A x : Next(f, x) \in S BY DEF Next
<1>2. F \in Steps(S, k) BY <1>1 DEF Steps
<1>3. c \in S OBVIOUS
<1>4. \A x \in S, i \in 1 .. k : F[<<x, i>>] = Next(f, x) OBVIOUS
<1> HIDE DEF F, S
<1>5. PICK g : Recurs(g, S, k, c, F) BY <1>2, <1>3, Recursion
<1>6. g \in [0 .. k -> S] /\ g[0] = c /\ \A i \in 1 .. k : g[i] = F[<<g[i - 1], i>>] BY <1>5 DEF Recurs
<1>7. \A i \in 1 .. k : g[i] = Next(f, g[i - 1])
  <2>1. \A i \in 1 .. k : i - 1 \in 0 .. k OBVIOUS
  <2>2. \A i \in 1 .. k : g[i - 1] \in S BY <1>6, <2>1
  <2> QED BY <1>4, <1>6, <2>2
<1>8. \A i \in 0 .. k : g[i] = IF i = 0 THEN c ELSE Next(f, g[i - 1])
  <2>1. \A i \in 0 .. k : i = 0 \/ i \in 1 .. k OBVIOUS
  <2> QED BY Zenon, <1>6, <1>7, <2>1
<1>9. g = [i \in 0 .. k |-> g[i]] BY <1>6
<1>10. g = [i \in 0 .. k |-> IF i = 0 THEN c ELSE Next(f, g[i - 1])] BY Zenon, <1>8, <1>9
<1> QED BY <1>10 DEF Goes

LEMMA GoIs ==
    ASSUME NEW f, NEW c, NEW n \in Nat, NEW g, Goes(f, c, n, g)
    PROVE  \A k \in 0 .. n : Go(f, c, k) = g[k]
<1> SUFFICES ASSUME NEW k \in 0 .. n PROVE Go(f, c, k) = g[k] OBVIOUS
<1>0. k \in Nat OBVIOUS
<1> DEFINE go == CHOOSE x : Goes(f, c, k, x)
<1>1. Goes(f, c, k, go) BY <1>0, GoesSome
<1>2. Go(f, c, k) = go[k] BY DEF Go, Goes
<1> HIDE DEF go
<1>3. \A i \in 0 .. k : go[i] = IF i = 0 THEN c ELSE Next(f, go[i - 1]) BY Zenon, <1>1 DEF Goes
<1>4. \A i \in 0 .. n : g[i] = IF i = 0 THEN c ELSE Next(f, g[i - 1]) BY Zenon DEF Goes
<1> DEFINE S == {i \in 0 .. k : go[i] = g[i]}
<1>5. 0 \in S BY <1>0, <1>3, <1>4
<1>6. ASSUME NEW i \in 1 .. k, i - 1 \in S PROVE i \in S
  <2>1. i \in 0 .. k /\ i \in 0 .. n /\ i # 0 OBVIOUS
  <2>2. go[i] = Next(f, go[i - 1]) BY Zenon, <1>3, <2>1
  <2>3. g[i] = Next(f, g[i - 1]) BY Zenon, <1>4, <2>1
  <2> QED BY <1>6, <2>1, <2>2, <2>3
<1> HIDE DEF S
<1>7. \A i \in 0 .. k : i \in S BY <1>0, <1>5, <1>6, UpTo
<1> QED BY <1>0, <1>2, <1>7 DEF S

LEMMA GoStep ==
    ASSUME NEW f, NEW c
    PROVE  Go(f, c, 0) = c /\ \A k \in Nat : Go(f, c, k + 1) = Next(f, Go(f, c, k))
<1>1. ASSUME NEW n \in Nat
      PROVE  \E g : /\ \A k \in 0 .. n : Go(f, c, k) = g[k]
                    /\ \A i \in 0 .. n : g[i] = IF i = 0 THEN c ELSE Next(f, g[i - 1])
  <2>1. PICK g : Goes(f, c, n, g) BY GoesSome
  <2>2. \A k \in 0 .. n : Go(f, c, k) = g[k] BY <2>1, GoIs
  <2>3. \A i \in 0 .. n : g[i] = IF i = 0 THEN c ELSE Next(f, g[i - 1]) BY Zenon, <2>1 DEF Goes
  <2> QED BY <2>2, <2>3
<1>2. Go(f, c, 0) = c
  <2>1. PICK g : /\ \A k \in 0 .. 0 : Go(f, c, k) = g[k]
                 /\ \A i \in 0 .. 0 : g[i] = IF i = 0 THEN c ELSE Next(f, g[i - 1])
    BY <1>1
  <2>2. 0 \in 0 .. 0 OBVIOUS
  <2> QED BY Zenon, <2>1, <2>2
<1>3. ASSUME NEW k \in Nat PROVE Go(f, c, k + 1) = Next(f, Go(f, c, k))
  <2> DEFINE n == k + 1
  <2>1. n \in Nat /\ k \in 0 .. n /\ n \in 0 .. n /\ n # 0 /\ n - 1 = k OBVIOUS
  <2> HIDE DEF n
  <2>2. PICK g : /\ \A j \in 0 .. n : Go(f, c, j) = g[j]
                 /\ \A i \in 0 .. n : g[i] = IF i = 0 THEN c ELSE Next(f, g[i - 1])
    BY <1>1, <2>1
  <2>3. Go(f, c, n) = g[n] /\ Go(f, c, k) = g[k] /\ g[n] = Next(f, g[n - 1]) BY Zenon, <2>1, <2>2
  <2>4. Go(f, c, n) = Next(f, Go(f, c, k)) BY Zenon, <2>1, <2>3
  <2> QED BY <2>4 DEF n
<1> QED BY <1>2, <1>3

LEMMA AfterIs == ASSUME NEW c, NEW k PROVE After(c, k) = Go(fat, c, k)
BY DEF After, Go, Next

-----------------------------------------------------------------------------
Table(f) == f \in [ClusterNos \cup {EOC} -> ClusterNos \cup {EOC, Free}] /\ f[EOC] = Free

(* No cluster has two before it, and what follows one is in use.             *)
Forest(f) ==
    /\ \A c, d \in ClusterNos : c # d /\ f[c] = f[d] => f[c] \notin ClusterNos
    /\ \A c \in ClusterNos : f[c] \in ClusterNos => f[f[c]] # Free
(* A cluster that is in use and is nobody's next.                            *)
Starts(f, c) == c \in ClusterNos /\ f[c] # Free /\ \A d \in ClusterNos : f[d] # c
Long(f, h, m) == \A i \in 0 .. m - 1 : Go(f, h, i) \in ClusterNos

LEMMA ClustersAre ==
    /\ Clusters \in Nat \ {0} /\ ClusterNos \subseteq Nat
    /\ EOC \notin ClusterNos /\ Free \notin ClusterNos /\ NoCluster \notin ClusterNos /\ EOC # Free
    /\ ROOT \in ClusterNos /\ EOC \in Nat /\ NoCluster # EOC
    /\ IsFiniteSet(ClusterNos) /\ Cardinality(ClusterNos) = Clusters
<1>1. Clusters \in Nat \ {0} BY FatAssumption DEF FatAssumption
<1>2. /\ ClusterNos \subseteq Nat
      /\ EOC \notin ClusterNos /\ Free \notin ClusterNos /\ NoCluster \notin ClusterNos /\ EOC # Free
      /\ ROOT \in ClusterNos /\ EOC \in Nat /\ NoCluster # EOC
  BY <1>1 DEF ClusterNos, EOC, ROOT, Free, NoCluster
<1>3. ClusterNos = 2 .. Clusters + 1 BY DEF ClusterNos, ROOT
<1>4. IsFiniteSet(ClusterNos) /\ Cardinality(ClusterNos) = Clusters
  <2>1. 2 \in Int /\ Clusters + 1 \in Int BY <1>1
  <2>2. IsFiniteSet(2 .. Clusters + 1) /\ Cardinality(2 .. Clusters + 1) = IF 2 > Clusters + 1 THEN 0 ELSE (Clusters + 1) - 2 + 1
    BY <2>1, FS_Interval
  <2> QED BY <1>1, <1>3, <2>2
<1> QED BY <1>1, <1>2, <1>4

LEMMA NextIs ==
    ASSUME NEW f, Table(f), NEW c
    PROVE  /\ c \in ClusterNos => Next(f, c) = f[c] /\ f[c] \in ClusterNos \cup {EOC, Free}
           /\ c \notin ClusterNos => Next(f, c) = Free
<1>1. DOMAIN f = ClusterNos \cup {EOC} /\ f[EOC] = Free BY DEF Table
<1>2. c \in ClusterNos => f[c] \in ClusterNos \cup {EOC, Free} BY DEF Table
<1>3. c \in ClusterNos => Next(f, c) = f[c] BY <1>1 DEF Next
<1>4. c \notin ClusterNos => Next(f, c) = Free BY <1>1 DEF Next
<1> QED BY <1>2, <1>3, <1>4

LEMMA GoBack ==
    ASSUME NEW f, Table(f), NEW h, NEW k \in Nat, Go(f, h, k + 1) \in ClusterNos
    PROVE  Go(f, h, k) \in ClusterNos /\ Go(f, h, k + 1) = f[Go(f, h, k)]
<1>1. Go(f, h, k + 1) = Next(f, Go(f, h, k)) BY GoStep
<1>2. Go(f, h, k) \in ClusterNos
  <2>1. CASE Go(f, h, k) \notin ClusterNos
    <3>1. Next(f, Go(f, h, k)) = Free BY <2>1, NextIs
    <3> QED BY <1>1, <3>1, ClustersAre
  <2> QED BY <2>1
<1>3. Next(f, Go(f, h, k)) = f[Go(f, h, k)] BY <1>2, NextIs
<1> QED BY <1>1, <1>2, <1>3

LEMMA GoPrefix ==
    ASSUME NEW f, Table(f), NEW h, NEW k \in Nat, Go(f, h, k) \in ClusterNos, NEW i \in 0 .. k
    PROVE  Go(f, h, i) \in ClusterNos
<1> DEFINE S == {j \in 0 .. k : Go(f, h, k - j) \in ClusterNos}
<1>1. 0 \in S
  <2>1. k - 0 = k /\ 0 \in 0 .. k OBVIOUS
  <2> QED BY <2>1
<1>2. ASSUME NEW j \in 1 .. k, j - 1 \in S PROVE j \in S
  <2> DEFINE b == k - j
  <2>1. b \in Nat /\ k - (j - 1) = b + 1 /\ j \in 0 .. k OBVIOUS
  <2>2. Go(f, h, b + 1) \in ClusterNos BY <1>2, <2>1
  <2> HIDE DEF b
  <2>3. Go(f, h, b) \in ClusterNos BY <2>1, <2>2, GoBack
  <2> QED BY <2>1, <2>3 DEF b
<1> HIDE DEF S
<1>3. \A j \in 0 .. k : j \in S BY <1>1, <1>2, UpTo
<1>4. k - i \in 0 .. k /\ k - (k - i) = i OBVIOUS
<1>5. k - i \in S BY <1>3, <1>4
<1> QED BY <1>4, <1>5 DEF S

LEMMA NothingGoes == ASSUME NEW f, Table(f), NEW k \in Nat PROVE Go(f, NoCluster, k) \notin ClusterNos
<1>1. Go(f, NoCluster, 0) = NoCluster BY GoStep
<1>2. 0 \in 0 .. k OBVIOUS
<1> QED BY <1>1, <1>2, GoPrefix, ClustersAre

(* In a chain that starts properly every cluster is in use.                  *)
LEMMA GoInUse ==
    ASSUME NEW f, Table(f), Forest(f), NEW h, Starts(f, h), NEW k \in Nat, Go(f, h, k) \in ClusterNos
    PROVE  f[Go(f, h, k)] # Free
<1>1. CASE k = 0
  <2>1. Go(f, h, k) = h BY <1>1, GoStep
  <2> QED BY <2>1 DEF Starts
<1>2. CASE k # 0
  <2> DEFINE j == k - 1
  <2>1. j \in Nat /\ j + 1 = k BY <1>2
  <2> HIDE DEF j
  <2>2. Go(f, h, j + 1) \in ClusterNos BY <2>1
  <2>3. Go(f, h, j) \in ClusterNos /\ Go(f, h, j + 1) = f[Go(f, h, j)] BY <2>1, <2>2, GoBack
  <2>4. f[Go(f, h, j + 1)] # Free BY Zenon, <2>2, <2>3 DEF Forest
  <2> QED BY <2>1, <2>4
<1> QED BY <1>1, <1>2

(* Two chains that start properly never meet, and one never meets itself.    *)
LEMMA NoMeet ==
    ASSUME NEW f, Table(f), Forest(f), NEW h, Starts(f, h), NEW g, Starts(f, g),
           NEW i \in Nat, NEW j \in Nat, Go(f, h, i) = Go(f, g, j), Go(f, h, i) \in ClusterNos
    PROVE  h = g /\ i = j
<1> DEFINE Apart(a) == \A b \in Nat : Go(f, h, a) = Go(f, g, b) /\ Go(f, h, a) \in ClusterNos => h = g /\ a = b
           S == {a \in 0 .. i : Apart(a)}
<1>0. \A x, b : Starts(f, x) /\ b \in ClusterNos => f[b] # x BY DEF Starts
<1>1. Go(f, h, 0) = h /\ Go(f, g, 0) = g BY GoStep
<1>2. \A b \in Nat : b = 0 \/ \E c \in Nat : b = c + 1
  <2> SUFFICES ASSUME NEW b \in Nat, b # 0 PROVE \E c \in Nat : b = c + 1 OBVIOUS
  <2>1. b - 1 \in Nat /\ b = (b - 1) + 1 OBVIOUS
  <2> QED BY <2>1
<1>3. 0 \in S
  <2>1. ASSUME NEW b \in Nat, Go(f, h, 0) = Go(f, g, b), Go(f, h, 0) \in ClusterNos PROVE h = g /\ 0 = b
    <3>1. CASE b = 0 BY <1>1, <2>1, <3>1
    <3>2. ASSUME NEW c \in Nat, b = c + 1 PROVE FALSE
      <4>1. Go(f, g, c + 1) \in ClusterNos BY <2>1, <3>2
      <4>2. Go(f, g, c) \in ClusterNos /\ Go(f, g, c + 1) = f[Go(f, g, c)] BY <4>1, GoBack
      <4>3. f[Go(f, g, c)] = h BY <1>1, <2>1, <3>2, <4>2
      <4> QED BY <1>0, <4>2, <4>3
    <3> QED BY <1>2, <3>1, <3>2
  <2>2. Apart(0) BY <2>1
  <2>3. 0 \in 0 .. i OBVIOUS
  <2> HIDE DEF Apart
  <2> QED BY <2>2, <2>3
<1>4. ASSUME NEW a \in 1 .. i, a - 1 \in S PROVE a \in S
  <2> DEFINE d == a - 1
  <2>1. d \in Nat /\ a = d + 1 /\ a \in 0 .. i OBVIOUS
  <2>2. Apart(d) BY <1>4
  <2> HIDE DEF d
  <2>3. ASSUME NEW b \in Nat, Go(f, h, a) = Go(f, g, b), Go(f, h, a) \in ClusterNos PROVE h = g /\ a = b
    <3>0. Go(f, h, d + 1) \in ClusterNos BY <2>1, <2>3
    <3>1. Go(f, h, d) \in ClusterNos /\ Go(f, h, d + 1) = f[Go(f, h, d)] BY <2>1, <3>0, GoBack
    <3>2. CASE b = 0
      <4>1. f[Go(f, h, d)] = g BY <1>1, <2>1, <2>3, <3>1, <3>2
      <4> QED BY <1>0, <3>1, <4>1
    <3>3. ASSUME NEW c \in Nat, b = c + 1 PROVE h = g /\ c + 1 = b /\ d = c
      <4>1. Go(f, g, c + 1) \in ClusterNos BY <2>3, <3>3
      <4>2. Go(f, g, c) \in ClusterNos /\ Go(f, g, c + 1) = f[Go(f, g, c)] BY <4>1, GoBack
      <4>3. f[Go(f, h, d)] = f[Go(f, g, c)] /\ f[Go(f, h, d)] \in ClusterNos BY <2>1, <2>3, <3>1, <3>3, <4>1, <4>2
      <4>4. Go(f, h, d) = Go(f, g, c) BY Zenon, <3>1, <4>2, <4>3 DEF Forest
      <4>5. h = g /\ d = c BY <2>2, <3>1, <4>4
      <4> QED BY <3>3, <4>5
    <3> QED BY <1>2, <2>1, <3>2, <3>3
  <2>4. Apart(a) BY <2>3
  <2> HIDE DEF Apart
  <2> QED BY <2>1, <2>4
<1>5. i \in 0 .. i OBVIOUS
<1> HIDE DEF S
<1>6. \A a \in 0 .. i : a \in S BY <1>3, <1>4, UpTo
<1>7. Apart(i) BY <1>5, <1>6 DEF S
<1> QED BY <1>7

(* Such a chain ends: the disk has no more clusters to go to.                *)
LEMMA ChainEnds ==
    ASSUME NEW f, Table(f), Forest(f), NEW h, Starts(f, h)
    PROVE  \E m \in 1 .. Clusters : Go(f, h, m) = EOC /\ Long(f, h, m)
<1>1. \E k \in 0 .. Clusters : Go(f, h, k) \notin ClusterNos
  <2> DEFINE S == 0 .. Clusters
             w == [k \in S |-> Go(f, h, k)]
  <2> SUFFICES ASSUME \A k \in S : Go(f, h, k) \in ClusterNos PROVE FALSE OBVIOUS
  <2>1. Clusters \in Nat /\ IsFiniteSet(ClusterNos) /\ Cardinality(ClusterNos) = Clusters BY ClustersAre
  <2>2. IsFiniteSet(S) /\ Cardinality(S) = Clusters + 1
    <3>1. 0 \in Int /\ Clusters \in Int BY <2>1
    <3>2. IsFiniteSet(0 .. Clusters) /\ Cardinality(0 .. Clusters) = IF 0 > Clusters THEN 0 ELSE Clusters - 0 + 1
      BY <3>1, FS_Interval
    <3> QED BY <2>1, <3>2
  <2>3. w \in [S -> ClusterNos] /\ \A k \in S : w[k] = Go(f, h, k) OBVIOUS
  <2>4. S \subseteq Nat OBVIOUS
  <2>5. Cardinality(ClusterNos) < Cardinality(S) BY <2>1, <2>2
  <2> HIDE DEF w, S
  <2>6. PICK x, y \in S : x # y /\ w[x] = w[y] BY <2>1, <2>2, <2>3, <2>5, FS_PigeonHole
  <2>7. Go(f, h, x) = Go(f, h, y) /\ Go(f, h, x) \in ClusterNos /\ x \in Nat /\ y \in Nat BY <2>3, <2>4, <2>6
  <2>8. x = y BY <2>7, NoMeet
  <2> QED BY <2>6, <2>8
<1> DEFINE N == {k \in Nat : Go(f, h, k) \notin ClusterNos}
<1>2. N \subseteq Nat /\ N # {} BY <1>1
<1>3. PICK m \in N : \A k \in N : m <= k BY <1>2, HasLeast
<1>4. m \in Nat /\ m <= Clusters
  <2>1. PICK k \in 0 .. Clusters : Go(f, h, k) \notin ClusterNos BY <1>1
  <2>2. m <= k BY <1>3, <2>1
  <2> QED BY <2>2, ClustersAre
<1>5. \A k \in Nat : k < m => Go(f, h, k) \in ClusterNos
  <2> SUFFICES ASSUME NEW k \in Nat, k < m, Go(f, h, k) \notin ClusterNos PROVE FALSE OBVIOUS
  <2>1. m <= k BY <1>3
  <2> QED BY <1>4, <2>1
<1>6. Go(f, h, m) \notin ClusterNos OBVIOUS
<1> HIDE DEF N
<1>7. m # 0
  <2>1. Go(f, h, 0) \in ClusterNos BY GoStep DEF Starts
  <2> QED BY <1>6, <2>1
<1> DEFINE j == m - 1
<1>8. j \in Nat /\ j < m /\ j + 1 = m BY <1>4, <1>7
<1> HIDE DEF j
<1>9. Go(f, h, j) \in ClusterNos BY <1>5, <1>8
<1>10. f[Go(f, h, j)] # Free BY <1>8, <1>9, GoInUse
<1>11. Go(f, h, j + 1) = Next(f, Go(f, h, j))
  <2>1. j \in Nat BY <1>8
  <2> QED BY <2>1, GoStep
<1>12. Next(f, Go(f, h, j)) = f[Go(f, h, j)] /\ f[Go(f, h, j)] \in ClusterNos \cup {EOC, Free} BY <1>9, NextIs
<1>13. Go(f, h, m) = EOC BY <1>6, <1>8, <1>10, <1>11, <1>12
<1>14. Long(f, h, m) BY <1>4, <1>5 DEF Long
<1>15. m \in 1 .. Clusters BY <1>4, <1>7, ClustersAre
<1> QED BY <1>13, <1>14, <1>15

(* As many clusters as a chain has from its start.                           *)
LEMMA LongIn ==
    ASSUME NEW f, Table(f), Forest(f), NEW h, Starts(f, h), NEW m \in Nat, Long(f, h, m)
    PROVE  /\ m <= Clusters
           /\ LET T == {Go(f, h, k) : k \in 0 .. Clusters + 1} \cap ClusterNos
              IN  IsFiniteSet(T) /\ m <= Cardinality(T)
<1> DEFINE T == {Go(f, h, k) : k \in 0 .. Clusters + 1} \cap ClusterNos
           S == 0 .. m - 1
           w == [k \in S |-> Go(f, h, k)]
<1>1. \A k \in S : k \in Nat OBVIOUS
<1>2. \A k \in S : Go(f, h, k) \in ClusterNos BY DEF Long
<1>3. IsFiniteSet(S) /\ Cardinality(S) = m
  <2>1. 0 \in Int /\ m - 1 \in Int OBVIOUS
  <2>2. IsFiniteSet(0 .. m - 1) /\ Cardinality(0 .. m - 1) = IF 0 > m - 1 THEN 0 ELSE (m - 1) - 0 + 1 BY <2>1, FS_Interval
  <2> QED BY <2>2
<1>4. \A x, y \in S : x # y => w[x] # w[y]
  <2> SUFFICES ASSUME NEW x \in S, NEW y \in S, Go(f, h, x) = Go(f, h, y) PROVE x = y OBVIOUS
  <2>1. x \in Nat /\ y \in Nat /\ Go(f, h, x) \in ClusterNos BY <1>1, <1>2
  <2> HIDE DEF S
  <2> QED BY <2>1, NoMeet
<1>5. w \in Injection(S, ClusterNos)
  <2>1. w \in [S -> ClusterNos] BY <1>2
  <2> HIDE DEF w, S
  <2> QED BY <1>4, <2>1 DEF Injection, IsInjective
<1>6. IsFiniteSet(ClusterNos) /\ Cardinality(ClusterNos) = Clusters /\ Clusters \in Nat BY ClustersAre
<1>7. m <= Clusters
  <2> HIDE DEF w, S
  <2>1. Cardinality(S) <= Cardinality(ClusterNos) BY <1>5, <1>6, FS_Injection
  <2> QED BY <1>3, <1>6, <2>1
<1>8. \A k \in S : Go(f, h, k) \in T
  <2>1. \A k \in S : k \in 0 .. Clusters + 1 BY <1>6, <1>7
  <2> QED BY <1>2, <2>1
<1>9. IsFiniteSet(T) BY <1>6, FS_Subset
<1>10. w \in [S -> T] BY <1>8
<1>11. m <= Cardinality(T)
  <2> HIDE DEF w, S, T
  <2>1. w \in Injection(S, T) BY <1>4, <1>10 DEF Injection, IsInjective
  <2>2. Cardinality(S) <= Cardinality(T) BY <1>9, <2>1, FS_Injection
  <2> QED BY <1>3, <2>2
<1> QED BY <1>7, <1>9, <1>11

(* What fat_extend_chain finds: the whole chain.                             *)
LEMMA WalkIs ==
    ASSUME fat_bits = 32, Table(fat), Forest(fat), NEW h, h = NoCluster \/ Starts(fat, h)
    PROVE  /\ ChainLength(h) \in Nat
           /\ Long(fat, h, ChainLength(h))
           /\ ChainLength(h) = 0 => h = NoCluster
           /\ ChainLength(h) # 0 => fat[Go(fat, h, ChainLength(h) - 1)] = EOC
<1> DEFINE In(k) == \A i \in 0 .. k : InChain(After(h, i))
           K == {k \in 0 .. Clusters + 1 : In(k)}
<1>0. ChainLength(h) = Cardinality(K) BY DEF ChainLength
<1>1. /\ \A c \in ClusterNos : InChain(c)
      /\ ~InChain(NoCluster) /\ ~InChain(EOC)
  BY FatAssumption DEF InChain, ClusterNos, ROOT, EOC, NoCluster, FatAssumption
<1>2. CASE h = NoCluster
  <2>1. ASSUME NEW k \in K PROVE FALSE
    <3>1. 0 \in 0 .. k BY ClustersAre
    <3>2. After(h, 0) = NoCluster BY <1>2, GoStep, AfterIs
    <3>3. In(k) OBVIOUS
    <3>4. InChain(After(h, 0)) BY <3>1, <3>3
    <3> QED BY <1>1, <3>2, <3>4
  <2>2. K = {} BY <2>1
  <2> HIDE DEF K
  <2>3. ChainLength(h) = 0 BY <1>0, <2>2, FS_EmptySet
  <2> QED BY <1>2, <2>3 DEF Long
<1>3. CASE Starts(fat, h)
  <2>1. PICK m \in 1 .. Clusters : Go(fat, h, m) = EOC /\ Long(fat, h, m) BY <1>3, ChainEnds
  <2>2. Clusters \in Nat /\ m \in Nat /\ m # 0 /\ m <= Clusters BY <2>1, ClustersAre
  <2>3. \A k \in 0 .. m - 1 : InChain(After(h, k)) BY <1>1, <2>1, AfterIs DEF Long
  <2>4. ~InChain(After(h, m)) BY <1>1, <2>1, AfterIs
  <2>5. ASSUME NEW k \in 0 .. Clusters + 1 PROVE In(k) <=> k \in 0 .. m - 1
    <3>1. CASE k < m
      <4>1. k \in 0 .. m - 1 /\ \A i \in 0 .. k : i \in 0 .. m - 1 BY <2>2, <3>1
      <4> QED BY <2>3, <4>1
    <3>2. CASE ~(k < m)
      <4>1. m \in 0 .. k /\ k \notin 0 .. m - 1 BY <2>2, <3>2
      <4> QED BY <2>4, <4>1
    <3> QED BY <3>1, <3>2
  <2>6. K = 0 .. m - 1
    <3>1. \A k \in 0 .. m - 1 : k \in 0 .. Clusters + 1 BY <2>2
    <3> HIDE DEF In
    <3> QED BY <2>5, <3>1
  <2>7. Cardinality(K) = m
    <3>1. 0 \in Int /\ m - 1 \in Int BY <2>2
    <3>2. Cardinality(0 .. m - 1) = IF 0 > m - 1 THEN 0 ELSE (m - 1) - 0 + 1 BY <3>1, FS_Interval
    <3> HIDE DEF K
    <3> QED BY <2>2, <2>6, <3>2
  <2>8. ChainLength(h) = m BY <1>0, <2>7
  <2> DEFINE j == m - 1
  <2>9. j \in Nat /\ j + 1 = m /\ j \in 0 .. m - 1 BY <2>2
  <2> HIDE DEF j
  <2>10. Go(fat, h, j) \in ClusterNos BY <2>1, <2>9 DEF Long
  <2>11. Go(fat, h, j + 1) = Next(fat, Go(fat, h, j))
    <3>1. j \in Nat BY <2>9
    <3> QED BY <3>1, GoStep
  <2>12. fat[Go(fat, h, j)] = EOC BY <2>1, <2>9, <2>10, <2>11, NextIs
  <2>13. fat[Go(fat, h, m - 1)] = EOC BY <2>12 DEF j
  <2> QED BY <2>1, <2>2, <2>8, <2>13
<1> QED BY <1>2, <1>3

-----------------------------------------------------------------------------
(* What has a next keeps it: chains only grow.                               *)
Grows(f, g) == \A c \in ClusterNos : f[c] \in ClusterNos => g[c] = f[c]

LEMMA GoGrows ==
    ASSUME NEW f, Table(f), NEW g, Table(g), Grows(f, g), NEW h, NEW k \in Nat, Go(f, h, k) \in ClusterNos
    PROVE  Go(g, h, k) = Go(f, h, k)
<1> DEFINE S == {i \in 0 .. k : Go(g, h, i) = Go(f, h, i)}
<1>1. 0 \in S
  <2>1. 0 \in 0 .. k OBVIOUS
  <2>2. Go(g, h, 0) = h /\ Go(f, h, 0) = h BY GoStep
  <2> QED BY <2>1, <2>2
<1>2. ASSUME NEW i \in 1 .. k, i - 1 \in S PROVE i \in S
  <2> DEFINE j == i - 1
  <2>1. j \in Nat /\ i = j + 1 /\ i \in 0 .. k /\ j + 1 \in 0 .. k OBVIOUS
  <2>2. Go(g, h, j) = Go(f, h, j) BY <1>2
  <2> HIDE DEF j
  <2>3. Go(f, h, j + 1) \in ClusterNos BY <2>1, GoPrefix
  <2>4. Go(f, h, j) \in ClusterNos /\ Go(f, h, j + 1) = f[Go(f, h, j)] BY <2>1, <2>3, GoBack
  <2>5. Go(g, h, j + 1) = Next(g, Go(g, h, j))
    <3>1. j \in Nat BY <2>1
    <3> QED BY <3>1, GoStep
  <2>6. Next(g, Go(g, h, j)) = g[Go(f, h, j)] BY <2>2, <2>4, NextIs
  <2>7. g[Go(f, h, j)] = f[Go(f, h, j)] BY Zenon, <2>3, <2>4 DEF Grows
  <2> QED BY <2>1, <2>4, <2>5, <2>6, <2>7
<1>3. k \in 0 .. k OBVIOUS
<1> HIDE DEF S
<1>4. \A i \in 0 .. k : i \in S BY <1>1, <1>2, UpTo
<1> QED BY <1>3, <1>4 DEF S

LEMMA LongGrows ==
    ASSUME NEW f, Table(f), NEW g, Table(g), Grows(f, g), NEW h, NEW m \in Nat, Long(f, h, m)
    PROVE  Long(g, h, m)
<1> SUFFICES ASSUME NEW i \in 0 .. m - 1 PROVE Go(g, h, i) \in ClusterNos BY DEF Long
<1>1. i \in Nat /\ Go(f, h, i) \in ClusterNos BY DEF Long
<1> QED BY <1>1, GoGrows

(* A cluster is marked: it is nobody's yet.                                  *)
MarkIn(f, c) == [f EXCEPT ![c] = EOC]

LEMMA MarkIs ==
    ASSUME NEW f, Table(f), Forest(f), NEW c \in ClusterNos, f[c] = Free, NEW g, g = MarkIn(f, c)
    PROVE  /\ Table(g) /\ Forest(g) /\ Grows(f, g) /\ Grows(g, f)
           /\ Starts(g, c) /\ g[c] = EOC
           /\ \A h : Starts(f, h) => Starts(g, h)
           /\ \A d \in ClusterNos : f[d] # Free => g[d] = f[d]
<1>1. /\ g[c] = EOC /\ \A d \in ClusterNos : d # c => g[d] = f[d]
      /\ Table(g)
  BY ClustersAre DEF Table, MarkIn
<1>2. EOC \notin ClusterNos /\ Free \notin ClusterNos /\ EOC # Free BY ClustersAre
<1>3. Forest(g)
  <2>1. ASSUME NEW a \in ClusterNos, NEW b \in ClusterNos, a # b, g[a] = g[b], g[a] \in ClusterNos PROVE FALSE
    <3>1. a # c /\ b # c BY Zenon, <1>1, <1>2, <2>1
    <3>2. f[a] = f[b] /\ f[a] \in ClusterNos BY Zenon, <1>1, <2>1, <3>1
    <3> QED BY Zenon, <2>1, <3>2 DEF Forest
  <2>2. ASSUME NEW a \in ClusterNos, g[a] \in ClusterNos PROVE g[g[a]] # Free
    <3>1. a # c /\ g[a] = f[a] BY Zenon, <1>1, <1>2, <2>2
    <3>2. f[f[a]] # Free BY Zenon, <2>2, <3>1 DEF Forest
    <3> QED BY Zenon, <1>1, <1>2, <2>2, <3>1, <3>2
  <2> QED BY Zenon, <2>1, <2>2 DEF Forest
<1>4. Grows(f, g) /\ Grows(g, f) BY Zenon, <1>1, <1>2 DEF Grows
<1>5. Starts(g, c)
  <2>1. ASSUME NEW d \in ClusterNos, g[d] = c PROVE FALSE
    <3>1. d # c /\ f[d] = c BY Zenon, <1>1, <1>2, <2>1
    <3> QED BY Zenon, <3>1 DEF Forest
  <2> QED BY Zenon, <1>1, <1>2, <2>1 DEF Starts
<1>6. \A h : Starts(f, h) => Starts(g, h) BY Zenon, <1>1, <1>2 DEF Starts
<1>7. \A d \in ClusterNos : f[d] # Free => g[d] = f[d] BY Zenon, <1>1
<1> QED BY <1>1, <1>3, <1>4, <1>5, <1>6, <1>7

(* A cluster that starts a chain of its own is put behind another.           *)
LinkIn(f, c, d) == [f EXCEPT ![c] = d]

LEMMA LinkIs ==
    ASSUME NEW f, Table(f), Forest(f), NEW c \in ClusterNos, f[c] # Free,
           NEW d, Starts(f, d), f[d] = EOC, c # d, NEW g, g = LinkIn(f, c, d)
    PROVE  /\ Table(g) /\ Forest(g) /\ g[c] = d /\ g[d] = EOC
           /\ \A h : Starts(f, h) /\ h # d => Starts(g, h)
           /\ \A x \in ClusterNos : f[x] # Free => g[x] # Free
           /\ f[c] = EOC => Grows(f, g)
<1>0. d \in ClusterNos /\ \A x \in ClusterNos : f[x] # d BY DEF Starts
<1>1. /\ g[c] = d /\ \A x \in ClusterNos : x # c => g[x] = f[x]
      /\ Table(g)
  BY <1>0, ClustersAre DEF Table, LinkIn
<1>2. EOC \notin ClusterNos /\ Free \notin ClusterNos /\ EOC # Free BY ClustersAre
<1>3. g[d] = EOC BY Zenon, <1>0, <1>1
<1>4. \A x, y \in ClusterNos : x # y /\ g[x] = g[y] => g[x] \notin ClusterNos
  BY Zenon, <1>0, <1>1 DEF Forest
<1>5. ASSUME NEW x \in ClusterNos, g[x] \in ClusterNos PROVE g[g[x]] # Free
  <2>1. CASE x = c BY Zenon, <1>1, <1>2, <1>3, <2>1
  <2>2. CASE x # c
    <3>1. g[x] = f[x] /\ f[f[x]] # Free BY Zenon, <1>1, <1>5, <2>2 DEF Forest
    <3>2. CASE f[x] = c BY Zenon, <1>0, <1>1, <1>2, <3>1, <3>2
    <3>3. CASE f[x] # c BY Zenon, <1>1, <1>5, <3>1, <3>3
    <3> QED BY <3>2, <3>3
  <2> QED BY <2>1, <2>2
<1>6. Forest(g) BY Zenon, <1>4, <1>5 DEF Forest
<1>7. \A x \in ClusterNos : f[x] # Free => g[x] # Free BY Zenon, <1>0, <1>1, <1>2
<1>8. \A h : Starts(f, h) /\ h # d => Starts(g, h)
  <2> SUFFICES ASSUME NEW h, Starts(f, h), h # d PROVE Starts(g, h) OBVIOUS
  <2>1. h \in ClusterNos /\ f[h] # Free /\ \A x \in ClusterNos : f[x] # h BY DEF Starts
  <2>2. g[h] # Free BY Zenon, <1>7, <2>1
  <2>3. \A x \in ClusterNos : g[x] # h BY Zenon, <1>1, <2>1
  <2> QED BY <2>1, <2>2, <2>3 DEF Starts
<1>9. f[c] = EOC => Grows(f, g) BY Zenon, <1>1, <1>2 DEF Grows
<1> QED BY <1>1, <1>3, <1>6, <1>7, <1>8, <1>9

(* What a chain has then that it had not is the new cluster.                 *)
LEMMA LinkAdds ==
    ASSUME NEW f, Table(f), NEW g, Table(g), NEW c \in ClusterNos, f[c] = EOC, NEW d \in ClusterNos, f[d] = EOC,
           c # d, g = LinkIn(f, c, d), NEW h, NEW k \in Nat, Go(g, h, k) \in ClusterNos
    PROVE  Go(g, h, k) = d \/ Go(f, h, k) = Go(g, h, k)
<1>0. g[c] = d /\ (\A x \in ClusterNos : x # c => g[x] = f[x]) /\ g[d] = EOC
  BY DEF Table, LinkIn
<1> DEFINE S == {i \in 0 .. k : Go(g, h, i) = d \/ Go(f, h, i) = Go(g, h, i)}
<1>1. 0 \in S
  <2>1. 0 \in 0 .. k OBVIOUS
  <2>2. Go(g, h, 0) = h /\ Go(f, h, 0) = h BY GoStep
  <2> QED BY <2>1, <2>2
<1>2. ASSUME NEW i \in 1 .. k, i - 1 \in S PROVE i \in S
  <2> DEFINE j == i - 1
  <2>1. j \in Nat /\ i = j + 1 /\ i \in 0 .. k /\ j + 1 \in 0 .. k OBVIOUS
  <2>2. Go(g, h, j) = d \/ Go(f, h, j) = Go(g, h, j) BY <1>2
  <2> HIDE DEF j
  <2>3. Go(g, h, j + 1) \in ClusterNos BY <2>1, GoPrefix
  <2>4. Go(g, h, j) \in ClusterNos /\ Go(g, h, j + 1) = g[Go(g, h, j)] BY <2>1, <2>3, GoBack
  <2>5. Go(g, h, j) # d BY Zenon, <1>0, <2>3, <2>4, ClustersAre
  <2>6. Go(f, h, j) = Go(g, h, j) BY <2>2, <2>5
  <2>7. Go(f, h, j + 1) = Next(f, Go(f, h, j))
    <3>1. j \in Nat BY <2>1
    <3> QED BY <3>1, GoStep
  <2>8. Next(f, Go(f, h, j)) = f[Go(g, h, j)] BY <2>4, <2>6, NextIs
  <2>9. Go(g, h, j + 1) = d \/ Go(f, h, j + 1) = Go(g, h, j + 1) BY Zenon, <1>0, <2>4, <2>7, <2>8
  <2> QED BY <2>1, <2>9
<1>3. k \in 0 .. k OBVIOUS
<1> HIDE DEF S
<1>4. \A i \in 0 .. k : i \in S BY <1>1, <1>2, UpTo
<1> QED BY <1>3, <1>4 DEF S


LEMMA MaxOfTwo == ASSUME NEW a \in Nat, NEW b \in Nat PROVE Max({a, b}) \in Nat /\ Max({a, b}) >= a /\ Max({a, b}) >= b /\ Max({a, b}) \in {a, b}
<1>1. \E x \in {a, b} : \A y \in {a, b} : x >= y
  <2>1. CASE a >= b BY <2>1
  <2>2. CASE ~(a >= b) BY <2>2
  <2> QED BY <2>1, <2>2
<1>2. Max({a, b}) \in {a, b} /\ \A y \in {a, b} : Max({a, b}) >= y BY <1>1 DEF Max
<1> QED BY <1>2

LEMMA MinIn == ASSUME NEW S, S \subseteq Nat, S # {} PROVE Min(S) \in S
BY HasLeast DEF Min

(* Where the chains of file s begin, in the directory d and in the nodes nd;  *)
(* the root is file 0.                                                       *)
HeadIn(d, nd, h, s) ==
    \/ h = ROOT /\ s = 0
    \/ s \in 1 .. DirSlots /\ h # NoCluster /\ d[s].first = h
    \/ \E n \in FatNodes : s # 0 /\ h # NoCluster /\ nd[n].slot = s /\ nd[n].first = h

(* Each is the start of a chain, and of no other file's.                     *)
HeadsOf(f, d, nd) ==
    \A h : \A s \in 0 .. DirSlots : HeadIn(d, nd, h, s) =>
        Starts(f, h) /\ \A t \in 0 .. DirSlots : HeadIn(d, nd, h, t) => t = s

(* The cluster that is about to be linked is nobody's.                       *)
UnderWay(f, d, nd, o) ==
    /\ o.last # NoCluster => f[o.last] # Free
    /\ o.pc \in {"clear", "link"} =>
          /\ Starts(f, o.new) /\ f[o.new] = EOC /\ o.new # o.last
          /\ \A s \in 0 .. DirSlots : ~HeadIn(d, nd, o.new, s)

Firsts == ClusterNos \cup {NoCluster}
NodeType == [slot : 0 .. DirSlots, first : Firsts, size : Nat]
EntryType == [name : FileNames \cup {""}, first : Firsts, size : Nat]
OpType == [pc : {"idle", "hung", "extend", "clear", "link", "data", "entry"}, n : FatNodes \cup {0},
           pos : Nat, count : Nat, done : Nat, last : Firsts, have : Nat, new : Firsts]

OpNode == fatNode[op.n]

FatTypes ==
    /\ Table(fat)
    /\ dir \in [1 .. DirSlots -> EntryType]
    /\ fatNode \in [FatNodes -> NodeType]
    /\ \A n \in FatNodes : fatNode[n].slot = 0 => fatNode[n].first = NoCluster /\ fatNode[n].size = 0
    /\ op \in OpType
    /\ op.pc # "idle" => op.n \in FatNodes /\ OpNode.slot # 0
    /\ faults \in Nat

FatChains == Forest(fat) /\ HeadsOf(fat, dir, fatNode) /\ UnderWay(fat, dir, fatNode, op)

Linking == FatTypes /\ FatChains

Fewer(d, nd, e, me) == \A h : \A s \in 0 .. DirSlots : HeadIn(e, me, h, s) => HeadIn(d, nd, h, s)

LEMMA FewerHeads ==
    ASSUME NEW f, NEW d, NEW nd, NEW e, NEW me, HeadsOf(f, d, nd), Fewer(d, nd, e, me)
    PROVE  HeadsOf(f, e, me)
BY Zenon DEF HeadsOf, Fewer

LEMMA FewerUnderWay ==
    ASSUME NEW f, NEW d, NEW nd, NEW e, NEW me, NEW o, UnderWay(f, d, nd, o), Fewer(d, nd, e, me)
    PROVE  UnderWay(f, e, me, o)
BY Zenon DEF UnderWay, Fewer

(* The operation goes on with the same last cluster, or has none.            *)
LEMMA UnderWayOn ==
    ASSUME NEW f, NEW d, NEW nd, NEW o, NEW p, UnderWay(f, d, nd, o),
           p.last = o.last \/ p.last = NoCluster, p.pc \notin {"clear", "link"} \/ (p.new = o.new /\ p.last = o.last /\ o.pc \in {"clear", "link"})
    PROVE  UnderWay(f, d, nd, p)
BY Zenon DEF UnderWay

(* The table has changed, and heads start chains as they did.                *)
LEMMA HeadsGo ==
    ASSUME NEW f, NEW g, NEW d, NEW nd, HeadsOf(f, d, nd),
           \A h : \A s \in 0 .. DirSlots : HeadIn(d, nd, h, s) /\ Starts(f, h) => Starts(g, h)
    PROVE  HeadsOf(g, d, nd)
BY Zenon DEF HeadsOf

LEMMA NodeHead ==
    ASSUME FatTypes, NEW n \in FatNodes, fatNode[n].first # NoCluster
    PROVE  fatNode[n].slot \in 1 .. DirSlots /\ HeadIn(dir, fatNode, fatNode[n].first, fatNode[n].slot)
<1>1. fatNode[n].slot \in 0 .. DirSlots /\ fatNode[n].slot # 0 BY DEF FatTypes, NodeType
<1>2. DirSlots \in Nat BY FatAssumption DEF FatAssumption
<1>3. HeadIn(dir, fatNode, fatNode[n].first, fatNode[n].slot) BY Zenon, <1>1 DEF HeadIn
<1> QED BY <1>1, <1>2, <1>3

LEMMA NodeStarts ==
    ASSUME Linking, NEW n \in FatNodes
    PROVE  fatNode[n].first = NoCluster \/ Starts(fat, fatNode[n].first)
<1> SUFFICES ASSUME fatNode[n].first # NoCluster PROVE Starts(fat, fatNode[n].first) OBVIOUS
<1>0. DirSlots \in Nat BY FatAssumption DEF FatAssumption
<1>1. fatNode[n].slot \in 1 .. DirSlots /\ HeadIn(dir, fatNode, fatNode[n].first, fatNode[n].slot)
  BY NodeHead DEF Linking
<1>2. fatNode[n].slot \in 0 .. DirSlots BY <1>0, <1>1
<1> QED BY Zenon, <1>1, <1>2 DEF HeadsOf, Linking, FatChains

LEMMA OpIs == ASSUME Linking PROVE op \in OpType
BY DEF Linking, FatTypes

LEMMA HereIs == ASSUME Linking PROVE Here \in Nat
BY OpIs DEF Here, OpType

LEMMA IdleIs == Idle \in OpType /\ Idle.pc = "idle" /\ \A f, d, nd : UnderWay(f, d, nd, Idle)
<1>1. Idle \in OpType /\ Idle.pc = "idle" /\ Idle.last = NoCluster BY DEF Idle, OpType, Firsts
<1> QED BY <1>1 DEF UnderWay

LEMMA FaultsAre == ASSUME Linking, Sound \/ Fails PROVE faults' \in Nat
BY DEF Linking, FatTypes, Sound, Fails

LEMMA NoFaults == ASSUME Linking, faults' = 0, Sound \/ Fails PROVE faults = 0 /\ Sound
<1>1. faults \in Nat BY DEF Linking, FatTypes
<1> QED BY <1>1 DEF Sound, Fails

-----------------------------------------------------------------------------
(* What the directory, the nodes and the operation are after each step.      *)
LEMMA Creates ==
    ASSUME Linking, NEW name \in FileNames, CreateFile(name)
    PROVE  /\ \E i \in 1 .. DirSlots, e \in EntryType :
                 /\ dir[i] = NoEntry /\ e.name = name /\ e.first = NoCluster /\ e.size = 0
                 /\ dir' \in [1 .. DirSlots -> EntryType] /\ dir'[i] = e
                 /\ \A s \in 1 .. DirSlots : s # i => dir'[s] = dir[s]
           /\ \A s \in 1 .. DirSlots : dir[s].name # name
           /\ UNCHANGED <<fat, sectors, fatNode, op, acked, faults, twice>> /\ op = Idle
<1> DEFINE i == Min(FreeEntries)
           e == [NoEntry EXCEPT !.name = name]
<1>0. i \in 1 .. DirSlots /\ dir[i] = NoEntry
  <2>1. FreeEntries \subseteq Nat /\ FreeEntries # {} BY FatAssumption DEF FreeEntries, CreateFile, FatAssumption
  <2>2. i \in FreeEntries BY <2>1, MinIn
  <2> QED BY <2>2 DEF FreeEntries
<1>1. dir' = [dir EXCEPT ![i] = e] BY DEF CreateFile
<1> HIDE DEF i
<1>2. e \in EntryType /\ e.first = NoCluster /\ e.size = 0 /\ e.name = name BY DEF EntryType, NoEntry, Firsts
<1> HIDE DEF e
<1>3. dir' \in [1 .. DirSlots -> EntryType] BY <1>0, <1>1, <1>2 DEF Linking, FatTypes
<1>4. dir'[i] = e /\ \A s \in 1 .. DirSlots : s # i => dir'[s] = dir[s] BY <1>0, <1>1 DEF Linking, FatTypes
<1>5. \A s \in 1 .. DirSlots : dir[s].name # name BY DEF CreateFile, Named
<1>6. UNCHANGED <<fat, sectors, fatNode, op, acked, faults, twice>> /\ op = Idle BY DEF CreateFile
<1>7. \E ii \in 1 .. DirSlots, ee \in EntryType :
         /\ dir[ii] = NoEntry /\ ee.name = name /\ ee.first = NoCluster /\ ee.size = 0
         /\ dir' \in [1 .. DirSlots -> EntryType] /\ dir'[ii] = ee
         /\ \A s \in 1 .. DirSlots : s # ii => dir'[s] = dir[s]
  BY Zenon, <1>0, <1>2, <1>3, <1>4
<1> QED BY Zenon, <1>5, <1>6, <1>7

LEMMA LooksUp ==
    ASSUME Linking, NEW name, Lookup(name)
    PROVE  /\ \E s \in 1 .. DirSlots, n \in FatNodes :
                 /\ dir[s].name = name /\ fatNode[n] = NoFile
                 /\ fatNode' \in [FatNodes -> NodeType]
                 /\ fatNode'[n].slot = s /\ fatNode'[n].first = dir[s].first /\ fatNode'[n].size = dir[s].size
                 /\ \A m \in FatNodes : m # n => fatNode'[m] = fatNode[m]
                 /\ ~twice' => ~twice /\ \A m \in FatNodes : fatNode[m].slot # s
           /\ UNCHANGED <<fat, dir, sectors, op, acked, faults>> /\ op = Idle
<1>1. PICK s \in Named(name), n \in FatNodes :
         /\ fatNode[n] = NoFile
         /\ fatNode' = [fatNode EXCEPT ![n] = [slot |-> s, first |-> dir[s].first, size |-> dir[s].size]]
         /\ twice' = (twice \/ \E m \in FatNodes : fatNode[m].slot = s)
  BY DEF Lookup
<1>2. UNCHANGED <<fat, dir, sectors, op, acked, faults>> /\ op = Idle BY DEF Lookup
<1> DEFINE e == [slot |-> s, first |-> dir[s].first, size |-> dir[s].size]
<1>3. s \in 1 .. DirSlots /\ dir[s].name = name BY DEF Named
<1>4. e \in NodeType /\ e.slot = s /\ e.first = dir[s].first /\ e.size = dir[s].size
  <2>1. dir[s] \in EntryType BY <1>3 DEF Linking, FatTypes
  <2>2. dir[s].first \in Firsts /\ dir[s].size \in Nat BY <2>1 DEF EntryType
  <2>3. s \in 0 .. DirSlots BY <1>3
  <2> QED BY <2>2, <2>3 DEF NodeType
<1>5. fatNode' = [fatNode EXCEPT ![n] = e] BY <1>1
<1> HIDE DEF e
<1>6. fatNode' \in [FatNodes -> NodeType] /\ fatNode'[n] = e /\ \A m \in FatNodes : m # n => fatNode'[m] = fatNode[m]
  BY <1>4, <1>5 DEF Linking, FatTypes
<1>7. ~twice' => ~twice /\ \A m \in FatNodes : fatNode[m].slot # s BY Zenon, <1>1
<1>8. \E ss \in 1 .. DirSlots, nn \in FatNodes :
         /\ dir[ss].name = name /\ fatNode[nn] = NoFile
         /\ fatNode' \in [FatNodes -> NodeType]
         /\ fatNode'[nn].slot = ss /\ fatNode'[nn].first = dir[ss].first /\ fatNode'[nn].size = dir[ss].size
         /\ \A m \in FatNodes : m # nn => fatNode'[m] = fatNode[m]
         /\ ~twice' => ~twice /\ \A m \in FatNodes : fatNode[m].slot # ss
  BY Zenon, <1>1, <1>3, <1>4, <1>6, <1>7
<1> QED BY Zenon, <1>2, <1>8

(* What a walk finds, whole or cut short.                                    *)
LEMMA LastIs ==
    ASSUME fat_bits = 32, Linking, NEW n \in FatNodes, NEW have \in 0 .. ChainLength(fatNode[n].first)
    PROVE  /\ have \in Nat /\ Long(fat, fatNode[n].first, have)
           /\ have # 0 => /\ After(fatNode[n].first, have - 1) \in ClusterNos
                          /\ fat[After(fatNode[n].first, have - 1)] # Free
<1> DEFINE h == fatNode[n].first
           k == have - 1
<1>1. h = NoCluster \/ Starts(fat, h) BY NodeStarts
<1>2. Table(fat) /\ Forest(fat) BY DEF Linking, FatTypes, FatChains
<1> HIDE DEF h
<1>3. ChainLength(h) \in Nat /\ Long(fat, h, ChainLength(h)) BY <1>1, <1>2, WalkIs
<1>4. have \in 0 .. ChainLength(h) BY DEF h
<1>5. have \in Nat /\ Long(fat, h, have) BY <1>3, <1>4 DEF Long
<1>6. ASSUME have # 0 PROVE After(h, k) \in ClusterNos /\ fat[After(h, k)] # Free
  <2>1. k \in Nat /\ k \in 0 .. have - 1 BY <1>5, <1>6
  <2> HIDE DEF k
  <2>2. Go(fat, h, k) \in ClusterNos BY <1>5, <2>1 DEF Long
  <2>3. h # NoCluster BY <1>2, <2>1, <2>2, NothingGoes
  <2>4. fat[Go(fat, h, k)] # Free BY <1>1, <1>2, <2>1, <2>2, <2>3, GoInUse
  <2> QED BY Zenon, <2>2, <2>4, AfterIs
<1> QED BY <1>5, <1>6 DEF h

(* The node of the operation gets another first cluster or size.             *)
LEMMA NodeChanges ==
    ASSUME Linking, op.pc # "idle", NEW r \in NodeType, r.slot = OpNode.slot, fatNode' = [fatNode EXCEPT ![op.n] = r]
    PROVE  /\ fatNode' \in [FatNodes -> NodeType]
           /\ \A n \in FatNodes : fatNode'[n].slot = 0 => fatNode'[n].first = NoCluster /\ fatNode'[n].size = 0
           /\ op.n \in FatNodes /\ fatNode'[op.n] = r /\ r.slot # 0
           /\ \A m \in FatNodes : m # op.n => fatNode'[m] = fatNode[m]
<1>1. op.n \in FatNodes /\ fatNode[op.n].slot # 0 /\ OpNode = fatNode[op.n] BY DEF Linking, FatTypes, OpNode
<1> DEFINE n == op.n
<1>2. n \in FatNodes /\ fatNode' = [fatNode EXCEPT ![n] = r] BY <1>1
<1> HIDE DEF n
<1>3. fatNode' \in [FatNodes -> NodeType] BY <1>2 DEF Linking, FatTypes
<1>4. fatNode'[n] = r /\ \A m \in FatNodes : m # n => fatNode'[m] = fatNode[m] BY <1>2 DEF Linking, FatTypes
<1>5. r.slot # 0 BY <1>1
<1>6. \A m \in FatNodes : fatNode'[m].slot = 0 => fatNode'[m].first = NoCluster /\ fatNode'[m].size = 0
  BY Zenon, <1>4, <1>5 DEF Linking, FatTypes
<1> QED BY <1>1, <1>3, <1>4, <1>5, <1>6 DEF n

LEMMA LinkingNow ==
    ASSUME Linking, op.pc = "link"
    PROVE  /\ op.new \in ClusterNos /\ Starts(fat, op.new) /\ fat[op.new] = EOC /\ op.new # op.last
           /\ \A s \in 0 .. DirSlots : ~HeadIn(dir, fatNode, op.new, s)
           /\ op.last # NoCluster => op.last \in ClusterNos /\ fat[op.last] # Free
           /\ Linked \in OpType /\ Linked.pc = "extend" /\ Linked.last = op.new /\ Linked.n = op.n /\ Linked.have = op.have + 1
<1>1. /\ Starts(fat, op.new) /\ fat[op.new] = EOC /\ op.new # op.last
      /\ \A s \in 0 .. DirSlots : ~HeadIn(dir, fatNode, op.new, s)
      /\ op.last # NoCluster => fat[op.last] # Free
  BY Zenon DEF Linking, FatChains, UnderWay
<1>2. op.new \in ClusterNos BY <1>1 DEF Starts
<1>3. op.new \in Firsts /\ op.last \in Firsts /\ op.have + 1 \in Nat BY <1>2, OpIs DEF OpType, Firsts
<1>4. Linked \in OpType /\ Linked.pc = "extend" /\ Linked.last = op.new /\ Linked.n = op.n /\ Linked.have = op.have + 1
  BY <1>3, OpIs DEF Linked, OpType
<1> QED BY <1>1, <1>2, <1>3, <1>4 DEF Firsts

(* Only the node of the operation changes, and not the file it is of.        *)
LEMMA LinksFirst ==
    ASSUME Linking, LinkFirst
    PROVE  /\ op.pc = "link" /\ op.last = NoCluster /\ op' = Linked /\ UNCHANGED <<fat, dir, sectors, acked, faults, twice>>
           /\ op.n \in FatNodes /\ OpNode = fatNode[op.n] /\ OpNode.slot # 0
           /\ fatNode' \in [FatNodes -> NodeType]
           /\ fatNode'[op.n].slot = OpNode.slot /\ fatNode'[op.n].first = op.new /\ fatNode'[op.n].size = OpNode.size
           /\ \A m \in FatNodes : m # op.n => fatNode'[m] = fatNode[m]
<1> DEFINE r == [fatNode[op.n] EXCEPT !.first = op.new]
<1>1. /\ op.pc = "link" /\ op.last = NoCluster /\ UNCHANGED <<fat, dir, sectors, acked, faults, twice>> /\ op' = Linked
      /\ fatNode' = [fatNode EXCEPT ![op.n] = r]
  BY DEF LinkFirst
<1>2. op.new \in ClusterNos BY <1>1, LinkingNow
<1>3. op.n \in FatNodes /\ OpNode = fatNode[op.n] /\ OpNode \in NodeType /\ OpNode.slot # 0 BY <1>1 DEF Linking, FatTypes, OpNode
<1>4. r \in NodeType /\ r.slot = OpNode.slot /\ r.first = op.new /\ r.size = OpNode.size BY <1>2, <1>3 DEF NodeType, Firsts
<1> HIDE DEF r
<1>5. fatNode' \in [FatNodes -> NodeType] /\ fatNode'[op.n] = r /\ \A m \in FatNodes : m # op.n => fatNode'[m] = fatNode[m]
  BY <1>1, <1>4, NodeChanges
<1> QED BY Zenon, <1>1, <1>3, <1>4, <1>5

LEMMA EndsWrite ==
    ASSUME Linking, WriteEnds
    PROVE  /\ op.pc = "data" /\ op' = [op EXCEPT !.pc = "entry"] /\ UNCHANGED <<fat, dir, sectors, acked, twice>> /\ (Sound \/ Fails)
           /\ op.n \in FatNodes /\ OpNode = fatNode[op.n] /\ OpNode.slot # 0 /\ OpNode.size \in Nat /\ Here \in Nat
           /\ fatNode' \in [FatNodes -> NodeType]
           /\ fatNode'[op.n].slot = OpNode.slot /\ fatNode'[op.n].first = OpNode.first
           /\ fatNode'[op.n].size = Max({OpNode.size, Here})
           /\ \A m \in FatNodes : m # op.n => fatNode'[m] = fatNode[m]
           /\ Fewer(dir, fatNode, dir', fatNode')
<1> DEFINE z == Max({OpNode.size, Here})
           r == [fatNode[op.n] EXCEPT !.size = Max({fatNode[op.n].size, Here})]
<1>1. /\ fatNode' = [fatNode EXCEPT ![op.n] = r] /\ op.pc = "data" /\ op' = [op EXCEPT !.pc = "entry"]
      /\ UNCHANGED <<fat, dir, sectors, acked, twice>> /\ (Sound \/ Fails)
  BY DEF WriteEnds
<1>2. op.n \in FatNodes /\ fatNode[op.n] \in NodeType /\ OpNode = fatNode[op.n] /\ OpNode.slot # 0 BY <1>1 DEF Linking, FatTypes, OpNode
<1>3. OpNode.size \in Nat /\ Here \in Nat BY <1>2, HereIs DEF NodeType
<1>4. z \in Nat BY <1>3, MaxOfTwo
<1>5. r \in NodeType /\ r.slot = OpNode.slot /\ r.first = OpNode.first /\ r.size = z BY <1>2, <1>4 DEF NodeType
<1> HIDE DEF r
<1>6. fatNode' \in [FatNodes -> NodeType] /\ fatNode'[op.n] = r /\ \A m \in FatNodes : m # op.n => fatNode'[m] = fatNode[m]
  BY <1>1, <1>5, NodeChanges
<1>7. Fewer(dir, fatNode, dir', fatNode') BY Zenon, <1>1, <1>2, <1>5, <1>6 DEF Fewer, HeadIn
<1> QED BY Zenon, <1>1, <1>2, <1>3, <1>5, <1>6, <1>7 DEF z

EntryPut(x, h, z) == [x EXCEPT !.first = h, !.size = z]
LEMMA EntryWith ==
    ASSUME NEW x \in EntryType, NEW h \in Firsts, NEW z \in Nat
    PROVE  /\ EntryPut(x, h, z) \in EntryType /\ EntryPut(x, h, z).first = h /\ EntryPut(x, h, z).size = z
           /\ EntryPut(x, h, z).name = x.name
<1> DEFINE y == [x EXCEPT !.first = h]
           e == [y EXCEPT !.size = z]
<1>1. x = [name |-> x.name, first |-> x.first, size |-> x.size] BY DEF EntryType
<1>2. y = [name |-> x.name, first |-> h, size |-> x.size] BY <1>1
<1>3. EntryPut(x, h, z) = e BY DEF EntryPut
<1> HIDE DEF y
<1>4. e = [name |-> x.name, first |-> h, size |-> z] BY <1>2
<1> HIDE DEF e
<1>5. x.name \in FileNames \cup {""} BY DEF EntryType
<1>6. e \in EntryType BY <1>4, <1>5 DEF EntryType
<1> QED BY <1>3, <1>4, <1>6

LEMMA UpdatesEntry ==
    ASSUME Linking, UpdateEntry
    PROVE  /\ OpNode.slot \in 1 .. DirSlots /\ op.n \in FatNodes /\ OpNode = fatNode[op.n] /\ op.pc = "entry"
           /\ dir' \in [1 .. DirSlots -> EntryType]
           /\ \A t \in 1 .. DirSlots : t # OpNode.slot => dir'[t] = dir[t]
           /\ \A t \in 1 .. DirSlots : dir'[t].name = dir[t].name
           /\ \/ dir' = dir /\ Fails
              \/ dir'[OpNode.slot].first = OpNode.first /\ dir'[OpNode.slot].size = OpNode.size /\ Sound
           /\ acked' = acked \cup {<<dir[OpNode.slot].name, i>> : i \in op.pos .. Here - 1}
           /\ op' = Idle /\ UNCHANGED <<fat, sectors, fatNode, twice>>
           /\ Fewer(dir, fatNode, dir', fatNode')
<1> DEFINE n == OpNode
           s == n.slot
           e == [dir[s] EXCEPT !.first = n.first, !.size = n.size]
<1>1. (dir' = [dir EXCEPT ![s] = e] /\ Sound) \/ (dir' = dir /\ Fails)
  BY DEF UpdateEntry, OpNode, Entry
<1>2. acked' = acked \cup {<<dir[OpNode.slot].name, i>> : i \in op.pos .. Here - 1} BY DEF UpdateEntry, OpNode
<1>3. op' = Idle /\ op.pc = "entry" /\ UNCHANGED <<fat, sectors, fatNode, twice>> BY DEF UpdateEntry, Return
<1>4. op.n \in FatNodes /\ n \in NodeType /\ s # 0 /\ n = fatNode[op.n] BY <1>3 DEF Linking, FatTypes, OpNode
<1>5. s \in 1 .. DirSlots BY <1>4, FatAssumption DEF NodeType, FatAssumption
<1>6. e \in EntryType /\ e.first = n.first /\ e.size = n.size /\ e.name = dir[s].name
  <2>1. dir[s] \in EntryType BY <1>5 DEF Linking, FatTypes
  <2>2. n.first \in Firsts /\ n.size \in Nat BY <1>4 DEF NodeType
  <2> HIDE DEF n, s
  <2>3. e = EntryPut(dir[s], n.first, n.size) BY DEF EntryPut
  <2> HIDE DEF e
  <2>4. /\ EntryPut(dir[s], n.first, n.size) \in EntryType /\ EntryPut(dir[s], n.first, n.size).first = n.first
        /\ EntryPut(dir[s], n.first, n.size).size = n.size /\ EntryPut(dir[s], n.first, n.size).name = dir[s].name
    BY <2>1, <2>2, EntryWith
  <2> QED BY Zenon, <2>3, <2>4
<1>7. n.first # NoCluster => HeadIn(dir, fatNode, n.first, s) BY <1>4, NodeHead DEF Linking
<1> HIDE DEF n, s, e
<1>8. dir' \in [1 .. DirSlots -> EntryType] BY <1>1, <1>5, <1>6 DEF Linking, FatTypes
<1>9. \A t \in 1 .. DirSlots : dir'[t] = dir[t] \/ (t = s /\ dir'[t] = e) BY <1>1, <1>5 DEF Linking, FatTypes
<1>10. (dir' = dir /\ Fails) \/ (dir'[s] = e /\ Sound) BY <1>1, <1>5 DEF Linking, FatTypes
<1>11. \A t \in 1 .. DirSlots : t # s => dir'[t] = dir[t] BY Zenon, <1>9
<1>12. \A t \in 1 .. DirSlots : dir'[t].name = dir[t].name BY Zenon, <1>6, <1>9
<1>13. Fewer(dir, fatNode, dir', fatNode')
  <2> SUFFICES ASSUME NEW h, NEW t \in 0 .. DirSlots, HeadIn(dir', fatNode', h, t) PROVE HeadIn(dir, fatNode, h, t)
    BY Zenon DEF Fewer
  <2>1. CASE t \in 1 .. DirSlots /\ h # NoCluster /\ dir'[t].first = h
    <3>1. CASE dir'[t] = dir[t] BY Zenon, <2>1, <3>1 DEF HeadIn
    <3>2. CASE t = s /\ dir'[t] = e BY Zenon, <1>6, <1>7, <2>1, <3>2
    <3> QED BY <1>9, <2>1, <3>1, <3>2
  <2> QED BY Zenon, <1>3, <2>1 DEF HeadIn
<1> QED BY Zenon, <1>2, <1>3, <1>4, <1>5, <1>6, <1>8, <1>10, <1>11, <1>12, <1>13 DEF n, s


-----------------------------------------------------------------------------
(* Every step keeps the chains apart and whole: Linking.                     *)
LEMMA CreateLinks == ASSUME Linking, NEW name \in FileNames, CreateFile(name) PROVE Linking'
<1>1. PICK i \in 1 .. DirSlots, e \in EntryType :
         /\ dir[i] = NoEntry /\ e.name = name /\ e.first = NoCluster /\ e.size = 0
         /\ dir' \in [1 .. DirSlots -> EntryType] /\ dir'[i] = e
         /\ \A s \in 1 .. DirSlots : s # i => dir'[s] = dir[s]
  BY Creates
<1>2. UNCHANGED <<fat, fatNode, op, faults>> BY Creates
<1>3. FatTypes' BY <1>1, <1>2 DEF Linking, FatTypes, OpNode
<1>4. Fewer(dir, fatNode, dir', fatNode')
  <2>1. \A s \in 1 .. DirSlots : dir'[s].first = dir[s].first
    <3>1. NoEntry.first = NoCluster BY DEF NoEntry
    <3> QED BY Zenon, <1>1, <3>1
  <2> QED BY Zenon, <1>2, <2>1 DEF Fewer, HeadIn
<1>5. FatChains' BY Zenon, <1>2, <1>4, FewerHeads, FewerUnderWay DEF Linking, FatChains
<1> QED BY <1>3, <1>5 DEF Linking

LEMMA LookupLinks == ASSUME Linking, NEW name, Lookup(name) PROVE Linking'
<1>1. PICK s \in 1 .. DirSlots, n \in FatNodes :
         /\ fatNode[n] = NoFile /\ fatNode' \in [FatNodes -> NodeType]
         /\ fatNode'[n].slot = s /\ fatNode'[n].first = dir[s].first
         /\ \A m \in FatNodes : m # n => fatNode'[m] = fatNode[m]
  BY LooksUp
<1>2. UNCHANGED <<fat, dir, op, faults>> BY LooksUp
<1>3. FatTypes'
  <2>0. s # 0 BY <1>1
  <2>1. \A m \in FatNodes : fatNode'[m].slot = 0 => fatNode'[m].first = NoCluster /\ fatNode'[m].size = 0
    BY Zenon, <1>1, <2>0 DEF Linking, FatTypes
  <2>2. fatNode[n].slot = 0 BY <1>1 DEF NoFile
  <2>3. op.pc # "idle" => op.n \in FatNodes /\ fatNode'[op.n].slot # 0 BY Zenon, <1>1, <2>2 DEF Linking, FatTypes, OpNode
  <2> QED BY <1>1, <1>2, <2>1, <2>3 DEF Linking, FatTypes, OpNode
<1>4. Fewer(dir, fatNode, dir', fatNode') BY Zenon, <1>1, <1>2 DEF Fewer, HeadIn
<1>5. FatChains'
  <2>1. HeadsOf(fat, dir, fatNode) /\ UnderWay(fat, dir, fatNode, op) BY DEF Linking, FatChains
  <2>2. HeadsOf(fat, dir', fatNode') /\ UnderWay(fat, dir', fatNode', op) BY <1>4, <2>1, FewerHeads, FewerUnderWay
  <2> QED BY Zenon, <1>2, <2>2 DEF Linking, FatChains
<1> QED BY <1>3, <1>5 DEF Linking

LEMMA BeginLinks ==
    ASSUME fat_bits = 32, Linking, NEW n \in FatNodes, NEW pos \in Nat, NEW count \in Nat, Begin(n, pos, count)
    PROVE  Linking'
<1> DEFINE walk == ChainLength(fatNode[n].first)
<1>1. PICK have \in 0 .. walk :
         /\ op' = [Idle EXCEPT
                !.pc = IF Circular(fatNode[n].first) /\ have = walk THEN "hung" ELSE "extend",
                !.n = n, !.pos = pos, !.count = count, !.have = have,
                !.last = IF have = 0 THEN NoCluster ELSE After(fatNode[n].first, have - 1)]
         /\ (faults' = faults \/ faults' = faults + 1)
         /\ UNCHANGED <<fat, dir, fatNode>> /\ fatNode[n] # NoFile
  BY Zenon DEF Begin, Sound, Fails
<1> DEFINE l == IF have = 0 THEN NoCluster ELSE After(fatNode[n].first, have - 1)
           q == IF Circular(fatNode[n].first) /\ have = walk THEN "hung" ELSE "extend"
<1>2. have \in Nat /\ l \in Firsts /\ (l # NoCluster => l \in ClusterNos /\ fat[l] # Free)
  <2>1. /\ have \in Nat
        /\ have # 0 => /\ After(fatNode[n].first, have - 1) \in ClusterNos
                       /\ fat[After(fatNode[n].first, have - 1)] # Free
    BY LastIs
  <2> QED BY Zenon, <2>1 DEF Firsts
<1>3. q \in {"hung", "extend"} OBVIOUS
<1>4. op' = [pc |-> q, n |-> n, pos |-> pos, count |-> count, done |-> 0, last |-> l, have |-> have, new |-> NoCluster]
  BY <1>1 DEF Idle
<1> HIDE DEF l, q, walk
<1>5. op'.pc = q /\ op'.n = n /\ op'.last = l BY <1>4
<1>6. op' \in OpType BY <1>2, <1>3, <1>4 DEF OpType, Firsts
<1>7. fatNode[n].slot # 0
  <2>1. fatNode[n] \in NodeType BY DEF Linking, FatTypes
  <2>2. fatNode[n] = [slot |-> fatNode[n].slot, first |-> fatNode[n].first, size |-> fatNode[n].size] BY <2>1 DEF NodeType
  <2> QED BY Zenon, <1>1, <2>2 DEF NoFile, Linking, FatTypes
<1>8. faults' \in Nat BY <1>1 DEF Linking, FatTypes
<1>9. FatTypes'
  <2>1. fatNode'[op'.n].slot # 0 /\ op'.n \in FatNodes BY Zenon, <1>1, <1>5, <1>7
  <2> QED BY <1>1, <1>6, <1>8, <2>1 DEF Linking, FatTypes, OpNode
<1>10. UnderWay(fat, dir, fatNode, op') BY <1>2, <1>3, <1>5 DEF UnderWay
<1>11. FatChains' BY Zenon, <1>1, <1>10 DEF Linking, FatChains
<1> QED BY <1>9, <1>11 DEF Linking

(* The operation returns, or goes on, and the disk's chains stay.            *)
LEMMA ReturnLinks == ASSUME Linking, UNCHANGED <<fat, dir, fatNode>>, op' = Idle, Sound \/ Fails PROVE Linking'
<1>1. FatTypes' BY FaultsAre, IdleIs DEF Linking, FatTypes
<1>2. FatChains' BY Zenon, IdleIs DEF Linking, FatChains
<1> QED BY <1>1, <1>2 DEF Linking

LEMMA OnLinks ==
    ASSUME Linking, UNCHANGED <<fat, dir, fatNode>>, Sound \/ Fails, op.pc # "idle",
           op' \in OpType, op'.n = op.n, op'.last = op.last,
           op'.pc \notin {"clear", "link"} \/ (op'.new = op.new /\ op.pc \in {"clear", "link"})
    PROVE  Linking'
<1>1. FatTypes' BY FaultsAre DEF Linking, FatTypes, OpNode
<1>2. UnderWay(fat, dir, fatNode, op') BY Zenon DEF UnderWay, Linking, FatChains
<1>3. FatChains' BY Zenon, <1>2 DEF Linking, FatChains
<1> QED BY <1>1, <1>3 DEF Linking

LEMMA ExtendedLinks == ASSUME Linking, Extended PROVE Linking'
<1>1. op' = [op EXCEPT !.pc = "data"] /\ op.pc = "extend" /\ UNCHANGED <<fat, dir, fatNode, faults>> BY DEF Extended
<1>2. op' \in OpType /\ op'.n = op.n /\ op'.last = op.last /\ op'.pc = "data" BY <1>1, OpIs DEF OpType
<1> QED BY <1>1, <1>2, OnLinks DEF Sound

LEMMA ClearLinks == ASSUME Linking, Clear PROVE Linking'
<1>1. op' = [op EXCEPT !.pc = "link"] /\ op.pc = "clear" /\ UNCHANGED <<fat, dir, fatNode>> /\ (Sound \/ Fails)
  BY DEF Clear
<1>2. op' \in OpType /\ op'.n = op.n /\ op'.last = op.last /\ op'.pc = "link" /\ op'.new = op.new BY <1>1, OpIs DEF OpType
<1> QED BY <1>1, <1>2, OnLinks

LEMMA NoSpaceLinks == ASSUME Linking, NoSpace PROVE Linking'
BY ReturnLinks DEF NoSpace, Return, Sound

LEMMA BeyondDiskLinks == ASSUME Linking, BeyondDisk PROVE Linking'
BY ReturnLinks DEF BeyondDisk, Return, Sound

LEMMA WriteSectorLinks == ASSUME Linking, WriteSector PROVE Linking'
<1>1. UNCHANGED <<fat, dir, fatNode>> /\ op.pc = "data" BY DEF WriteSector
<1>2. CASE op' = [op EXCEPT !.done = op.done + 1] /\ Sound
  <2>1. op' \in OpType /\ op'.n = op.n /\ op'.last = op.last /\ op'.pc = "data" BY <1>1, <1>2, OpIs DEF OpType
  <2> QED BY <1>1, <1>2, <2>1, OnLinks
<1>3. CASE op' = Idle /\ Fails BY <1>1, <1>3, ReturnLinks
<1> QED BY <1>2, <1>3 DEF WriteSector, Return

LEMMA CrashLinks == ASSUME Linking, Crash PROVE Linking'
<1>1. fatNode' = [n \in FatNodes |-> NoFile] /\ op' = Idle /\ UNCHANGED <<fat, dir, faults>> BY DEF Crash
<1>2. NoFile \in NodeType /\ NoFile.slot = 0 /\ NoFile.first = NoCluster /\ NoFile.size = 0
  <2>1. 0 \in 0 .. DirSlots BY FatAssumption DEF FatAssumption
  <2> QED BY <2>1 DEF NoFile, NodeType, Firsts
<1>3. \A n \in FatNodes : fatNode'[n] = NoFile BY <1>1
<1>4. FatTypes'
  <2>1. fatNode' \in [FatNodes -> NodeType] BY <1>1, <1>2
  <2> QED BY <1>1, <1>2, <1>3, <2>1, IdleIs DEF Linking, FatTypes
<1>5. Fewer(dir, fatNode, dir', fatNode') BY Zenon, <1>1, <1>2, <1>3 DEF Fewer, HeadIn
<1>6. HeadsOf(fat, dir', fatNode') BY Zenon, <1>5, FewerHeads DEF Linking, FatChains
<1>7. FatChains' BY Zenon, <1>1, <1>6, IdleIs DEF Linking, FatChains
<1> QED BY <1>4, <1>7 DEF Linking

LEMMA WriteEndsLinks == ASSUME Linking, WriteEnds PROVE Linking'
<1>1. /\ op.pc = "data" /\ op' = [op EXCEPT !.pc = "entry"] /\ UNCHANGED <<fat, dir>> /\ (Sound \/ Fails)
      /\ op.n \in FatNodes /\ OpNode.slot # 0
      /\ fatNode' \in [FatNodes -> NodeType] /\ fatNode'[op.n].slot = OpNode.slot
      /\ \A m \in FatNodes : m # op.n => fatNode'[m] = fatNode[m]
      /\ Fewer(dir, fatNode, dir', fatNode')
  BY EndsWrite
<1>2. op' \in OpType /\ op'.n = op.n /\ op'.last = op.last /\ op'.pc = "entry" BY <1>1, OpIs DEF OpType
<1>3. \A n \in FatNodes : fatNode'[n].slot = 0 => fatNode'[n].first = NoCluster /\ fatNode'[n].size = 0
  BY Zenon, <1>1 DEF Linking, FatTypes
<1>4. FatTypes' BY <1>1, <1>2, <1>3, FaultsAre DEF Linking, FatTypes, OpNode
<1>5. HeadsOf(fat, dir', fatNode') /\ UnderWay(fat, dir', fatNode', op) BY <1>1, FewerHeads, FewerUnderWay DEF Linking, FatChains
<1>6. UnderWay(fat, dir', fatNode', op') BY <1>2, <1>5, UnderWayOn
<1>7. FatChains' BY Zenon, <1>1, <1>5, <1>6 DEF Linking, FatChains
<1> QED BY <1>4, <1>7 DEF Linking

LEMMA UpdateEntryLinks == ASSUME Linking, UpdateEntry PROVE Linking'
<1>1. /\ dir' \in [1 .. DirSlots -> EntryType] /\ op' = Idle /\ UNCHANGED <<fat, fatNode>>
      /\ Fewer(dir, fatNode, dir', fatNode') /\ (Sound \/ Fails)
  BY UpdatesEntry
<1>2. FatTypes' BY <1>1, IdleIs, FaultsAre DEF Linking, FatTypes
<1>3. HeadsOf(fat, dir', fatNode') BY <1>1, FewerHeads DEF Linking, FatChains
<1>4. FatChains' BY Zenon, <1>1, <1>3, IdleIs DEF Linking, FatChains
<1> QED BY <1>2, <1>4 DEF Linking

LEMMA FreeIs == ASSUME FreeClusters # {} PROVE AllocCluster \in ClusterNos /\ fat[AllocCluster] = Free
<1>1. FreeClusters \subseteq Nat BY ClustersAre DEF FreeClusters
<1>2. AllocCluster \in FreeClusters BY <1>1, MinIn DEF AllocCluster
<1> QED BY <1>2 DEF FreeClusters

(* No chain begins at a cluster that is free.                                *)
LEMMA FreeHeads ==
    ASSUME Linking, NEW c, fat[c] = Free, NEW s \in 0 .. DirSlots
    PROVE  ~HeadIn(dir, fatNode, c, s)
BY Zenon DEF Linking, FatChains, HeadsOf, Starts

LEMMA MarkLinks == ASSUME Linking, Mark PROVE Linking'
<1> DEFINE c == AllocCluster
           g == MarkIn(fat, c)
           o == [op EXCEPT !.pc = "clear", !.new = c]
<1>1. /\ op.pc = "extend" /\ UNCHANGED <<dir, fatNode>> /\ FreeClusters # {}
      /\ \/ fat' = g /\ op' = o /\ Sound
         \/ Fails /\ op' = Idle /\ (fat' = fat \/ fat' = g)
  BY DEF Mark, Return, MarkIn
<1>2. c \in ClusterNos /\ fat[c] = Free BY <1>1, FreeIs
<1>3. o \in OpType /\ o.pc = "clear" /\ o.new = c /\ o.last = op.last /\ o.n = op.n
  <2>1. c \in Firsts /\ op.last \in Firsts /\ op.have \in Nat BY <1>2, OpIs DEF Firsts, OpType
  <2> QED BY <1>1, <2>1, OpIs DEF OpType
<1> HIDE DEF c, o
<1>4. Table(fat) /\ Forest(fat) BY DEF Linking, FatTypes, FatChains
<1>5. /\ Table(g) /\ Forest(g) /\ Starts(g, c) /\ g[c] = EOC
      /\ \A h : Starts(fat, h) => Starts(g, h)
      /\ \A d \in ClusterNos : fat[d] # Free => g[d] = fat[d]
  BY <1>2, <1>4, MarkIs
<1> HIDE DEF g
<1>6. HeadsOf(g, dir, fatNode) BY <1>5, HeadsGo DEF Linking, FatChains
<1>7. CASE fat' = fat /\ op' = Idle /\ Fails BY <1>1, <1>7, ReturnLinks
<1>8. CASE fat' = g /\ op' = Idle /\ Fails
  <2>1. FatTypes' BY <1>1, <1>5, <1>8, FaultsAre, IdleIs DEF Linking, FatTypes
  <2>2. FatChains' BY Zenon, <1>1, <1>5, <1>6, <1>8, IdleIs DEF FatChains
  <2> QED BY <2>1, <2>2 DEF Linking
<1>9. CASE fat' = g /\ op' = o /\ Sound
  <2>1. FatTypes' BY <1>1, <1>3, <1>5, <1>9, FaultsAre DEF Linking, FatTypes, OpNode
  <2>2. \A s \in 0 .. DirSlots : ~HeadIn(dir, fatNode, c, s) BY <1>2, FreeHeads
  <2>3. op.last # NoCluster => op.last \in ClusterNos /\ fat[op.last] # Free
    BY OpIs DEF OpType, Firsts, Linking, FatChains, UnderWay
  <2>4. UnderWay(g, dir, fatNode, o)
    <3>1. o.last # NoCluster => g[o.last] # Free BY Zenon, <1>3, <1>5, <2>3
    <3>2. c # op.last BY Zenon, <1>2, <2>3, ClustersAre
    <3> QED BY Zenon, <1>3, <1>5, <2>2, <3>1, <3>2 DEF UnderWay
  <2>5. FatChains' BY Zenon, <1>1, <1>5, <1>6, <1>9, <2>4 DEF FatChains
  <2> QED BY <2>1, <2>5 DEF Linking
<1> QED BY <1>1, <1>7, <1>8, <1>9

LEMMA LinkLinks == ASSUME Linking, Link PROVE Linking'
<1> DEFINE g == LinkIn(fat, op.last, op.new)
<1>1. /\ op.pc = "link" /\ op.last # NoCluster /\ UNCHANGED <<dir, fatNode>>
      /\ \/ fat' = g /\ op' = Linked /\ Sound
         \/ Fails /\ op' = Idle /\ (fat' = fat \/ fat' = g)
  BY DEF Link, Return, LinkIn
<1>2. /\ op.new \in ClusterNos /\ Starts(fat, op.new) /\ fat[op.new] = EOC /\ op.new # op.last
      /\ \A s \in 0 .. DirSlots : ~HeadIn(dir, fatNode, op.new, s)
      /\ op.last \in ClusterNos /\ fat[op.last] # Free
      /\ Linked \in OpType /\ Linked.pc = "extend" /\ Linked.last = op.new /\ Linked.n = op.n
  BY <1>1, LinkingNow
<1>3. Table(fat) /\ Forest(fat) BY DEF Linking, FatTypes, FatChains
<1>4. /\ Table(g) /\ Forest(g) /\ g[op.new] = EOC
      /\ \A h : Starts(fat, h) /\ h # op.new => Starts(g, h)
  BY <1>2, <1>3, LinkIs
<1> HIDE DEF g
<1>5. HeadsOf(g, dir, fatNode)
  <2>1. \A h : \A s \in 0 .. DirSlots : HeadIn(dir, fatNode, h, s) /\ Starts(fat, h) => Starts(g, h) BY Zenon, <1>2, <1>4
  <2> QED BY <2>1, HeadsGo DEF Linking, FatChains
<1>6. CASE fat' = fat /\ op' = Idle /\ Fails BY <1>1, <1>6, ReturnLinks
<1>7. CASE fat' = g /\ op' = Idle /\ Fails
  <2>1. FatTypes' BY <1>1, <1>4, <1>7, FaultsAre, IdleIs DEF Linking, FatTypes
  <2>2. FatChains' BY Zenon, <1>1, <1>4, <1>5, <1>7, IdleIs DEF FatChains
  <2> QED BY <2>1, <2>2 DEF Linking
<1>8. CASE fat' = g /\ op' = Linked /\ Sound
  <2>1. FatTypes' BY <1>1, <1>2, <1>4, <1>8, FaultsAre DEF Linking, FatTypes, OpNode
  <2>2. UnderWay(g, dir, fatNode, Linked) BY <1>2, <1>4, ClustersAre DEF UnderWay
  <2>3. FatChains' BY Zenon, <1>1, <1>4, <1>5, <1>8, <2>2 DEF FatChains
  <2> QED BY <2>1, <2>3 DEF Linking
<1> QED BY <1>1, <1>6, <1>7, <1>8

LEMMA LinkFirstLinks == ASSUME Linking, LinkFirst PROVE Linking'
<1>1. /\ op.pc = "link" /\ UNCHANGED <<fat, dir, faults>> /\ op' = Linked
      /\ op.n \in FatNodes /\ OpNode = fatNode[op.n] /\ OpNode.slot # 0
      /\ fatNode' \in [FatNodes -> NodeType]
      /\ fatNode'[op.n].slot = OpNode.slot /\ fatNode'[op.n].first = op.new
      /\ \A m \in FatNodes : m # op.n => fatNode'[m] = fatNode[m]
  BY LinksFirst
<1>2. /\ op.new \in ClusterNos /\ Starts(fat, op.new) /\ fat[op.new] = EOC
      /\ \A s \in 0 .. DirSlots : ~HeadIn(dir, fatNode, op.new, s)
      /\ Linked \in OpType /\ Linked.pc = "extend" /\ Linked.last = op.new /\ Linked.n = op.n
  BY <1>1, LinkingNow
<1>3. FatTypes'
  <2>1. \A n \in FatNodes : fatNode'[n].slot = 0 => fatNode'[n].first = NoCluster /\ fatNode'[n].size = 0
    BY Zenon, <1>1 DEF Linking, FatTypes
  <2> QED BY <1>1, <1>2, <2>1 DEF Linking, FatTypes, OpNode
<1>4. \A h : \A s \in 0 .. DirSlots : HeadIn(dir', fatNode', h, s) => HeadIn(dir, fatNode, h, s) \/ (h = op.new /\ s = OpNode.slot)
  BY Zenon, <1>1 DEF HeadIn
<1>5. HeadsOf(fat, dir', fatNode')
  <2> SUFFICES ASSUME NEW h, NEW s \in 0 .. DirSlots, HeadIn(dir', fatNode', h, s)
               PROVE  Starts(fat, h) /\ \A t \in 0 .. DirSlots : HeadIn(dir', fatNode', h, t) => t = s
    BY Zenon DEF HeadsOf
  <2>1. CASE h = op.new BY Zenon, <1>2, <1>4, <2>1
  <2>2. CASE h # op.new
    <3>1. HeadIn(dir, fatNode, h, s) BY Zenon, <1>4, <2>2
    <3> QED BY Zenon, <1>4, <2>2, <3>1 DEF Linking, FatChains, HeadsOf
  <2> QED BY <2>1, <2>2
<1>6. UnderWay(fat, dir', fatNode', Linked) BY <1>2, ClustersAre DEF UnderWay
<1>7. FatChains' BY Zenon, <1>1, <1>5, <1>6 DEF Linking, FatChains
<1> QED BY <1>3, <1>7 DEF Linking

LEMMA InitLinks == ASSUME FatInit, fat_bits = 32 PROVE Linking
<1>1. Table(fat) /\ Forest(fat) /\ Starts(fat, ROOT)
  <2>1. /\ fat \in [ClusterNos \cup {EOC} -> ClusterNos \cup {EOC, Free}]
        /\ fat[ROOT] = EOC /\ fat[EOC] = Free /\ \A c \in ClusterNos : c # ROOT => fat[c] = Free
    BY ClustersAre DEF FatInit
  <2> QED BY <2>1, ClustersAre DEF Table, Forest, Starts
<1>2. \A s \in 1 .. DirSlots : dir[s] = NoEntry BY DEF FatInit
<1>3. \A n \in FatNodes : fatNode[n] = NoFile BY DEF FatInit
<1>4. NoEntry \in EntryType /\ NoEntry.first = NoCluster BY DEF NoEntry, EntryType, Firsts
<1>5. NoFile \in NodeType /\ NoFile.first = NoCluster /\ NoFile.slot = 0 /\ NoFile.size = 0
  <2>1. 0 \in 0 .. DirSlots BY FatAssumption DEF FatAssumption
  <2> QED BY <2>1 DEF NoFile, NodeType, Firsts
<1>6. FatTypes
  <2>1. dir \in [1 .. DirSlots -> EntryType] BY <1>4 DEF FatInit
  <2>2. fatNode \in [FatNodes -> NodeType] BY <1>5 DEF FatInit
  <2>3. op = Idle /\ faults \in Nat BY DEF FatInit
  <2> QED BY <1>1, <1>3, <1>5, <2>1, <2>2, <2>3, IdleIs DEF FatTypes
<1>7. HeadsOf(fat, dir, fatNode)
  <2>1. \A h : \A s \in 0 .. DirSlots : HeadIn(dir, fatNode, h, s) => h = ROOT /\ s = 0
    BY Zenon, <1>2, <1>3, <1>4, <1>5 DEF HeadIn
  <2> QED BY Zenon, <1>1, <2>1 DEF HeadsOf
<1>8. op = Idle BY DEF FatInit
<1> QED BY Zenon, <1>1, <1>6, <1>7, <1>8, IdleIs DEF Linking, FatChains

LEMMA LinkingSteps == ASSUME fat_bits = 32, Linking, FatNext \/ UNCHANGED fatVars PROVE Linking'
<1>1. CASE UNCHANGED fatVars BY <1>1 DEF fatVars, Linking, FatTypes, FatChains, OpNode
<1>2. ASSUME NEW name \in FileNames, CreateFile(name) \/ Lookup(name) PROVE Linking' BY <1>2, CreateLinks, LookupLinks
<1>3. ASSUME NEW n \in FatNodes, NEW pos \in 0 .. MaxSectors - 1, NEW count \in 1 .. MaxSectors, Begin(n, pos, count)
      PROVE  Linking'
  BY <1>3, BeginLinks, FatAssumption DEF FatAssumption
<1> QED BY <1>1, <1>2, <1>3, ExtendedLinks, NoSpaceLinks, MarkLinks, ClearLinks, LinkFirstLinks, LinkLinks, WriteSectorLinks,
        BeyondDiskLinks, WriteEndsLinks, UpdateEntryLinks, CrashLinks DEF FatNext, FatStep


-----------------------------------------------------------------------------
(* Sectors are counted by clusters.                                          *)
LEMMA Divided ==
    ASSUME NEW x \in Nat, NEW n \in Nat \ {0}
    PROVE  x \div n \in Nat /\ (x % n) \in 0 .. n - 1 /\ x = n * (x \div n) + (x % n)
<1>1. x \div n \in Nat /\ (x % n) \in 0 .. n - 1 OBVIOUS
<1>2. x \in Int /\ n \in Int /\ n > 0 OBVIOUS
<1>3. x = n * (x \div n) + (x % n) BY <1>2, Z3
<1> QED BY <1>1, <1>3

LEMMA TimesMore ==
    ASSUME NEW n \in Nat, NEW a \in Nat, NEW b \in Nat, a <= b
    PROVE  n * a \in Nat /\ n * b \in Nat /\ n * a <= n * b
OBVIOUS

LEMMA DividedLess ==
    ASSUME NEW n \in Nat \ {0}, NEW i \in Nat, NEW m \in Nat, i < n * m
    PROVE  i \div n < m
<1> DEFINE q == i \div n
           r == i % n
           a == n * q
           b == n * m
<1>1. q \in Nat /\ r \in 0 .. n - 1 /\ i = a + r BY Divided
<1>2. i < b /\ b \in Nat /\ a \in Nat BY <1>1, TimesMore
<1>3. m <= q => b <= a BY <1>1, TimesMore
<1> HIDE DEF q, r, a, b
<1>4. r \in Nat BY <1>1
<1>5. q < m BY <1>1, <1>2, <1>3, <1>4
<1> QED BY <1>5 DEF q

LEMMA NeededIs ==
    ASSUME NEW x \in Nat, NEW have \in Nat, have >= Needed(x)
    PROVE  SPC * have \in Nat /\ x <= SPC * have
<1> DEFINE y == x + SPC - 1
           q == y \div SPC
           r == y % SPC
           a == SPC * q
           b == SPC * have
<1>1. SPC \in Nat \ {0} BY FatAssumption DEF FatAssumption
<1>2. y \in Nat /\ y = x + SPC - 1 BY <1>1
<1>3. Needed(x) = Max({1, q}) BY DEF Needed
<1> HIDE DEF y
<1>4. q \in Nat /\ r \in 0 .. SPC - 1 /\ y = a + r BY <1>1, <1>2, Divided
<1> HIDE DEF q
<1>5. have >= q
  <2>1. 1 \in Nat OBVIOUS
  <2>2. Max({1, q}) \in Nat /\ Max({1, q}) >= q BY <1>4, <2>1, MaxOfTwo
  <2> QED BY <1>3, <1>4, <2>2
<1>6. a \in Nat /\ b \in Nat /\ a <= b BY <1>1, <1>4, <1>5, TimesMore
<1> HIDE DEF a, b, r
<1>7. x <= b BY <1>1, <1>2, <1>4, <1>6
<1> QED BY <1>6, <1>7 DEF b

(* A cluster more, and the sectors it holds.                                 *)
LEMMA OneMore ==
    ASSUME NEW f, NEW h, NEW m \in Nat, Long(f, h, m), Go(f, h, m) \in ClusterNos
    PROVE  Long(f, h, m + 1)
<1> SUFFICES ASSUME NEW i \in 0 .. m + 1 - 1 PROVE Go(f, h, i) \in ClusterNos BY DEF Long
<1>1. i = m \/ i \in 0 .. m - 1 OBVIOUS
<1> QED BY <1>1 DEF Long

LEMMA LongLess ==
    ASSUME NEW f, NEW h, NEW m \in Nat, NEW j \in 0 .. m, Long(f, h, m)
    PROVE  Long(f, h, j)
BY DEF Long


-----------------------------------------------------------------------------
(* As long as no transfer failed, the chains are as long as the sizes in the  *)
(* directory and in the nodes say, and as the operation has found them.      *)
Room(f, h, z) == \E m \in Nat : z <= SPC * m /\ Long(f, h, m)
SizesHold(f, d, nd) ==
    /\ \A s \in 1 .. DirSlots : Room(f, d[s].first, d[s].size)
    /\ \A n \in FatNodes : Room(f, nd[n].first, nd[n].size)
Walked(f, h, o) ==
    /\ o.pc \in {"extend", "clear", "link"} =>
          /\ Long(f, h, o.have) /\ o.done = 0
          /\ o.have = 0 => o.last = NoCluster /\ h = NoCluster
          /\ o.have # 0 => o.last = Go(f, h, o.have - 1) /\ f[o.last] = EOC
    /\ o.pc \in {"data", "entry"} =>
          Long(f, h, o.have) /\ o.pos + o.count <= SPC * o.have /\ o.done <= o.count
FatLengths == faults = 0 => SizesHold(fat, dir, fatNode) /\ Walked(fat, OpNode.first, op)

LEMMA RoomGrows ==
    ASSUME NEW f, Table(f), NEW g, Table(g), Grows(f, g), NEW h, NEW z, Room(f, h, z)
    PROVE  Room(g, h, z)
<1>1. PICK m \in Nat : z <= SPC * m /\ Long(f, h, m) BY DEF Room
<1>2. Long(g, h, m) BY <1>1, LongGrows
<1> QED BY <1>1, <1>2 DEF Room

LEMMA SizesGrow ==
    ASSUME NEW f, Table(f), NEW g, Table(g), Grows(f, g), NEW d, NEW nd, SizesHold(f, d, nd)
    PROVE  SizesHold(g, d, nd)
<1>1. \A h, z : Room(f, h, z) => Room(g, h, z) BY RoomGrows
<1> QED BY Zenon, <1>1 DEF SizesHold

LEMMA NothingRoom == ASSUME NEW f, Table(f), NEW z \in Nat, Room(f, NoCluster, z) PROVE z = 0
<1>1. PICK m \in Nat : z <= SPC * m /\ Long(f, NoCluster, m) BY DEF Room
<1>2. m = 0
  <2> SUFFICES ASSUME m # 0 PROVE FALSE OBVIOUS
  <2>1. 0 \in 0 .. m - 1 /\ 0 \in Nat OBVIOUS
  <2> QED BY <1>1, <2>1, NothingGoes DEF Long
<1>3. SPC * m = 0 BY <1>2, FatAssumption DEF FatAssumption
<1> QED BY <1>1, <1>3

LEMMA RoomZero == ASSUME NEW f, NEW h PROVE Room(f, h, 0)
<1>1. 0 \in Nat /\ 0 <= SPC * 0 BY FatAssumption DEF FatAssumption
<1>2. Long(f, h, 0) BY DEF Long
<1> QED BY <1>1, <1>2 DEF Room

LEMMA WalkedIdle == \A f, h : Walked(f, h, Idle)
BY IdleIs DEF Walked

LEMMA SizesAre ==
    ASSUME Linking
    PROVE  /\ \A s \in 1 .. DirSlots : dir[s].first \in Firsts /\ dir[s].size \in Nat
           /\ \A n \in FatNodes : fatNode[n].first \in Firsts /\ fatNode[n].size \in Nat
BY DEF Linking, FatTypes, EntryType, NodeType

-----------------------------------------------------------------------------
LEMMA InitLengths == ASSUME FatInit PROVE FatLengths
<1>1. \A s \in 1 .. DirSlots : dir[s].first = NoCluster /\ dir[s].size = 0 BY DEF FatInit, NoEntry
<1>2. \A n \in FatNodes : fatNode[n].first = NoCluster /\ fatNode[n].size = 0 BY DEF FatInit, NoFile
<1>3. SizesHold(fat, dir, fatNode) BY Zenon, <1>1, <1>2, RoomZero DEF SizesHold
<1>4. op = Idle BY DEF FatInit
<1> QED BY Zenon, <1>3, <1>4, WalkedIdle DEF FatLengths

LEMMA CreateLengths == ASSUME Linking, FatLengths, NEW name \in FileNames, CreateFile(name) PROVE FatLengths'
<1> SUFFICES ASSUME faults' = 0 PROVE SizesHold(fat', dir', fatNode') /\ Walked(fat', OpNode'.first, op') BY Zenon DEF FatLengths
<1>1. PICK i \in 1 .. DirSlots, e \in EntryType :
         /\ e.first = NoCluster /\ e.size = 0 /\ dir'[i] = e
         /\ \A s \in 1 .. DirSlots : s # i => dir'[s] = dir[s]
  BY Creates
<1>2. UNCHANGED <<fat, fatNode, op, faults>> /\ op = Idle BY Zenon, Creates
<1>3. SizesHold(fat, dir, fatNode) BY Zenon, <1>2 DEF FatLengths
<1>4. SizesHold(fat, dir', fatNode) BY Zenon, <1>1, <1>3, RoomZero DEF SizesHold
<1> QED BY Zenon, <1>2, <1>4, WalkedIdle

LEMMA LookupLengths == ASSUME Linking, FatLengths, NEW name, Lookup(name) PROVE FatLengths'
<1> SUFFICES ASSUME faults' = 0 PROVE SizesHold(fat', dir', fatNode') /\ Walked(fat', OpNode'.first, op') BY Zenon DEF FatLengths
<1>1. PICK s \in 1 .. DirSlots, n \in FatNodes :
         /\ fatNode'[n].first = dir[s].first /\ fatNode'[n].size = dir[s].size
         /\ \A m \in FatNodes : m # n => fatNode'[m] = fatNode[m]
  BY LooksUp
<1>2. UNCHANGED <<fat, dir, op, faults>> /\ op = Idle BY Zenon, LooksUp
<1>3. SizesHold(fat, dir, fatNode) BY Zenon, <1>2 DEF FatLengths
<1>4. SizesHold(fat, dir, fatNode') BY Zenon, <1>1, <1>3 DEF SizesHold
<1> QED BY Zenon, <1>2, <1>4, WalkedIdle

LEMMA BeginLengths ==
    ASSUME fat_bits = 32, Linking, FatLengths, NEW n \in FatNodes, NEW pos \in Nat, NEW count \in Nat, Begin(n, pos, count)
    PROVE  FatLengths'
<1> SUFFICES ASSUME faults' = 0 PROVE SizesHold(fat', dir', fatNode') /\ Walked(fat', OpNode'.first, op') BY Zenon DEF FatLengths
<1> DEFINE h == fatNode[n].first
           walk == ChainLength(h)
           q == IF Circular(h) /\ walk = walk THEN "hung" ELSE "extend"
           l == IF walk = 0 THEN NoCluster ELSE After(h, walk - 1)
<1>1. PICK have \in 0 .. walk :
         /\ IF have = walk THEN Sound ELSE have > 0 /\ Fails
         /\ op' = [Idle EXCEPT
                !.pc = IF Circular(fatNode[n].first) /\ have = walk THEN "hung" ELSE "extend",
                !.n = n, !.pos = pos, !.count = count, !.have = have,
                !.last = IF have = 0 THEN NoCluster ELSE After(fatNode[n].first, have - 1)]
         /\ UNCHANGED <<fat, dir, fatNode>>
  BY Zenon DEF Begin
<1>2. faults = 0 /\ Sound
  <2>1. Sound \/ Fails BY Zenon, <1>1
  <2> QED BY <2>1, NoFaults
<1>3. have = walk
  <2>1. ~Fails BY <1>2 DEF Sound, Fails
  <2> QED BY Zenon, <1>1, <2>1
<1>4. op' = [pc |-> q, n |-> n, pos |-> pos, count |-> count, done |-> 0, last |-> l, have |-> walk, new |-> NoCluster]
  BY <1>1, <1>3 DEF Idle
<1>5. q \in {"hung", "extend"} OBVIOUS
<1>6. l = IF walk = 0 THEN NoCluster ELSE Go(fat, h, walk - 1) BY Zenon, AfterIs
<1>7. h = NoCluster \/ Starts(fat, h) BY NodeStarts
<1> HIDE DEF h, l, q
<1>8. /\ walk \in Nat /\ Long(fat, h, walk) /\ (walk = 0 => h = NoCluster)
      /\ walk # 0 => fat[Go(fat, h, walk - 1)] = EOC
  <2>1. Table(fat) /\ Forest(fat) BY DEF Linking, FatTypes, FatChains
  <2> QED BY <1>7, <2>1, WalkIs
<1> HIDE DEF walk
<1>9. op'.pc = q /\ op'.n = n /\ op'.done = 0 /\ op'.last = l /\ op'.have = walk BY <1>4
<1>10. Walked(fat, h, op')
  <2>1. q \notin {"data", "entry"} BY <1>5
  <2>2. walk # 0 => l = Go(fat, h, walk - 1) /\ fat[l] = EOC BY Zenon, <1>6, <1>8
  <2>3. walk = 0 => l = NoCluster BY Zenon, <1>6
  <2> QED BY Zenon, <1>8, <1>9, <2>1, <2>2, <2>3 DEF Walked
<1>11. OpNode'.first = h BY Zenon, <1>1, <1>9 DEF OpNode, h
<1>12. SizesHold(fat, dir, fatNode) BY Zenon, <1>2 DEF FatLengths
<1> QED BY Zenon, <1>1, <1>10, <1>11, <1>12

LEMMA ReturnLengths ==
    ASSUME Linking, FatLengths, UNCHANGED <<fat, dir, fatNode>>, op' = Idle, Sound \/ Fails
    PROVE  FatLengths'
<1> SUFFICES ASSUME faults' = 0 PROVE SizesHold(fat', dir', fatNode') /\ Walked(fat', OpNode'.first, op') BY Zenon DEF FatLengths
<1>1. faults = 0 BY NoFaults
<1>2. SizesHold(fat, dir, fatNode) BY Zenon, <1>1 DEF FatLengths
<1> QED BY Zenon, <1>2, WalkedIdle

LEMMA ExtendedLengths == ASSUME Linking, FatLengths, Extended PROVE FatLengths'
<1> SUFFICES ASSUME faults' = 0 PROVE SizesHold(fat', dir', fatNode') /\ Walked(fat', OpNode'.first, op') BY Zenon DEF FatLengths
<1>1. /\ op' = [op EXCEPT !.pc = "data"] /\ op.pc = "extend" /\ UNCHANGED <<fat, dir, fatNode, faults>>
      /\ op.have >= NeededNow
  BY DEF Extended
<1>2. op'.pc = "data" /\ op'.n = op.n /\ op'.have = op.have /\ op'.pos = op.pos /\ op'.count = op.count /\ op'.done = op.done
  BY <1>1, OpIs DEF OpType
<1>3. SizesHold(fat, dir, fatNode) /\ Walked(fat, OpNode.first, op) BY Zenon, <1>1 DEF FatLengths
<1>4. Long(fat, OpNode.first, op.have) /\ op.done = 0 BY Zenon, <1>1, <1>3 DEF Walked
<1>5. op.pos + op.count <= SPC * op.have /\ op.done <= op.count
  <2> DEFINE b == op.pos + op.count
             z == fatNode[op.n].size
             x == Max({b, z})
  <2>1. op.pos \in Nat /\ op.count \in Nat /\ op.have \in Nat BY OpIs DEF OpType
  <2>2. z \in Nat /\ b \in Nat
    <3>1. op.n \in FatNodes BY <1>1 DEF Linking, FatTypes
    <3> QED BY <2>1, <3>1, SizesAre
  <2>3. NeededNow = Needed(x) BY DEF NeededNow
  <2> HIDE DEF b, z
  <2>4. x \in Nat /\ b <= x BY <2>2, MaxOfTwo
  <2> HIDE DEF x
  <2>5. op.have >= Needed(x) BY <1>1, <2>3
  <2>6. SPC * op.have \in Nat /\ x <= SPC * op.have BY <2>1, <2>4, <2>5, NeededIs
  <2> DEFINE y == SPC * op.have
  <2>7. y \in Nat /\ x <= y BY <2>6
  <2> HIDE DEF y
  <2>8. b <= y BY <2>2, <2>4, <2>7
  <2> QED BY <1>4, <2>1, <2>8 DEF b, y
<1>6. Walked(fat, OpNode.first, op') BY Zenon, <1>2, <1>4, <1>5 DEF Walked
<1>7. OpNode' = OpNode BY Zenon, <1>1, <1>2 DEF OpNode
<1> QED BY Zenon, <1>1, <1>3, <1>6, <1>7


LEMMA LengthsOn ==
    ASSUME Linking, FatLengths, UNCHANGED <<fat, dir, fatNode>>, Sound \/ Fails, op'.n = op.n,
           Walked(fat, OpNode.first, op) => Walked(fat, OpNode.first, op')
    PROVE  FatLengths'
<1> SUFFICES ASSUME faults' = 0 PROVE SizesHold(fat', dir', fatNode') /\ Walked(fat', OpNode'.first, op') BY Zenon DEF FatLengths
<1>1. faults = 0 BY NoFaults
<1>2. SizesHold(fat, dir, fatNode) /\ Walked(fat, OpNode.first, op') BY Zenon, <1>1 DEF FatLengths
<1>3. OpNode' = OpNode BY Zenon DEF OpNode
<1> QED BY Zenon, <1>2, <1>3

LEMMA ClearLengths == ASSUME Linking, FatLengths, Clear PROVE FatLengths'
<1>1. op' = [op EXCEPT !.pc = "link"] /\ op.pc = "clear" /\ UNCHANGED <<fat, dir, fatNode>> /\ (Sound \/ Fails)
  BY DEF Clear
<1>2. op'.pc = "link" /\ op'.n = op.n /\ op'.have = op.have /\ op'.done = op.done /\ op'.last = op.last
  BY <1>1, OpIs DEF OpType
<1>3. Walked(fat, OpNode.first, op) => Walked(fat, OpNode.first, op') BY <1>1, <1>2 DEF Walked
<1> QED BY <1>1, <1>2, <1>3, LengthsOn

LEMMA WriteSectorLengths == ASSUME Linking, FatLengths, WriteSector PROVE FatLengths'
<1>1. UNCHANGED <<fat, dir, fatNode>> /\ op.pc = "data" /\ op.done < op.count BY DEF WriteSector
<1>2. CASE op' = [op EXCEPT !.done = op.done + 1] /\ Sound
  <2>1. op.done + 1 <= op.count BY <1>1, OpIs DEF OpType
  <2>2. op'.pc = "data" /\ op'.n = op.n /\ op'.have = op.have /\ op'.pos = op.pos /\ op'.count = op.count /\ op'.done = op.done + 1
    BY <1>1, <1>2, OpIs DEF OpType
  <2>3. Walked(fat, OpNode.first, op) => Walked(fat, OpNode.first, op') BY <1>1, <2>1, <2>2 DEF Walked
  <2> QED BY <1>1, <1>2, <2>2, <2>3, LengthsOn
<1>3. CASE op' = Idle /\ Fails BY <1>1, <1>3, ReturnLengths
<1> QED BY <1>2, <1>3 DEF WriteSector, Return

LEMMA NoSpaceLengths == ASSUME Linking, FatLengths, NoSpace PROVE FatLengths'
BY ReturnLengths DEF NoSpace, Return, Sound

LEMMA BeyondDiskLengths == ASSUME Linking, FatLengths, BeyondDisk PROVE FatLengths'
BY ReturnLengths DEF BeyondDisk, Return, Sound

LEMMA CrashLengths == ASSUME Linking, FatLengths, Crash PROVE FatLengths'
<1> SUFFICES ASSUME faults' = 0 PROVE SizesHold(fat', dir', fatNode') /\ Walked(fat', OpNode'.first, op') BY Zenon DEF FatLengths
<1>1. fatNode' = [n \in FatNodes |-> NoFile] /\ op' = Idle /\ UNCHANGED <<fat, dir, faults>> BY DEF Crash
<1>2. \A n \in FatNodes : fatNode'[n].first = NoCluster /\ fatNode'[n].size = 0 BY <1>1 DEF NoFile
<1>3. SizesHold(fat, dir, fatNode) BY Zenon, <1>1 DEF FatLengths
<1>4. SizesHold(fat, dir, fatNode') BY Zenon, <1>2, <1>3, RoomZero DEF SizesHold
<1> QED BY Zenon, <1>1, <1>4, WalkedIdle

LEMMA WriteEndsLengths == ASSUME Linking, FatLengths, WriteEnds PROVE FatLengths'
<1> SUFFICES ASSUME faults' = 0 PROVE SizesHold(fat', dir', fatNode') /\ Walked(fat', OpNode'.first, op') BY Zenon DEF FatLengths
<1>1. /\ op.pc = "data" /\ op' = [op EXCEPT !.pc = "entry"] /\ UNCHANGED <<fat, dir>> /\ (Sound \/ Fails)
      /\ op.n \in FatNodes /\ OpNode = fatNode[op.n] /\ OpNode.size \in Nat /\ Here \in Nat
      /\ fatNode'[op.n].first = OpNode.first /\ fatNode'[op.n].size = Max({OpNode.size, Here})
      /\ \A m \in FatNodes : m # op.n => fatNode'[m] = fatNode[m]
  BY EndsWrite
<1>2. faults = 0 BY <1>1, NoFaults
<1>3. SizesHold(fat, dir, fatNode) /\ Walked(fat, OpNode.first, op) BY Zenon, <1>2 DEF FatLengths
<1>4. op'.pc = "entry" /\ op'.n = op.n /\ op'.have = op.have /\ op'.pos = op.pos /\ op'.count = op.count /\ op'.done = op.done
  BY <1>1, OpIs DEF OpType
<1>5. Long(fat, OpNode.first, op.have) /\ op.pos + op.count <= SPC * op.have /\ op.done <= op.count
  BY Zenon, <1>1, <1>3 DEF Walked
<1>6. Room(fat, OpNode.first, Here)
  <2>1. op.pos \in Nat /\ op.count \in Nat /\ op.have \in Nat /\ op.done \in Nat BY OpIs DEF OpType
  <2> DEFINE y == SPC * op.have
  <2>2. y \in Nat BY <2>1, FatAssumption DEF FatAssumption
  <2>3. op.pos + op.count <= y BY <1>5
  <2> HIDE DEF y
  <2>4. Here <= y BY <1>5, <2>1, <2>2, <2>3 DEF Here
  <2> QED BY <1>5, <2>1, <2>4 DEF Room, y
<1>7. Room(fat, OpNode.first, fatNode'[op.n].size)
  <2>1. Max({OpNode.size, Here}) \in {OpNode.size, Here} BY <1>1, MaxOfTwo
  <2>2. Room(fat, OpNode.first, OpNode.size) BY Zenon, <1>1, <1>3 DEF SizesHold
  <2> QED BY Zenon, <1>1, <1>6, <2>1, <2>2
<1>8. SizesHold(fat, dir, fatNode') BY Zenon, <1>1, <1>3, <1>7 DEF SizesHold
<1>9. Walked(fat, OpNode.first, op') BY <1>4, <1>5 DEF Walked
<1>10. OpNode'.first = OpNode.first BY Zenon, <1>1, <1>4 DEF OpNode
<1> QED BY Zenon, <1>1, <1>8, <1>9, <1>10

LEMMA UpdateEntryLengths == ASSUME Linking, FatLengths, UpdateEntry PROVE FatLengths'
<1> SUFFICES ASSUME faults' = 0 PROVE SizesHold(fat', dir', fatNode') /\ Walked(fat', OpNode'.first, op') BY Zenon DEF FatLengths
<1>1. /\ OpNode.slot \in 1 .. DirSlots /\ op.n \in FatNodes /\ OpNode = fatNode[op.n]
      /\ \A t \in 1 .. DirSlots : t # OpNode.slot => dir'[t] = dir[t]
      /\ \/ dir' = dir /\ Fails
         \/ dir'[OpNode.slot].first = OpNode.first /\ dir'[OpNode.slot].size = OpNode.size /\ Sound
      /\ op' = Idle /\ UNCHANGED <<fat, fatNode>>
  BY UpdatesEntry
<1>2. faults = 0
  <2>1. Sound \/ Fails BY Zenon, <1>1
  <2> QED BY <2>1, NoFaults
<1>3. SizesHold(fat, dir, fatNode) BY Zenon, <1>2 DEF FatLengths
<1>4. SizesHold(fat, dir', fatNode) BY Zenon, <1>1, <1>3 DEF SizesHold
<1> QED BY Zenon, <1>1, <1>4, WalkedIdle

LEMMA MarkLengths == ASSUME Linking, FatLengths, Mark PROVE FatLengths'
<1> SUFFICES ASSUME faults' = 0 PROVE SizesHold(fat', dir', fatNode') /\ Walked(fat', OpNode'.first, op') BY Zenon DEF FatLengths
<1> DEFINE c == AllocCluster
           g == MarkIn(fat, c)
           o == [op EXCEPT !.pc = "clear", !.new = c]
           h == OpNode.first
<1>1. /\ op.pc = "extend" /\ UNCHANGED <<dir, fatNode>> /\ FreeClusters # {}
      /\ \/ fat' = g /\ op' = o /\ Sound
         \/ Fails /\ op' = Idle
  BY DEF Mark, Return, MarkIn
<1>2. c \in ClusterNos /\ fat[c] = Free BY <1>1, FreeIs
<1>3. faults = 0 /\ Sound
  <2>1. Sound \/ Fails BY Zenon, <1>1
  <2> QED BY <2>1, NoFaults
<1>4. fat' = g /\ op' = o
  <2>1. ~Fails BY <1>3 DEF Sound, Fails
  <2> QED BY Zenon, <1>1, <2>1
<1>5. o.pc = "clear" /\ o.n = op.n /\ o.have = op.have /\ o.done = op.done /\ o.last = op.last BY OpIs DEF OpType
<1> HIDE DEF c, o, h
<1>6. Table(fat) /\ Forest(fat) BY DEF Linking, FatTypes, FatChains
<1>7. Table(g) /\ Grows(fat, g) /\ \A d \in ClusterNos : fat[d] # Free => g[d] = fat[d]
  BY <1>2, <1>6, MarkIs
<1> HIDE DEF g
<1>8. SizesHold(fat, dir, fatNode) /\ Walked(fat, h, op) BY Zenon, <1>3 DEF FatLengths, h
<1>9. SizesHold(g, dir, fatNode) BY <1>6, <1>7, <1>8, SizesGrow
<1>10. /\ Long(fat, h, op.have) /\ op.done = 0
       /\ op.have = 0 => op.last = NoCluster /\ h = NoCluster
       /\ op.have # 0 => op.last = Go(fat, h, op.have - 1) /\ fat[op.last] = EOC
  BY Zenon, <1>1, <1>8 DEF Walked
<1>11. op.have \in Nat BY OpIs DEF OpType
<1>12. Long(g, h, op.have) BY <1>6, <1>7, <1>10, <1>11, LongGrows
<1>13. op.have # 0 => op.last = Go(g, h, op.have - 1) /\ g[op.last] = EOC
  <2> SUFFICES ASSUME op.have # 0 PROVE op.last = Go(g, h, op.have - 1) /\ g[op.last] = EOC OBVIOUS
  <2> DEFINE k == op.have - 1
  <2>1. k \in Nat /\ k \in 0 .. op.have - 1 BY <1>11
  <2>2. op.last = Go(fat, h, k) /\ fat[op.last] = EOC BY <1>10
  <2> HIDE DEF k
  <2>3. Go(fat, h, k) \in ClusterNos BY <1>10, <2>1 DEF Long
  <2>4. Go(g, h, k) = Go(fat, h, k) BY <1>6, <1>7, <2>1, <2>3, GoGrows
  <2>5. g[op.last] = EOC BY Zenon, <1>7, <2>2, <2>3, ClustersAre
  <2> QED BY Zenon, <2>2, <2>4, <2>5 DEF k
<1>14. Walked(g, h, o)
  <2>1. o.pc \notin {"data", "entry"} BY <1>5
  <2> QED BY Zenon, <1>5, <1>10, <1>12, <1>13, <2>1 DEF Walked
<1>15. OpNode' = OpNode BY Zenon, <1>1, <1>4, <1>5 DEF OpNode
<1> QED BY Zenon, <1>1, <1>4, <1>9, <1>14, <1>15 DEF h

(* What the operation has walked over, when it is to link a cluster behind    *)
(* the last.                                                                 *)
LEMMA LinkedWalk ==
    ASSUME Linking, op.pc = "link", op.last # NoCluster, NEW h, Walked(fat, h, op), NEW g, g = LinkIn(fat, op.last, op.new)
    PROVE  /\ Table(g) /\ Grows(fat, g) /\ Walked(g, h, Linked) /\ fat[op.last] = EOC /\ op.last \in ClusterNos
           /\ op.last = Go(fat, h, op.have - 1) /\ op.have \in Nat \ {0} /\ Long(fat, h, op.have)
<1>1. /\ op.new \in ClusterNos /\ Starts(fat, op.new) /\ fat[op.new] = EOC /\ op.new # op.last
      /\ op.last \in ClusterNos /\ fat[op.last] # Free
      /\ Linked.pc = "extend" /\ Linked.last = op.new /\ Linked.have = op.have + 1
  BY LinkingNow
<1>2. Table(fat) /\ Forest(fat) BY DEF Linking, FatTypes, FatChains
<1>3. Long(fat, h, op.have) /\ op.done = 0 /\ op.have # 0 /\ op.last = Go(fat, h, op.have - 1) /\ fat[op.last] = EOC
  BY Zenon DEF Walked
<1>4. Table(g) /\ g[op.last] = op.new /\ g[op.new] = EOC /\ Grows(fat, g) BY <1>1, <1>2, <1>3, LinkIs
<1> DEFINE k == op.have - 1
<1>5. op.have \in Nat /\ k \in Nat /\ k + 1 = op.have /\ op.have + 1 - 1 = op.have /\ op.have + 1 # 0 BY <1>3, OpIs DEF OpType
<1>6. op.last = Go(fat, h, k) BY <1>3
<1> HIDE DEF k
<1>7. Go(g, h, k) = op.last BY <1>1, <1>2, <1>4, <1>5, <1>6, GoGrows
<1>8. Go(g, h, k + 1) = Next(g, op.last)
  <2>1. k \in Nat BY <1>5
  <2>2. Go(g, h, k + 1) = Next(g, Go(g, h, k)) BY <2>1, GoStep
  <2> QED BY Zenon, <1>7, <2>2
<1>9. Go(g, h, op.have) = op.new BY <1>1, <1>4, <1>5, <1>8, NextIs
<1>10. Long(g, h, op.have) BY <1>2, <1>3, <1>4, <1>5, LongGrows
<1>11. Long(g, h, op.have + 1) BY <1>1, <1>5, <1>9, <1>10, OneMore
<1>12. Linked.done = 0 BY <1>3, OpIs DEF Linked, OpType
<1>13. Walked(g, h, Linked)
  <2>1. Linked.pc \notin {"data", "entry"} /\ Linked.have # 0 BY <1>1, <1>5
  <2>2. Linked.last = Go(g, h, Linked.have - 1) BY <1>1, <1>5, <1>9
  <2> QED BY <1>1, <1>4, <1>11, <1>12, <2>1, <2>2 DEF Walked
<1> QED BY <1>1, <1>3, <1>4, <1>5, <1>13

LEMMA LinkLengths == ASSUME Linking, FatLengths, Link PROVE FatLengths'
<1> SUFFICES ASSUME faults' = 0 PROVE SizesHold(fat', dir', fatNode') /\ Walked(fat', OpNode'.first, op') BY Zenon DEF FatLengths
<1> DEFINE g == LinkIn(fat, op.last, op.new)
           h == OpNode.first
<1>1. /\ op.pc = "link" /\ op.last # NoCluster /\ UNCHANGED <<dir, fatNode>>
      /\ \/ fat' = g /\ op' = Linked /\ Sound
         \/ Fails /\ op' = Idle
  BY DEF Link, Return, LinkIn
<1>2. faults = 0 /\ Sound
  <2>1. Sound \/ Fails BY Zenon, <1>1
  <2> QED BY <2>1, NoFaults
<1>3. fat' = g /\ op' = Linked
  <2>1. ~Fails BY <1>2 DEF Sound, Fails
  <2> QED BY Zenon, <1>1, <2>1
<1>4. SizesHold(fat, dir, fatNode) /\ Walked(fat, h, op) BY Zenon, <1>2 DEF FatLengths
<1> HIDE DEF h
<1>5. Table(g) /\ Grows(fat, g) /\ Walked(g, h, Linked) BY <1>1, <1>4, LinkedWalk
<1> HIDE DEF g
<1>6. Table(fat) BY DEF Linking, FatTypes
<1>7. SizesHold(g, dir, fatNode) BY <1>4, <1>5, <1>6, SizesGrow
<1>8. Linked.n = op.n BY <1>1, LinkingNow
<1>9. OpNode' = OpNode BY Zenon, <1>1, <1>3, <1>8 DEF OpNode
<1> QED BY Zenon, <1>1, <1>3, <1>5, <1>7, <1>9 DEF h

(* The file had nothing so far.                                              *)
LEMMA FirstWalk ==
    ASSUME Linking, FatLengths, faults = 0, op.pc = "link", op.last = NoCluster
    PROVE  /\ OpNode.first = NoCluster /\ OpNode.size = 0 /\ op.have = 0 /\ op.done = 0
           /\ Walked(fat, op.new, Linked)
<1>1. SizesHold(fat, dir, fatNode) /\ Walked(fat, OpNode.first, op) BY Zenon DEF FatLengths
<1>2. op.n \in FatNodes /\ OpNode = fatNode[op.n] BY DEF Linking, FatTypes, OpNode
<1>3. /\ Long(fat, OpNode.first, op.have) /\ op.done = 0
      /\ op.have = 0 => OpNode.first = NoCluster
      /\ op.have # 0 => op.last = Go(fat, OpNode.first, op.have - 1)
  BY Zenon, <1>1 DEF Walked
<1>4. op.have = 0
  <2> SUFFICES ASSUME op.have # 0 PROVE FALSE OBVIOUS
  <2>1. op.have - 1 \in 0 .. op.have - 1 BY OpIs DEF OpType
  <2>2. Go(fat, OpNode.first, op.have - 1) \in ClusterNos BY <1>3, <2>1 DEF Long
  <2> QED BY Zenon, <1>3, <2>2, ClustersAre
<1>5. OpNode.first = NoCluster BY <1>3, <1>4
<1>6. OpNode.size = 0
  <2>1. Table(fat) BY DEF Linking, FatTypes
  <2>2. OpNode.size \in Nat BY <1>2, SizesAre
  <2>3. Room(fat, NoCluster, OpNode.size) BY Zenon, <1>1, <1>2, <1>5 DEF SizesHold
  <2> QED BY <2>1, <2>2, <2>3, NothingRoom
<1>7. /\ op.new \in ClusterNos /\ fat[op.new] = EOC
      /\ Linked.pc = "extend" /\ Linked.last = op.new /\ Linked.have = op.have + 1
  BY LinkingNow
<1>8. Linked.done = 0 BY <1>3, OpIs DEF Linked, OpType
<1>9. Linked.have = 1 BY <1>4, <1>7
<1>10. Go(fat, op.new, 0) = op.new BY GoStep
<1>11. Long(fat, op.new, 1)
  <2>1. \A i \in 0 .. 1 - 1 : i = 0 OBVIOUS
  <2> QED BY <1>7, <1>10, <2>1 DEF Long
<1>12. Walked(fat, op.new, Linked)
  <2>1. Linked.pc \notin {"data", "entry"} /\ Linked.have # 0 BY <1>7, <1>9
  <2>2. Linked.have - 1 = 0 BY <1>9
  <2>3. Linked.last = Go(fat, op.new, Linked.have - 1) /\ fat[Linked.last] = EOC BY <1>7, <1>10, <2>2
  <2>4. Long(fat, op.new, Linked.have) BY <1>9, <1>11
  <2> QED BY Zenon, <1>7, <1>8, <2>1, <2>3, <2>4 DEF Walked
<1> QED BY <1>3, <1>4, <1>5, <1>6, <1>12

LEMMA LinkFirstLengths == ASSUME Linking, FatLengths, LinkFirst PROVE FatLengths'
<1> SUFFICES ASSUME faults' = 0 PROVE SizesHold(fat', dir', fatNode') /\ Walked(fat', OpNode'.first, op') BY Zenon DEF FatLengths
<1>1. /\ op.pc = "link" /\ op.last = NoCluster /\ UNCHANGED <<fat, dir, faults>> /\ op' = Linked
      /\ op.n \in FatNodes
      /\ fatNode'[op.n].first = op.new /\ fatNode'[op.n].size = OpNode.size
      /\ \A m \in FatNodes : m # op.n => fatNode'[m] = fatNode[m]
  BY LinksFirst
<1>2. SizesHold(fat, dir, fatNode) BY Zenon, <1>1 DEF FatLengths
<1>3. OpNode.size = 0 /\ Walked(fat, op.new, Linked)
  <2>1. faults = 0 BY <1>1
  <2> QED BY <1>1, <2>1, FirstWalk
<1>4. SizesHold(fat, dir, fatNode') BY Zenon, <1>1, <1>2, <1>3, RoomZero DEF SizesHold
<1>5. Linked.n = op.n BY <1>1, LinkingNow
<1>6. OpNode'.first = op.new BY Zenon, <1>1, <1>5 DEF OpNode
<1> QED BY Zenon, <1>1, <1>3, <1>4, <1>6

LEMMA LengthsSteps == ASSUME fat_bits = 32, Linking, FatLengths, FatNext \/ UNCHANGED fatVars PROVE FatLengths'
<1>1. CASE UNCHANGED fatVars BY <1>1 DEF fatVars, FatLengths, OpNode
<1>2. ASSUME NEW name \in FileNames, CreateFile(name) \/ Lookup(name) PROVE FatLengths' BY <1>2, CreateLengths, LookupLengths
<1>3. ASSUME NEW n \in FatNodes, NEW pos \in 0 .. MaxSectors - 1, NEW count \in 1 .. MaxSectors, Begin(n, pos, count)
      PROVE  FatLengths'
  BY <1>3, BeginLengths, FatAssumption DEF FatAssumption
<1> QED BY <1>1, <1>2, <1>3, ExtendedLengths, NoSpaceLengths, MarkLengths, ClearLengths, LinkFirstLengths, LinkLengths,
        WriteSectorLengths, BeyondDiskLengths, WriteEndsLengths, UpdateEntryLengths, CrashLengths DEF FatNext, FatStep


-----------------------------------------------------------------------------
(* What the disk shows then.                                                 *)
ChainOfIn(f, h) == {Go(f, h, k) : k \in 0 .. Clusters + 1} \cap ClusterNos

LEMMA ChainOfIs == ASSUME NEW h PROVE ChainOf(h) = ChainOfIn(fat, h)
<1>1. \A k : After(h, k) = Go(fat, h, k) BY AfterIs
<1> QED BY Zenon, <1>1 DEF ChainOf, ChainOfIn

LEMMA InChainOf ==
    ASSUME NEW f, NEW h, NEW d \in ChainOfIn(f, h)
    PROVE  d \in ClusterNos /\ \E k \in Nat : d = Go(f, h, k)
<1>1. \A k \in 0 .. Clusters + 1 : k \in Nat OBVIOUS
<1> QED BY Zenon, <1>1 DEF ChainOfIn

LEMMA ChainsApart ==
    ASSUME NEW f, Table(f), Forest(f), NEW h, Starts(f, h), NEW g, Starts(f, g), h # g
    PROVE  ChainOfIn(f, h) \cap ChainOfIn(f, g) = {}
<1> SUFFICES ASSUME NEW d, d \in ChainOfIn(f, h), d \in ChainOfIn(f, g) PROVE FALSE OBVIOUS
<1>1. PICK i \in Nat : d = Go(f, h, i) BY InChainOf
<1>2. PICK j \in Nat : d = Go(f, g, j) BY InChainOf
<1>3. Go(f, h, i) = Go(f, g, j) /\ Go(f, h, i) \in ClusterNos BY <1>1, <1>2, InChainOf
<1> QED BY <1>3, NoMeet

LEMMA EntryHead ==
    ASSUME Linking, NEW s \in UsedEntries
    PROVE  s \in 1 .. DirSlots /\ HeadIn(dir, fatNode, dir[s].first, s) /\ Starts(fat, dir[s].first)
<1>1. s \in 1 .. DirSlots /\ dir[s].first # NoCluster BY DEF UsedEntries
<1>2. HeadIn(dir, fatNode, dir[s].first, s) BY Zenon, <1>1 DEF HeadIn
<1>3. s \in 0 .. DirSlots BY <1>1
<1>4. Starts(fat, dir[s].first) BY Zenon, <1>2, <1>3 DEF Linking, FatChains, HeadsOf
<1> QED BY <1>1, <1>2, <1>4

LEMMA HeadsDiffer ==
    ASSUME Linking, NEW h, NEW s \in 0 .. DirSlots, HeadIn(dir, fatNode, h, s), NEW t \in 0 .. DirSlots, HeadIn(dir, fatNode, h, t)
    PROVE  s = t
BY Zenon DEF Linking, FatChains, HeadsOf

LEMMA RootHead ==
    ASSUME Linking
    PROVE  0 \in 0 .. DirSlots /\ HeadIn(dir, fatNode, ROOT, 0) /\ Starts(fat, ROOT)
<1>1. 0 \in 0 .. DirSlots BY FatAssumption DEF FatAssumption
<1>2. HeadIn(dir, fatNode, ROOT, 0) BY Zenon DEF HeadIn
<1>3. Starts(fat, ROOT) BY Zenon, <1>1, <1>2 DEF Linking, FatChains, HeadsOf
<1> QED BY <1>1, <1>2, <1>3

LEMMA LinkingMeans ==
    ASSUME fat_bits = 32, Linking, FatLengths
    PROVE  ChainsSound
<1>0. Table(fat) /\ Forest(fat) BY DEF Linking, FatTypes, FatChains
<1>1. ASSUME NEW c \in Heads PROVE (\A d \in ChainOf(c) : fat[d] # Free) /\ \E k \in 1 .. Clusters : After(c, k) = EOC
  <2>1. Starts(fat, c)
    <3>1. c = ROOT \/ \E s \in UsedEntries : c = dir[s].first BY DEF Heads
    <3> QED BY <3>1, EntryHead, RootHead
  <2>2. ASSUME NEW d \in ChainOf(c) PROVE fat[d] # Free
    <3>1. d \in ChainOfIn(fat, c) BY ChainOfIs
    <3>2. PICK k \in Nat : d = Go(fat, c, k) BY <3>1, InChainOf
    <3>3. Go(fat, c, k) \in ClusterNos BY <3>1, <3>2, InChainOf
    <3> QED BY <1>0, <2>1, <3>2, <3>3, GoInUse
  <2>3. PICK m \in 1 .. Clusters : Go(fat, c, m) = EOC BY <1>0, <2>1, ChainEnds
  <2>4. After(c, m) = EOC BY <2>3, AfterIs
  <2> QED BY <2>2, <2>4
<1>2. ASSUME NEW s \in UsedEntries PROVE ROOT \notin ChainOf(dir[s].first)
  <2> DEFINE h == dir[s].first
  <2>1. s \in 1 .. DirSlots /\ HeadIn(dir, fatNode, h, s) /\ Starts(fat, h) BY EntryHead
  <2>2. 0 \in 0 .. DirSlots /\ HeadIn(dir, fatNode, ROOT, 0) /\ Starts(fat, ROOT) BY RootHead
  <2>3. h # ROOT
    <3>1. s \in 0 .. DirSlots /\ s # 0 BY <2>1
    <3> HIDE DEF h
    <3> QED BY <2>1, <2>2, <3>1, HeadsDiffer
  <2>4. ROOT \in ChainOfIn(fat, ROOT)
    <3>1. Go(fat, ROOT, 0) = ROOT BY GoStep
    <3>2. 0 \in 0 .. Clusters + 1 /\ ROOT \in ClusterNos BY ClustersAre
    <3> QED BY Zenon, <3>1, <3>2 DEF ChainOfIn
  <2>5. ChainOfIn(fat, h) \cap ChainOfIn(fat, ROOT) = {}
    <3> HIDE DEF h
    <3> QED BY <1>0, <2>1, <2>2, <2>3, ChainsApart
  <2> QED BY <2>4, <2>5, ChainOfIs
<1>3. ASSUME NEW s \in UsedEntries, NEW t \in UsedEntries, s # t
      PROVE  ChainOf(dir[s].first) \cap ChainOf(dir[t].first) = {}
  <2> DEFINE h == dir[s].first
             g == dir[t].first
  <2>1. s \in 1 .. DirSlots /\ HeadIn(dir, fatNode, h, s) /\ Starts(fat, h) BY EntryHead
  <2>2. t \in 1 .. DirSlots /\ HeadIn(dir, fatNode, g, t) /\ Starts(fat, g) BY EntryHead
  <2>3. s \in 0 .. DirSlots /\ t \in 0 .. DirSlots BY <2>1, <2>2
  <2> HIDE DEF h, g
  <2>4. h # g BY <1>3, <2>1, <2>2, <2>3, HeadsDiffer
  <2>5. ChainOfIn(fat, h) \cap ChainOfIn(fat, g) = {} BY <1>0, <2>1, <2>2, <2>4, ChainsApart
  <2>6. ChainOf(h) \cap ChainOf(g) = {} BY <2>5, ChainOfIs
  <2> QED BY <2>6 DEF h, g
<1>4. ASSUME faults = 0, NEW s \in UsedEntries PROVE dir[s].size <= SPC * Cardinality(ChainOf(dir[s].first))
  <2> DEFINE h == dir[s].first
             z == dir[s].size
  <2>1. s \in 1 .. DirSlots /\ Starts(fat, h) BY EntryHead
  <2>2. z \in Nat BY <2>1, SizesAre
  <2>3. Room(fat, h, z) BY Zenon, <1>4, <2>1 DEF FatLengths, SizesHold
  <2>4. ChainOf(h) = ChainOfIn(fat, h) BY ChainOfIs
  <2> HIDE DEF h, z
  <2>5. PICK m \in Nat : z <= SPC * m /\ Long(fat, h, m) BY <2>3 DEF Room
  <2> DEFINE T == ChainOfIn(fat, h)
             q == Cardinality(T)
  <2>6. IsFiniteSet(T) /\ m <= q BY <1>0, <2>1, <2>5, LongIn DEF ChainOfIn
  <2>7. q \in Nat BY <2>6, FS_CardinalityType
  <2> HIDE DEF q
  <2>8. SPC \in Nat BY FatAssumption DEF FatAssumption
  <2> DEFINE a == SPC * m
             b == SPC * q
  <2>9. a \in Nat /\ b \in Nat /\ a <= b BY <2>6, <2>7, <2>8, TimesMore
  <2>10. z <= a BY <2>5
  <2> HIDE DEF a, b
  <2>11. z <= b BY <2>2, <2>9, <2>10
  <2> QED BY <2>4, <2>11 DEF h, z, b, q
<1> QED BY <1>1, <1>2, <1>3, <1>4 DEF ChainsSound

FatInv == fat_bits = 32 => Linking /\ FatLengths

(* On FAT32, whatever fails and wherever the machine stops, the chains of the *)
(* files and of the root consist of clusters in use, end, and are apart; and  *)
(* without a failed transfer each is as long as the directory promises: for  *)
(* every size of the disk, of the clusters and of the directory.             *)
THEOREM ChainsAreSound == FatSpec => []ChainsSound
<1>1. FatInit => FatInv BY InitLinks, InitLengths DEF FatInv
<1>2. FatInv /\ [FatNext]_fatVars => FatInv'
  <2> SUFFICES ASSUME FatInv, [FatNext]_fatVars PROVE FatInv' OBVIOUS
  <2>1. fat_bits' = fat_bits BY DEF FatNext, fatVars
  <2> SUFFICES ASSUME fat_bits = 32 PROVE Linking' /\ FatLengths' BY <2>1 DEF FatInv
  <2>2. Linking /\ FatLengths BY DEF FatInv
  <2> QED BY <2>2, LinkingSteps, LengthsSteps
<1>3. FatInv => ChainsSound
  <2>1. fat_bits # 32 => ChainsSound BY DEF ChainsSound
  <2> QED BY <2>1, LinkingMeans DEF FatInv
<1> QED BY <1>1, <1>2, <1>3, PTL DEF FatSpec


-----------------------------------------------------------------------------
(* What the files hold.  A node is of a file with a name, the sectors of a    *)
(* cluster are all there, and what is acknowledged is a name and a place.     *)
SlotsNamed(d, nd) == \A n \in FatNodes : nd[n].slot # 0 => d[nd[n].slot].name \in FileNames
SectorsWhole(sec) == DOMAIN sec = ClusterNos /\ \A c \in ClusterNos : DOMAIN sec[c] = 0 .. SPC - 1
FatNamed == SlotsNamed(dir, fatNode) /\ SectorsWhole(sectors) /\ acked \subseteq (FileNames \cup {""}) \X Nat

PutIn(sec, c, j, v) == [sec EXCEPT ![c][j] = v]

LEMMA PutIs ==
    ASSUME NEW sec, SectorsWhole(sec), NEW c \in ClusterNos, NEW j \in 0 .. SPC - 1, NEW v, NEW p, p = PutIn(sec, c, j, v)
    PROVE  /\ SectorsWhole(p) /\ p[c][j] = v
           /\ \A d \in ClusterNos : \A k \in 0 .. SPC - 1 : d # c \/ k # j => p[d][k] = sec[d][k]
<1> DEFINE r == [sec[c] EXCEPT ![j] = v]
<1>0. DOMAIN sec = ClusterNos /\ \A x \in ClusterNos : DOMAIN sec[x] = 0 .. SPC - 1 BY DEF SectorsWhole
<1>1. p = [sec EXCEPT ![c] = r] BY DEF PutIn
<1>2. DOMAIN r = 0 .. SPC - 1 /\ r[j] = v /\ \A k \in 0 .. SPC - 1 : k # j => r[k] = sec[c][k] BY <1>0
<1> HIDE DEF r
<1>3. DOMAIN p = ClusterNos /\ p[c] = r /\ \A d \in ClusterNos : d # c => p[d] = sec[d] BY <1>0, <1>1
<1>4. SectorsWhole(p) BY Zenon, <1>0, <1>2, <1>3 DEF SectorsWhole
<1>5. ASSUME NEW d \in ClusterNos, NEW k \in 0 .. SPC - 1, d # c \/ k # j PROVE p[d][k] = sec[d][k]
  <2>1. CASE d = c BY Zenon, <1>2, <1>3, <1>5, <2>1
  <2>2. CASE d # c BY Zenon, <1>3, <2>2
  <2> QED BY <2>1, <2>2
<1>6. p[c][j] = v BY Zenon, <1>2, <1>3
<1> QED BY Zenon, <1>4, <1>5, <1>6

LEMMA SlotsAre ==
    ASSUME Linking
    PROVE  /\ \A n \in FatNodes : fatNode[n].slot # 0 => fatNode[n].slot \in 1 .. DirSlots
           /\ op.pc # "idle" => op.n \in FatNodes /\ OpNode = fatNode[op.n] /\ OpNode.slot # 0 /\ OpNode.slot \in 1 .. DirSlots
<1>1. \A n \in FatNodes : fatNode[n].slot \in 0 .. DirSlots BY DEF Linking, FatTypes, NodeType
<1>2. \A n \in FatNodes : fatNode[n].slot # 0 => fatNode[n].slot \in 1 .. DirSlots BY <1>1, FatAssumption DEF FatAssumption
<1>3. op.pc # "idle" => op.n \in FatNodes /\ OpNode = fatNode[op.n] /\ OpNode.slot # 0 BY DEF Linking, FatTypes, OpNode
<1> QED BY Zenon, <1>2, <1>3

(* Where the operation writes next.                                          *)
LEMMA WritePlace ==
    ASSUME Linking, op.pc = "data"
    PROVE  /\ Here \in Nat /\ Here \div SPC \in Nat /\ Here % SPC \in 0 .. SPC - 1
           /\ HereCluster = Go(fat, OpNode.first, Here \div SPC)
           /\ Written = <<dir[OpNode.slot].name, Here>>
<1>1. Here \in Nat BY HereIs
<1>2. SPC \in Nat \ {0} BY FatAssumption DEF FatAssumption
<1>3. Here \div SPC \in Nat /\ (Here % SPC) \in 0 .. SPC - 1 BY <1>1, <1>2, Divided
<1>4. HereCluster = Go(fat, OpNode.first, Here \div SPC) BY AfterIs DEF HereCluster, OpNode
<1>5. Written = <<dir[OpNode.slot].name, Here>> BY DEF Written, OpNode
<1> QED BY <1>1, <1>3, <1>4, <1>5

LEMMA WritesOne ==
    ASSUME Linking, FatNamed, WriteSector
    PROVE  /\ op.pc = "data" /\ UNCHANGED <<fat, dir, fatNode, acked, twice>> /\ HereCluster \in ClusterNos
           /\ \/ sectors' = PutIn(sectors, HereCluster, Here % SPC, Written) /\ op' = [op EXCEPT !.done = op.done + 1] /\ Sound
              \/ /\ op' = Idle /\ Fails
                 /\ sectors' = sectors \/ sectors' = PutIn(sectors, HereCluster, Here % SPC, Written)
BY DEF WriteSector, Return, PutIn

-----------------------------------------------------------------------------
LEMMA InitNamed == ASSUME FatInit PROVE FatNamed
<1>1. SlotsNamed(dir, fatNode) BY DEF FatInit, NoFile, SlotsNamed
<1>2. SectorsWhole(sectors) BY DEF FatInit, SectorsWhole
<1> QED BY <1>1, <1>2 DEF FatInit, FatNamed

LEMMA CreateNamed == ASSUME Linking, FatNamed, NEW name \in FileNames, CreateFile(name) PROVE FatNamed'
<1>1. PICK i \in 1 .. DirSlots, e \in EntryType :
         /\ e.name = name /\ dir'[i] = e
         /\ \A s \in 1 .. DirSlots : s # i => dir'[s] = dir[s]
  BY Creates
<1>2. UNCHANGED <<sectors, fatNode, acked>> BY Creates
<1>3. \A n \in FatNodes : fatNode[n].slot # 0 => fatNode[n].slot \in 1 .. DirSlots BY SlotsAre
<1>4. SlotsNamed(dir', fatNode) BY Zenon, <1>1, <1>3 DEF FatNamed, SlotsNamed
<1> QED BY Zenon, <1>2, <1>4 DEF FatNamed

LEMMA LookupNamed == ASSUME Linking, FatNamed, NEW name \in FileNames, Lookup(name) PROVE FatNamed'
<1>1. PICK s \in 1 .. DirSlots, n \in FatNodes :
         /\ dir[s].name = name /\ fatNode'[n].slot = s
         /\ \A m \in FatNodes : m # n => fatNode'[m] = fatNode[m]
  BY LooksUp
<1>2. UNCHANGED <<sectors, dir, acked>> BY LooksUp
<1>3. SlotsNamed(dir, fatNode') BY Zenon, <1>1 DEF FatNamed, SlotsNamed
<1> QED BY Zenon, <1>2, <1>3 DEF FatNamed

LEMMA SameNamed == ASSUME FatNamed, UNCHANGED <<dir, fatNode, sectors, acked>> PROVE FatNamed'
BY Zenon DEF FatNamed

(* The node of the operation keeps its file.                                 *)
LEMMA NodesNamed ==
    ASSUME FatNamed, UNCHANGED <<dir, sectors, acked>>, NEW n \in FatNodes, fatNode'[n].slot = fatNode[n].slot,
           \A m \in FatNodes : m # n => fatNode'[m] = fatNode[m]
    PROVE  FatNamed'
<1>1. SlotsNamed(dir, fatNode') BY Zenon DEF FatNamed, SlotsNamed
<1> QED BY Zenon, <1>1 DEF FatNamed

LEMMA ClearsAll ==
    ASSUME Linking, FatNamed, Clear
    PROVE  /\ op.pc = "clear" /\ op' = [op EXCEPT !.pc = "link"] /\ UNCHANGED <<fat, dir, fatNode, acked, twice>> /\ (Sound \/ Fails)
           /\ SectorsWhole(sectors') /\ op.new \in ClusterNos
           /\ \A d \in ClusterNos : d # op.new => sectors'[d] = sectors[d]
           /\ Sound => \A j \in 0 .. SPC - 1 : sectors'[op.new][j] = Zero
<1>1. PICK kept \in SUBSET (0 .. SPC - 1) :
         /\ IF kept = {} THEN Sound ELSE Fails
         /\ sectors' = [sectors EXCEPT ![op.new] = [s \in 0 .. SPC - 1 |-> IF s \in kept THEN sectors[op.new][s] ELSE Zero]]
  BY DEF Clear
<1>2. op' = [op EXCEPT !.pc = "link"] /\ op.pc = "clear" /\ UNCHANGED <<fat, dir, fatNode, acked, twice>> BY DEF Clear
<1>3. op.new \in ClusterNos BY Zenon, <1>2 DEF Linking, FatChains, UnderWay, Starts
<1> DEFINE r == [s \in 0 .. SPC - 1 |-> IF s \in kept THEN sectors[op.new][s] ELSE Zero]
<1>4. DOMAIN r = 0 .. SPC - 1 /\ (kept = {} => \A j \in 0 .. SPC - 1 : r[j] = Zero) OBVIOUS
<1>5. sectors' = [sectors EXCEPT ![op.new] = r] BY <1>1
<1> HIDE DEF r
<1>6. DOMAIN sectors = ClusterNos /\ \A x \in ClusterNos : DOMAIN sectors[x] = 0 .. SPC - 1 BY DEF SectorsWhole, FatNamed
<1>7. DOMAIN sectors' = ClusterNos /\ sectors'[op.new] = r /\ \A d \in ClusterNos : d # op.new => sectors'[d] = sectors[d]
  BY <1>3, <1>5, <1>6
<1>8. SectorsWhole(sectors') BY Zenon, <1>4, <1>6, <1>7 DEF SectorsWhole
<1>9. Sound \/ Fails BY Zenon, <1>1
<1>10. ASSUME Sound, NEW j \in 0 .. SPC - 1 PROVE sectors'[op.new][j] = Zero
  <2>1. ~Fails
    <3>1. faults \in Nat BY DEF Linking, FatTypes
    <3> QED BY <1>10, <3>1 DEF Sound, Fails
  <2>2. kept = {} BY Zenon, <1>1, <2>1
  <2> QED BY Zenon, <1>4, <1>7, <2>2
<1> QED BY Zenon, <1>2, <1>3, <1>7, <1>8, <1>9, <1>10

LEMMA ClearNamed == ASSUME Linking, FatNamed, Clear PROVE FatNamed'
<1>1. UNCHANGED <<dir, fatNode, acked>> /\ SectorsWhole(sectors') BY ClearsAll
<1> QED BY Zenon, <1>1 DEF FatNamed

LEMMA WriteSectorNamed == ASSUME Linking, FatNamed, WriteSector PROVE FatNamed'
<1> DEFINE p == PutIn(sectors, HereCluster, Here % SPC, Written)
<1>1. /\ op.pc = "data" /\ UNCHANGED <<dir, fatNode, acked>> /\ HereCluster \in ClusterNos
      /\ sectors' = sectors \/ sectors' = p
  BY WritesOne
<1>2. Here % SPC \in 0 .. SPC - 1 BY <1>1, WritePlace
<1>3. SectorsWhole(sectors) BY DEF FatNamed
<1>4. SectorsWhole(p) BY <1>1, <1>2, <1>3, PutIs
<1> HIDE DEF p
<1>5. SectorsWhole(sectors') BY Zenon, <1>1, <1>3, <1>4
<1> QED BY Zenon, <1>1, <1>5 DEF FatNamed

LEMMA UpdateEntryNamed == ASSUME Linking, FatNamed, UpdateEntry PROVE FatNamed'
<1>1. /\ OpNode.slot \in 1 .. DirSlots /\ op.pc = "entry"
      /\ \A t \in 1 .. DirSlots : dir'[t].name = dir[t].name
      /\ acked' = acked \cup {<<dir[OpNode.slot].name, i>> : i \in op.pos .. Here - 1}
      /\ UNCHANGED <<sectors, fatNode>>
  BY UpdatesEntry
<1>2. \A n \in FatNodes : fatNode[n].slot # 0 => fatNode[n].slot \in 1 .. DirSlots BY SlotsAre
<1>3. SlotsNamed(dir', fatNode) BY Zenon, <1>1, <1>2 DEF FatNamed, SlotsNamed
<1>4. dir[OpNode.slot].name \in FileNames \cup {""} BY <1>1 DEF Linking, FatTypes, EntryType
<1>5. \A i \in op.pos .. Here - 1 : i \in Nat BY HereIs, OpIs DEF OpType
<1>6. acked' \subseteq (FileNames \cup {""}) \X Nat
  <2> DEFINE a == dir[OpNode.slot].name
             V == FileNames \cup {""}
  <2>1. a \in V BY <1>4
  <2>2. acked \subseteq V \X Nat BY DEF FatNamed
  <2>3. acked' = acked \cup {<<a, i>> : i \in op.pos .. Here - 1} BY <1>1
  <2> HIDE DEF a, V
  <2>4. \A x \in acked' : x \in V \X Nat BY <1>5, <2>1, <2>2, <2>3
  <2> QED BY <2>4 DEF V
<1> QED BY Zenon, <1>1, <1>3, <1>6 DEF FatNamed

LEMMA CrashNamed == ASSUME FatNamed, Crash PROVE FatNamed'
<1>1. fatNode' = [n \in FatNodes |-> NoFile] /\ UNCHANGED <<dir, sectors, acked>> BY DEF Crash
<1>2. SlotsNamed(dir, fatNode') BY <1>1 DEF SlotsNamed, NoFile
<1> QED BY Zenon, <1>1, <1>2 DEF FatNamed

LEMMA NamedSteps == ASSUME Linking, FatNamed, FatNext \/ UNCHANGED fatVars PROVE FatNamed'
<1>1. CASE UNCHANGED fatVars BY <1>1, SameNamed DEF fatVars
<1>2. ASSUME NEW name \in FileNames, CreateFile(name) \/ Lookup(name) PROVE FatNamed' BY <1>2, CreateNamed, LookupNamed
<1>3. ASSUME NEW n, NEW pos, NEW count, Begin(n, pos, count) PROVE FatNamed' BY <1>3, SameNamed DEF Begin
<1>4. CASE Extended \/ NoSpace \/ Mark \/ Link \/ BeyondDisk
  BY <1>4, SameNamed DEF Extended, NoSpace, Mark, Link, BeyondDisk
<1>5. CASE LinkFirst
  <2>1. /\ op.n \in FatNodes /\ OpNode = fatNode[op.n] /\ UNCHANGED <<dir, sectors, acked>> /\ fatNode'[op.n].slot = OpNode.slot
        /\ \A m \in FatNodes : m # op.n => fatNode'[m] = fatNode[m]
    BY <1>5, LinksFirst
  <2>2. fatNode'[op.n].slot = fatNode[op.n].slot BY <2>1
  <2> QED BY <2>1, <2>2, NodesNamed
<1>6. CASE WriteEnds
  <2>1. /\ op.n \in FatNodes /\ OpNode = fatNode[op.n] /\ UNCHANGED <<dir, sectors, acked>> /\ fatNode'[op.n].slot = OpNode.slot
        /\ \A m \in FatNodes : m # op.n => fatNode'[m] = fatNode[m]
    BY <1>6, EndsWrite
  <2>2. fatNode'[op.n].slot = fatNode[op.n].slot BY <2>1
  <2> QED BY <2>1, <2>2, NodesNamed
<1> QED BY <1>1, <1>2, <1>3, <1>4, <1>5, <1>6, ClearNamed, WriteSectorNamed, UpdateEntryNamed, CrashNamed DEF FatNext, FatStep


-----------------------------------------------------------------------------
(* Sector i of the file that begins at h, on the disk with sectors sec and    *)
(* table f: if its chain goes as far.                                        *)
Present(f, h, i) == Go(f, h, i \div SPC) \in ClusterNos
SecAt(sec, f, h, i) == sec[Go(f, h, i \div SPC)][i % SPC]

(* The file shows zeros and what was written to it, to the end of its chain;  *)
(* the operation has written what it counts, and links cleared clusters only. *)
Shows(sec, f, h, name) == \A i \in Nat : Present(f, h, i) => SecAt(sec, f, h, i) \in {Zero, <<name, i>>}
FilesShow(sec, f, d, nd) ==
    /\ \A s \in 1 .. DirSlots : Shows(sec, f, d[s].first, d[s].name)
    /\ \A n \in FatNodes : nd[n].slot # 0 => Shows(sec, f, nd[n].first, d[nd[n].slot].name)
Zeros(sec, c) == \A j \in 0 .. SPC - 1 : sec[c][j] = Zero
Fills(sec, f, h, name, a, b) ==
    \A i \in Nat : a <= i /\ i < b => Present(f, h, i) /\ SecAt(sec, f, h, i) = <<name, i>>
Writing(sec, f, h, name, z, o) ==
    /\ o.pc = "link" => Zeros(sec, o.new)
    /\ o.pc \in {"data", "entry"} => Fills(sec, f, h, name, o.pos, o.pos + o.done)
    /\ o.pc = "entry" => o.pos + o.done <= z
OpName == dir[OpNode.slot].name
FatContents == faults = 0 =>
    /\ FilesShow(sectors, fat, dir, fatNode)
    /\ Writing(sectors, fat, OpNode.first, OpName, OpNode.size, op)

(* A file has one node at most, which knows of what the directory has; what   *)
(* is acknowledged is in the file the directory has.                         *)
Once(nd) == \A m, n \in FatNodes : nd[m].slot # 0 /\ nd[m].slot = nd[n].slot => m = n
Knows(e, n) == (e.first # NoCluster => n.first = e.first) /\ e.size <= n.size
Uptodate(d, nd) == \A n \in FatNodes : nd[n].slot # 0 => Knows(d[nd[n].slot], nd[n])
HasIn(sec, f, e, x) == x[2] < e.size /\ Present(f, e.first, x[2]) /\ SecAt(sec, f, e.first, x[2]) = x
Stored(sec, f, d, a) == \A x \in a : \E s \in 1 .. DirSlots : d[s].name = x[1] /\ HasIn(sec, f, d[s], x)
FatKept == faults = 0 /\ ~twice => Once(fatNode) /\ Uptodate(dir, fatNode) /\ Stored(sectors, fat, dir, acked)

Holding == Linking /\ FatLengths /\ FatNamed /\ FatContents /\ FatKept
Showing == FatContents /\ FatKept

-----------------------------------------------------------------------------
(* The sectors of h's chain are what they were; or new, and empty.           *)
Keeps(sec, f, psec, g, h) ==
    \A i \in Nat : Present(f, h, i) => Present(g, h, i) /\ SecAt(psec, g, h, i) = SecAt(sec, f, h, i)
Adds(sec, f, psec, g, h) ==
    \A i \in Nat : Present(g, h, i) => \/ Present(f, h, i) /\ SecAt(psec, g, h, i) = SecAt(sec, f, h, i)
                                       \/ SecAt(psec, g, h, i) = Zero
SameFile(sec, f, psec, g, h) == Keeps(sec, f, psec, g, h) /\ Adds(sec, f, psec, g, h)

LEMMA SectorPlace == ASSUME NEW i \in Nat PROVE i \div SPC \in Nat /\ (i % SPC) \in 0 .. SPC - 1
<1>1. SPC \in Nat \ {0} BY FatAssumption DEF FatAssumption
<1> QED BY <1>1, Divided

LEMMA ShowsStays ==
    ASSUME NEW sec, NEW f, NEW psec, NEW g, NEW h, NEW name, Adds(sec, f, psec, g, h), Shows(sec, f, h, name)
    PROVE  Shows(psec, g, h, name)
BY Zenon DEF Adds, Shows

LEMMA NothingShows == ASSUME NEW f, Table(f), NEW sec, NEW name PROVE Shows(sec, f, NoCluster, name)
<1>1. \A i \in Nat : i \div SPC \in Nat BY SectorPlace
<1>2. \A i \in Nat : ~Present(f, NoCluster, i) BY <1>1, NothingGoes DEF Present
<1> QED BY Zenon, <1>2 DEF Shows

LEMMA FillsStays ==
    ASSUME NEW sec, NEW f, NEW psec, NEW g, NEW h, NEW name, NEW a, NEW b, Keeps(sec, f, psec, g, h), Fills(sec, f, h, name, a, b)
    PROVE  Fills(psec, g, h, name, a, b)
BY Zenon DEF Keeps, Fills

LEMMA StoredStays ==
    ASSUME NEW sec, NEW f, NEW psec, NEW g, NEW d, NEW a, Stored(sec, f, d, a), \A x \in a : x[2] \in Nat,
           \A s \in 1 .. DirSlots : d[s].first # NoCluster => Keeps(sec, f, psec, g, d[s].first), Table(f)
    PROVE  Stored(psec, g, d, a)
<1>1. \A i \in Nat : i \div SPC \in Nat BY SectorPlace
<1>2. \A i \in Nat : ~Present(f, NoCluster, i) BY <1>1, NothingGoes DEF Present
<1>3. \A s \in 1 .. DirSlots : \A x \in a : HasIn(sec, f, d[s], x) => HasIn(psec, g, d[s], x)
  BY Zenon, <1>2 DEF Keeps, HasIn
<1> QED BY Zenon, <1>3 DEF Stored

LEMMA AckedAre == ASSUME FatNamed PROVE \A x \in acked : x[2] \in Nat /\ x = <<x[1], x[2]>>
<1> DEFINE V == FileNames \cup {""}
<1>1. acked \subseteq V \X Nat BY DEF FatNamed
<1> HIDE DEF V
<1> QED BY <1>1

LEMMA InSize ==
    ASSUME NEW f, NEW h, NEW z \in Nat, Room(f, h, z), NEW i \in Nat, i < z
    PROVE  Present(f, h, i)
<1>1. PICK m \in Nat : z <= SPC * m /\ Long(f, h, m) BY DEF Room
<1>2. SPC \in Nat \ {0} BY FatAssumption DEF FatAssumption
<1> DEFINE a == SPC * m
           q == i \div SPC
<1>3. a \in Nat BY <1>2
<1>4. z <= a BY <1>1
<1> HIDE DEF a
<1>5. i < a BY <1>3, <1>4
<1>6. q \in Nat /\ q < m BY <1>2, <1>5, DividedLess, SectorPlace DEF a
<1> HIDE DEF q
<1>7. q \in 0 .. m - 1 BY <1>6
<1>8. Go(f, h, q) \in ClusterNos BY <1>1, <1>7 DEF Long
<1> QED BY <1>8 DEF Present, q

(* Where the file of a node or an entry begins, its chain starts.            *)
LEMMA FirstStarts ==
    ASSUME Linking
    PROVE  /\ \A s \in 1 .. DirSlots : dir[s].first # NoCluster =>
                 HeadIn(dir, fatNode, dir[s].first, s) /\ Starts(fat, dir[s].first)
           /\ \A n \in FatNodes : fatNode[n].first # NoCluster =>
                 HeadIn(dir, fatNode, fatNode[n].first, fatNode[n].slot) /\ Starts(fat, fatNode[n].first)
<1>1. ASSUME NEW s \in 1 .. DirSlots, dir[s].first # NoCluster
      PROVE  HeadIn(dir, fatNode, dir[s].first, s) /\ Starts(fat, dir[s].first)
  <2>1. s \in UsedEntries BY <1>1 DEF UsedEntries
  <2> QED BY <2>1, EntryHead
<1>2. ASSUME NEW n \in FatNodes, fatNode[n].first # NoCluster
      PROVE  HeadIn(dir, fatNode, fatNode[n].first, fatNode[n].slot) /\ Starts(fat, fatNode[n].first)
  <2>1. FatTypes BY DEF Linking
  <2>2. HeadIn(dir, fatNode, fatNode[n].first, fatNode[n].slot) BY <1>2, <2>1, NodeHead
  <2> QED BY <1>2, <2>2, NodeStarts
<1> QED BY <1>1, <1>2

(* The step changes neither who begins where nor what they hold.             *)
LEMMA FilesStay ==
    ASSUME NEW sec, NEW f, NEW psec, NEW g, NEW d, NEW nd, Table(g), FilesShow(sec, f, d, nd),
           \A s \in 1 .. DirSlots : d[s].first # NoCluster => Adds(sec, f, psec, g, d[s].first),
           \A n \in FatNodes : nd[n].first # NoCluster => Adds(sec, f, psec, g, nd[n].first)
    PROVE  FilesShow(psec, g, d, nd)
<1>1. ASSUME NEW h, NEW name, Shows(sec, f, h, name), h # NoCluster => Adds(sec, f, psec, g, h) PROVE Shows(psec, g, h, name)
  BY <1>1, NothingShows, ShowsStays
<1> QED BY Zenon, <1>1 DEF FilesShow


-----------------------------------------------------------------------------
LEMMA NowHolds ==
    ASSUME Holding, faults = 0
    PROVE  /\ FilesShow(sectors, fat, dir, fatNode) /\ Writing(sectors, fat, OpNode.first, OpName, OpNode.size, op)
           /\ ~twice => Once(fatNode) /\ Uptodate(dir, fatNode) /\ Stored(sectors, fat, dir, acked)
BY Zenon DEF Holding, FatContents, FatKept

LEMMA WritesNothing ==
    ASSUME NEW sec, NEW f, NEW h, NEW name, NEW z, NEW o, o.pc \notin {"link", "entry"}, o.pc # "data" \/ (o.pos \in Nat /\ o.done = 0)
    PROVE  Writing(sec, f, h, name, z, o)
<1>1. o.pc = "data" => Fills(sec, f, h, name, o.pos, o.pos + o.done)
  <2> SUFFICES ASSUME o.pc = "data" PROVE Fills(sec, f, h, name, o.pos, o.pos + o.done) OBVIOUS
  <2>1. \A i \in Nat : ~(o.pos <= i /\ i < o.pos + o.done) OBVIOUS
  <2> QED BY Zenon, <2>1 DEF Fills
<1> QED BY <1>1 DEF Writing

(* The operation has nothing to show yet, or returns.                        *)
LEMMA ContentsOn ==
    ASSUME Holding, UNCHANGED <<fat, dir, fatNode, sectors, acked, twice>>, Sound \/ Fails,
           op'.pc \notin {"link", "entry"}, op'.pc # "data" \/ (op'.pos \in Nat /\ op'.done = 0)
    PROVE  Showing'
<1> SUFFICES ASSUME faults' = 0
             PROVE  /\ FilesShow(sectors', fat', dir', fatNode') /\ Writing(sectors', fat', OpNode'.first, OpName', OpNode'.size, op')
                    /\ ~twice' => Once(fatNode') /\ Uptodate(dir', fatNode') /\ Stored(sectors', fat', dir', acked')
  BY Zenon DEF Showing, FatContents, FatKept
<1>1. faults = 0 BY NoFaults DEF Holding
<1>2. /\ FilesShow(sectors, fat, dir, fatNode)
      /\ ~twice => Once(fatNode) /\ Uptodate(dir, fatNode) /\ Stored(sectors, fat, dir, acked)
  BY Zenon, <1>1, NowHolds
<1>3. Writing(sectors', fat', OpNode'.first, OpName', OpNode'.size, op') BY WritesNothing
<1> QED BY Zenon, <1>2, <1>3

LEMMA ReturnContents ==
    ASSUME Holding, UNCHANGED <<fat, dir, fatNode, sectors, acked, twice>>, Sound \/ Fails, op' = Idle
    PROVE  Showing'
BY ContentsOn, IdleIs

LEMMA BeginContents == ASSUME Holding, NEW n, NEW pos, NEW count, Begin(n, pos, count) PROVE Showing'
<1>1. UNCHANGED <<fat, dir, fatNode, sectors, acked, twice>> BY DEF Begin
<1>2. PICK have \in 0 .. ChainLength(fatNode[n].first) :
         /\ IF have = ChainLength(fatNode[n].first) THEN Sound ELSE have > 0 /\ Fails
         /\ op' = [Idle EXCEPT
                !.pc = IF Circular(fatNode[n].first) /\ have = ChainLength(fatNode[n].first) THEN "hung" ELSE "extend",
                !.n = n, !.pos = pos, !.count = count, !.have = have,
                !.last = IF have = 0 THEN NoCluster ELSE After(fatNode[n].first, have - 1)]
  BY Zenon DEF Begin
<1>3. Sound \/ Fails BY Zenon, <1>2
<1>4. op'.pc \in {"hung", "extend"} BY <1>2 DEF Idle
<1>5. op'.pc \notin {"link", "entry", "data"} BY <1>4
<1> QED BY <1>1, <1>3, <1>5, ContentsOn

LEMMA ExtendedContents == ASSUME Holding, Extended PROVE Showing'
<1> SUFFICES ASSUME TRUE PROVE Showing' OBVIOUS
<1>1. op' = [op EXCEPT !.pc = "data"] /\ op.pc = "extend" /\ UNCHANGED <<fat, dir, fatNode, sectors, acked, faults, twice>> BY DEF Extended
<1>2. op \in OpType BY OpIs DEF Holding
<1>3. op'.pc = "data" /\ op'.pos = op.pos /\ op'.done = op.done /\ op.pos \in Nat BY <1>1, <1>2 DEF OpType
<1>4. CASE faults = 0
  <2>1. Walked(fat, OpNode.first, op) BY Zenon, <1>4 DEF Holding, FatLengths
  <2>2. op.done = 0 BY <1>1, <2>1 DEF Walked
  <2> QED BY <1>1, <1>3, <2>2, ContentsOn DEF Sound
<1>5. CASE faults # 0 BY Zenon, <1>1, <1>5 DEF Showing, FatContents, FatKept
<1> QED BY <1>4, <1>5

LEMMA NoSpaceContents == ASSUME Holding, NoSpace PROVE Showing'
BY ReturnContents DEF NoSpace, Return, Sound

LEMMA BeyondDiskContents == ASSUME Holding, BeyondDisk PROVE Showing'
BY ReturnContents DEF BeyondDisk, Return, Sound

LEMMA CreateContents == ASSUME Holding, NEW name \in FileNames, CreateFile(name) PROVE Showing'
<1> SUFFICES ASSUME faults' = 0
             PROVE  /\ FilesShow(sectors', fat', dir', fatNode') /\ Writing(sectors', fat', OpNode'.first, OpName', OpNode'.size, op')
                    /\ ~twice' => Once(fatNode') /\ Uptodate(dir', fatNode') /\ Stored(sectors', fat', dir', acked')
  BY Zenon DEF Showing, FatContents, FatKept
<1>0. Linking /\ FatNamed /\ Table(fat) BY DEF Holding, Linking, FatTypes
<1>1. PICK i \in 1 .. DirSlots, e \in EntryType :
         /\ dir[i] = NoEntry /\ e.name = name /\ e.first = NoCluster /\ e.size = 0
         /\ dir' \in [1 .. DirSlots -> EntryType] /\ dir'[i] = e
         /\ \A s \in 1 .. DirSlots : s # i => dir'[s] = dir[s]
  BY <1>0, Creates
<1>2. UNCHANGED <<fat, sectors, fatNode, op, acked, faults, twice>> /\ op = Idle BY <1>0, Creates
<1>3. /\ FilesShow(sectors, fat, dir, fatNode)
      /\ ~twice => Once(fatNode) /\ Uptodate(dir, fatNode) /\ Stored(sectors, fat, dir, acked)
  <2>1. faults = 0 BY <1>2
  <2> QED BY Zenon, <2>1, NowHolds
<1>4. dir[i].name = "" /\ dir[i].size = 0
  <2>1. dir[i] = NoEntry BY <1>1
  <2>2. NoEntry.name = "" /\ NoEntry.size = 0 BY DEF NoEntry
  <2> QED BY Zenon, <2>1, <2>2
<1>5. \A n \in FatNodes : fatNode[n].slot # 0 => fatNode[n].slot \in 1 .. DirSlots /\ fatNode[n].slot # i
  <2>1. \A n \in FatNodes : fatNode[n].slot # 0 => fatNode[n].slot \in 1 .. DirSlots BY <1>0, SlotsAre
  <2>2. \A n \in FatNodes : fatNode[n].slot # 0 => dir[fatNode[n].slot].name \in FileNames BY <1>0 DEF FatNamed, SlotsNamed
  <2> QED BY Zenon, <1>4, <2>1, <2>2, NamesAssumption
<1>6. Shows(sectors, fat, NoCluster, name) BY <1>0, NothingShows
<1>7. FilesShow(sectors, fat, dir', fatNode) BY Zenon, <1>1, <1>3, <1>5, <1>6 DEF FilesShow
<1>8. Uptodate(dir, fatNode) => Uptodate(dir', fatNode) BY Zenon, <1>1, <1>5 DEF Uptodate
<1>9. Stored(sectors, fat, dir, acked) => Stored(sectors, fat, dir', acked)
  <2>1. ASSUME NEW x \in acked, NEW s \in 1 .. DirSlots, HasIn(sectors, fat, dir[s], x) PROVE s # i
    <3>1. x[2] \in Nat BY <1>0, AckedAre
    <3>2. x[2] < dir[s].size BY <2>1 DEF HasIn
    <3>3. dir[i].size = 0 BY Zenon, <1>4
    <3>4. ~(x[2] < 0) BY <3>1
    <3> QED BY Zenon, <3>2, <3>3, <3>4
  <2>2. ASSUME NEW x \in acked, NEW s \in 1 .. DirSlots, HasIn(sectors, fat, dir[s], x) PROVE dir'[s] = dir[s] BY <1>1, <2>1, <2>2
  <2> QED BY Zenon, <2>2 DEF Stored
<1>10. Writing(sectors', fat', OpNode'.first, OpName', OpNode'.size, op') BY <1>2, IdleIs, WritesNothing
<1> QED BY Zenon, <1>2, <1>3, <1>7, <1>8, <1>9, <1>10

LEMMA LookupContents == ASSUME Holding, NEW name, Lookup(name) PROVE Showing'
<1> SUFFICES ASSUME faults' = 0
             PROVE  /\ FilesShow(sectors', fat', dir', fatNode') /\ Writing(sectors', fat', OpNode'.first, OpName', OpNode'.size, op')
                    /\ ~twice' => Once(fatNode') /\ Uptodate(dir', fatNode') /\ Stored(sectors', fat', dir', acked')
  BY Zenon DEF Showing, FatContents, FatKept
<1>0. Linking BY DEF Holding
<1>1. PICK s \in 1 .. DirSlots, n \in FatNodes :
         /\ dir[s].name = name /\ fatNode[n] = NoFile
         /\ fatNode' \in [FatNodes -> NodeType]
         /\ fatNode'[n].slot = s /\ fatNode'[n].first = dir[s].first /\ fatNode'[n].size = dir[s].size
         /\ \A m \in FatNodes : m # n => fatNode'[m] = fatNode[m]
         /\ ~twice' => ~twice /\ \A m \in FatNodes : fatNode[m].slot # s
  BY <1>0, LooksUp
<1>2. UNCHANGED <<fat, dir, sectors, op, acked, faults>> /\ op = Idle BY <1>0, LooksUp
<1>3. /\ FilesShow(sectors, fat, dir, fatNode)
      /\ ~twice => Once(fatNode) /\ Uptodate(dir, fatNode) /\ Stored(sectors, fat, dir, acked)
  <2>1. faults = 0 BY <1>2
  <2> QED BY Zenon, <2>1, NowHolds
<1>4. FilesShow(sectors, fat, dir, fatNode') BY Zenon, <1>1, <1>3 DEF FilesShow
<1>5. ASSUME ~twice' PROVE Once(fatNode') /\ Uptodate(dir, fatNode')
  <2>1. Once(fatNode) /\ Uptodate(dir, fatNode) BY Zenon, <1>1, <1>3, <1>5
  <2>2. \A m \in FatNodes : fatNode[m].slot # s BY Zenon, <1>1, <1>5
  <2>3. Once(fatNode')
    <3>1. ASSUME NEW a \in FatNodes, NEW b \in FatNodes, fatNode'[a].slot # 0, fatNode'[a].slot = fatNode'[b].slot
          PROVE  a = b
      <4>1. CASE a # n /\ b # n BY Zenon, <1>1, <2>1, <3>1, <4>1 DEF Once
      <4>2. CASE a # n /\ b = n BY Zenon, <1>1, <2>2, <3>1, <4>2
      <4>3. CASE a = n /\ b # n BY Zenon, <1>1, <2>2, <3>1, <4>3
      <4> QED BY Zenon, <4>1, <4>2, <4>3
    <3> QED BY Zenon, <3>1 DEF Once
  <2>4. Knows(dir[s], fatNode'[n])
    <3>1. dir[s].size \in Nat BY <1>0, SizesAre
    <3>2. dir[s].size <= fatNode'[n].size BY <1>1, <3>1
    <3> QED BY <1>1, <3>2 DEF Knows
  <2>5. Uptodate(dir, fatNode') BY Zenon, <1>1, <2>1, <2>4 DEF Uptodate
  <2> QED BY <2>3, <2>5
<1>6. Writing(sectors', fat', OpNode'.first, OpName', OpNode'.size, op') BY <1>2, IdleIs, WritesNothing
<1> QED BY Zenon, <1>1, <1>2, <1>3, <1>4, <1>5, <1>6

LEMMA CrashContents == ASSUME Holding, Crash PROVE Showing'
<1> SUFFICES ASSUME faults' = 0
             PROVE  /\ FilesShow(sectors', fat', dir', fatNode') /\ Writing(sectors', fat', OpNode'.first, OpName', OpNode'.size, op')
                    /\ ~twice' => Once(fatNode') /\ Uptodate(dir', fatNode') /\ Stored(sectors', fat', dir', acked')
  BY Zenon DEF Showing, FatContents, FatKept
<1>1. fatNode' = [n \in FatNodes |-> NoFile] /\ op' = Idle /\ UNCHANGED <<fat, dir, sectors, acked, faults, twice>> BY DEF Crash
<1>2. /\ FilesShow(sectors, fat, dir, fatNode)
      /\ ~twice => Once(fatNode) /\ Uptodate(dir, fatNode) /\ Stored(sectors, fat, dir, acked)
  <2>1. faults = 0 BY <1>1
  <2> QED BY Zenon, <2>1, NowHolds
<1>3. \A n \in FatNodes : fatNode'[n].slot = 0 BY <1>1 DEF NoFile
<1>4. FilesShow(sectors, fat, dir, fatNode') BY Zenon, <1>2, <1>3 DEF FilesShow
<1>5. Once(fatNode') /\ Uptodate(dir, fatNode') BY Zenon, <1>3 DEF Once, Uptodate
<1>6. Writing(sectors', fat', OpNode'.first, OpName', OpNode'.size, op') BY <1>1, IdleIs, WritesNothing
<1> QED BY Zenon, <1>1, <1>2, <1>4, <1>5, <1>6

LEMMA WriteEndsContents == ASSUME Holding, WriteEnds PROVE Showing'
<1> SUFFICES ASSUME faults' = 0
             PROVE  /\ FilesShow(sectors', fat', dir', fatNode') /\ Writing(sectors', fat', OpNode'.first, OpName', OpNode'.size, op')
                    /\ ~twice' => Once(fatNode') /\ Uptodate(dir', fatNode') /\ Stored(sectors', fat', dir', acked')
  BY Zenon DEF Showing, FatContents, FatKept
<1>0. Linking BY DEF Holding
<1>1. /\ op.pc = "data" /\ op' = [op EXCEPT !.pc = "entry"] /\ UNCHANGED <<fat, dir, sectors, acked, twice>> /\ (Sound \/ Fails)
      /\ op.n \in FatNodes /\ OpNode = fatNode[op.n] /\ OpNode.slot # 0 /\ OpNode.size \in Nat /\ Here \in Nat
      /\ fatNode'[op.n].slot = OpNode.slot /\ fatNode'[op.n].first = OpNode.first
      /\ fatNode'[op.n].size = Max({OpNode.size, Here})
      /\ \A m \in FatNodes : m # op.n => fatNode'[m] = fatNode[m]
  BY <1>0, EndsWrite
<1>2. faults = 0 BY <1>0, <1>1, NoFaults
<1>3. /\ FilesShow(sectors, fat, dir, fatNode) /\ Writing(sectors, fat, OpNode.first, OpName, OpNode.size, op)
      /\ ~twice => Once(fatNode) /\ Uptodate(dir, fatNode) /\ Stored(sectors, fat, dir, acked)
  BY Zenon, <1>2, NowHolds
<1>4. op'.pc = "entry" /\ op'.n = op.n /\ op'.pos = op.pos /\ op'.done = op.done
  <2>1. op \in OpType BY <1>0, OpIs
  <2> QED BY <1>1, <2>1 DEF OpType
<1>5. FilesShow(sectors, fat, dir, fatNode') BY Zenon, <1>1, <1>3 DEF FilesShow
<1> DEFINE z == fatNode'[op.n].size
<1>6. OpNode.size <= z /\ Here <= z BY <1>1, MaxOfTwo
<1>7. OpNode' = fatNode'[op.n] /\ OpName' = OpName /\ OpNode'.size = z /\ OpNode'.first = OpNode.first BY Zenon, <1>1, <1>4 DEF OpNode, OpName
<1>8. Writing(sectors, fat, OpNode.first, OpName, z, op')
  <2>1. Fills(sectors, fat, OpNode.first, OpName, op.pos, op.pos + op.done) BY Zenon, <1>1, <1>3 DEF Writing
  <2>2. op.pos + op.done <= z BY <1>6 DEF Here
  <2>3. Fills(sectors, fat, OpNode.first, OpName, op'.pos, op'.pos + op'.done) BY Zenon, <1>4, <2>1
  <2>4. op'.pos + op'.done <= z BY Zenon, <1>4, <2>2
  <2>5. op'.pc # "link" BY <1>4
  <2> QED BY Zenon, <2>3, <2>4, <2>5 DEF Writing
<1>9. ASSUME ~twice PROVE Once(fatNode') /\ Uptodate(dir, fatNode')
  <2>1. Once(fatNode) /\ Uptodate(dir, fatNode) BY Zenon, <1>3, <1>9
  <2>2. Once(fatNode')
    <3>1. \A m \in FatNodes : fatNode'[m].slot = fatNode[m].slot BY Zenon, <1>1
    <3> QED BY Zenon, <2>1, <3>1 DEF Once
  <2>3. Knows(dir[OpNode.slot], OpNode) BY Zenon, <1>1, <2>1 DEF Uptodate
  <2>4. Knows(dir[OpNode.slot], fatNode'[op.n])
    <3>1. OpNode.slot \in 1 .. DirSlots BY <1>0, <1>1, SlotsAre
    <3> DEFINE y == dir[OpNode.slot].size
               w == OpNode.size
    <3>2. y \in Nat BY <1>0, <3>1, SizesAre
    <3>3. y <= w /\ w \in Nat BY <1>1, <2>3 DEF Knows
    <3>4. z \in Nat /\ w <= z BY <1>1, MaxOfTwo
    <3> HIDE DEF y, w, z
    <3>5. y <= z BY <3>2, <3>3, <3>4
    <3> QED BY Zenon, <1>1, <2>3, <3>5 DEF y, z, Knows
  <2>5. Uptodate(dir, fatNode') BY Zenon, <1>1, <2>1, <2>4 DEF Uptodate
  <2> QED BY <2>2, <2>5
<1> QED BY Zenon, <1>1, <1>3, <1>5, <1>7, <1>8, <1>9


(* A cluster is marked: chains are what they were.                           *)
LEMMA MarkSame ==
    ASSUME NEW f, Table(f), NEW g, Table(g), Grows(f, g), Grows(g, f), NEW sec, NEW h
    PROVE  SameFile(sec, f, sec, g, h)
<1>1. ASSUME NEW i \in Nat, Present(f, h, i) \/ Present(g, h, i) PROVE Go(g, h, i \div SPC) = Go(f, h, i \div SPC)
  <2> DEFINE k == i \div SPC
  <2>1. k \in Nat BY SectorPlace
  <2>2. Go(f, h, k) \in ClusterNos \/ Go(g, h, k) \in ClusterNos BY <1>1 DEF Present
  <2> HIDE DEF k
  <2>3. Go(f, h, k) \in ClusterNos => Go(g, h, k) = Go(f, h, k) BY <2>1, GoGrows
  <2>4. Go(g, h, k) \in ClusterNos => Go(f, h, k) = Go(g, h, k) BY <2>1, GoGrows
  <2> QED BY <2>2, <2>3, <2>4 DEF k
<1> QED BY Zenon, <1>1 DEF SameFile, Keeps, Adds, Present, SecAt

LEMMA MarkContents == ASSUME Holding, Mark PROVE Showing'
<1> SUFFICES ASSUME faults' = 0
             PROVE  /\ FilesShow(sectors', fat', dir', fatNode') /\ Writing(sectors', fat', OpNode'.first, OpName', OpNode'.size, op')
                    /\ ~twice' => Once(fatNode') /\ Uptodate(dir', fatNode') /\ Stored(sectors', fat', dir', acked')
  BY Zenon DEF Showing, FatContents, FatKept
<1> DEFINE c == AllocCluster
           g == MarkIn(fat, c)
<1>0. Linking /\ FatNamed BY DEF Holding
<1>1. /\ UNCHANGED <<dir, fatNode, sectors, acked, twice>> /\ FreeClusters # {}
      /\ \/ fat' = g /\ op' = [op EXCEPT !.pc = "clear", !.new = c] /\ Sound
         \/ Fails
  BY DEF Mark, MarkIn
<1>2. c \in ClusterNos /\ fat[c] = Free BY <1>1, FreeIs
<1>3. faults = 0 /\ Sound
  <2>1. Sound \/ Fails BY Zenon, <1>1
  <2> QED BY <1>0, <2>1, NoFaults
<1>4. fat' = g /\ op' = [op EXCEPT !.pc = "clear", !.new = c]
  <2>1. ~Fails BY <1>3 DEF Sound, Fails
  <2> QED BY Zenon, <1>1, <2>1
<1>5. op'.pc = "clear"
  <2>1. op \in OpType BY <1>0, OpIs
  <2> QED BY <1>4, <2>1 DEF OpType
<1> HIDE DEF c
<1>6. Table(fat) /\ Forest(fat) BY <1>0 DEF Linking, FatTypes, FatChains
<1>7. Table(g) /\ Grows(fat, g) /\ Grows(g, fat) BY <1>2, <1>6, MarkIs
<1> HIDE DEF g
<1>8. \A h : SameFile(sectors, fat, sectors, g, h) BY <1>6, <1>7, MarkSame
<1>9. \A h : Keeps(sectors, fat, sectors, g, h) /\ Adds(sectors, fat, sectors, g, h) BY Zenon, <1>8 DEF SameFile
<1>10. /\ FilesShow(sectors, fat, dir, fatNode)
       /\ ~twice => Once(fatNode) /\ Uptodate(dir, fatNode) /\ Stored(sectors, fat, dir, acked)
  BY Zenon, <1>3, NowHolds
<1>11. FilesShow(sectors, g, dir, fatNode) BY <1>7, <1>9, <1>10, FilesStay
<1>12. \A x \in acked : x[2] \in Nat BY <1>0, AckedAre
<1>13. Stored(sectors, fat, dir, acked) => Stored(sectors, g, dir, acked) BY <1>6, <1>9, <1>12, StoredStays
<1>14. Writing(sectors', fat', OpNode'.first, OpName', OpNode'.size, op')
  <2>1. op'.pc \notin {"link", "entry"} /\ op'.pc # "data" BY <1>5
  <2> QED BY <2>1, WritesNothing
<1> QED BY Zenon, <1>1, <1>4, <1>10, <1>11, <1>13, <1>14

(* A chain that begins elsewhere does not go over a cluster that starts one.  *)
LEMMA NotNew ==
    ASSUME NEW f, Table(f), Forest(f), NEW d, Starts(f, d), NEW h, Starts(f, h), h # d, NEW k \in Nat
    PROVE  Go(f, h, k) # d
<1>1. 0 \in Nat /\ Go(f, d, 0) = d BY GoStep
<1>2. d \in ClusterNos BY DEF Starts
<1> SUFFICES ASSUME Go(f, h, k) = d PROVE FALSE OBVIOUS
<1>3. Go(f, h, k) = Go(f, d, 0) /\ Go(f, h, k) \in ClusterNos BY <1>1, <1>2
<1> QED BY <1>1, <1>3, NoMeet

(* The files do not begin with the cluster that is about to be linked.       *)
LEMMA NewIs ==
    ASSUME Linking, op.pc \in {"clear", "link"}
    PROVE  /\ Starts(fat, op.new) /\ fat[op.new] = EOC /\ op.new \in ClusterNos
           /\ \A s \in 1 .. DirSlots : dir[s].first # op.new
           /\ \A n \in FatNodes : fatNode[n].first # op.new
<1>1. /\ Starts(fat, op.new) /\ fat[op.new] = EOC
      /\ \A s \in 0 .. DirSlots : ~HeadIn(dir, fatNode, op.new, s)
  BY Zenon DEF Linking, FatChains, UnderWay
<1>2. op.new \in ClusterNos BY <1>1 DEF Starts
<1>3. op.new # NoCluster BY <1>2, ClustersAre
<1>4. ASSUME NEW s \in 1 .. DirSlots PROVE dir[s].first # op.new
  <2>1. s \in 0 .. DirSlots OBVIOUS
  <2> QED BY Zenon, <1>1, <1>3, <2>1 DEF HeadIn
<1>5. ASSUME NEW n \in FatNodes PROVE fatNode[n].first # op.new
  <2>1. fatNode[n].slot \in 0 .. DirSlots BY DEF Linking, FatTypes, NodeType
  <2>2. fatNode[n].slot = 0 => fatNode[n].first = NoCluster BY DEF Linking, FatTypes
  <2> QED BY Zenon, <1>1, <1>3, <2>1, <2>2 DEF HeadIn
<1> QED BY <1>1, <1>2, <1>4, <1>5

(* Another cluster's sectors change.                                         *)
LEMMA ElsewhereSame ==
    ASSUME NEW f, NEW sec, NEW psec, NEW c, NEW h, \A k \in Nat : Go(f, h, k) # c, \A d \in ClusterNos : d # c => psec[d] = sec[d]
    PROVE  SameFile(sec, f, psec, f, h)
<1>1. \A i \in Nat : i \div SPC \in Nat BY SectorPlace
<1> QED BY Zenon, <1>1 DEF SameFile, Keeps, Adds, Present, SecAt

LEMMA ClearContents == ASSUME Holding, Clear PROVE Showing'
<1> SUFFICES ASSUME faults' = 0
             PROVE  /\ FilesShow(sectors', fat', dir', fatNode') /\ Writing(sectors', fat', OpNode'.first, OpName', OpNode'.size, op')
                    /\ ~twice' => Once(fatNode') /\ Uptodate(dir', fatNode') /\ Stored(sectors', fat', dir', acked')
  BY Zenon DEF Showing, FatContents, FatKept
<1>0. Linking /\ FatNamed /\ op \in OpType BY OpIs DEF Holding
<1>1. /\ op.pc = "clear" /\ op' = [op EXCEPT !.pc = "link"] /\ UNCHANGED <<fat, dir, fatNode, acked, twice>> /\ (Sound \/ Fails)
      /\ \A d \in ClusterNos : d # op.new => sectors'[d] = sectors[d]
      /\ Sound => \A j \in 0 .. SPC - 1 : sectors'[op.new][j] = Zero
  BY <1>0, ClearsAll
<1>2. faults = 0 /\ Sound BY <1>0, <1>1, NoFaults
<1>3. /\ FilesShow(sectors, fat, dir, fatNode)
      /\ ~twice => Once(fatNode) /\ Uptodate(dir, fatNode) /\ Stored(sectors, fat, dir, acked)
  BY Zenon, <1>2, NowHolds
<1>4. Table(fat) /\ Forest(fat) BY <1>0 DEF Linking, FatTypes, FatChains
<1>5. /\ Starts(fat, op.new)
      /\ \A s \in 1 .. DirSlots : dir[s].first # op.new
      /\ \A n \in FatNodes : fatNode[n].first # op.new
  <2>1. op.pc \in {"clear", "link"} BY <1>1
  <2> QED BY <1>0, <2>1, NewIs
<1>6. ASSUME NEW h, Starts(fat, h), h # op.new
      PROVE  Keeps(sectors, fat, sectors', fat, h) /\ Adds(sectors, fat, sectors', fat, h)
  <2>1. \A k \in Nat : Go(fat, h, k) # op.new BY <1>4, <1>5, <1>6, NotNew
  <2>2. SameFile(sectors, fat, sectors', fat, h) BY <1>1, <2>1, ElsewhereSame
  <2> QED BY <2>2 DEF SameFile
<1>7. /\ \A s \in 1 .. DirSlots : dir[s].first # NoCluster => Starts(fat, dir[s].first)
      /\ \A n \in FatNodes : fatNode[n].first # NoCluster => Starts(fat, fatNode[n].first)
  BY <1>0, FirstStarts
<1>8. \A s \in 1 .. DirSlots : dir[s].first # NoCluster =>
         Keeps(sectors, fat, sectors', fat, dir[s].first) /\ Adds(sectors, fat, sectors', fat, dir[s].first)
  BY Zenon, <1>5, <1>6, <1>7
<1>9. \A n \in FatNodes : fatNode[n].first # NoCluster => Adds(sectors, fat, sectors', fat, fatNode[n].first)
  BY Zenon, <1>5, <1>6, <1>7
<1>10. FilesShow(sectors', fat, dir, fatNode)
  <2> DEFINE p == sectors'
  <2>1. \A s \in 1 .. DirSlots : dir[s].first # NoCluster => Adds(sectors, fat, p, fat, dir[s].first) BY Zenon, <1>8
  <2>2. \A n \in FatNodes : fatNode[n].first # NoCluster => Adds(sectors, fat, p, fat, fatNode[n].first) BY <1>9
  <2> HIDE DEF p
  <2>3. FilesShow(p, fat, dir, fatNode) BY <1>3, <1>4, <2>1, <2>2, FilesStay
  <2> QED BY <2>3 DEF p
<1>11. Stored(sectors, fat, dir, acked) => Stored(sectors', fat, dir, acked)
  <2> DEFINE p == sectors'
  <2>1. \A s \in 1 .. DirSlots : dir[s].first # NoCluster => Keeps(sectors, fat, p, fat, dir[s].first) BY Zenon, <1>8
  <2>2. \A x \in acked : x[2] \in Nat BY <1>0, AckedAre
  <2> HIDE DEF p
  <2>3. Stored(sectors, fat, dir, acked) => Stored(p, fat, dir, acked) BY <1>4, <2>1, <2>2, StoredStays
  <2> QED BY <2>3 DEF p
<1>12. op'.pc = "link" /\ op'.new = op.new BY <1>0, <1>1 DEF OpType
<1>13. Writing(sectors', fat', OpNode'.first, OpName', OpNode'.size, op')
  <2>1. op'.pc \notin {"data", "entry"} BY <1>12
  <2>2. Zeros(sectors', op'.new) BY Zenon, <1>1, <1>2, <1>12 DEF Zeros
  <2> QED BY Zenon, <2>1, <2>2 DEF Writing
<1> QED BY Zenon, <1>1, <1>3, <1>10, <1>11, <1>13

(* A file of one cluster, which is empty.                                    *)
LEMMA NewShows ==
    ASSUME NEW f, Table(f), NEW d \in ClusterNos, f[d] = EOC, NEW sec, Zeros(sec, d), NEW name
    PROVE  Shows(sec, f, d, name)
<1> SUFFICES ASSUME NEW i \in Nat, Present(f, d, i) PROVE SecAt(sec, f, d, i) = Zero BY Zenon DEF Shows
<1> DEFINE k == i \div SPC
           r == i % SPC
<1>1. k \in Nat /\ r \in 0 .. SPC - 1 BY SectorPlace
<1>2. Go(f, d, k) \in ClusterNos BY DEF Present
<1> HIDE DEF k
<1>3. k = 0
  <2> SUFFICES ASSUME k # 0 PROVE FALSE OBVIOUS
  <2>1. 1 \in 0 .. k /\ 0 \in Nat /\ 0 + 1 = 1 BY <1>1
  <2>2. Go(f, d, 1) \in ClusterNos BY <1>1, <1>2, <2>1, GoPrefix
  <2>3. Go(f, d, 0 + 1) = f[Go(f, d, 0)] BY <2>1, <2>2, GoBack
  <2>4. Go(f, d, 0) = d BY GoStep
  <2>5. Go(f, d, 1) = EOC BY <2>1, <2>3, <2>4
  <2> QED BY <2>2, <2>5, ClustersAre
<1>4. Go(f, d, k) = d BY <1>3, GoStep
<1>5. SecAt(sec, f, d, i) = sec[Go(f, d, k)][r] BY DEF SecAt, k
<1> HIDE DEF r
<1> QED BY Zenon, <1>1, <1>4, <1>5 DEF Zeros

LEMMA LinkFirstContents == ASSUME Holding, LinkFirst PROVE Showing'
<1> SUFFICES ASSUME faults' = 0
             PROVE  /\ FilesShow(sectors', fat', dir', fatNode') /\ Writing(sectors', fat', OpNode'.first, OpName', OpNode'.size, op')
                    /\ ~twice' => Once(fatNode') /\ Uptodate(dir', fatNode') /\ Stored(sectors', fat', dir', acked')
  BY Zenon DEF Showing, FatContents, FatKept
<1>0. Linking /\ FatNamed /\ FatLengths /\ Table(fat) BY DEF Holding, Linking, FatTypes
<1>1. /\ op.pc = "link" /\ op.last = NoCluster /\ op' = Linked /\ UNCHANGED <<fat, dir, sectors, acked, faults, twice>>
      /\ op.n \in FatNodes /\ OpNode = fatNode[op.n] /\ OpNode.slot # 0
      /\ fatNode'[op.n].slot = OpNode.slot /\ fatNode'[op.n].first = op.new /\ fatNode'[op.n].size = OpNode.size
      /\ \A m \in FatNodes : m # op.n => fatNode'[m] = fatNode[m]
  BY <1>0, LinksFirst
<1>2. faults = 0 BY <1>1
<1>3. /\ FilesShow(sectors, fat, dir, fatNode) /\ Writing(sectors, fat, OpNode.first, OpName, OpNode.size, op)
      /\ ~twice => Once(fatNode) /\ Uptodate(dir, fatNode) /\ Stored(sectors, fat, dir, acked)
  BY Zenon, <1>2, NowHolds
<1>4. Zeros(sectors, op.new) BY Zenon, <1>1, <1>3 DEF Writing
<1>5. op.new \in ClusterNos /\ fat[op.new] = EOC
  <2>1. op.pc \in {"clear", "link"} BY <1>1
  <2> QED BY <1>0, <2>1, NewIs
<1>6. \A name : Shows(sectors, fat, op.new, name) BY <1>0, <1>4, <1>5, NewShows
<1>7. FilesShow(sectors, fat, dir, fatNode') BY Zenon, <1>1, <1>3, <1>6 DEF FilesShow
<1>8. ASSUME ~twice PROVE Once(fatNode') /\ Uptodate(dir, fatNode')
  <2>1. Once(fatNode) /\ Uptodate(dir, fatNode) BY Zenon, <1>3, <1>8
  <2>2. \A m \in FatNodes : fatNode'[m].slot = fatNode[m].slot BY Zenon, <1>1
  <2>3. Once(fatNode') BY Zenon, <2>1, <2>2 DEF Once
  <2>4. Knows(dir[OpNode.slot], OpNode) BY Zenon, <1>1, <2>1 DEF Uptodate
  <2>5. OpNode.first = NoCluster BY <1>0, <1>1, <1>2, FirstWalk
  <2>6. Knows(dir[OpNode.slot], fatNode'[op.n]) BY Zenon, <1>1, <2>4, <2>5 DEF Knows
  <2>7. Uptodate(dir, fatNode') BY Zenon, <1>1, <2>1, <2>6 DEF Uptodate
  <2> QED BY <2>3, <2>7
<1>9. Writing(sectors', fat', OpNode'.first, OpName', OpNode'.size, op')
  <2>1. op'.pc = "extend" BY <1>0, <1>1, LinkingNow
  <2>2. op'.pc \notin {"link", "entry"} /\ op'.pc # "data" BY <2>1
  <2> QED BY <2>2, WritesNothing
<1> QED BY Zenon, <1>1, <1>3, <1>7, <1>8, <1>9

LEMMA LinkSame ==
    ASSUME NEW f, Table(f), NEW g, Table(g), Grows(f, g), NEW c \in ClusterNos, f[c] = EOC, NEW d \in ClusterNos, f[d] = EOC,
           c # d, g = LinkIn(f, c, d), NEW sec, Zeros(sec, d), NEW h
    PROVE  SameFile(sec, f, sec, g, h)
<1>1. Keeps(sec, f, sec, g, h)
  <2>1. ASSUME NEW i \in Nat, Present(f, h, i) PROVE Go(g, h, i \div SPC) = Go(f, h, i \div SPC)
    <3> DEFINE k == i \div SPC
    <3>1. k \in Nat BY SectorPlace
    <3>2. Go(f, h, k) \in ClusterNos BY <2>1 DEF Present
    <3> HIDE DEF k
    <3>3. Go(g, h, k) = Go(f, h, k) BY <3>1, <3>2, GoGrows
    <3> QED BY <3>3 DEF k
  <2> QED BY Zenon, <2>1 DEF Keeps, Present, SecAt
<1>2. ASSUME NEW i \in Nat, Present(g, h, i)
      PROVE  (Present(f, h, i) /\ SecAt(sec, g, h, i) = SecAt(sec, f, h, i)) \/ SecAt(sec, g, h, i) = Zero
  <2> DEFINE k == i \div SPC
             r == i % SPC
  <2>1. k \in Nat /\ r \in 0 .. SPC - 1 BY SectorPlace
  <2>2. Go(g, h, k) \in ClusterNos BY <1>2 DEF Present
  <2>3. /\ SecAt(sec, g, h, i) = sec[Go(g, h, k)][r] /\ SecAt(sec, f, h, i) = sec[Go(f, h, k)][r]
        /\ Present(f, h, i) <=> Go(f, h, k) \in ClusterNos
    BY DEF SecAt, Present
  <2> HIDE DEF k, r
  <2>4. Go(g, h, k) = d \/ Go(f, h, k) = Go(g, h, k) BY <2>1, <2>2, LinkAdds
  <2> QED BY Zenon, <2>1, <2>2, <2>3, <2>4 DEF Zeros
<1>3. Adds(sec, f, sec, g, h) BY Zenon, <1>2 DEF Adds
<1> QED BY <1>1, <1>3 DEF SameFile

LEMMA LinkContents == ASSUME Holding, Link PROVE Showing'
<1> SUFFICES ASSUME faults' = 0
             PROVE  /\ FilesShow(sectors', fat', dir', fatNode') /\ Writing(sectors', fat', OpNode'.first, OpName', OpNode'.size, op')
                    /\ ~twice' => Once(fatNode') /\ Uptodate(dir', fatNode') /\ Stored(sectors', fat', dir', acked')
  BY Zenon DEF Showing, FatContents, FatKept
<1> DEFINE g == LinkIn(fat, op.last, op.new)
<1>0. Linking /\ FatNamed /\ FatLengths /\ Table(fat) BY DEF Holding, Linking, FatTypes
<1>1. /\ op.pc = "link" /\ op.last # NoCluster /\ UNCHANGED <<dir, fatNode, sectors, acked, twice>>
      /\ \/ fat' = g /\ op' = Linked /\ Sound
         \/ Fails
  BY DEF Link, LinkIn
<1>2. faults = 0 /\ Sound
  <2>1. Sound \/ Fails BY Zenon, <1>1
  <2> QED BY <1>0, <2>1, NoFaults
<1>3. fat' = g /\ op' = Linked
  <2>1. ~Fails BY <1>2 DEF Sound, Fails
  <2> QED BY Zenon, <1>1, <2>1
<1>4. /\ FilesShow(sectors, fat, dir, fatNode) /\ Writing(sectors, fat, OpNode.first, OpName, OpNode.size, op)
      /\ ~twice => Once(fatNode) /\ Uptodate(dir, fatNode) /\ Stored(sectors, fat, dir, acked)
  BY Zenon, <1>2, NowHolds
<1>5. Zeros(sectors, op.new) BY Zenon, <1>1, <1>4 DEF Writing
<1>6. Walked(fat, OpNode.first, op) BY Zenon, <1>0, <1>2 DEF FatLengths
<1>7. Table(g) /\ Grows(fat, g) /\ fat[op.last] = EOC /\ op.last \in ClusterNos BY <1>0, <1>1, <1>6, LinkedWalk
<1>8. op.new \in ClusterNos /\ fat[op.new] = EOC /\ op.new # op.last /\ Linked.pc = "extend" BY <1>0, <1>1, LinkingNow
<1>9. \A h : SameFile(sectors, fat, sectors, g, h) BY <1>0, <1>5, <1>7, <1>8, LinkSame
<1> HIDE DEF g
<1>10. \A h : Keeps(sectors, fat, sectors, g, h) /\ Adds(sectors, fat, sectors, g, h) BY Zenon, <1>9 DEF SameFile
<1>11. FilesShow(sectors, g, dir, fatNode) BY <1>4, <1>7, <1>10, FilesStay
<1>12. \A x \in acked : x[2] \in Nat BY <1>0, AckedAre
<1>13. Stored(sectors, fat, dir, acked) => Stored(sectors, g, dir, acked) BY <1>0, <1>10, <1>12, StoredStays
<1>14. Writing(sectors', fat', OpNode'.first, OpName', OpNode'.size, op')
  <2>1. op'.pc \notin {"link", "entry"} /\ op'.pc # "data" BY <1>3, <1>8
  <2> QED BY <2>1, WritesNothing
<1> QED BY Zenon, <1>1, <1>3, <1>4, <1>11, <1>13, <1>14


(* A sector is written at the operation's place: no other sector of a file is *)
(* there.                                                                    *)
LEMMA SamePlace ==
    ASSUME NEW i \in Nat, NEW j \in Nat, i \div SPC = j \div SPC, i % SPC = j % SPC
    PROVE  i = j
<1>0. SPC \in Nat \ {0} BY FatAssumption DEF FatAssumption
<1>1. i = SPC * (i \div SPC) + (i % SPC) BY <1>0, Divided
<1>2. j = SPC * (j \div SPC) + (j % SPC) BY <1>0, Divided
<1> QED BY Zenon, <1>1, <1>2

LEMMA WriteMeets ==
    ASSUME NEW f, Table(f), Forest(f), NEW sec, SectorsWhole(sec), NEW h, Starts(f, h), NEW g, Starts(f, g),
           NEW i \in Nat, Present(f, h, i), NEW j \in Nat, Present(f, g, j), NEW v,
           NEW p, p = PutIn(sec, Go(f, g, j \div SPC), j % SPC, v)
    PROVE  SecAt(p, f, h, i) = SecAt(sec, f, h, i) \/ (h = g /\ i = j /\ SecAt(p, f, h, i) = v)
<1> DEFINE a == i \div SPC
           r == i % SPC
           b == j \div SPC
           q == j % SPC
<1>1. a \in Nat /\ b \in Nat /\ r \in 0 .. SPC - 1 /\ q \in 0 .. SPC - 1 BY SectorPlace
<1>2. Go(f, h, a) \in ClusterNos /\ Go(f, g, b) \in ClusterNos BY DEF Present
<1>3. SecAt(p, f, h, i) = p[Go(f, h, a)][r] /\ SecAt(sec, f, h, i) = sec[Go(f, h, a)][r] BY DEF SecAt
<1>4. p = PutIn(sec, Go(f, g, b), q, v) OBVIOUS
<1>5. a = b /\ r = q => i = j BY SamePlace
<1> HIDE DEF a, b, r, q
<1>6. /\ p[Go(f, g, b)][q] = v
      /\ \A d \in ClusterNos : \A k \in 0 .. SPC - 1 : d # Go(f, g, b) \/ k # q => p[d][k] = sec[d][k]
  BY <1>1, <1>2, <1>4, PutIs
<1>7. CASE Go(f, h, a) = Go(f, g, b) /\ r = q
  <2>1. h = g /\ a = b BY <1>1, <1>2, <1>7, NoMeet
  <2> QED BY Zenon, <1>3, <1>5, <1>6, <1>7, <2>1
<1>8. CASE ~(Go(f, h, a) = Go(f, g, b) /\ r = q) BY Zenon, <1>1, <1>2, <1>3, <1>6, <1>8
<1> QED BY <1>7, <1>8

LEMMA WriteSectorContents == ASSUME Holding, WriteSector PROVE Showing'
<1> SUFFICES ASSUME faults' = 0
             PROVE  /\ FilesShow(sectors', fat', dir', fatNode') /\ Writing(sectors', fat', OpNode'.first, OpName', OpNode'.size, op')
                    /\ ~twice' => Once(fatNode') /\ Uptodate(dir', fatNode') /\ Stored(sectors', fat', dir', acked')
  BY Zenon DEF Showing, FatContents, FatKept
<1> DEFINE H == OpNode.first
           p == PutIn(sectors, Go(fat, H, Here \div SPC), Here % SPC, Written)
<1>0. Linking /\ FatNamed /\ FatLengths /\ Table(fat) /\ Forest(fat) /\ SectorsWhole(sectors) /\ op \in OpType
  BY OpIs DEF Holding, Linking, FatTypes, FatChains, FatNamed
<1>1. /\ op.pc = "data" /\ UNCHANGED <<fat, dir, fatNode, acked, twice>> /\ HereCluster \in ClusterNos
      /\ \/ sectors' = PutIn(sectors, HereCluster, Here % SPC, Written) /\ op' = [op EXCEPT !.done = op.done + 1] /\ Sound
         \/ op' = Idle /\ Fails
  BY <1>0, WritesOne
<1>2. faults = 0 /\ Sound
  <2>1. Sound \/ Fails BY Zenon, <1>1
  <2> QED BY <1>0, <2>1, NoFaults
<1>3. /\ Here \in Nat /\ HereCluster = Go(fat, H, Here \div SPC) /\ Written = <<OpName, Here>>
  BY <1>0, <1>1, WritePlace DEF OpName
<1>4. sectors' = p /\ op' = [op EXCEPT !.done = op.done + 1]
  <2>1. ~Fails BY <1>2 DEF Sound, Fails
  <2> QED BY Zenon, <1>1, <1>3, <2>1
<1>5. op'.pc = "data" /\ op'.pos = op.pos /\ op'.done = op.done + 1 /\ op'.n = op.n BY <1>0, <1>1, <1>4 DEF OpType
<1>6. op.n \in FatNodes /\ OpNode = fatNode[op.n] /\ OpNode.slot # 0 /\ OpNode.slot \in 1 .. DirSlots BY <1>0, <1>1, SlotsAre
<1>7. Present(fat, H, Here)
  <2> HIDE DEF H
  <2> QED BY Zenon, <1>1, <1>3 DEF Present
<1>8. H # NoCluster
  <2>1. Here \div SPC \in Nat BY <1>3, SectorPlace
  <2> QED BY <1>0, <1>7, <2>1, NothingGoes DEF Present
<1>9. HeadIn(dir, fatNode, H, OpNode.slot) /\ Starts(fat, H) BY Zenon, <1>0, <1>6, <1>8, FirstStarts
<1>10. p = PutIn(sectors, Go(fat, H, Here \div SPC), Here % SPC, Written) OBVIOUS
<1> HIDE DEF H, p
<1>11. ASSUME NEW h, Starts(fat, h), NEW i \in Nat, Present(fat, h, i)
       PROVE  SecAt(p, fat, h, i) = SecAt(sectors, fat, h, i) \/ (h = H /\ i = Here /\ SecAt(p, fat, h, i) = Written)
  BY <1>0, <1>3, <1>7, <1>9, <1>10, <1>11, WriteMeets
<1>12. /\ FilesShow(sectors, fat, dir, fatNode) /\ Writing(sectors, fat, H, OpName, OpNode.size, op)
       /\ ~twice => Once(fatNode) /\ Uptodate(dir, fatNode) /\ Stored(sectors, fat, dir, acked)
  BY Zenon, <1>2, NowHolds DEF H
<1>13. ASSUME NEW h, NEW s \in 1 .. DirSlots, HeadIn(dir, fatNode, h, s), Starts(fat, h), Shows(sectors, fat, h, dir[s].name)
       PROVE  Shows(p, fat, h, dir[s].name)
  <2>1. h = H => s = OpNode.slot
    <3>1. s \in 0 .. DirSlots /\ OpNode.slot \in 0 .. DirSlots BY <1>6
    <3> QED BY <1>0, <1>9, <1>13, <3>1, HeadsDiffer
  <2>2. h = H => Written = <<dir[s].name, Here>> BY Zenon, <1>3, <2>1 DEF OpName
  <2> QED BY Zenon, <1>11, <1>13, <2>2 DEF Shows
<1>14. FilesShow(p, fat, dir, fatNode)
  <2>1. ASSUME NEW s \in 1 .. DirSlots PROVE Shows(p, fat, dir[s].first, dir[s].name)
    <3>1. Shows(sectors, fat, dir[s].first, dir[s].name) BY Zenon, <1>12 DEF FilesShow
    <3>2. CASE dir[s].first = NoCluster BY <1>0, <3>2, NothingShows
    <3>3. CASE dir[s].first # NoCluster
      <4>1. HeadIn(dir, fatNode, dir[s].first, s) /\ Starts(fat, dir[s].first) BY <1>0, <3>3, FirstStarts
      <4> QED BY <1>13, <3>1, <4>1
    <3> QED BY <3>2, <3>3
  <2>2. ASSUME NEW n \in FatNodes, fatNode[n].slot # 0 PROVE Shows(p, fat, fatNode[n].first, dir[fatNode[n].slot].name)
    <3>1. Shows(sectors, fat, fatNode[n].first, dir[fatNode[n].slot].name) BY Zenon, <1>12, <2>2 DEF FilesShow
    <3>2. CASE fatNode[n].first = NoCluster BY <1>0, <3>2, NothingShows
    <3>3. CASE fatNode[n].first # NoCluster
      <4>1. HeadIn(dir, fatNode, fatNode[n].first, fatNode[n].slot) /\ Starts(fat, fatNode[n].first) BY <1>0, <3>3, FirstStarts
      <4>2. fatNode[n].slot \in 1 .. DirSlots BY <1>0, <2>2, SlotsAre
      <4> QED BY <1>13, <3>1, <4>1, <4>2
    <3> QED BY <3>2, <3>3
  <2> QED BY Zenon, <2>1, <2>2 DEF FilesShow
<1>15. Fills(p, fat, H, OpName, op.pos, op.pos + (op.done + 1))
  <2>1. Fills(sectors, fat, H, OpName, op.pos, op.pos + op.done) BY Zenon, <1>1, <1>12 DEF Writing
  <2> SUFFICES ASSUME NEW i \in Nat, op.pos <= i, i < op.pos + (op.done + 1)
               PROVE  Present(fat, H, i) /\ SecAt(p, fat, H, i) = <<OpName, i>>
    BY DEF Fills
  <2>2. op.pos \in Nat /\ op.done \in Nat BY <1>0 DEF OpType
  <2>3. i < op.pos + op.done \/ i = Here BY <2>2 DEF Here
  <2>4. CASE i < op.pos + op.done
    <3>1. Present(fat, H, i) /\ SecAt(sectors, fat, H, i) = <<OpName, i>> BY Zenon, <2>1, <2>4 DEF Fills
    <3> QED BY Zenon, <1>3, <1>9, <1>11, <3>1
  <2>5. CASE i = Here
    <3>1. SecAt(p, fat, H, i) = Written
      <4> DEFINE c == Go(fat, H, Here \div SPC)
                 r == Here % SPC
      <4>1. c \in ClusterNos /\ r \in 0 .. SPC - 1 BY <1>3, <1>7, SectorPlace DEF Present
      <4>2. p = PutIn(sectors, c, r, Written) BY <1>10
      <4>3. SecAt(p, fat, H, i) = p[c][r] BY <2>5 DEF SecAt
      <4> HIDE DEF c, r
      <4>4. p[c][r] = Written BY <1>0, <4>1, <4>2, PutIs
      <4> QED BY <4>3, <4>4
    <3> QED BY Zenon, <1>3, <1>7, <2>5, <3>1
  <2> QED BY <2>3, <2>4, <2>5
<1>16. ASSUME Stored(sectors, fat, dir, acked) PROVE Stored(p, fat, dir, acked)
  <2>1. ASSUME NEW x \in acked, NEW s \in 1 .. DirSlots, dir[s].name = x[1], HasIn(sectors, fat, dir[s], x)
        PROVE  HasIn(p, fat, dir[s], x)
    <3> DEFINE h == dir[s].first
               i == x[2]
    <3>1. i \in Nat /\ x = <<x[1], i>> BY <1>0, AckedAre
    <3>2. Present(fat, h, i) /\ SecAt(sectors, fat, h, i) = x /\ i < dir[s].size BY <2>1 DEF HasIn
    <3>3. h # NoCluster
      <4>1. i \div SPC \in Nat BY <3>1, SectorPlace
      <4> HIDE DEF i
      <4> QED BY <1>0, <3>2, <4>1, NothingGoes DEF Present
    <3>4. HeadIn(dir, fatNode, h, s) /\ Starts(fat, h) BY <1>0, <3>3, FirstStarts
    <3>5. h = H => s = OpNode.slot
      <4>1. s \in 0 .. DirSlots /\ OpNode.slot \in 0 .. DirSlots BY <1>6
      <4> HIDE DEF h
      <4> QED BY <1>0, <1>9, <3>4, <4>1, HeadsDiffer
    <3>6. SecAt(p, fat, h, i) = SecAt(sectors, fat, h, i) \/ (h = H /\ i = Here /\ SecAt(p, fat, h, i) = Written)
      BY Zenon, <1>11, <3>1, <3>2, <3>4
    <3>7. h = H /\ i = Here => Written = x BY Zenon, <1>3, <2>1, <3>1, <3>5 DEF OpName
    <3>8. SecAt(p, fat, h, i) = x BY Zenon, <3>2, <3>6, <3>7
    <3> QED BY <3>2, <3>8 DEF HasIn
  <2> QED BY Zenon, <1>16, <2>1 DEF Stored
<1>17. OpNode' = OpNode /\ OpName' = OpName BY Zenon, <1>1, <1>5 DEF OpNode, OpName
<1>18. Writing(p, fat, H, OpName, OpNode.size, op')
  <2>1. op'.pc \notin {"link", "entry"} BY <1>5
  <2>2. Fills(p, fat, H, OpName, op'.pos, op'.pos + op'.done) BY Zenon, <1>5, <1>15
  <2> QED BY Zenon, <2>1, <2>2 DEF Writing
<1> QED BY Zenon, <1>1, <1>4, <1>12, <1>14, <1>16, <1>17, <1>18 DEF H

LEMMA UpdateEntryContents == ASSUME Holding, UpdateEntry PROVE Showing'
<1> SUFFICES ASSUME faults' = 0
             PROVE  /\ FilesShow(sectors', fat', dir', fatNode') /\ Writing(sectors', fat', OpNode'.first, OpName', OpNode'.size, op')
                    /\ ~twice' => Once(fatNode') /\ Uptodate(dir', fatNode') /\ Stored(sectors', fat', dir', acked')
  BY Zenon DEF Showing, FatContents, FatKept
<1>0. Linking /\ FatNamed /\ FatLengths /\ Table(fat) BY DEF Holding, Linking, FatTypes
<1>1. /\ OpNode.slot \in 1 .. DirSlots /\ op.n \in FatNodes /\ OpNode = fatNode[op.n] /\ op.pc = "entry"
      /\ \A t \in 1 .. DirSlots : t # OpNode.slot => dir'[t] = dir[t]
      /\ \A t \in 1 .. DirSlots : dir'[t].name = dir[t].name
      /\ \/ Fails
         \/ dir'[OpNode.slot].first = OpNode.first /\ dir'[OpNode.slot].size = OpNode.size /\ Sound
      /\ acked' = acked \cup {<<dir[OpNode.slot].name, i>> : i \in op.pos .. Here - 1}
      /\ op' = Idle /\ UNCHANGED <<fat, sectors, fatNode, twice>>
  BY <1>0, UpdatesEntry
<1>2. faults = 0 /\ Sound
  <2>1. Sound \/ Fails BY Zenon, <1>1
  <2> QED BY <1>0, <2>1, NoFaults
<1>3. dir'[OpNode.slot].first = OpNode.first /\ dir'[OpNode.slot].size = OpNode.size
  <2>1. ~Fails BY <1>2 DEF Sound, Fails
  <2> QED BY Zenon, <1>1, <2>1
<1>4. /\ FilesShow(sectors, fat, dir, fatNode) /\ Writing(sectors, fat, OpNode.first, OpName, OpNode.size, op)
      /\ ~twice => Once(fatNode) /\ Uptodate(dir, fatNode) /\ Stored(sectors, fat, dir, acked)
  BY Zenon, <1>2, NowHolds
<1>5. \A n \in FatNodes : fatNode[n].slot # 0 => fatNode[n].slot \in 1 .. DirSlots BY <1>0, SlotsAre
<1>6. OpNode.slot # 0 BY <1>1
<1>7. FilesShow(sectors, fat, dir', fatNode)
  <2>1. ASSUME NEW s \in 1 .. DirSlots PROVE Shows(sectors, fat, dir'[s].first, dir'[s].name)
    BY Zenon, <1>1, <1>3, <1>4, <1>6 DEF FilesShow
  <2>2. ASSUME NEW n \in FatNodes, fatNode[n].slot # 0 PROVE Shows(sectors, fat, fatNode[n].first, dir'[fatNode[n].slot].name)
    BY Zenon, <1>1, <1>4, <1>5, <2>2 DEF FilesShow
  <2> QED BY Zenon, <2>1, <2>2 DEF FilesShow
<1>8. ASSUME ~twice PROVE Once(fatNode) /\ Uptodate(dir', fatNode) /\ Stored(sectors, fat, dir', acked')
  <2>1. Once(fatNode) /\ Uptodate(dir, fatNode) /\ Stored(sectors, fat, dir, acked) BY Zenon, <1>4, <1>8
  <2>2. Knows(dir'[OpNode.slot], OpNode)
    <3>1. OpNode.size \in Nat BY <1>0, <1>1, SizesAre
    <3>2. dir'[OpNode.slot].size <= OpNode.size BY <1>3, <3>1
    <3> QED BY Zenon, <1>3, <3>2 DEF Knows
  <2>3. \A n \in FatNodes : fatNode[n].slot = OpNode.slot => n = op.n BY Zenon, <1>1, <1>6, <2>1 DEF Once
  <2>4. Uptodate(dir', fatNode)
    <3> SUFFICES ASSUME NEW n \in FatNodes, fatNode[n].slot # 0 PROVE Knows(dir'[fatNode[n].slot], fatNode[n]) BY DEF Uptodate
    <3>1. CASE fatNode[n].slot = OpNode.slot BY Zenon, <1>1, <2>2, <2>3, <3>1
    <3>2. CASE fatNode[n].slot # OpNode.slot BY Zenon, <1>1, <1>5, <2>1, <3>2 DEF Uptodate
    <3> QED BY <3>1, <3>2
  <2>5. ASSUME NEW x \in acked PROVE \E s \in 1 .. DirSlots : dir'[s].name = x[1] /\ HasIn(sectors, fat, dir'[s], x)
    <3>1. PICK s \in 1 .. DirSlots : dir[s].name = x[1] /\ HasIn(sectors, fat, dir[s], x) BY Zenon, <2>1 DEF Stored
    <3>2. x[2] \in Nat BY <1>0, AckedAre
    <3>3. CASE s # OpNode.slot BY Zenon, <1>1, <3>1, <3>3
    <3>4. CASE s = OpNode.slot
      <4>1. Knows(dir[s], OpNode) BY Zenon, <1>1, <1>6, <2>1, <3>4 DEF Uptodate
      <4>2. dir[s].first # NoCluster
        <5>1. Present(fat, dir[s].first, x[2]) BY <3>1 DEF HasIn
        <5>2. x[2] \div SPC \in Nat BY <3>2, SectorPlace
        <5> QED BY <1>0, <5>1, <5>2, NothingGoes DEF Present
      <4>3. dir'[s].first = dir[s].first BY Zenon, <1>3, <3>4, <4>1, <4>2 DEF Knows
      <4>4. x[2] < dir'[s].size
        <5> DEFINE y == dir[s].size
                   z == OpNode.size
        <5>1. y \in Nat /\ z \in Nat BY <1>0, <1>1, SizesAre
        <5>2. x[2] < y /\ y <= z BY <3>1, <4>1 DEF HasIn, Knows
        <5>3. dir'[s].size = z BY Zenon, <1>3, <3>4
        <5> HIDE DEF y, z
        <5>4. x[2] < z BY <3>2, <5>1, <5>2
        <5> QED BY Zenon, <5>3, <5>4
      <4>5. HasIn(sectors, fat, dir'[s], x) BY Zenon, <3>1, <4>3, <4>4 DEF HasIn
      <4> QED BY Zenon, <1>1, <3>1, <4>5
    <3> QED BY <3>3, <3>4
  <2>6. ASSUME NEW i \in op.pos .. Here - 1
        PROVE  LET x == <<OpName, i>> IN \E s \in 1 .. DirSlots : dir'[s].name = x[1] /\ HasIn(sectors, fat, dir'[s], x)
    <3> DEFINE s == OpNode.slot
    <3>1. op.pos \in Nat /\ op.done \in Nat BY <1>0, OpIs DEF OpType
    <3>2. i \in Nat /\ op.pos <= i /\ i < op.pos + op.done BY <3>1 DEF Here
    <3>3. Fills(sectors, fat, OpNode.first, OpName, op.pos, op.pos + op.done) /\ op.pos + op.done <= OpNode.size
      BY Zenon, <1>1, <1>4 DEF Writing
    <3>4. Present(fat, OpNode.first, i) /\ SecAt(sectors, fat, OpNode.first, i) = <<OpName, i>> BY Zenon, <3>2, <3>3 DEF Fills
    <3>5. i < OpNode.size
      <4>1. OpNode.size \in Nat BY <1>0, <1>1, SizesAre
      <4> QED BY <3>1, <3>2, <3>3, <4>1
    <3>6. i < dir'[s].size BY Zenon, <1>3, <3>5
    <3> DEFINE x == <<OpName, i>>
    <3>7. x[1] = OpName /\ x[2] = i OBVIOUS
    <3>8. dir'[s].name = OpName BY Zenon, <1>1 DEF OpName
    <3>9. SecAt(sectors, fat, dir'[s].first, i) = x /\ Present(fat, dir'[s].first, i) BY Zenon, <1>3, <3>4
    <3> HIDE DEF x, s
    <3>10. HasIn(sectors, fat, dir'[s], x) BY Zenon, <3>6, <3>7, <3>9 DEF HasIn
    <3>11. dir'[s].name = x[1] BY Zenon, <3>7, <3>8
    <3>12. s \in 1 .. DirSlots BY <1>1 DEF s
    <3>13. \E t \in 1 .. DirSlots : dir'[t].name = x[1] /\ HasIn(sectors, fat, dir'[t], x) BY Zenon, <3>10, <3>11, <3>12
    <3> QED BY <3>13 DEF x
  <2>7. \A x \in acked' : x \in acked \/ \E i \in op.pos .. Here - 1 : x = <<OpName, i>> BY Zenon, <1>1 DEF OpName
  <2>8. Stored(sectors, fat, dir', acked') BY Zenon, <2>5, <2>6, <2>7 DEF Stored
  <2> QED BY <2>1, <2>4, <2>8
<1>9. Writing(sectors', fat', OpNode'.first, OpName', OpNode'.size, op') BY <1>1, IdleIs, WritesNothing
<1> QED BY Zenon, <1>1, <1>7, <1>8, <1>9

LEMMA InitContents == ASSUME FatInit, Linking PROVE Showing
<1>0. Table(fat) BY DEF Linking, FatTypes
<1>1. \A s \in 1 .. DirSlots : dir[s].first = NoCluster BY DEF FatInit, NoEntry
<1>2. \A n \in FatNodes : fatNode[n].slot = 0 BY DEF FatInit, NoFile
<1>3. op = Idle /\ acked = {} BY DEF FatInit
<1>4. \A name : Shows(sectors, fat, NoCluster, name) BY <1>0, NothingShows
<1>5. FilesShow(sectors, fat, dir, fatNode) BY Zenon, <1>1, <1>2, <1>4 DEF FilesShow
<1>6. Writing(sectors, fat, OpNode.first, OpName, OpNode.size, op) BY <1>3, IdleIs, WritesNothing
<1>7. Once(fatNode) /\ Uptodate(dir, fatNode) BY Zenon, <1>2 DEF Once, Uptodate
<1>8. Stored(sectors, fat, dir, acked) BY <1>3 DEF Stored
<1> QED BY Zenon, <1>5, <1>6, <1>7, <1>8 DEF Showing, FatContents, FatKept

LEMMA ContentsSteps == ASSUME Holding, FatNext \/ UNCHANGED fatVars PROVE Showing'
<1>1. CASE UNCHANGED fatVars
  <2>1. UNCHANGED <<sectors, fat, dir, fatNode, op, acked, faults, twice>> BY <1>1 DEF fatVars
  <2> QED BY Zenon, <2>1 DEF Holding, Showing, FatContents, FatKept, OpNode, OpName
<1>2. ASSUME NEW name \in FileNames, CreateFile(name) \/ Lookup(name) PROVE Showing' BY <1>2, CreateContents, LookupContents
<1>3. ASSUME NEW n, NEW pos, NEW count, Begin(n, pos, count) PROVE Showing' BY <1>3, BeginContents
<1> QED BY <1>1, <1>2, <1>3, ExtendedContents, NoSpaceContents, MarkContents, ClearContents, LinkFirstContents, LinkContents,
        WriteSectorContents, BeyondDiskContents, WriteEndsContents, UpdateEntryContents, CrashContents DEF FatNext, FatStep

LEMMA HoldingMeans == ASSUME fat_bits = 32, Holding PROVE Durable
<1> SUFFICES ASSUME faults = 0
             PROVE  /\ ~twice => \A a \in acked : \E s \in Named(a[1]) : a[2] < dir[s].size /\ Sector(s, a[2]) = a
                    /\ \A s \in UsedEntries : \A i \in 0 .. dir[s].size - 1 : Sector(s, i) \in {Zero, <<dir[s].name, i>>}
  BY Zenon DEF Durable
<1>0. Linking /\ FatLengths BY DEF Holding
<1>1. /\ FilesShow(sectors, fat, dir, fatNode)
      /\ ~twice => Once(fatNode) /\ Uptodate(dir, fatNode) /\ Stored(sectors, fat, dir, acked)
  BY Zenon, NowHolds
<1>2. \A s : \A i : Sector(s, i) = SecAt(sectors, fat, dir[s].first, i)
  <2>1. \A c, k : After(c, k) = Go(fat, c, k) BY AfterIs
  <2> QED BY Zenon, <2>1 DEF Sector, SecAt
<1>3. ASSUME ~twice, NEW a \in acked PROVE \E s \in Named(a[1]) : a[2] < dir[s].size /\ Sector(s, a[2]) = a
  <2>1. Stored(sectors, fat, dir, acked) BY Zenon, <1>1, <1>3
  <2>2. PICK s \in 1 .. DirSlots : dir[s].name = a[1] /\ HasIn(sectors, fat, dir[s], a) BY Zenon, <2>1 DEF Stored
  <2>3. s \in Named(a[1]) BY <2>2 DEF Named
  <2> QED BY Zenon, <1>2, <2>2, <2>3 DEF HasIn
<1>4. ASSUME NEW s \in UsedEntries, NEW i \in 0 .. dir[s].size - 1 PROVE Sector(s, i) \in {Zero, <<dir[s].name, i>>}
  <2>1. s \in 1 .. DirSlots BY DEF UsedEntries
  <2>2. dir[s].size \in Nat BY <1>0, <2>1, SizesAre
  <2>3. i \in Nat /\ i < dir[s].size BY <2>2
  <2>4. Room(fat, dir[s].first, dir[s].size) BY Zenon, <1>0, <2>1 DEF FatLengths, SizesHold
  <2>5. Present(fat, dir[s].first, i) BY <2>2, <2>3, <2>4, InSize
  <2>6. Shows(sectors, fat, dir[s].first, dir[s].name) BY Zenon, <1>1, <2>1 DEF FilesShow
  <2>7. SecAt(sectors, fat, dir[s].first, i) \in {Zero, <<dir[s].name, i>>} BY Zenon, <2>3, <2>5, <2>6 DEF Shows
  <2> QED BY Zenon, <1>2, <2>7
<1> QED BY <1>3, <1>4

FatHolds == fat_bits = 32 => Holding

(* On FAT32, as long as no transfer failed: what a write acknowledged is in   *)
(* its file after whatever writes and crashes follow, if no file had two      *)
(* nodes; and no file shows another's sectors, or what the disk held before.  *)
THEOREM WritesAreDurable == FatSpec => []Durable
<1>1. FatInit => FatHolds BY InitLinks, InitLengths, InitNamed, InitContents DEF FatHolds, Holding, Showing
<1>2. FatHolds /\ [FatNext]_fatVars => FatHolds'
  <2> SUFFICES ASSUME FatHolds, [FatNext]_fatVars PROVE FatHolds' OBVIOUS
  <2>1. fat_bits' = fat_bits BY DEF FatNext, fatVars
  <2> SUFFICES ASSUME fat_bits = 32 PROVE Holding' BY <2>1 DEF FatHolds
  <2>2. Holding BY DEF FatHolds
  <2>3. Linking /\ FatLengths /\ FatNamed BY <2>2 DEF Holding
  <2>4. Linking' BY <2>3, LinkingSteps
  <2>5. FatLengths' BY <2>3, LengthsSteps
  <2>6. FatNamed' BY <2>3, NamedSteps
  <2>7. Showing' BY <2>2, ContentsSteps
  <2> QED BY Zenon, <2>4, <2>5, <2>6, <2>7 DEF Holding, Showing
<1>3. FatHolds => Durable
  <2>1. fat_bits # 32 => Durable BY DEF Durable
  <2> QED BY <2>1, HoldingMeans DEF FatHolds
<1> QED BY <1>1, <1>2, <1>3, PTL DEF FatSpec
=============================================================================
