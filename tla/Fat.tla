--------------------------------- MODULE Fat ---------------------------------
(***************************************************************************)
(* The FAT driver's writing side (src/drivers/fs/fat/fat.c): a linear scan *)
(* for a free cluster, the chain of a file, its directory entry, and the   *)
(* fat_node_t a lookup makes in memory. Disk calls poll until they are     *)
(* done and never let another thread run, so one call at a time is under   *)
(* way; each write of a sector is a step, between two of which the machine *)
(* may stop, and any transfer may fail. Only the first FAT is ever read,   *)
(* so the copies are left out. Sizes are counted in sectors; a sector      *)
(* holds Zero, what the disk held before (Old), or what was written there. *)
(***************************************************************************)
EXTENDS Integers, FiniteSets, FiniteSetsExt

CONSTANTS FatBits, Clusters, SPC, DirSlots, FileNames, FatNodes, MaxSectors, MaxFaults, MaxCrashes

ASSUME FatAssumption ==
    /\ FatBits \subseteq {12, 16, 32}
    /\ Clusters \in Nat \ {0}
    /\ SPC \in Nat \ {0}
    /\ DirSlots \in Nat \ {0}
    /\ MaxSectors \in Nat
(* No file is without a name.                                              *)
ASSUME NamesAssumption == "" \notin FileNames

VARIABLES
    fat_bits,   \* the width of an entry, as fat_mount finds it
    fat,        \* the file allocation table
    dir,        \* the root directory
    sectors,    \* the sectors of each cluster
    fatNode,    \* the fat_node_t of each looked-up file
    op,         \* the write under way
    acked,      \* what writes reported as written: <<name, sector>>
    result,     \* what the last write returned
    faults, crashes, twice

fatVars == <<fat_bits, fat, dir, sectors, fatNode, op, acked, result, faults, crashes, twice>>

Zero == <<"", 0>>
Old == <<"", 1>>
Free == 0
ROOT == 2
ClusterNos == ROOT .. Clusters + 1
EOC == Clusters + 2
NoCluster == 0
NoEntry == [name |-> "", first |-> NoCluster, size |-> 0]
NoFile == [slot |-> 0, first |-> NoCluster, size |-> 0]
Idle == [pc |-> "idle", n |-> 0, pos |-> 0, count |-> 0, done |-> 0,
         last |-> NoCluster, have |-> 0, new |-> NoCluster]

FatInit ==
    /\ fat_bits \in FatBits
    /\ fat = [c \in ClusterNos \cup {EOC} |-> IF c = ROOT /\ fat_bits = 32 THEN EOC ELSE Free]
    /\ dir = [s \in 1 .. DirSlots |-> NoEntry]
    /\ sectors = [c \in ClusterNos |-> [s \in 0 .. SPC - 1 |-> Old]]
    /\ fatNode = [n \in FatNodes |-> NoFile]
    /\ op = Idle
    /\ acked = {}
    /\ result = "none"
    /\ faults = 0
    /\ crashes = 0
    /\ twice = FALSE

(* The loops over a chain stop below 2 and from 0x0FFFFFF8 on: the end     *)
(* marks of FAT12 and FAT16 are smaller and count as clusters. Their own   *)
(* entry lies behind the table, in other data of the disk, which is taken  *)
(* to hold a zero until the driver writes there.                           *)
InChain(c) == c >= 2 /\ (fat_bits = 32 => c < EOC)

(* The k-th cluster after c, as fat_next called k times gives it.           *)
After(c, k) ==
    LET go[i \in 0 .. k] == IF i = 0 THEN c
                            ELSE IF go[i - 1] \in DOMAIN fat THEN fat[go[i - 1]] ELSE Free
    IN  go[k]

(* How many clusters the walk of fat_extend_chain meets from c on. With    *)
(* more than the disk has, it goes round for ever.                         *)
ChainLength(c) ==
    Cardinality({k \in 0 .. Clusters + 1 : \A i \in 0 .. k : InChain(After(c, i))})
Circular(c) == ChainLength(c) = Clusters + 2

FreeClusters == {c \in ClusterNos : fat[c] = Free}
AllocCluster == Min(FreeClusters)
Needed(size) == Max({1, (size + SPC - 1) \div SPC})

(* A directory is scanned up to its first entry that was never used.       *)
Named(name) == {s \in 1 .. DirSlots : dir[s].name = name}
FreeEntries == {s \in 1 .. DirSlots : dir[s] = NoEntry}

Sound == UNCHANGED faults
Fails == faults < MaxFaults /\ faults' = faults + 1

-----------------------------------------------------------------------------
(* fat_create: one sector of the directory is written.                     *)
CreateFile(name) ==
    /\ op = Idle
    /\ Named(name) = {}
    /\ FreeEntries # {}
    /\ dir' = [dir EXCEPT ![Min(FreeEntries)] = [NoEntry EXCEPT !.name = name]]
    /\ UNCHANGED <<fat, sectors, fatNode, op, acked, result, faults, crashes, twice>>

(* fat_lookup makes a node of its own each time it is asked: for a name in *)
(* other letters, or one the dentry cache has lost, there is one already.  *)
Lookup(name) ==
    /\ op = Idle
    /\ \E s \in Named(name) :
        /\ twice' = (twice \/ \E n \in FatNodes : fatNode[n].slot = s)
        /\ \E n \in FatNodes :
            /\ fatNode[n] = NoFile
            /\ fatNode' = [fatNode EXCEPT ![n] = [slot |-> s, first |-> dir[s].first,
                                            size |-> dir[s].size]]
    /\ UNCHANGED <<fat, dir, sectors, op, acked, result, faults, crashes>>

(* fat_write_file up to the walk of fat_extend_chain. A FAT sector that    *)
(* cannot be read ends the walk where it is.                               *)
Begin(n, pos, count) ==
    LET walk == ChainLength(fatNode[n].first) IN
    /\ op = Idle
    /\ fatNode[n] # NoFile
    /\ pos + count <= MaxSectors
    /\ \E have \in 0 .. walk :
        /\ IF have = walk THEN Sound ELSE have > 0 /\ Fails
        /\ op' = [Idle EXCEPT
                !.pc = IF Circular(fatNode[n].first) /\ have = walk THEN "hung" ELSE "extend",
                !.n = n, !.pos = pos, !.count = count, !.have = have,
                !.last = IF have = 0 THEN NoCluster ELSE After(fatNode[n].first, have - 1)]
    /\ result' = "none"
    /\ UNCHANGED <<fat, dir, sectors, fatNode, acked, crashes, twice>>

Return(a) == op' = Idle /\ result' = a
NeededNow == Needed(Max({op.pos + op.count, fatNode[op.n].size}))

Extended ==
    /\ op.pc = "extend"
    /\ op.have >= NeededNow
    /\ op' = [op EXCEPT !.pc = "data"]
    /\ UNCHANGED <<fat, dir, sectors, fatNode, acked, result, faults, crashes, twice>>

(* Mutant: the new cluster keeps its entry, which says it is free.         *)
MarkNothing ==
    /\ op.pc = "extend"
    /\ op.have < NeededNow
    /\ FreeClusters # {}
    /\ op' = [op EXCEPT !.pc = "clear", !.new = AllocCluster]
    /\ UNCHANGED <<fat, dir, sectors, fatNode, acked, result, faults, crashes, twice>>

NoSpace ==
    /\ op.pc = "extend"
    /\ op.have < NeededNow
    /\ FreeClusters = {}
    /\ Return("ENOSPC")
    /\ UNCHANGED <<fat, dir, sectors, fatNode, acked, faults, crashes, twice>>

(* fat_alloc_cluster: the entry first, then the cluster is cleared.        *)
Mark ==
    /\ op.pc = "extend"
    /\ op.have < NeededNow
    /\ FreeClusters # {}
    /\ \/ /\ fat' = [fat EXCEPT ![AllocCluster] = EOC]
          /\ op' = [op EXCEPT !.pc = "clear", !.new = AllocCluster]
          /\ Sound
          /\ UNCHANGED result
       \/ /\ Fails
          /\ fat' \in {fat, [fat EXCEPT ![AllocCluster] = EOC]}
          /\ Return("ENOSPC")
    /\ UNCHANGED <<dir, sectors, fatNode, acked, crashes, twice>>

(* Whether the cluster could be cleared is not looked at.                  *)
Clear ==
    /\ op.pc = "clear"
    /\ \E kept \in SUBSET (0 .. SPC - 1) :
        /\ IF kept = {} THEN Sound ELSE Fails
        /\ sectors' = [sectors EXCEPT ![op.new] =
                        [s \in 0 .. SPC - 1 |-> IF s \in kept THEN @[s] ELSE Zero]]
    /\ op' = [op EXCEPT !.pc = "link"]
    /\ UNCHANGED <<fat, dir, fatNode, acked, result, crashes, twice>>

Linked == [op EXCEPT !.pc = "extend", !.last = op.new, !.have = @ + 1]

LinkFirst ==
    /\ op.pc = "link"
    /\ op.last = NoCluster
    /\ fatNode' = [fatNode EXCEPT ![op.n].first = op.new]
    /\ op' = Linked
    /\ UNCHANGED <<fat, dir, sectors, acked, result, faults, crashes, twice>>

Link ==
    /\ op.pc = "link"
    /\ op.last # NoCluster
    /\ \/ /\ fat' = [fat EXCEPT ![op.last] = op.new]
          /\ op' = Linked
          /\ Sound
          /\ UNCHANGED result
       \/ /\ Fails
          /\ fat' \in {fat, [fat EXCEPT ![op.last] = op.new]}
          /\ Return("ENOSPC")
    /\ UNCHANGED <<dir, sectors, fatNode, acked, crashes, twice>>

(* One sector of the file. The cluster is looked for from the first one    *)
(* on; the walk may end early, and where an end mark was taken for a       *)
(* cluster the sector is beyond the disk.                                  *)
Here == op.pos + op.done
HereCluster == After(fatNode[op.n].first, Here \div SPC)
Written == <<dir[fatNode[op.n].slot].name, Here>>

WriteSector ==
    /\ op.pc = "data"
    /\ op.done < op.count
    /\ HereCluster \in ClusterNos
    /\ \/ /\ sectors' = [sectors EXCEPT ![HereCluster][Here % SPC] = Written]
          /\ op' = [op EXCEPT !.done = @ + 1]
          /\ Sound
          /\ UNCHANGED result
       \/ /\ Fails
          /\ sectors' \in {sectors, [sectors EXCEPT ![HereCluster][Here % SPC] = Written]}
          /\ Return("EIO")
    /\ UNCHANGED <<fat, dir, fatNode, acked, crashes, twice>>

BeyondDisk ==
    /\ op.pc = "data"
    /\ op.done < op.count
    /\ InChain(HereCluster)
    /\ HereCluster \notin ClusterNos
    /\ Return("EIO")
    /\ UNCHANGED <<fat, dir, sectors, fatNode, acked, faults, crashes, twice>>

WriteEnds ==
    /\ op.pc = "data"
    /\ IF op.done = op.count \/ ~InChain(HereCluster) THEN Sound ELSE Fails
    /\ op' = [op EXCEPT !.pc = "entry"]
    /\ fatNode' = [fatNode EXCEPT ![op.n].size = Max({@, Here})]
    /\ UNCHANGED <<fat, dir, sectors, acked, result, crashes, twice>>

(* Mutant: the entry keeps the size it had.                                *)
EntryFirstOnly(n) == [dir[n.slot] EXCEPT !.first = n.first]

(* fat_update_dir_entry; whether it could be written is not looked at.     *)
Entry(n) == [dir[n.slot] EXCEPT !.first = n.first, !.size = n.size]

UpdateEntry ==
    /\ op.pc = "entry"
    /\ LET n == fatNode[op.n] IN
        \/ dir' = [dir EXCEPT ![n.slot] = Entry(n)] /\ Sound
        \/ UNCHANGED dir /\ Fails
    /\ acked' = acked \cup
            {<<dir[fatNode[op.n].slot].name, i>> : i \in op.pos .. Here - 1}
    /\ Return("ok")
    /\ UNCHANGED <<fat, sectors, fatNode, crashes, twice>>

(* The machine stops: what is in memory is lost.                           *)
Crash ==
    /\ crashes < MaxCrashes
    /\ crashes' = crashes + 1
    /\ fatNode' = [n \in FatNodes |-> NoFile]
    /\ op' = Idle
    /\ result' = "none"
    /\ UNCHANGED <<fat, dir, sectors, acked, faults, twice>>

FatStep ==
    \/ \E name \in FileNames : CreateFile(name) \/ Lookup(name)
    \/ \E n \in FatNodes, pos \in 0 .. MaxSectors - 1, count \in 1 .. MaxSectors : Begin(n, pos, count)
    \/ Extended \/ NoSpace \/ Mark \/ Clear \/ LinkFirst \/ Link
    \/ WriteSector \/ BeyondDisk \/ WriteEnds \/ UpdateEntry
    \/ Crash

FatNext == FatStep /\ UNCHANGED fat_bits

FatSpec == FatInit /\ [][FatNext]_fatVars

-----------------------------------------------------------------------------
UsedEntries == {s \in 1 .. DirSlots : dir[s].first # NoCluster}
ChainOf(c) == {After(c, k) : k \in 0 .. Clusters + 1} \cap ClusterNos
Heads == {ROOT} \cup {dir[s].first : s \in UsedEntries}

(* On FAT32, whatever fails and wherever the machine stops, on the disk    *)
(* the chains of the files and of the root are chains of clusters in use   *)
(* that end, and no two files share one; as long as no transfer failed,    *)
(* each is long enough for the size the directory promises.                *)
ChainsSound == fat_bits = 32 =>
    /\ \A c \in Heads :
        /\ \A d \in ChainOf(c) : fat[d] # Free
        /\ \E k \in 1 .. Clusters : After(c, k) = EOC
    /\ \A s \in UsedEntries : ROOT \notin ChainOf(dir[s].first)
    /\ \A s, t \in UsedEntries : s # t => ChainOf(dir[s].first) \cap ChainOf(dir[t].first) = {}
    /\ faults = 0 => \A s \in UsedEntries : dir[s].size <= SPC * Cardinality(ChainOf(dir[s].first))

Sector(s, i) == sectors[After(dir[s].first, i \div SPC)][i % SPC]

(* As long as no transfer failed: what a write reported as written is in   *)
(* the file after any later writes and crashes, provided no file had two   *)
(* nodes; and a file shows nothing that was never written to it but zeros. *)
Durable ==
    faults = 0 /\ fat_bits = 32 =>
        /\ ~twice => \A a \in acked : \E s \in Named(a[1]) :
                        a[2] < dir[s].size /\ Sector(s, a[2]) = a
        /\ \A s \in UsedEntries : \A i \in 0 .. dir[s].size - 1 :
                        Sector(s, i) \in {Zero, <<dir[s].name, i>>}

(* fat.c:15 "Extends a file's cluster chain when writing past its current  *)
(* tail": without a failing transfer, a write is refused only when no      *)
(* cluster is free.                                                        *)
Extends == result \in {"ENOSPC", "EIO"} /\ faults = 0 => FreeClusters = {}
=============================================================================
