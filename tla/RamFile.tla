------------------------------- MODULE RamFile -------------------------------
(***************************************************************************)
(* The content of one ramfs file (drivers/fs/ramfs/ramfs.c) and the open   *)
(* files that read, write, truncate and seek in it (drivers/vfs/           *)
(* vfs_core.c). Each byte written is marked with the write it comes from,  *)
(* 0 being the byte no one wrote. Each call is one step.                   *)
(***************************************************************************)
EXTENDS Integers, Sequences, FiniteSets

CONSTANTS
    Handles,    \* the descriptors of the file
    FirstCap,   \* bytes of the first buffer (256)
    MaxSize,    \* bound: the file's size and the places seeked to
    MaxCount,   \* bound: bytes of one read or write
    MaxWrites   \* bound: writes

ASSUME RamFileAssumption ==
    /\ FirstCap \in Nat \ {0} /\ MaxSize \in Nat
    /\ MaxCount \in Nat \ {0} /\ MaxWrites \in Nat

VARIABLES
    size,       \* ramfs_node_t.size, and i_size
    data,       \* its buffer, as long as its capacity
    handle,     \* descriptor -> its position, or Shut
    writes,     \* writes so far
    wrote,      \* place -> the write that last wrote it since the last truncation, or 0
    past        \* place -> the writes whose byte it ever held, and 0

ramFileVars == <<size, data, handle, writes, wrote, past>>

Shut == -1
FilePlaces == 0 .. MaxSize - 1

RamFileInit ==
    /\ size = 0
    /\ data = <<>>
    /\ handle = [h \in Handles |-> Shut]
    /\ writes = 0
    /\ wrote = [i \in FilePlaces |-> 0]
    /\ past = [i \in FilePlaces |-> {0}]

(* The open routine of ramfs truncates; the buffer keeps its bytes.        *)
OpenRam(h, trunc) ==
    /\ handle[h] = Shut
    /\ handle' = [handle EXCEPT ![h] = 0]
    /\ size' = IF trunc THEN 0 ELSE size
    /\ wrote' = IF trunc THEN [i \in FilePlaces |-> 0] ELSE wrote
    /\ UNCHANGED <<data, writes, past>>

CloseFile(h) ==
    /\ handle[h] # Shut
    /\ handle' = [handle EXCEPT ![h] = Shut]
    /\ UNCHANGED <<size, data, writes, wrote, past>>

(* SEEK_SET, SEEK_CUR and SEEK_END.                                        *)
Seek(h, base, off) ==
    /\ handle[h] # Shut
    /\ base + off \in 0 .. MaxSize
    /\ handle' = [handle EXCEPT ![h] = base + off]
    /\ UNCHANGED <<size, data, writes, wrote, past>>

(* A read gives out the bytes from the position on and moves it.           *)
ReadFile(h, count) ==
    LET n == IF handle[h] >= size THEN 0
             ELSE IF count > size - handle[h] THEN size - handle[h] ELSE count
    IN  /\ handle[h] # Shut
        /\ handle' = [handle EXCEPT ![h] = @ + n]
        /\ UNCHANGED <<size, data, writes, wrote, past>>

(* The buffer a write needs: twice the last one until it is enough, what   *)
(* was written copied and the rest cleared.                                *)
Capacity(need) ==
    LET from == IF data = <<>> THEN FirstCap ELSE 2 * Len(data)
        up[k \in 0 .. need] == IF k = 0 THEN from
                               ELSE IF up[k - 1] < need THEN 2 * up[k - 1] ELSE up[k - 1]
    IN  up[need]

(* A mutant: the new buffer is what the heap gave, its bytes another       *)
(* file's.                                                                 *)
GrownUncleared(need) ==
    IF need <= Len(data) THEN data
    ELSE [i \in 1 .. Capacity(need) |-> IF i <= size THEN data[i] ELSE -1]

Grown(need) ==
    IF need <= Len(data) THEN data
    ELSE [i \in 1 .. Capacity(need) |-> IF i <= size THEN data[i] ELSE 0]

WriteFile(h, count) ==
    LET pos == handle[h]
        stamp == writes + 1
        hit == pos .. pos + count - 1
        buf == Grown(pos + count)
    IN  /\ pos # Shut
        /\ writes < MaxWrites /\ pos + count <= MaxSize
        /\ data' = [i \in 1 .. Len(buf) |-> IF i - 1 \in hit THEN stamp ELSE buf[i]]
        /\ handle' = [handle EXCEPT ![h] = pos + count]
        /\ size' = IF pos + count > size THEN pos + count ELSE size
        /\ writes' = stamp
        /\ wrote' = [i \in FilePlaces |-> IF i \in hit THEN stamp ELSE wrote[i]]
        /\ past' = [i \in FilePlaces |-> IF i \in hit THEN past[i] \cup {stamp} ELSE past[i]]

RamFileNext ==
    \/ \E h \in Handles, trunc \in BOOLEAN : OpenRam(h, trunc)
    \/ \E h \in Handles : CloseFile(h)
    \/ \E h \in Handles, base \in {0, size}, off \in -1 .. MaxSize : Seek(h, base, off)
    \/ \E h \in Handles, off \in {-1, 1} : Seek(h, handle[h], off)
    \/ \E h \in Handles, count \in 1 .. MaxCount : ReadFile(h, count)
    \/ \E h \in Handles, count \in 1 .. MaxCount : WriteFile(h, count)

RamFileSpec == RamFileInit /\ [][RamFileNext]_ramFileVars

-----------------------------------------------------------------------------
(* What a read of the file would give at any place is the byte last        *)
(* written there since the file was truncated, by whichever descriptor;    *)
(* where none was, nothing but a zero or a byte the file itself once held  *)
(* there, across seeks past the end, truncations by others and changes of  *)
(* the buffer (ramfs.c, ram_write: a hole made after a truncation shows    *)
(* the old bytes, never another file's).                                   *)
ReadsBack ==
    \A i \in 0 .. size - 1 :
        IF wrote[i] # 0 THEN data[i + 1] = wrote[i] ELSE data[i + 1] \in past[i]
=============================================================================
