----------------------------- MODULE Directories -----------------------------
(***************************************************************************)
(* How the disk file systems list a directory and look a name up in   *)
(* it: the record blocks of ext, the entries of FAT with their long names,  *)
(* the entry sets of exFAT, the index tree of NTFS, the identifiers of UDF *)
(* and the sectors of ISO 9660 (drivers/fs).                               *)
(*                                                                         *)
(* A directory is laid out from its entries as the formats say and walked  *)
(* as the drivers do.  Lengths are in units of which a block holds Units;  *)
(* an entry is known by its number.  Bytes of a name are left out, except  *)
(* that it is in capitals or not, and so are tables that are malformed.    *)
(***************************************************************************)
EXTENDS Integers, Sequences, FiniteSets, SequencesExt, TLC

CONSTANTS
    DirFormats,     \* of "ext", "fat", "exfat", "ntfs", "udf", "iso9660"
    Units,          \* units in a block; an entry takes one or two, in FAT one more, in exFAT two
    DirEntries,     \* entries: [name, capital, len, kind]; a kind is "live", "meta" (., .., the parent,
                    \* the files of NTFS itself) or "gone": deleted, or the short alias of another
    MaxEntries,
    Limits          \* entries a caller has room for

ASSUME DirectoriesAssumption == Units \in Nat /\ Units >= 4 /\ MaxEntries \in Nat /\ Limits \subseteq Nat
                                /\ \A e \in DirEntries : e.len \in 1 .. 2 /\ e.kind \in {"live", "meta", "gone"}

VARIABLES
    folder,     \* [format, entries, at, ...]: what is on the disk, and where each entry begins
    broken,     \* blocks of it that cannot be read
    reply       \* of the last call: [call, of, found, failed]

directoriesVars == <<folder, broken, reply>>

NoReply == [call |-> "none", of |-> 0, found |-> <<>>, failed |-> FALSE]

-----------------------------------------------------------------------------
(* The formats, as other systems write them.                               *)

LenOf(f, e) == e.len + (CASE f = "exfat" -> 2 [] f = "fat" -> 1 [] OTHER -> 0)
MayCross(f) == f \in {"fat", "exfat", "udf"}

\* Where each entry begins, and after the last one where the next would.
Starts(f, es) ==
    LET at[i \in 1 .. Len(es) + 1] ==
            IF i = 1 THEN 0
            ELSE LET p == at[i - 1] + LenOf(f, es[i - 1])
                     room == Units - (p % Units)
                 IN  IF i <= Len(es) /\ ~MayCross(f) /\ LenOf(f, es[i]) > room THEN p + room ELSE p
    IN  at

NoInode == 0
\* ext: a deleted entry is part of the record in front of it, or a record without an inode.
ExtRecords(es, at) ==
    LET heads == {i \in DOMAIN es : es[i].kind # "gone" \/ (at[i] % Units) = 0}
        end(i) == LET later == {at[j] : j \in {j \in heads : j > i /\ at[j] \div Units = at[i] \div Units}}
                  IN  IF later = {} THEN (at[i] \div Units + 1) * Units ELSE CHOOSE p \in later : \A q \in later : p <= q
    IN  [p \in {at[i] : i \in heads} |->
            LET i == CHOOSE i \in heads : at[i] = p
            IN  [inode |-> IF es[i].kind = "gone" THEN NoInode ELSE i, rec_len |-> end(i) - p]]

\* NTFS: any of the entries in the root, those between them in a node of their own each.
NtfsTree(es, inRoot) ==
    LET below(lo, hi) == [k \in 1 .. hi - lo - 1 |-> lo + k]
        up == SetToSortSeq(inRoot, <) \o <<Len(es) + 1>>
    IN  [k \in DOMAIN up |-> [entry |-> up[k], sub |-> below(IF k = 1 THEN 0 ELSE up[k - 1], up[k])]]

\* The entries of a directory have different names; in all but ext capitals do not count.
Distinct(f, es) ==
    \A i, j \in DOMAIN es : i # j /\ es[i].kind # "gone" /\ es[j].kind # "gone" =>
        es[i].name # es[j].name \/ (f = "ext" /\ es[i].capital # es[j].capital)
Kinds(f) == {"live"} \cup (IF f = "iso9660" THEN {} ELSE {"gone"}) \cup (IF f = "exfat" THEN {} ELSE {"meta"})
Folders(f) ==
    UNION {{[format |-> f, entries |-> es, at |-> Starts(f, es), chained |-> c,
             records |-> IF f = "ext" THEN ExtRecords(es, Starts(f, es)) ELSE <<>>,
             tree |-> IF f = "ntfs" THEN NtfsTree(es, up) ELSE <<>>] :
                up \in IF f = "ntfs" THEN SUBSET DOMAIN es ELSE {{}},
                c \in IF f \in {"exfat", "fat"} THEN BOOLEAN ELSE {FALSE}} :
            es \in {es \in SeqOf({e \in DirEntries : e.kind \in Kinds(f)}, MaxEntries) : Distinct(f, es)}}

-----------------------------------------------------------------------------
(* The drivers. A walk gives the entries it hands to its callback, Broken  *)
(* behind them if it ends over a block that cannot be read.                *)

Broken == -1
FatTable == -2     \* the block of the FAT, beside the numbers of the clusters
Files == folder.entries
BlockOf(p) == p \div Units
BlockCount == BlockOf(folder.at[Len(Files) + 1] + Units - 1)

ExtIterateDir ==
    LET own(d) == IF d.inode = NoInode THEN <<>> ELSE <<d.inode>>
        walk[p \in 0 .. BlockCount * Units] ==
            IF p = BlockCount * Units THEN <<>>
            ELSE IF BlockOf(p) \in broken THEN <<Broken>>
            ELSE own(folder.records[p]) \o walk[p + folder.records[p].rec_len]
    IN  walk[0]

\* Chained: a cluster chain; otherwise the root area of FAT12 and FAT16. An entry is handed out with
\* its last unit, the short one; a long name is kept from one block to the next.
FatScanDir ==
    LET sector(b) == SelectSeq([i \in DOMAIN Files |-> i],
                               LAMBDA i : BlockOf(folder.at[i + 1] - 1) = b /\ Files[i].kind = "live")
        walk[b \in 0 .. BlockCount] ==
            IF b = BlockCount THEN <<>>
            ELSE IF b \in broken THEN <<Broken>>
            ELSE sector(b) \o (IF folder.chained /\ FatTable \in broken THEN <<>> ELSE walk[b + 1])
    IN  walk[0]

\* A long name lies in parts, the last one first; what is written of a part ends in a zero, and of
\* a full one that is the first place of the part behind it. Gives the parts that can be read.
LfnParts(i) ==
    LET n == Files[i].len
        begun[k \in 1 .. n + 1] == IF k > n THEN {} ELSE (begun[k + 1] \ {k + 1}) \cup {k}
    IN  Cardinality({k \in 1 .. n : 1 .. k \subseteq begun[1]})

\* A set that goes on in the next cluster is left out, and what of it lies there is passed over.
ExfatIterateDir ==
    LET inside(i) == BlockOf(folder.at[i]) = BlockOf(folder.at[i + 1] - 1)
        cluster(b) == SelectSeq([i \in DOMAIN Files |-> i],
                                LAMBDA i : BlockOf(folder.at[i]) = b /\ Files[i].kind # "gone" /\ inside(i))
        walk[b \in 0 .. BlockCount] ==
            IF b = BlockCount THEN <<>>
            ELSE IF b \in broken THEN <<Broken>>
            ELSE cluster(b) \o (IF folder.chained /\ FatTable \in broken THEN <<>> ELSE walk[b + 1])
    IN  walk[0]

\* A mutant: the short aliases are handed out too.
NtfsIterateAliases ==
    FlattenSeq([k \in DOMAIN folder.tree |->
        (IF folder.tree[k].entry > Len(Files) THEN <<>> ELSE <<folder.tree[k].entry>>)
        \o (IF k \in broken THEN <<>> ELSE folder.tree[k].sub)])

\* The node below an entry is walked after the entry; one that cannot be read is passed over.
NtfsIterateDirectory ==
    LET own(i) == IF i > Len(Files) \/ Files[i].kind = "gone" THEN <<>> ELSE <<i>>
        below(sub) == SelectSeq(sub, LAMBDA i : Files[i].kind # "gone")
    IN  FlattenSeq([k \in DOMAIN folder.tree |->
            own(folder.tree[k].entry) \o (IF k \in broken THEN <<>> ELSE below(folder.tree[k].sub))])

\* The whole directory is read first; what is deleted and the parent are passed over.
UdfIterateDir ==
    IF broken # {} THEN <<Broken>> ELSE SelectSeq([i \in DOMAIN Files |-> i], LAMBDA i : Files[i].kind = "live")

\* Behind the last record of a sector are zeros up to its end.
IsoIterateDir ==
    LET starting(p) == {i \in DOMAIN Files : folder.at[i] = p}
        walk[p \in 0 .. BlockCount * Units] ==
            IF p = BlockCount * Units THEN <<>>
            ELSE IF starting(p) = {} THEN walk[(BlockOf(p) + 1) * Units]
            ELSE LET i == CHOOSE i \in starting(p) : TRUE IN <<i>> \o walk[p + Files[i].len]
    IN  IF broken # {} THEN <<Broken>> ELSE walk[0]

Iterate ==
    CASE folder.format = "ext"     -> ExtIterateDir
      [] folder.format = "fat"     -> FatScanDir
      [] folder.format = "exfat"   -> ExfatIterateDir
      [] folder.format = "ntfs"    -> NtfsIterateDirectory
      [] folder.format = "udf"     -> UdfIterateDir
      [] folder.format = "iso9660" -> IsoIterateDir

\* What a listing leaves out of what the walk gives.
Hidden(i) == Files[i].kind = "meta" /\ folder.format \in {"ntfs", "iso9660"}

\* The callback of readdir: it stops the walk at the first entry there is no room for.
Listed(walk, max) ==
    LET go[k \in 1 .. Len(walk) + 1, out \in Seq(DOMAIN Files)] ==
            IF k > Len(walk) THEN [found |-> out, failed |-> FALSE]
            ELSE IF walk[k] = Broken THEN [found |-> <<>>, failed |-> TRUE]
            ELSE IF Len(out) >= max THEN [found |-> out, failed |-> FALSE]
            ELSE go[k + 1, IF Hidden(walk[k]) THEN out ELSE Append(out, walk[k])]
    IN  go[1, <<>>]
Readdir(max) == Listed(Iterate, max)

SameName(i, n) == Files[i].name = n.name /\ (folder.format = "ext" => Files[i].capital = n.capital)
\* What is read of a name is compared with it.
NameMatches(i, n) == SameName(i, n) /\ (folder.format = "fat" => LfnParts(i) = Files[i].len)

\* The callback of lookup: it stops the walk at the first entry of the name.
FirstNamed(walk, n) ==
    LET k == SelectInSeq(walk, LAMBDA i : i # Broken /\ NameMatches(i, n))
    IN  IF k # 0 THEN [found |-> <<walk[k]>>, failed |-> FALSE]
        ELSE [found |-> <<>>, failed |-> Broken \in Range(walk)]
LookUpName(n) == FirstNamed(Iterate, n)

-----------------------------------------------------------------------------
DirectoriesInit ==
    /\ \E f \in DirFormats : folder \in Folders(f)
    /\ broken = {}
    /\ reply = NoReply

\* Blocks by number; a node of NTFS by the place of the entry it is below.
DirBlocks ==
    IF folder.format = "ntfs" THEN DOMAIN folder.tree
    ELSE 0 .. BlockCount - 1 \cup (IF folder.format \in {"exfat", "fat"} THEN {FatTable} ELSE {})

AskedNames == {[name |-> e.name, capital |-> c] : e \in DirEntries, c \in BOOLEAN}

DirBlockFails(b) ==
    /\ broken = {} /\ reply = NoReply
    /\ broken' = {b}
    /\ UNCHANGED <<folder, reply>>

FReaddir(max) ==
    /\ reply = NoReply
    /\ reply' = [call |-> "readdir", of |-> max] @@ Readdir(max)
    /\ UNCHANGED <<folder, broken>>

DirLookUp(n) ==
    /\ reply = NoReply
    /\ reply' = [call |-> "lookup", of |-> n] @@ LookUpName(n)
    /\ UNCHANGED <<folder, broken>>

DirectoriesNext ==
    \/ \E b \in DirBlocks : DirBlockFails(b)
    \/ \E max \in Limits : FReaddir(max)
    \/ \E n \in AskedNames : DirLookUp(n)

DirectoriesSpec == DirectoriesInit /\ [][DirectoriesNext]_directoriesVars

-----------------------------------------------------------------------------
Numbers == {i \in DOMAIN Files : Files[i].kind # "gone"}
InReaddir == {i \in Numbers : Files[i].kind = "live" \/ folder.format = "ext"}
InLookup == {i \in Numbers : Files[i].kind = "live" \/ folder.format \in {"ext", "ntfs", "iso9660"}}
\* What a driver leaves out: the sets of exFAT that cross a cluster, and what is below a node of NTFS
\* that cannot be read; a lookup also long names of FAT in more than one part.
Skipped ==
    CASE folder.format = "exfat" -> {i \in DOMAIN Files : BlockOf(folder.at[i]) # BlockOf(folder.at[i + 1] - 1)}
      [] folder.format = "ntfs" -> UNION {Range(folder.tree[k].sub) : k \in broken}
      [] OTHER -> {}
CutNames == {i \in DOMAIN Files : folder.format = "fat" /\ Files[i].len > 1}
ChainCut == FatTable \in broken

\* A listing gives every entry of the directory that is there and none twice, none that was deleted,
\* as many as there is room for, in the order of the disk (NTFS: any), and a lookup finds exactly the
\* entry of the name, however the entries lie in the blocks; a call fails only over a block that
\* cannot be read, and finds nothing then. Left out are what a driver skips, and what is behind a
\* cluster whose successor cannot be read (ext.c:402-568, fat.c:324-509, exfat.c:199-355,
\* ntfs.c:447-575, 628-730, udf.c:428-595, iso9660.c:179-410).
ListsAll ==
    reply # NoReply =>
        LET found == Range(reply.found)
            there == InReaddir \ Skipped
            named == {i \in InLookup \ (Skipped \cup CutNames) : SameName(i, reply.of)}
        IN  /\ reply.failed => broken # {} /\ found = {}
            /\ reply.call = "readdir" /\ ~reply.failed =>
                   /\ found \subseteq there
                   /\ Cardinality(found) = Len(reply.found)
                   /\ Len(reply.found) <= reply.of
                   /\ Len(reply.found) < reply.of /\ ~ChainCut => found = there
                   /\ folder.format # "ntfs" => \A j, k \in DOMAIN reply.found : j < k => reply.found[j] < reply.found[k]
            /\ reply.call = "lookup" /\ ~reply.failed => found = named \/ (ChainCut /\ found = {})

\* "Lookup matches either form" (fat.c:18-19): a file of FAT is found by its long name. The code does
\* not: a name of more than thirteen characters is read up to the thirteenth (fat.c:295-309).
LongNames ==
    reply.call = "lookup" /\ broken = {} /\ folder.format = "fat" =>
        Range(reply.found) = {i \in InLookup : SameName(i, reply.of)}

=============================================================================
