------------------------------- MODULE FileMaps -------------------------------
(***************************************************************************)
(* Where the read-only file systems find the bytes of a file: the direct   *)
(* and indirect blocks of ext2, the extent tree of ext4, the run lists of  *)
(* NTFS, the chains of exFAT, the extents of UDF and ISO 9660, and the     *)
(* read of each (drivers/fs).                                              *)
(*                                                                         *)
(* An image holds one file.  It is made from the place of each of its      *)
(* blocks as the formats say, and read as the drivers do.  A byte is the   *)
(* place it has on the disk.  Numbers are read from the disk whole;        *)
(* extents that are only preallocated, compression and attribute lists are *)
(* left out.                                                               *)
(***************************************************************************)
EXTENDS Integers, Sequences, FiniteSets

CONSTANTS
    FsFormats,      \* of "ext2", "ext4", "ntfs", "exfat", "udf", "iso9660", "resident" (NTFS and UDF)
    NDIR,           \* direct blocks in an ext2 inode (12)
    EPB,            \* block numbers in a block
    BlockBytes,
    Blocks,         \* blocks of a file; an ext2 file fills its triple map
    Gaps,           \* ranges of blocks that are holes, as <<first, last>>
    Cuts,           \* where a file's second piece begins
    ReadSizes

ASSUME FileMapsAssumption ==
    /\ NDIR \in Nat \ {0} /\ EPB \in Nat \ {0} /\ BlockBytes \in Nat \ {0} /\ Blocks \in Nat \ {0}
    /\ Gaps \subseteq Nat \X Nat /\ Cuts \subseteq Nat /\ ReadSizes \subseteq Nat \ {0}

VARIABLES
    image,      \* [format, where, size, node, disk]: node is what the driver keeps of the file
    bad,        \* blocks that cannot be read
    place,      \* the position of the open file
    got         \* what the last read gave: [at, n, bytes]

fileMapsVars == <<image, bad, place, got>>

Hole  == 0      \* where a block has no place, and what is read from there
ByteAt(b, off) == IF b = Hole THEN Hole ELSE b * BlockBytes + off
Short == -1     \* a read that fails ends in it
NoRead == [at |-> 0, n |-> 0, bytes |-> <<>>]

-----------------------------------------------------------------------------
(* The formats, as other systems write them.                               *)

BlocksOf(f) == IF f = "ext2" THEN NDIR + EPB + EPB * EPB + EPB * EPB * EPB ELSE Blocks
HasHoles(f) == f \in {"ext2", "ext4", "ntfs", "udf"}

\* The place of each block: one piece, or two, of which the second may lie in front.
Placings(f) ==
    LET N == BlocksOf(f)
    IN  {[l \in 0 .. N - 1 |-> IF l \in g[1] .. g[2] THEN Hole ELSE IF l < cut THEN 100 + l ELSE second + l] :
            g \in IF HasHoles(f) THEN Gaps ELSE {<<1, 0>>},
            cut \in IF f = "iso9660" THEN {N} ELSE Cuts, second \in {40, 160}}

\* ext2: a table has a block of its own, named by its depth and the first block it maps.
Width(depth) == CASE depth = 0 -> 1 [] depth = 1 -> EPB [] depth = 2 -> EPB * EPB [] OTHER -> EPB * EPB * EPB
Ref(w, depth, l) ==
    IF depth = 0 THEN w[l]
    ELSE IF \A k \in l .. l + Width(depth) - 1 : w[k] = Hole THEN Hole ELSE 1000 * depth + l
Table(w, depth, l) == [i \in 1 .. EPB |-> Ref(w, depth - 1, l + (i - 1) * Width(depth - 1))]
FirstUnder(depth) == NDIR + (IF depth > 1 THEN Width(1) ELSE 0) + (IF depth > 2 THEN Width(2) ELSE 0)

Ext2Node(w) == [i \in 1 .. NDIR + 3 |-> IF i <= NDIR THEN w[i - 1] ELSE Ref(w, i - NDIR, FirstUnder(i - NDIR))]
Ext2Disk(w) ==
    LET at(depth) == {1000 * depth + l : l \in {l \in FirstUnder(depth) .. BlocksOf("ext2") - 1 :
                                                    (l - FirstUnder(depth)) % Width(depth) = 0}}
    IN  [b \in at(1) \cup at(2) \cup at(3) |-> Table(w, b \div 1000, b % 1000)]

\* The pieces of a file: its longest ranges of blocks that follow one another, or of holes.
PieceHeads(w) == {l \in DOMAIN w : l = 0 \/ w[l] # (IF w[l - 1] = Hole THEN Hole ELSE w[l - 1] + 1)}
Pieces(w) ==
    LET N == Cardinality(DOMAIN w)
        next(l) == CHOOSE k \in l + 1 .. N : k \in PieceHeads(w) \cup {N} /\ \A j \in l + 1 .. k - 1 : j \notin PieceHeads(w)
        go[l \in 0 .. N] ==
            IF l = N THEN <<>> ELSE <<[block |-> l, len |-> next(l) - l, start |-> w[l]]>> \o go[next(l)]
    IN  go[0]

\* ext4: the extents in the inode, or in leaves of two each with an index in the inode.
Ext4Extents(w) == SelectSeq(Pieces(w), LAMBDA p : p.start # Hole)
LeafBlock(i) == 1000 + i
Ext4Leaves(w) ==
    LET x == Ext4Extents(w)
    IN  [i \in 1 .. (Len(x) + 1) \div 2 |-> SubSeq(x, 2 * i - 1, IF 2 * i <= Len(x) THEN 2 * i ELSE Len(x))]
Ext4Nodes(w) ==
    {[depth |-> 0, entries |-> Ext4Extents(w)],
     [depth |-> 1, entries |-> [i \in DOMAIN Ext4Leaves(w) |-> [block |-> Ext4Leaves(w)[i][1].block, leaf |-> LeafBlock(i)]]]}
Ext4Disk(w) == [b \in {LeafBlock(i) : i \in DOMAIN Ext4Leaves(w)} |-> Ext4Leaves(w)[b - 1000]]

\* NTFS: a run is told by its distance from the last one that has a place.
Mapping(w) ==
    LET p == Pieces(w)
        from(i) == LET js == {j \in 1 .. i - 1 : p[j].start # Hole}
                   IN  IF js = {} THEN 0 ELSE p[CHOOSE j \in js : \A k \in js : k <= j].start
    IN  [i \in DOMAIN p |-> [len |-> p[i].len, sparse |-> p[i].start = Hole,
                             delta |-> IF p[i].start = Hole THEN 0 ELSE p[i].start - from(i)]]

\* exFAT: the FAT is one sector.
FatSector == 2000
FatOf(w) ==
    [b \in {w[l] : l \in DOMAIN w} |->
        LET l == CHOOSE l \in DOMAIN w : w[l] = b IN IF l + 1 \in DOMAIN w THEN w[l + 1] ELSE Hole]

\* UDF: extents in bytes, the last one up to the end of the file.
ByteExtents(w, size) ==
    LET p == Pieces(w)
    IN  [i \in DOMAIN p |-> [start |-> p[i].start,
                             bytes |-> IF i = Len(p) THEN size - p[i].block * BlockBytes ELSE p[i].len * BlockBytes]]

\* NTFS and UDF keep a small file in its record.
Record == 900
None == [b \in {} |-> Hole]
Image(f, w, size, node, disk) == [format |-> f, where |-> w, size |-> size, node |-> node, disk |-> disk]
Images(f) ==
    IF f = "resident" THEN {Image(f, [l \in {0} |-> Record], BlockBytes, Record, None)}
    ELSE UNION {LET N == Cardinality(DOMAIN w) IN UNION {
        CASE f = "ext2"  -> {Image(f, w, s, Ext2Node(w), Ext2Disk(w))}
          [] f = "ext4"  -> {Image(f, w, s, n, IF n.depth = 0 THEN None ELSE Ext4Disk(w)) : n \in Ext4Nodes(w)}
          [] f = "ntfs"  -> {Image(f, w, s, Mapping(w), None)}
          [] f = "exfat" -> {Image(f, w, s, [first |-> w[0], no_fat_chain |-> FALSE], FatOf(w))}
                            \cup (IF Len(Pieces(w)) > 1 THEN {}
                                  ELSE {Image(f, w, s, [first |-> w[0], no_fat_chain |-> TRUE], None)})
          [] f = "udf"   -> {Image(f, w, s, ByteExtents(w, s), None)}
          [] f = "iso9660" -> {Image(f, w, s, w[0], None)}
        : s \in {N * BlockBytes, N * BlockBytes - 1}} : w \in Placings(f)}

-----------------------------------------------------------------------------
(* The drivers.                                                            *)

Lesser(a, b) == IF a < b THEN a ELSE b
Greater(a, b)  == IF a < b THEN b ELSE a

Node == image.node

\* A block of zeros stands for a table that cannot be read.
TableEntry(b, i) == IF b = Hole \/ b \in bad THEN Hole ELSE image.disk[b][i + 1]

ExtIndirectMap(l) ==
    LET k == l - NDIR
        d == k - EPB
        t == d - EPB * EPB
    IN  IF k < 0 THEN Node[l + 1]
        ELSE IF d < 0 THEN TableEntry(Node[NDIR + 1], k)
        ELSE IF t < 0 THEN TableEntry(TableEntry(Node[NDIR + 2], d \div EPB), d % EPB)
        ELSE TableEntry(TableEntry(TableEntry(Node[NDIR + 3], t \div (EPB * EPB)), (t % (EPB * EPB)) \div EPB), t % EPB)

ExtentLeaf(entries, l) ==
    LET hits == {i \in DOMAIN entries : l >= entries[i].block /\ l < entries[i].block + entries[i].len}
    IN  IF hits = {} THEN Hole
        ELSE LET e == entries[CHOOSE i \in hits : \A j \in hits : i <= j] IN e.start + (l - e.block)

\* The last index entry before the first that begins behind the block.
ExtentIndex(entries, l) ==
    LET below == {i \in DOMAIN entries : \A j \in 1 .. i : entries[j].block <= l}
    IN  IF below = {} THEN Hole ELSE entries[CHOOSE i \in below : \A j \in below : j <= i].leaf

ExtExtentWalk(l) ==
    IF Node.depth = 0 THEN ExtentLeaf(Node.entries, l)
    ELSE LET b == ExtentIndex(Node.entries, l)
         IN  IF b = Hole \/ b \in bad THEN Hole ELSE ExtentLeaf(image.disk[b], l)

\* A mutant: the double table is indexed from the first indirect block on.
ExtMapLate(l) ==
    IF image.format = "ext2" /\ l - NDIR >= EPB /\ l - NDIR < EPB * EPB
    THEN TableEntry(TableEntry(Node[NDIR + 2], (l - NDIR) \div EPB), (l - NDIR) % EPB)
    ELSE IF image.format = "ext4" THEN ExtExtentWalk(l) ELSE ExtIndirectMap(l)

ExtMapBlock(l) == IF image.format = "ext4" THEN ExtExtentWalk(l) ELSE ExtIndirectMap(l)

\* The loop of ext, NTFS and ISO 9660 over the blocks of a range; where(l) is a block's place,
\* Hole for zeros, Short for none.
ReadLoop(at, count, where(_)) ==
    LET go[done \in 0 .. count] ==
            LET b == where((at + done) \div BlockBytes)
                off == (at + done) % BlockBytes
                chunk == Lesser(BlockBytes - off, count - done)
            IN  IF done = count \/ b = Short THEN <<>>
                ELSE IF b \in bad THEN <<Short>>
                ELSE [i \in 1 .. chunk |-> ByteAt(b, off + i - 1)] \o go[done + chunk]
    IN  go[0]

NtfsDecodeRunlist ==
    LET go[i \in 0 .. Len(Node)] ==
            IF i = 0 THEN [vcn |-> 0, prev_lcn |-> 0, runs |-> <<>>]
            ELSE LET s == go[i - 1]
                     lcn == s.prev_lcn + Node[i].delta
                 IN  [vcn |-> s.vcn + Node[i].len, prev_lcn |-> lcn,
                      runs |-> Append(s.runs, [vcn |-> s.vcn, len |-> Node[i].len,
                                               lcn |-> lcn, sparse |-> Node[i].sparse])]
    IN  go[Len(Node)].runs

NtfsReadRunlist(at, count) ==
    LET runs == NtfsDecodeRunlist
        where(vcn) ==
            LET hits == {i \in DOMAIN runs : vcn >= runs[i].vcn /\ vcn < runs[i].vcn + runs[i].len}
                r == runs[CHOOSE i \in hits : \A j \in hits : i <= j]
            IN  IF hits = {} THEN Short ELSE IF r.sparse THEN Hole ELSE r.lcn + (vcn - r.vcn)
    IN  ReadLoop(at, count, where)

\* exfat_next_cluster: a FAT that cannot be read ends the chain.
ExfatNext(c) == IF FatSector \in bad THEN Hole ELSE image.disk[c]

ExfatReadFile(at, count) ==
    LET clusters == (image.size + BlockBytes - 1) \div BlockBytes
        part(c, i) ==
            LET from == Greater(at, i * BlockBytes)
                to == Lesser(at + count, (i + 1) * BlockBytes)
            IN  [k \in 1 .. to - from |-> ByteAt(c, from - i * BlockBytes + k - 1)]
        walk[i \in 0 .. clusters, c \in Nat] ==
            LET more == IF i + 1 = clusters THEN <<>>
                        ELSE walk[i + 1, IF Node.no_fat_chain THEN c + 1 ELSE ExfatNext(c)]
            IN  IF c = Hole \/ i * BlockBytes >= at + count THEN <<>>
                ELSE IF (i + 1) * BlockBytes <= at THEN more
                ELSE IF c \in bad THEN <<Short>>
                ELSE part(c, i) \o more
    IN  walk[0, Node.first]

UdfReadContent(at, count) ==
    LET start[i \in 1 .. Len(Node) + 1] == IF i = 1 THEN 0 ELSE start[i - 1] + Node[i - 1].bytes
        segment(i) ==
            LET from == Greater(start[i], at)
                to == Lesser(start[i + 1], at + count)
                where(l) == IF Node[i].start = Hole THEN Hole ELSE Node[i].start + l
            IN  ReadLoop(from - start[i], to - from, where)
        go[i \in 1 .. Len(Node) + 1] ==
            IF i > Len(Node) \/ start[i] >= at + count THEN <<>>
            ELSE IF start[i + 1] <= at THEN go[i + 1]
            ELSE IF \E k \in DOMAIN segment(i) : segment(i)[k] = Short THEN <<Short>>
            ELSE segment(i) \o go[i + 1]
    IN  go[1]

IsoReadFile(at, count) == LET where(l) == Node + l IN ReadLoop(at, count, where)
ExtReadFile(at, count) == ReadLoop(at, count, ExtMapBlock)
ResidentRead(at, count) == [i \in 1 .. count |-> ByteAt(Record, at + i - 1)]

FileBytes(at, count) ==
    CASE image.format \in {"ext2", "ext4"} -> ExtReadFile(at, count)
      [] image.format = "ntfs"     -> NtfsReadRunlist(at, count)
      [] image.format = "exfat"    -> ExfatReadFile(at, count)
      [] image.format = "udf"      -> UdfReadContent(at, count)
      [] image.format = "iso9660"  -> IsoReadFile(at, count)
      [] image.format = "resident" -> ResidentRead(at, count)

Failed(bytes) == \E i \in DOMAIN bytes : bytes[i] = Short

-----------------------------------------------------------------------------
FileMapsInit ==
    /\ \E f \in FsFormats : image \in Images(f)
    /\ bad = {}
    /\ place = 0
    /\ got = NoRead

\* A block of the file or of its tables, or the FAT, turns out to be unreadable.
BlockFails(b) ==
    /\ bad = {} /\ got = NoRead /\ place = 0
    /\ bad' = {b}
    /\ UNCHANGED <<image, place, got>>

SeekTo(p) ==
    /\ place' = p
    /\ got' = NoRead
    /\ UNCHANGED <<image, bad>>

ReadMapped(n) ==
    LET count == Lesser(n, image.size - place)
        bytes == IF place >= image.size THEN <<>> ELSE FileBytes(place, count)
    IN  /\ got' = [at |-> place, n |-> n, bytes |-> bytes]
        /\ place' = IF Failed(bytes) THEN place ELSE place + Len(bytes)
        /\ UNCHANGED <<image, bad>>

\* What can be unreadable: blocks of the file, tables, the FAT.
MayFail == {image.where[l] : l \in DOMAIN image.where} \cup DOMAIN image.disk
           \cup (IF image.format = "exfat" THEN {FatSector} ELSE {})

FileMapsNext ==
    \/ \E b \in MayFail \ {Hole, Record} : BlockFails(b)
    \/ \E p \in 0 .. image.size : SeekTo(p)
    \/ \E n \in ReadSizes : ReadMapped(n)

FileMapsSpec == FileMapsInit /\ [][FileMapsNext]_fileMapsVars

-----------------------------------------------------------------------------
Tables == IF image.format \in {"ext2", "ext4"} THEN DOMAIN image.disk ELSE {}

\* A read gives the file's bytes from the position on, zeros in the holes, all that were asked
\* for up to the end of the file, however the file lies on the disk and wherever the read
\* begins and ends; it fails only over a block that cannot be read, and the position moves by what
\* was read. A table of ext that cannot be read is taken for a hole, and a FAT of exFAT for the
\* end of the file (ext.c:186-383, ntfs.c:169-311, exfat.c:115-422, udf.c:135-328, iso9660.c:311-344).
ReadsFile ==
    got # NoRead =>
        LET byte(x) == ByteAt(image.where[x \div BlockBytes], x % BlockBytes)
            want == Greater(0, Lesser(got.n, image.size - got.at))
            failed == Failed(got.bytes)
            read == Len(got.bytes) - (IF failed THEN 1 ELSE 0)
        IN  /\ read <= want
            /\ \A i \in 1 .. read : \/ got.bytes[i] = byte(got.at + i - 1)
                                   \/ (got.bytes[i] = Hole /\ bad \cap Tables # {})
            /\ failed => \E i \in 1 .. want : image.where[(got.at + i - 1) \div BlockBytes] \in bad
            /\ ~failed => read = want \/ FatSector \in bad
            /\ place = got.at + (IF failed THEN 0 ELSE read)

=============================================================================
