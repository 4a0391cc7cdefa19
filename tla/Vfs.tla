-------------------------------- MODULE Vfs --------------------------------
(***************************************************************************)
(* The virtual file system of drivers/vfs/vfs_core.c over ramfs: the tree  *)
(* of nodes, the dentry cache, the mount table and the table of open       *)
(* files.                                                                  *)
(*                                                                         *)
(* Every call runs with interrupts off and is one step.  A dentry is the   *)
(* superblock and the names below its root: path_walk makes one for a      *)
(* parent and a name only when the cache has none, and nothing in the tree *)
(* takes one out of the cache again (vfs_dcache_remove is called with the  *)
(* fresh dentry of a second lookup, which was never put there).  A node    *)
(* that was freed keeps its content, as kfree leaves it until the block is *)
(* given out again, which the bounded run does not do.                     *)
(***************************************************************************)
EXTENDS Integers, SequencesExt

CONSTANTS
    Names,          \* names of files and directories
    Nodes,          \* the ramfs nodes that can be allocated, 1..n
    Supers,         \* the superblocks that can be mounted, 1..n
    Paths,          \* the paths programs use: sequences of names
    NULL,
    MAX_CHILDREN,   \* RAMFS_MAX_CHILDREN
    MAX_MOUNTS,     \* VFS_MAX_MOUNTS
    MAX_OPEN,       \* VFS_MAX_OPEN
    ThroughFiles,   \* whether programs use the path of a file as if it were a directory's
    MaxPins         \* bound on the references umounts leave behind

Dentries     == [sb : Supers, names : Seq(Names)]
MountRecords == [at : Dentries \cup {NULL}, root : Dentries, path : Seq(Names), bind : BOOLEAN]

ASSUME VfsAssumption ==
    /\ Nodes \subseteq Nat \ {0} /\ Supers \subseteq Nat \ {0} /\ 1 \in Nodes \cap Supers
    /\ MAX_CHILDREN \in Nat \ {0} /\ MAX_MOUNTS \in Nat \ {0}
    /\ MAX_OPEN \in Nat \ {0} /\ ThroughFiles \in BOOLEAN /\ MaxPins \in Nat
    /\ IsFiniteSet(Nodes) /\ Paths \subseteq Seq(Names)
    /\ NULL \notin Nodes /\ NULL \notin Dentries /\ NULL \notin MountRecords

VARIABLES
    node,       \* node -> [mode, name, parent, kids], kids in the order of children[]
    gone,       \* the nodes free_node was called on
    dcache,     \* cached dentry -> the node of its inode
    ref,        \* d_ref of the cached dentries and the roots
    mounts,     \* slot -> NULL or [at, root, path]
    rootMnt,    \* the slot g_root_mnt points to
    files,      \* g_files: index -> NULL or the dentry it holds
    pins,       \* the references umounts left behind: a sequence of dentries
    hung        \* path_walk goes round for ever, with interrupts off

vfsVars == <<node, gone, dcache, ref, mounts, rootMnt, files, pins, hung>>

Slots == 1..MAX_MOUNTS
Open  == 1..MAX_OPEN
Unused == [mode |-> "none", name |-> NULL, parent |-> NULL, kids |-> <<>>]

Root(s)     == [sb |-> s, names |-> <<>>]
Below(d, n) == [d EXCEPT !.names = Append(@, n)]

\* ------------------------------------------------------------- ramfs

FreeNodes == {n \in Nodes : node[n].mode = "none"}
NewNode   == CHOOSE n \in FreeNodes : \A m \in FreeNodes : n <= m

\* find_child: the first child of that name, or NULL.
FindChild(t, dir, nm) ==
    LET hits == {i \in DOMAIN t[dir].kids : t[t[dir].kids[i]].name = nm}
    IN  IF hits = {} THEN NULL
        ELSE t[dir].kids[CHOOSE i \in hits : \A j \in hits : i <= j]

\* child_index and remove_child_at.
Without(s, x) ==
    LET at == {i \in DOMAIN s : s[i] = x}
    IN  IF at = {} THEN s ELSE RemoveAt(s, CHOOSE i \in at : \A j \in at : i <= j)

Drop(t, dir, n) == [t EXCEPT ![dir].kids = Without(@, n)]
Insert(t, dir, n) == [t EXCEPT ![dir].kids = Append(@, n), ![n].parent = dir]

\* ram_create and ram_mkdir: [rc, node]
Create(dir, nm, m) ==
    IF Len(node[dir].kids) >= MAX_CHILDREN THEN [rc |-> "ENOSPC", node |-> node]
    ELSE IF FindChild(node, dir, nm) # NULL THEN [rc |-> "EEXIST", node |-> node]
    ELSE IF FreeNodes = {} THEN [rc |-> "ENOMEM", node |-> node]
    ELSE [rc |-> "ok",
          node |-> Insert([node EXCEPT ![NewNode] =
                             [mode |-> m, name |-> nm, parent |-> dir, kids |-> <<>>]], dir, NewNode)]

\* The directories from n up to the root of its tree.
Ancestors(t, n) ==
    LET up[k \in 0..Cardinality(Nodes)] ==
          IF k = 0 THEN {n}
          ELSE up[k - 1] \cup ({t[m].parent : m \in up[k - 1]} \ {NULL})
    IN  up[Cardinality(Nodes)]

NoneAbove(t, n) == {}

\* The nodes a rename must not find on its way up.
Above(t, n) == Ancestors(t, n)

\* src goes back, as the last child, when the new directory is full.
Restored(t, odir, src) == Insert(t, odir, src)

\* ram_rename: [rc, node, freed]
RamRename(odir, src, ndir, nm) ==
    LET dst == FindChild(node, ndir, nm)
        t1  == IF dst = NULL THEN node ELSE Drop(node, ndir, dst)
        t2  == Drop(t1, odir, src)
        failed(e) == [rc |-> e, node |-> node, freed |-> {}]
    IN  IF odir = ndir /\ node[src].name = nm THEN failed("same")
        ELSE IF node[src].mode = "dir" /\ src \in Above(node, ndir) THEN failed("EINVAL")
        ELSE IF dst # NULL /\ node[dst].mode # node[src].mode THEN failed("ENOTDIR")
        ELSE IF dst # NULL /\ node[dst].mode = "dir" /\ node[dst].kids # <<>> THEN failed("ENOTEMPTY")
        ELSE IF Len(t2[ndir].kids) >= MAX_CHILDREN
        THEN [rc |-> "ENOSPC", node |-> Restored(t2, odir, src), freed |-> {dst} \ {NULL}]
        ELSE [rc |-> "ok", node |-> Insert([t2 EXCEPT ![src].name = nm], ndir, src),
              freed |-> {dst} \ {NULL}]

\* -------------------------------------------------------- path_walk

\* The root of the first mount that covers d, or d.
Cross(d) ==
    LET over == {i \in Slots : mounts[i] # NULL /\ mounts[i].at = d}
    IN  IF over = {} THEN d ELSE mounts[CHOOSE i \in over : \A j \in over : i <= j].root

Bump(r, d, k) == [r EXCEPT ![d] = @ + k]
Moved(s, d) == [s EXCEPT !.cur = d, !.ref = Bump(Bump(@, s.cur, -1), d, 1)]
OverMount(s) == IF Cross(s.cur) = s.cur THEN s ELSE Moved(s, Cross(s.cur))

\* f, with v for d.
Adding(f, d, v) == [x \in DOMAIN f \cup {d} |-> IF x = d THEN v ELSE f[x]]

\* The dentry d made for ramfs's answer ch, and cached.
Fresh(s, d, ch) ==
    IF ch = NULL
    THEN [s EXCEPT !.err = "ENOENT", !.ref = Bump(@, s.cur, -1)]
    ELSE Moved([s EXCEPT !.dc = Adding(@, d, ch), !.ref = Adding(@, d, 0)], d)

\* One component: cross a mount, look in the cache, then ask ramfs and cache the answer.
LookUp(s, nm, d) ==
    IF d \in DOMAIN s.dc THEN Moved(s, d) ELSE Fresh(s, d, FindChild(s.node, s.dc[s.cur], nm))
Inside(s, nm) == LookUp(s, nm, Below(s.cur, nm))
Component(s, nm) == IF s.err # "ok" THEN s ELSE Inside(OverMount(s), nm)

\* The mounts on the last dentry, until none covers it: this many crossings at most,
\* or there is no end.
Crossed(d) == LET go[k \in 0..MAX_MOUNTS] == IF k = 0 THEN d ELSE Cross(go[k - 1]) IN go[MAX_MOUNTS]
OnTop(s, d) ==
    IF \E i \in Slots : mounts[i] # NULL /\ mounts[i].at = d THEN [s EXCEPT !.err = "endless"]
    ELSE IF d = s.cur THEN s
    ELSE Moved(s, d)

WalkEnds(s, path) == IF path = <<>> \/ s.err # "ok" THEN s ELSE OnTop(s, Crossed(s.cur))

\* path_walk over the tree t with the cache dc and the references r:
\* [cur, dc, ref, node, err], cur with a reference of the caller's when err = "ok".
Walk(path, t, dc, r) ==
    LET w[k \in 0..Len(path)] ==
          IF k = 0 THEN [cur |-> mounts[rootMnt].root, dc |-> dc, node |-> t, err |-> "ok",
                         ref |-> Bump(r, mounts[rootMnt].root, 1)]
          ELSE Component(w[k - 1], path[k])
    IN  WalkEnds(w[Len(path)], path)

WalkHere(path) == Walk(path, node, dcache, ref)
Parent(path)   == Front(path)

\* The walk w to a parent is to a directory, or programs do not mind: path_walk and ramfs
\* never look, every inode of ramfs has the operations of a directory.
AsDirectory(w) == ThroughFiles \/ w.err # "ok" \/ w.node[w.dc[w.cur]].mode = "dir"
Leaf(path)     == Last(path)

\* The cache and the references after a walk whose dentry is given back with k references.
Keep(w, k) ==
    /\ dcache' = w.dc
    /\ ref' = IF w.err = "ok" THEN Bump(w.ref, w.cur, k - 1) ELSE w.ref
    /\ hung' = (w.err = "endless")

\* ------------------------------------------------------------- calls

VfsInit ==
    /\ node = [n \in Nodes |-> IF n = 1 THEN [Unused EXCEPT !.mode = "dir"] ELSE Unused]
    /\ gone = {}
    /\ dcache = [d \in {Root(1)} |-> 1]
    /\ ref = [d \in {Root(1)} |-> 1]
    /\ mounts = [i \in Slots |-> IF i = 1 THEN [at |-> NULL, root |-> Root(1), path |-> <<>>, bind |-> FALSE] ELSE NULL]
    /\ rootMnt = 1
    /\ files = [i \in Open |-> NULL]
    /\ pins = <<>>
    /\ hung = FALSE

FreeFiles == {i \in Open : files[i] = NULL}
AllocFile == CHOOSE i \in FreeFiles : \A j \in FreeFiles : i <= j

\* vfs_create_leaf: the parent, the new node, and the walk to it.
Made(pw, mk, path) ==
    IF mk.rc # "ok" THEN [pw EXCEPT !.err = mk.rc, !.ref = Bump(@, pw.cur, -1)]
    ELSE Walk(path, mk.node, pw.dc, Bump(pw.ref, pw.cur, -1))
CreateLeaf(pw, path) ==
    IF pw.err # "ok" THEN pw ELSE Made(pw, Create(pw.dc[pw.cur], Leaf(path), "file"), path)

\* vfs_do_open: the walk w, or the one that ends vfs_create_leaf after an ENOENT.
MakesLeaf(w, creat, path) == creat /\ path # <<>> /\ w.err = "ENOENT"
ParentWalk(w, path) == Walk(Parent(path), node, w.dc, w.ref)
OpenWalk(w, path, creat) ==
    IF MakesLeaf(w, creat, path) THEN CreateLeaf(ParentWalk(w, path), path) ELSE w

RefsOfOpenAlways(ok) == 1

\* A reference of the open file, and none once the open has failed after the walk.
RefsOfOpen(ok) == IF ok THEN 1 ELSE 0

Opened(w, ok) ==
    /\ Keep(w, RefsOfOpen(ok))
    /\ node' = w.node
    /\ files' = IF ok THEN [files EXCEPT ![AllocFile] = w.cur] ELSE files

OpenAt(w, wantDir) ==
    Opened(w, w.err = "ok" /\ FreeFiles # {} /\ (wantDir => node[w.dc[w.cur]].mode = "dir"))

OpenPath(path, creat, wantDir) ==
    /\ MakesLeaf(WalkHere(path), creat, path) => AsDirectory(ParentWalk(WalkHere(path), path))
    /\ OpenAt(OpenWalk(WalkHere(path), path, creat), wantDir)
    /\ UNCHANGED <<gone, mounts, rootMnt, pins>>

Close(i) ==
    /\ files[i] # NULL
    /\ ref' = Bump(ref, files[i], -1)
    /\ files' = [files EXCEPT ![i] = NULL]
    /\ UNCHANGED <<node, gone, dcache, mounts, rootMnt, pins, hung>>

\* vfs_do_stat, do_chdir, the extended attributes: a walk, and its reference dropped.
Stat(path) ==
    /\ Keep(WalkHere(path), 0)
    /\ UNCHANGED <<node, gone, mounts, rootMnt, files, pins>>

MkdirAt(w, path) ==
    /\ AsDirectory(w)
    /\ Keep(w, 0)
    /\ node' = IF w.err = "ok" THEN Create(w.dc[w.cur], Leaf(path), "dir").node ELSE node

Mkdir(path) ==
    /\ path # <<>>
    /\ MkdirAt(WalkHere(Parent(path)), path)
    /\ UNCHANGED <<gone, mounts, rootMnt, files, pins>>

\* vfs_do_unlink and vfs_do_rmdir.  The dentry they take out of the cache is a fresh one.
TakeOut(dir, ch, m) ==
    IF ch # NULL /\ node[ch].mode = m /\ (m = "dir" => node[ch].kids = <<>>)
    THEN node' = Drop(node, dir, ch) /\ gone' = gone \cup {ch}
    ELSE UNCHANGED <<node, gone>>

RemoveIn(w, path, m) ==
    /\ Keep(w, 0)
    /\ IF w.err = "ok" THEN TakeOut(w.dc[w.cur], FindChild(node, w.dc[w.cur], Leaf(path)), m)
       ELSE UNCHANGED <<node, gone>>

RemoveNode(path, m) ==
    /\ path # <<>>
    /\ RemoveIn(WalkHere(Parent(path)), path, m)
    /\ UNCHANGED <<mounts, rootMnt, files, pins>>

Move(mv) ==
    /\ node' = mv.node
    /\ gone' = gone \cup mv.freed

RenameAt(wo, wn, old, new) ==
    LET src == FindChild(node, wo.dc[wo.cur], Leaf(old))
    IN  /\ wo.err = "ok" => AsDirectory(wn)
        /\ IF wo.err # "ok" THEN Keep(wo, 0)
           ELSE Keep([wn EXCEPT !.ref = Bump(@, wo.cur, -1)], 0)
        /\ IF wo.err = "ok" /\ wn.err = "ok" /\ src # NULL
           THEN Move(RamRename(wo.dc[wo.cur], src, wn.dc[wn.cur], Leaf(new)))
           ELSE UNCHANGED <<node, gone>>

RenameFrom(wo, old, new) == RenameAt(wo, Walk(Parent(new), node, wo.dc, wo.ref), old, new)

Rename(old, new) ==
    /\ old # <<>> /\ new # <<>>
    /\ RenameFrom(WalkHere(Parent(old)), old, new)
    /\ UNCHANGED <<mounts, rootMnt, files, pins>>

FreeSlots == {i \in Slots : mounts[i] = NULL}
AllocSlot == CHOOSE i \in FreeSlots : \A j \in FreeSlots : i <= j

\* MS_BIND: both walks' references stay with the mount.
BindAt(ws, wt, tgt) ==
    /\ IF ws.err # "ok" THEN Keep(ws, 0)
       ELSE IF wt.err # "ok" THEN Keep([wt EXCEPT !.ref = Bump(@, ws.cur, -1)], 1)
       ELSE Keep(wt, 1)
    /\ mounts' = IF ws.err = "ok" /\ wt.err = "ok"
                 THEN [mounts EXCEPT ![AllocSlot] = [at |-> wt.cur, root |-> ws.cur,
                                                     path |-> tgt, bind |-> TRUE]]
                 ELSE mounts

BindFrom(ws, tgt) == BindAt(ws, Walk(tgt, node, ws.dc, ws.ref), tgt)

Bind(src, tgt) ==
    /\ FreeSlots # {}
    /\ BindFrom(WalkHere(src), tgt)
    /\ UNCHANGED <<node, gone, rootMnt, files, pins>>

\* A new ramfs.  Its slot is in use before the target is walked to, and stays so when there
\* is none.  A mount on "/" becomes the root without covering anything.
FreeSupers == {s \in Supers : Root(s) \notin DOMAIN ref}
NewSuper == CHOOSE s \in FreeSupers : \A q \in FreeSupers : s <= q

MountAt(w, s, tgt) ==
    LET asRoot == tgt = <<>>
    IN  /\ mounts' = [mounts EXCEPT ![AllocSlot] =
                        [at |-> IF asRoot \/ w.err # "ok" THEN NULL ELSE w.cur,
                         root |-> Root(s), path |-> tgt, bind |-> FALSE]]
        /\ rootMnt' = IF asRoot THEN AllocSlot ELSE rootMnt
        /\ Keep(w, IF asRoot THEN 0 ELSE 1)

Mount(tgt) ==
    /\ FreeSlots # {} /\ FreeSupers # {} /\ FreeNodes # {}
    /\ node' = [node EXCEPT ![NewNode].mode = "dir"]
    /\ MountAt(Walk(tgt, node, Adding(dcache, Root(NewSuper), NewNode),
                    Adding(ref, Root(NewSuper), 1)), NewSuper, tgt)
    /\ UNCHANGED <<gone, files, pins>>

\* The mount is found by the text of its path; the references its walks took stay.
Umount(tgt) ==
    LET hits == {i \in Slots : mounts[i] # NULL /\ mounts[i].path = tgt}
        i == CHOOSE x \in hits : \A y \in hits : x <= y
        left == (IF mounts[i].at = NULL THEN <<>> ELSE <<mounts[i].at>>)
                \o (IF mounts[i].bind THEN <<mounts[i].root>> ELSE <<>>)
    IN  /\ hits # {} /\ i # rootMnt
        /\ Len(pins \o left) <= MaxPins
        /\ mounts' = [mounts EXCEPT ![i] = NULL]
        /\ pins' = pins \o left
        /\ UNCHANGED <<node, gone, dcache, ref, rootMnt, files, hung>>

VfsNext ==
    /\ ~hung
    /\ \/ \E path \in Paths : OpenPath(path, TRUE, FALSE)
       \/ \E path \in Paths, wantDir \in BOOLEAN : OpenPath(path, FALSE, wantDir)
       \/ \E i \in Open : Close(i)
       \/ \E path \in Paths : Stat(path)
       \/ \E path \in Paths : Mkdir(path)
       \/ \E path \in Paths : RemoveNode(path, "file")
       \/ \E path \in Paths : RemoveNode(path, "dir")
       \/ \E old, new \in Paths : Rename(old, new)
       \/ \E src, tgt \in Paths : Bind(src, tgt)
       \/ \E tgt \in Paths : Mount(tgt)
       \/ \E tgt \in Paths : Umount(tgt)

VfsSpec == VfsInit /\ [][VfsNext]_vfsVars

\* -------------------------------------------------------- properties

\* Every reference of a dentry is accounted for: an open file, a mount on it, a bind of it,
\* the root its superblock holds, or one an umount left.  A path that is missing half-way, a
\* create that fails, a file table or a descriptor table that is full must give back every
\* reference the walk took (vfs_core.c:112-225, 372-472, 625-679).
Users(d) ==
    Cardinality({i \in Open : files[i] = d})
    + Cardinality({i \in Slots : mounts[i] # NULL /\ mounts[i].at = d})
    + Cardinality({i \in Slots : mounts[i] # NULL /\ mounts[i].bind /\ mounts[i].root = d})
    + (IF d.names = <<>> THEN 1 ELSE 0)
    + Cardinality({k \in DOMAIN pins : pins[k] = d})

RefsBalanced == hung \/ \A d \in DOMAIN ref : ref[d] = Users(d)

\* The nodes of ramfs stay a forest whatever is created, removed and renamed, through paths
\* the cache still resolves to removed directories included: a node that is not freed is the
\* child of one directory, its parent, under a name no sibling has, and no directory is below
\* itself (ramfs.c:170-300).
Live == {n \in Nodes : node[n].mode # "none"} \ gone
TreeSound ==
    \A n \in Live :
        /\ \A i, j \in DOMAIN node[n].kids : i # j => node[node[n].kids[i]].name # node[node[n].kids[j]].name
        /\ \A i \in DOMAIN node[n].kids : node[n].kids[i] \in Live /\ node[node[n].kids[i]].parent = n
        /\ node[n].parent # NULL =>
             /\ Cardinality({i \in DOMAIN node[node[n].parent].kids : node[node[n].parent].kids[i] = n}) = 1
             /\ n \notin Ancestors(node, node[n].parent)

\* The directory entries a program walks are counted and in order: the two above together, after
\* every call (vfs_core.c:112-225, 372-679, ramfs.c:170-300).
DentriesSound == RefsBalanced /\ TreeSound

=============================================================================
