----------------------------- MODULE VfsProofs -----------------------------
(* Theorems about the dentries and the tree of the virtual file system, for   *)
(* any names, nodes, mounts and open files, and paths of any length: the      *)
(* counts are what their users account for, and the nodes stay a tree.        *)
(*                                                                           *)
(* First what a walk does to the counts, then what each call does to the      *)
(* counts and their users; then what is above a node, what taking a node out  *)
(* of a tree and putting one in does to it, and so what each call does.       *)
EXTENDS Vfs, FiniteSetTheorems, NumberLemmas, TLAPS

(* The tree of dentries and nodes.                                           *)

(* Nodes that were given out, and a tree of nodes whose children were.       *)
GivenOut(t) == {n \in Nodes : t[n].mode # "none"}
NodeRecords == [mode : {"none", "file", "dir"}, name : Names \cup {NULL},
                parent : Nodes \cup {NULL}, kids : Seq(Nodes)]
Trees(t) ==
    /\ t \in [Nodes -> NodeRecords]
    /\ \A n \in Nodes : \A i \in DOMAIN t[n].kids : t[n].kids[i] \in GivenOut(t)

(* The cache dc and the references r of the same dentries, of nodes of U.    *)
Cached(dc, r, U) ==
    /\ DOMAIN r \subseteq Dentries /\ DOMAIN dc = DOMAIN r
    /\ r \in [DOMAIN r -> Int] /\ dc \in [DOMAIN r -> U]

(* The mounts are of dentries of D and on such.                              *)
Anchored(ms, root, D) ==
    /\ ms \in [Slots -> {NULL} \cup MountRecords] /\ root \in Slots /\ ms[root] # NULL
    /\ \A i \in Slots : ms[i] # NULL => ms[i].root \in D /\ ms[i].at \in D \cup {NULL}

Types(t, g, dc, r, ms, rm, fs, ps) ==
    /\ Trees(t) /\ g \subseteq Nodes /\ Cached(dc, r, GivenOut(t)) /\ Anchored(ms, rm, DOMAIN r)
    /\ fs \in [Open -> DOMAIN r \cup {NULL}] /\ ps \in Seq(DOMAIN r)

(* The references a dentry has, and those that its users account for.        *)
Val(r, d) == IF d \in DOMAIN r THEN r[d] ELSE 0
Of(c, d, k) == IF c = d THEN k ELSE 0
Opens(fs, d)  == Cardinality({i \in Open : fs[i] = d})
Covers(ms, d) == Cardinality({i \in Slots : ms[i] # NULL /\ ms[i].at = d})
Binds(ms, d)  == Cardinality({i \in Slots : ms[i] # NULL /\ ms[i].bind /\ ms[i].root = d})
Pins(ps, d)   == Cardinality({k \in DOMAIN ps : ps[k] = d})
RootUse(r, d) == IF d \in DOMAIN r /\ d.names = <<>> THEN 1 ELSE 0
Balanced(r, fs, ms, ps) ==
    \A d \in Dentries : Val(r, d) = Opens(fs, d) + Covers(ms, d) + Binds(ms, d) + RootUse(r, d) + Pins(ps, d)
VfsInv == /\ Types(node, gone, dcache, ref, mounts, rootMnt, files, pins) /\ hung \in BOOLEAN
          /\ hung \/ Balanced(ref, files, mounts, pins)

(* n is in the list of children of p, and two of a list differ in name.      *)
IsKid(t, p, n) == \E i \in DOMAIN t[p].kids : t[p].kids[i] = n
KidsDiffer(t)  == \A n \in Nodes : \A i, j \in DOMAIN t[n].kids : i # j => t[t[n].kids[i]].name # t[t[n].kids[j]].name

(* A parent is a directory, and nobody is above itself.                      *)
InDirs(t) == \A n \in Nodes : t[n].parent # NULL => t[t[n].parent].mode = "dir"
NoLoop(t) == \A n \in Nodes : t[n].parent # NULL => n \notin Ancestors(t, t[n].parent)

-----------------------------------------------------------------------------
LEMMA Limits0 ==
    /\ MAX_MOUNTS \in Nat \ {0} /\ MAX_OPEN \in Nat \ {0} /\ IsFiniteSet(Nodes) /\ Nodes \subseteq Nat \ {0}
    /\ NULL \notin Nodes /\ NULL \notin Dentries /\ NULL \notin MountRecords /\ Paths \subseteq Seq(Names)
    /\ 1 \in Nodes /\ 1 \in Supers
BY VfsAssumption

LEMMA BumpIs ==
    ASSUME NEW r, r \in [DOMAIN r -> Int], NEW c \in DOMAIN r, NEW k \in Int
    PROVE  /\ DOMAIN Bump(r, c, k) = DOMAIN r /\ Bump(r, c, k) \in [DOMAIN r -> Int]
           /\ \A d : Val(Bump(r, c, k), d) = Val(r, d) + Of(c, d, k)
<1> DEFINE b == Bump(r, c, k)
<1>1. b = [r EXCEPT ![c] = r[c] + k] BY DEF Bump
<1>2. DOMAIN b = DOMAIN r /\ b \in [DOMAIN r -> Int] /\ \A d \in DOMAIN r : b[d] = IF d = c THEN r[c] + k ELSE r[d] BY <1>1
<1>3. \A d \in DOMAIN r : r[d] \in Int OBVIOUS
<1> HIDE DEF b
<1>4. ASSUME NEW d PROVE Val(b, d) = Val(r, d) + Of(c, d, k)
  <2>1. CASE d \notin DOMAIN r BY <1>2, <2>1 DEF Val, Of
  <2>2. CASE d \in DOMAIN r BY <1>2, <1>3, <2>2 DEF Val, Of
  <2> QED BY <2>1, <2>2
<1> QED BY <1>2, <1>4 DEF b

LEMMA ValIs ==
    ASSUME NEW r, r \in [DOMAIN r -> Int]
    PROVE  \A d : Val(r, d) \in Int
BY DEF Val

-----------------------------------------------------------------------------
(* A walk: its record, and what it must not do to the references of r0.      *)
W(c, dc, r, t, e) == [cur |-> c, dc |-> dc, ref |-> r, node |-> t, err |-> e]
Larger(r, r0) == DOMAIN r0 \subseteq DOMAIN r /\ \A d \in DOMAIN r \ DOMAIN r0 : d.names # <<>>
Counts(r, r0, c, k) == \A d \in Dentries : Val(r, d) = Val(r0, d) + Of(c, d, k)
Refs(e) == IF e = "ok" THEN 1 ELSE 0
Went(w, t, U, r0) ==
    /\ w = W(w.cur, w.dc, w.ref, w.node, w.err) /\ w.node = t
    /\ Cached(w.dc, w.ref, U) /\ Larger(w.ref, r0)
    /\ w.err = "ok" => w.cur \in DOMAIN w.ref
    /\ w.err = "endless" \/ Counts(w.ref, r0, w.cur, Refs(w.err))

(* The children of the nodes of U are nodes of U.                            *)
Kidly(t, U) ==
    /\ U \subseteq Nodes
    /\ \A n \in U : t[n].kids \in Seq(Nodes) /\ \A i \in DOMAIN t[n].kids : t[n].kids[i] \in U

LEMMA FieldsOfWalk ==
    ASSUME NEW c, NEW dc, NEW r, NEW t, NEW e
    PROVE  /\ W(c, dc, r, t, e).cur = c /\ W(c, dc, r, t, e).dc = dc /\ W(c, dc, r, t, e).ref = r
           /\ W(c, dc, r, t, e).node = t /\ W(c, dc, r, t, e).err = e
BY DEF W

LEMMA WentIs ==
    ASSUME NEW c, NEW dc, NEW r, NEW t, NEW e, NEW U, NEW r0,
           Cached(dc, r, U), Larger(r, r0), e = "ok" => c \in DOMAIN r,
           e = "endless" \/ Counts(r, r0, c, Refs(e))
    PROVE  Went(W(c, dc, r, t, e), t, U, r0)
<1> DEFINE w == W(c, dc, r, t, e)
<1>1. w.cur = c /\ w.dc = dc /\ w.ref = r /\ w.node = t /\ w.err = e BY FieldsOfWalk
<1>2. w = W(c, dc, r, t, e) OBVIOUS
<1> HIDE DEF w
<1>3. w = W(w.cur, w.dc, w.ref, w.node, w.err) BY Zenon, <1>1, <1>2
<1>4. Went(w, t, U, r0) BY Zenon, <1>1, <1>3 DEF Went
<1> QED BY <1>2, <1>4

LEMMA MovedIs ==
    ASSUME NEW c, NEW dc, NEW r, NEW t, NEW e, NEW x
    PROVE  Moved(W(c, dc, r, t, e), x) = W(x, dc, Bump(Bump(r, c, -1), x, 1), t, e)
<1> DEFINE s == W(c, dc, r, t, e)
           b == Bump(Bump(s.ref, s.cur, -1), x, 1)
           s1 == [s EXCEPT !.cur = x]
           s2 == [s1 EXCEPT !.ref = b]
<1>1. s.ref = r /\ s.cur = c BY FieldsOfWalk
<1>2. b = Bump(Bump(r, c, -1), x, 1) BY <1>1
<1>3. Moved(s, x) = s2 BY DEF Moved
<1>4. s1 = W(x, dc, r, t, e) BY DEF W
<1> HIDE DEF b, s1
<1>5. s2 = W(x, dc, b, t, e) BY <1>4 DEF W
<1> QED BY <1>2, <1>3, <1>5

LEMMA MovedWent ==
    ASSUME NEW w, NEW t, NEW U, NEW r0, r0 \in [DOMAIN r0 -> Int],
           Went(w, t, U, r0), w.err = "ok", NEW x \in DOMAIN w.ref
    PROVE  /\ Went(Moved(w, x), t, U, r0) /\ Moved(w, x).err = "ok" /\ Moved(w, x).cur = x
           /\ DOMAIN Moved(w, x).ref = DOMAIN w.ref
<1> DEFINE r1 == Bump(w.ref, w.cur, -1)
           r2 == Bump(r1, x, 1)
<1>0. w = W(w.cur, w.dc, w.ref, t, w.err) BY Zenon DEF Went
<1>1. Moved(w, x) = W(x, w.dc, r2, t, w.err)
  <2>1. Moved(W(w.cur, w.dc, w.ref, t, w.err), x) = W(x, w.dc, r2, t, w.err) BY MovedIs
  <2> QED BY Zenon, <1>0, <2>1
<1>2. Cached(w.dc, w.ref, U) /\ Larger(w.ref, r0) /\ w.cur \in DOMAIN w.ref BY DEF Went
<1>3. Counts(w.ref, r0, w.cur, 1) BY DEF Went, Refs
<1>4. w.ref \in [DOMAIN w.ref -> Int] BY <1>2 DEF Cached
<1>5. /\ DOMAIN r1 = DOMAIN w.ref /\ r1 \in [DOMAIN w.ref -> Int]
      /\ \A d : Val(r1, d) = Val(w.ref, d) + Of(w.cur, d, -1)
  <2>1. -1 \in Int OBVIOUS
  <2> QED BY Zenon, <1>2, <1>4, <2>1, BumpIs
<1> HIDE DEF r1
<1>50. r1 \in [DOMAIN r1 -> Int] /\ x \in DOMAIN r1 BY <1>5
<1>6. /\ DOMAIN r2 = DOMAIN w.ref /\ r2 \in [DOMAIN w.ref -> Int]
      /\ \A d : Val(r2, d) = Val(r1, d) + Of(x, d, 1)
  BY <1>5, <1>50, BumpIs
<1> HIDE DEF r2
<1>7. Cached(w.dc, r2, U) BY <1>2, <1>6 DEF Cached
<1>8. Larger(r2, r0) BY <1>2, <1>6 DEF Larger
<1>9. Counts(r2, r0, x, Refs(w.err))
  <2> SUFFICES ASSUME NEW d \in Dentries PROVE Val(r2, d) = Val(r0, d) + Of(x, d, 1) BY DEF Counts, Refs
  <2>1. Val(w.ref, d) = Val(r0, d) + Of(w.cur, d, 1) BY <1>3 DEF Counts
  <2>2. Val(w.ref, d) \in Int /\ Val(r0, d) \in Int BY <1>4, ValIs
  <2>3. Of(w.cur, d, 1) \in {0, 1} /\ Of(w.cur, d, -1) = 0 - Of(w.cur, d, 1) /\ Of(x, d, 1) \in {0, 1} BY DEF Of
  <2>4. Val(r2, d) = Val(w.ref, d) + Of(w.cur, d, -1) + Of(x, d, 1) BY <1>5, <1>6
  <2> QED BY <2>1, <2>2, <2>3, <2>4
<1>10. w.err = "ok" => x \in DOMAIN r2 BY <1>6
<1>11. Went(W(x, w.dc, r2, t, w.err), t, U, r0) BY <1>7, <1>8, <1>9, <1>10, WentIs
<1>12. Moved(w, x).err = "ok" /\ Moved(w, x).cur = x /\ Moved(w, x).ref = r2 BY <1>1, FieldsOfWalk
<1> QED BY Zenon, <1>1, <1>6, <1>11, <1>12

(* A walk that ends in an error gives its reference back.                    *)
Failed(w, e) == [w EXCEPT !.err = e, !.ref = Bump(@, w.cur, -1)]

LEMMA FailedIs ==
    ASSUME NEW c, NEW dc, NEW r, NEW t, NEW f, NEW e
    PROVE  Failed(W(c, dc, r, t, f), e) = W(c, dc, Bump(r, c, -1), t, e)
<1> DEFINE s == W(c, dc, r, t, f)
           b == Bump(s.ref, s.cur, -1)
           s1 == [s EXCEPT !.err = e]
           s2 == [s1 EXCEPT !.ref = b]
<1>1. s.ref = r /\ s.cur = c BY FieldsOfWalk
<1>2. b = Bump(r, c, -1) BY <1>1
<1>3. Failed(s, e) = s2 BY DEF Failed
<1>4. s1 = W(c, dc, r, t, e) BY DEF W
<1> HIDE DEF b, s1
<1>5. s2 = W(c, dc, b, t, e) BY <1>4 DEF W
<1> QED BY <1>2, <1>3, <1>5

LEMMA FailedWent ==
    ASSUME NEW w, NEW t, NEW U, NEW r0, r0 \in [DOMAIN r0 -> Int],
           Went(w, t, U, r0), w.err = "ok", NEW e, e # "ok"
    PROVE  /\ Went(Failed(w, e), t, U, r0) /\ Failed(w, e).err = e
           /\ DOMAIN Failed(w, e).ref = DOMAIN w.ref /\ Failed(w, e).dc = w.dc
<1> DEFINE r1 == Bump(w.ref, w.cur, -1)
<1>0. w = W(w.cur, w.dc, w.ref, t, w.err) BY Zenon DEF Went
<1>1. Failed(w, e) = W(w.cur, w.dc, r1, t, e)
  <2>1. Failed(W(w.cur, w.dc, w.ref, t, w.err), e) = W(w.cur, w.dc, r1, t, e) BY FailedIs
  <2> QED BY Zenon, <1>0, <2>1
<1>2. Cached(w.dc, w.ref, U) /\ Larger(w.ref, r0) /\ w.cur \in DOMAIN w.ref BY DEF Went
<1>3. Counts(w.ref, r0, w.cur, 1) BY DEF Went, Refs
<1>4. w.ref \in [DOMAIN w.ref -> Int] BY <1>2 DEF Cached
<1>5. /\ DOMAIN r1 = DOMAIN w.ref /\ r1 \in [DOMAIN w.ref -> Int]
      /\ \A d : Val(r1, d) = Val(w.ref, d) + Of(w.cur, d, -1)
  <2>1. -1 \in Int OBVIOUS
  <2> QED BY Zenon, <1>2, <1>4, <2>1, BumpIs
<1> HIDE DEF r1
<1>6. Cached(w.dc, r1, U) BY <1>2, <1>5 DEF Cached
<1>7. Larger(r1, r0) BY <1>2, <1>5 DEF Larger
<1>8. Counts(r1, r0, w.cur, 0)
  <2> SUFFICES ASSUME NEW d \in Dentries PROVE Val(r1, d) = Val(r0, d) + Of(w.cur, d, 0) BY DEF Counts
  <2>1. Val(w.ref, d) = Val(r0, d) + Of(w.cur, d, 1) BY <1>3 DEF Counts
  <2>2. Val(w.ref, d) \in Int /\ Val(r0, d) \in Int BY <1>4, ValIs
  <2>3. Of(w.cur, d, 1) \in {0, 1} /\ Of(w.cur, d, -1) = 0 - Of(w.cur, d, 1) /\ Of(w.cur, d, 0) = 0 BY DEF Of
  <2>4. Val(r1, d) = Val(w.ref, d) + Of(w.cur, d, -1) BY <1>5
  <2> QED BY <2>1, <2>2, <2>3, <2>4
<1>9. Refs(e) = 0 BY DEF Refs
<1>10. Went(W(w.cur, w.dc, r1, t, e), t, U, r0) BY <1>6, <1>7, <1>8, <1>9, WentIs
<1>11. Failed(w, e).err = e /\ Failed(w, e).ref = r1 /\ Failed(w, e).dc = w.dc BY <1>1, FieldsOfWalk
<1> QED BY Zenon, <1>1, <1>5, <1>10, <1>11

-----------------------------------------------------------------------------
LEMMA SlotsAreNat == Slots \subseteq Nat /\ Open \subseteq Nat
BY Limits0 DEF Slots, Open

LEMMA CrossIn ==
    ASSUME NEW D, Anchored(mounts, rootMnt, D), NEW d \in D
    PROVE  Cross(d) \in D
<1> DEFINE over == {i \in Slots : mounts[i] # NULL /\ mounts[i].at = d}
           one == CHOOSE i \in over : \A j \in over : i <= j
<1>1. CASE over = {} BY <1>1 DEF Cross
<1>2. CASE over # {}
  <2>1. over \subseteq Nat BY SlotsAreNat
  <2>2. \E i \in over : \A j \in over : i <= j BY <1>2, <2>1, HasLeast
  <2>3. one \in over BY <2>2
  <2>4. Cross(d) = mounts[one].root BY <1>2 DEF Cross
  <2> QED BY <2>3, <2>4 DEF Anchored
<1> QED BY <1>1, <1>2

LEMMA FindChildIs ==
    ASSUME NEW t, NEW n \in Nodes, t[n].kids \in Seq(Nodes), NEW nm
    PROVE  \/ FindChild(t, n, nm) = NULL /\ \A i \in DOMAIN t[n].kids : t[t[n].kids[i]].name # nm
           \/ \E i \in DOMAIN t[n].kids : FindChild(t, n, nm) = t[n].kids[i] /\ t[t[n].kids[i]].name = nm
<1> DEFINE hits == {i \in DOMAIN t[n].kids : t[t[n].kids[i]].name = nm}
           one == CHOOSE i \in hits : \A j \in hits : i <= j
<1>1. CASE hits = {} BY <1>1 DEF FindChild
<1>2. CASE hits # {}
  <2>1. hits \subseteq Nat OBVIOUS
  <2>2. \E i \in hits : \A j \in hits : i <= j BY <1>2, <2>1, HasLeast
  <2>3. one \in hits BY <2>2
  <2>4. FindChild(t, n, nm) = t[n].kids[one] BY <1>2 DEF FindChild
  <2> QED BY <2>3, <2>4
<1> QED BY <1>1, <1>2

LEMMA BelowIs ==
    ASSUME NEW d \in Dentries, NEW nm \in Names
    PROVE  Below(d, nm) \in Dentries /\ Below(d, nm).names # <<>>
<1>1. d.names \in Seq(Names) /\ d.sb \in Supers BY DEF Dentries
<1>2. Append(d.names, nm) \in Seq(Names) /\ Append(d.names, nm) # <<>> BY <1>1
<1>3. Below(d, nm) = [d EXCEPT !.names = Append(d.names, nm)] BY DEF Below
<1>4. Below(d, nm) = [sb |-> d.sb, names |-> Append(d.names, nm)] BY <1>3 DEF Dentries
<1> QED BY <1>1, <1>2, <1>4 DEF Dentries

-----------------------------------------------------------------------------
(* A dentry made for the node ch, with no references yet.                    *)
Making(s, d, ch) == [s EXCEPT !.dc = Adding(@, d, ch), !.ref = Adding(@, d, 0)]

LEMMA MakingIs ==
    ASSUME NEW c, NEW dc, NEW r, NEW t, NEW e, NEW d, NEW ch
    PROVE  Making(W(c, dc, r, t, e), d, ch) = W(c, Adding(dc, d, ch), Adding(r, d, 0), t, e)
<1> DEFINE s == W(c, dc, r, t, e)
           a == Adding(s.dc, d, ch)
           b == Adding(s.ref, d, 0)
           s1 == [s EXCEPT !.dc = a]
           s2 == [s1 EXCEPT !.ref = b]
<1>1. s.ref = r /\ s.dc = dc BY FieldsOfWalk
<1>2. b = Adding(r, d, 0) /\ a = Adding(dc, d, ch) BY <1>1
<1>3. Making(s, d, ch) = s2 BY DEF Making, Adding
<1> HIDE DEF a, b
<1>4. s1 = W(c, a, r, t, e) BY DEF W
<1> HIDE DEF s1
<1>5. s2 = W(c, a, b, t, e) BY <1>4 DEF W
<1> QED BY <1>2, <1>3, <1>5

LEMMA AddingIs ==
    ASSUME NEW r, r \in [DOMAIN r -> Int], NEW d, d \notin DOMAIN r
    PROVE  /\ DOMAIN Adding(r, d, 0) = DOMAIN r \cup {d} /\ Adding(r, d, 0) \in [DOMAIN r \cup {d} -> Int]
           /\ \A x : Val(Adding(r, d, 0), x) = Val(r, x)
BY DEF Adding, Val

LEMMA MakingWent ==
    ASSUME NEW w, NEW t, NEW U, NEW r0, Went(w, t, U, r0), w.err = "ok",
           NEW d \in Dentries, d.names # <<>>, d \notin DOMAIN w.ref, NEW ch \in U
    PROVE  /\ Went(Making(w, d, ch), t, U, r0) /\ Making(w, d, ch).err = "ok"
           /\ d \in DOMAIN Making(w, d, ch).ref
<1> DEFINE a == Adding(w.dc, d, ch)
           b == Adding(w.ref, d, 0)
<1>0. w = W(w.cur, w.dc, w.ref, t, w.err) BY Zenon DEF Went
<1>1. Making(w, d, ch) = W(w.cur, a, b, t, w.err)
  <2>1. Making(W(w.cur, w.dc, w.ref, t, w.err), d, ch) = W(w.cur, a, b, t, w.err) BY MakingIs
  <2> QED BY Zenon, <1>0, <2>1
<1>2. Cached(w.dc, w.ref, U) /\ Larger(w.ref, r0) /\ w.cur \in DOMAIN w.ref BY DEF Went
<1>3. Counts(w.ref, r0, w.cur, Refs(w.err)) BY DEF Went
<1>4. w.ref \in [DOMAIN w.ref -> Int] BY <1>2 DEF Cached
<1>5. DOMAIN b = DOMAIN w.ref \cup {d} /\ b \in [DOMAIN w.ref \cup {d} -> Int] /\ \A x : Val(b, x) = Val(w.ref, x)
  BY <1>4, AddingIs
<1>6. DOMAIN a = DOMAIN w.ref \cup {d} /\ a \in [DOMAIN w.ref \cup {d} -> U] BY <1>2 DEF Adding, Cached
<1> HIDE DEF a, b
<1>7. Cached(a, b, U) BY <1>2, <1>5, <1>6 DEF Cached
<1>8. Larger(b, r0) BY <1>2, <1>5 DEF Larger
<1>9. Counts(b, r0, w.cur, Refs(w.err)) BY <1>3, <1>5 DEF Counts
<1>10. w.cur \in DOMAIN b BY <1>2, <1>5
<1>11. Went(W(w.cur, a, b, t, w.err), t, U, r0) BY <1>7, <1>8, <1>9, <1>10, WentIs
<1>12. Making(w, d, ch).err = w.err /\ Making(w, d, ch).ref = b BY <1>1, FieldsOfWalk
<1> QED BY Zenon, <1>1, <1>5, <1>11, <1>12

-----------------------------------------------------------------------------
Steady(w, t, U, r0) == Went(w, t, U, r0) /\ w.err \in {"ok", "ENOENT"}

LEMMA OverMountWent ==
    ASSUME NEW w, NEW t, NEW U, NEW r0, r0 \in [DOMAIN r0 -> Int], Anchored(mounts, rootMnt, DOMAIN r0),
           Went(w, t, U, r0), w.err = "ok"
    PROVE  Went(OverMount(w), t, U, r0) /\ OverMount(w).err = "ok"
<1>1. CASE Cross(w.cur) = w.cur BY <1>1 DEF OverMount
<1>2. CASE Cross(w.cur) # w.cur
  <2>1. w.cur \in DOMAIN w.ref /\ DOMAIN r0 \subseteq DOMAIN w.ref BY DEF Went, Larger
  <2>2. Anchored(mounts, rootMnt, DOMAIN w.ref) BY <2>1 DEF Anchored
  <2>3. Cross(w.cur) \in DOMAIN w.ref BY <2>1, <2>2, CrossIn
  <2>4. OverMount(w) = Moved(w, Cross(w.cur)) BY <1>2 DEF OverMount
  <2> QED BY <2>3, <2>4, MovedWent
<1> QED BY <1>1, <1>2

LEMMA LookUpWent ==
    ASSUME NEW w, NEW t, NEW U, NEW r0, r0 \in [DOMAIN r0 -> Int], Kidly(t, U),
           Went(w, t, U, r0), w.err = "ok", NEW nm \in Names
    PROVE  Steady(Inside(w, nm), t, U, r0)
<1> DEFINE d == Below(w.cur, nm)
           ch == FindChild(t, w.dc[w.cur], nm)
<1>1. Cached(w.dc, w.ref, U) /\ w.cur \in DOMAIN w.ref /\ w.node = t BY DEF Went
<1>2. DOMAIN w.dc = DOMAIN w.ref /\ w.cur \in Dentries /\ w.dc[w.cur] \in U BY <1>1 DEF Cached
<1>3. d \in Dentries /\ d.names # <<>> BY <1>2, BelowIs
<1>4. Inside(w, nm) = IF d \in DOMAIN w.dc THEN Moved(w, d) ELSE Fresh(w, d, ch) BY <1>1 DEF Inside, LookUp
<1>5. ch = NULL \/ ch \in U
  <2>1. w.dc[w.cur] \in Nodes /\ t[w.dc[w.cur]].kids \in Seq(Nodes) BY <1>2 DEF Kidly
  <2> QED BY <1>2, <2>1, FindChildIs DEF Kidly
<1> HIDE DEF d, ch
<1>6. CASE d \in DOMAIN w.dc
  <2>1. Inside(w, nm) = Moved(w, d) /\ d \in DOMAIN w.ref BY <1>2, <1>4, <1>6
  <2> QED BY <2>1, MovedWent DEF Steady
<1>7. CASE d \notin DOMAIN w.dc /\ ch = NULL
  <2>1. Inside(w, nm) = Failed(w, "ENOENT") BY <1>4, <1>7 DEF Fresh, Failed
  <2>2. Went(Failed(w, "ENOENT"), t, U, r0) /\ Failed(w, "ENOENT").err = "ENOENT" BY FailedWent
  <2> QED BY <2>1, <2>2 DEF Steady
<1>8. CASE d \notin DOMAIN w.dc /\ ch # NULL
  <2>1. Inside(w, nm) = Moved(Making(w, d, ch), d) BY Zenon, <1>4, <1>8 DEF Fresh, Making
  <2>2. d \notin DOMAIN w.ref /\ ch \in U BY <1>2, <1>5, <1>8
  <2>3. Went(Making(w, d, ch), t, U, r0) /\ Making(w, d, ch).err = "ok" /\ d \in DOMAIN Making(w, d, ch).ref
    BY <1>3, <2>2, MakingWent
  <2>4. Went(Moved(Making(w, d, ch), d), t, U, r0) /\ Moved(Making(w, d, ch), d).err = "ok" BY <2>3, MovedWent
  <2> QED BY <2>1, <2>4 DEF Steady
<1> QED BY <1>6, <1>7, <1>8

LEMMA ComponentWent ==
    ASSUME NEW w, NEW t, NEW U, NEW r0, r0 \in [DOMAIN r0 -> Int], Anchored(mounts, rootMnt, DOMAIN r0),
           Kidly(t, U), Steady(w, t, U, r0), NEW nm \in Names
    PROVE  Steady(Component(w, nm), t, U, r0)
<1>1. CASE w.err # "ok" BY <1>1 DEF Component
<1>2. CASE w.err = "ok"
  <2>1. Went(OverMount(w), t, U, r0) /\ OverMount(w).err = "ok" BY <1>2, OverMountWent DEF Steady
  <2>2. Steady(Inside(OverMount(w), nm), t, U, r0) BY <2>1, LookUpWent
  <2>3. Component(w, nm) = Inside(OverMount(w), nm) BY <1>2 DEF Component
  <2> QED BY <2>2, <2>3
<1> QED BY <1>1, <1>2

(* The mounts crossed at the end of a walk, and the walk itself: the          *)
(* functions that they recur by exist.                                        *)
LEMMA CrossedIn ==
    ASSUME NEW D, Anchored(mounts, rootMnt, D), NEW d \in D
    PROVE  Crossed(d) \in D
<1> DEFINE M == MAX_MOUNTS
           F == [p \in D \X (1 .. M) |-> Cross(p[1])]
           Goes2(g) == g = [k \in 0 .. M |-> IF k = 0 THEN d ELSE Cross(g[k - 1])]
           go == CHOOSE g : Goes2(g)
<1>0. M \in Nat BY Limits0
<1>1. F \in Steps(D, M) BY CrossIn DEF Steps
<1>2. \A x \in D, i \in 1 .. M : F[<<x, i>>] = Cross(x) OBVIOUS
<1> HIDE DEF F
<1>3. PICK g : Recurs(g, D, M, d, F) BY <1>0, <1>1, Recursion
<1>4. g \in [0 .. M -> D] /\ g[0] = d /\ \A i \in 1 .. M : g[i] = F[<<g[i - 1], i>>] BY <1>3 DEF Recurs
<1>5. \A i \in 1 .. M : g[i] = Cross(g[i - 1])
  <2>1. \A i \in 1 .. M : i - 1 \in 0 .. M BY <1>0
  <2>2. \A i \in 1 .. M : g[i - 1] \in D BY <1>4, <2>1
  <2> QED BY <1>2, <1>4, <2>2
<1>6. \A i \in 0 .. M : g[i] = IF i = 0 THEN d ELSE Cross(g[i - 1])
  <2>1. \A i \in 0 .. M : i = 0 \/ i \in 1 .. M BY <1>0
  <2> QED BY Zenon, <1>4, <1>5, <2>1
<1>7. g = [i \in 0 .. M |-> g[i]] BY <1>4
<1>8. Goes2(g) BY Zenon, <1>6, <1>7
<1>9. Crossed(d) = go[M] BY DEF Crossed
<1>10. Goes2(go) BY Zenon, <1>8
<1> HIDE DEF go
<1>11. \A i \in 0 .. M : go[i] = IF i = 0 THEN d ELSE Cross(go[i - 1]) BY Zenon, <1>10
<1> DEFINE S == {i \in 0 .. M : go[i] \in D}
<1>12. 0 \in S BY <1>0, <1>11
<1>13. ASSUME NEW i \in 1 .. M, i - 1 \in S PROVE i \in S
  <2>1. i \in 0 .. M /\ i # 0 BY <1>0
  <2>2. go[i] = Cross(go[i - 1]) BY Zenon, <1>11, <2>1
  <2> QED BY <1>13, <2>1, <2>2, CrossIn
<1> HIDE DEF S
<1>14. \A i \in 0 .. M : i \in S BY <1>0, <1>12, <1>13, UpTo
<1>15. M \in 0 .. M BY <1>0
<1>16. M \in S BY <1>14, <1>15
<1> QED BY <1>9, <1>16 DEF S

Walking(path, a, n, g) == g = [k \in 0 .. n |-> IF k = 0 THEN a ELSE Component(g[k - 1], path[k])]

LEMMA WalkingIs ==
    ASSUME NEW path, NEW a, NEW n, NEW g, Walking(path, a, n, g)
    PROVE  \A k \in 0 .. n : g[k] = IF k = 0 THEN a ELSE Component(g[k - 1], path[k])
BY Zenon DEF Walking

LEMMA WalkingSome ==
    ASSUME NEW path, NEW a, NEW N \in Nat
    PROVE  \E g : Walking(path, a, N, g)
<1> DEFINE T == {n \in 0 .. N : \E g : Walking(path, a, n, g)}
<1>1. 0 \in T
  <2> DEFINE h == [k \in 0 .. 0 |-> a]
  <2>1. \A k \in 0 .. 0 : h[k] = IF k = 0 THEN a ELSE Component(h[k - 1], path[k]) OBVIOUS
  <2>2. h = [k \in 0 .. 0 |-> h[k]] OBVIOUS
  <2> HIDE DEF h
  <2>3. Walking(path, a, 0, h) BY Zenon, <2>1, <2>2 DEF Walking
  <2> QED BY <2>3
<1>2. ASSUME NEW n \in 1 .. N, n - 1 \in T PROVE n \in T
  <2>1. PICK g : Walking(path, a, n - 1, g) BY <1>2
  <2>2. \A k \in 0 .. n - 1 : g[k] = IF k = 0 THEN a ELSE Component(g[k - 1], path[k]) BY <2>1, WalkingIs
  <2> DEFINE h == [k \in 0 .. n |-> IF k = n THEN Component(g[n - 1], path[n]) ELSE g[k]]
  <2>3. h = [k \in 0 .. n |-> h[k]] OBVIOUS
  <2>4. \A k \in 0 .. n : h[k] = IF k = n THEN Component(g[n - 1], path[n]) ELSE g[k] OBVIOUS
  <2> HIDE DEF h
  <2>5. ASSUME NEW k \in 0 .. n PROVE h[k] = IF k = 0 THEN a ELSE Component(h[k - 1], path[k])
    <3>1. CASE k = n
      <4>1. k # 0 /\ k - 1 \in 0 .. n /\ k - 1 # n BY <3>1
      <4>2. h[k - 1] = g[n - 1] /\ h[k] = Component(g[n - 1], path[n]) BY <2>4, <3>1, <4>1
      <4> QED BY <3>1, <4>1, <4>2
    <3>2. CASE k = 0
      <4>1. k # n /\ k \in 0 .. n - 1 BY <3>2
      <4> QED BY <2>2, <2>4, <3>2, <4>1
    <3>3. CASE k # n /\ k # 0
      <4>1. k \in 0 .. n - 1 /\ k - 1 \in 0 .. n /\ k - 1 # n BY <3>3
      <4>2. h[k] = g[k] /\ h[k - 1] = g[k - 1] BY <2>4, <3>3, <4>1
      <4>3. g[k] = Component(g[k - 1], path[k]) BY <2>2, <3>3, <4>1
      <4> QED BY <3>3, <4>2, <4>3
    <3> QED BY <3>1, <3>2, <3>3
  <2>6. Walking(path, a, n, h) BY Zenon, <2>3, <2>5 DEF Walking
  <2> QED BY <2>6
<1> HIDE DEF T
<1>3. N \in T
  <2>1. \A k \in 0 .. N : k \in T BY <1>1, <1>2, UpTo
  <2> QED BY <2>1
<1> QED BY <1>3 DEF T

LEMMA WalkEndsWent ==
    ASSUME NEW w, NEW t, NEW U, NEW r0, r0 \in [DOMAIN r0 -> Int], Anchored(mounts, rootMnt, DOMAIN r0),
           Steady(w, t, U, r0), NEW path
    PROVE  Went(WalkEnds(w, path), t, U, r0)
<1>1. CASE path = <<>> \/ w.err # "ok" BY <1>1 DEF WalkEnds, Steady
<1>2. CASE path # <<>> /\ w.err = "ok"
  <2> DEFINE d == Crossed(w.cur)
  <2>1. Went(w, t, U, r0) BY DEF Steady
  <2>2. w.cur \in DOMAIN w.ref /\ DOMAIN r0 \subseteq DOMAIN w.ref BY <1>2, <2>1 DEF Went, Larger
  <2>3. Anchored(mounts, rootMnt, DOMAIN w.ref) BY <2>2 DEF Anchored
  <2>4. d \in DOMAIN w.ref BY <2>2, <2>3, CrossedIn
  <2>5. WalkEnds(w, path) = OnTop(w, d) BY <1>2 DEF WalkEnds
  <2> HIDE DEF d
  <2>6. CASE \E i \in Slots : mounts[i] # NULL /\ mounts[i].at = d
    <3> DEFINE e == [w EXCEPT !.err = "endless"]
    <3>1. OnTop(w, d) = e BY <2>6 DEF OnTop
    <3>2. w = W(w.cur, w.dc, w.ref, t, w.err) BY Zenon, <2>1 DEF Went
    <3>3. [W(w.cur, w.dc, w.ref, t, w.err) EXCEPT !.err = "endless"] = W(w.cur, w.dc, w.ref, t, "endless") BY DEF W
    <3>4. e = W(w.cur, w.dc, w.ref, t, "endless") BY Zenon, <3>2, <3>3
    <3>5. Cached(w.dc, w.ref, U) /\ Larger(w.ref, r0) BY <2>1 DEF Went
    <3>6. Went(W(w.cur, w.dc, w.ref, t, "endless"), t, U, r0) BY <3>5, <2>2, WentIs
    <3> QED BY Zenon, <2>5, <3>1, <3>4, <3>6
  <2>7. CASE ~ \E i \in Slots : mounts[i] # NULL /\ mounts[i].at = d
    <3>1. CASE d = w.cur BY <2>1, <2>5, <2>7, <3>1 DEF OnTop
    <3>2. CASE d # w.cur
      <4>1. OnTop(w, d) = Moved(w, d) BY <2>7, <3>2 DEF OnTop
      <4>2. Went(Moved(w, d), t, U, r0) BY <1>2, <2>1, <2>4, MovedWent
      <4> QED BY <2>5, <4>1, <4>2
    <3> QED BY <3>1, <3>2
  <2> QED BY <2>6, <2>7
<1> QED BY <1>1, <1>2

LEMMA StartWent ==
    ASSUME NEW dc, NEW r, NEW t, NEW U, Cached(dc, r, U), NEW d \in DOMAIN r
    PROVE  Steady(W(d, dc, Bump(r, d, 1), t, "ok"), t, U, r)
<1> DEFINE b == Bump(r, d, 1)
<1>1. r \in [DOMAIN r -> Int] BY DEF Cached
<1>2. DOMAIN b = DOMAIN r /\ b \in [DOMAIN r -> Int] /\ \A x : Val(b, x) = Val(r, x) + Of(d, x, 1) BY <1>1, BumpIs
<1> HIDE DEF b
<1>3. Cached(dc, b, U) BY <1>2 DEF Cached
<1>4. Larger(b, r) BY <1>2 DEF Larger
<1>5. Counts(b, r, d, Refs("ok")) BY <1>2 DEF Counts, Refs
<1>6. Went(W(d, dc, b, t, "ok"), t, U, r) BY <1>2, <1>3, <1>4, <1>5, WentIs
<1>7. W(d, dc, b, t, "ok").err = "ok" BY FieldsOfWalk
<1> QED BY <1>6, <1>7 DEF b, Steady

(* A walk gives back every reference but that of the dentry it ends at.       *)
LEMMA WalkWent ==
    ASSUME NEW dc, NEW r, NEW t, NEW U, Cached(dc, r, U), Kidly(t, U), Anchored(mounts, rootMnt, DOMAIN r),
           NEW path \in Seq(Names)
    PROVE  Went(Walk(path, t, dc, r), t, U, r)
<1> DEFINE n == Len(path)
           a == W(mounts[rootMnt].root, dc, Bump(r, mounts[rootMnt].root, 1), t, "ok")
           w == CHOOSE g : Walking(path, a, n, g)
<1>1. n \in Nat OBVIOUS
<1>2. Walk(path, t, dc, r) = WalkEnds(w[n], path)
  <2>1. a = [cur |-> mounts[rootMnt].root, dc |-> dc, node |-> t, err |-> "ok",
             ref |-> Bump(r, mounts[rootMnt].root, 1)] BY DEF W
  <2> HIDE DEF a
  <2> QED BY Zenon, <2>1 DEF Walk, Walking
<1>3. mounts[rootMnt].root \in DOMAIN r BY DEF Anchored
<1>4. Steady(a, t, U, r) BY <1>3, StartWent
<1> HIDE DEF a
<1>5. \E g : Walking(path, a, n, g) BY <1>1, WalkingSome
<1>6. Walking(path, a, n, w) BY Zenon, <1>5
<1> HIDE DEF w
<1>7. \A k \in 0 .. n : w[k] = IF k = 0 THEN a ELSE Component(w[k - 1], path[k]) BY <1>6, WalkingIs
<1> DEFINE S == {k \in 0 .. n : Steady(w[k], t, U, r)}
<1>8. r \in [DOMAIN r -> Int] BY DEF Cached
<1>9. 0 \in S
  <2>1. 0 \in 0 .. n BY <1>1
  <2>2. w[0] = a BY Zenon, <1>7, <2>1
  <2> QED BY <1>4, <2>1, <2>2
<1>10. ASSUME NEW k \in 1 .. n, k - 1 \in S PROVE k \in S
  <2>1. k \in 0 .. n /\ k # 0 /\ path[k] \in Names BY <1>1
  <2>2. w[k] = Component(w[k - 1], path[k]) BY Zenon, <1>7, <2>1
  <2>3. Steady(w[k - 1], t, U, r) BY <1>10
  <2>4. Steady(Component(w[k - 1], path[k]), t, U, r) BY <1>8, <2>1, <2>3, ComponentWent
  <2> QED BY <2>1, <2>2, <2>4
<1> HIDE DEF S
<1>11. n \in S
  <2>1. \A k \in 0 .. n : k \in S BY <1>1, <1>9, <1>10, UpTo
  <2> QED BY <1>1, <2>1
<1>12. Steady(w[n], t, U, r) BY <1>11 DEF S
<1>13. Went(WalkEnds(w[n], path), t, U, r) BY <1>8, <1>12, WalkEndsWent
<1> QED BY <1>2, <1>13

(* Counting the users of a dentry when one of them changes.                  *)
In(i, A) == IF i \in A THEN 1 ELSE 0

LEMMA CountOne ==
    ASSUME NEW S, IsFiniteSet(S), NEW A, A \subseteq S, NEW B, B \subseteq S, NEW i,
           \A j \in S : j # i => (j \in A <=> j \in B)
    PROVE  /\ Cardinality(A) \in Nat /\ Cardinality(B) \in Nat
           /\ Cardinality(B) + In(i, A) = Cardinality(A) + In(i, B)
<1>1. IsFiniteSet(A) /\ IsFiniteSet(B) BY FS_Subset
<1>2. Cardinality(A) \in Nat /\ Cardinality(B) \in Nat BY <1>1, FS_CardinalityType
<1>3. A \ {i} = B \ {i} OBVIOUS
<1>4. Cardinality(A \ {i}) = IF i \in A THEN Cardinality(A) - 1 ELSE Cardinality(A) BY <1>1, FS_RemoveElement
<1>5. Cardinality(B \ {i}) = IF i \in B THEN Cardinality(B) - 1 ELSE Cardinality(B) BY <1>1, FS_RemoveElement
<1>6. Cardinality(A \ {i}) = Cardinality(B \ {i}) BY <1>3
<1> QED BY <1>2, <1>4, <1>5, <1>6 DEF In

LEMMA PlacesFinite == IsFiniteSet(Open) /\ IsFiniteSet(Slots)
BY Limits0, FS_Interval DEF Open, Slots

Replaced(f, i, v) == [f EXCEPT ![i] = v]

LEMMA OpensIs ==
    ASSUME NEW fs, DOMAIN fs = Open, NEW i \in Open, NEW v, NEW d
    PROVE  /\ Opens(fs, d) \in Nat
           /\ Opens(Replaced(fs, i, v), d) + Of(fs[i], d, 1) = Opens(fs, d) + Of(v, d, 1)
           /\ Opens(Replaced(fs, i, v), d) \in Nat
<1> DEFINE gs == Replaced(fs, i, v)
           A == {j \in Open : fs[j] = d}
           B == {j \in Open : gs[j] = d}
<1>1. gs[i] = v /\ \A j \in Open : j # i => gs[j] = fs[j] BY DEF Replaced
<1> HIDE DEF gs
<1>2. \A j \in Open : j # i => (j \in A <=> j \in B) BY <1>1
<1>3. A \subseteq Open /\ B \subseteq Open OBVIOUS
<1>4. In(i, A) = Of(fs[i], d, 1) /\ In(i, B) = Of(v, d, 1) BY <1>1 DEF In, Of
<1> HIDE DEF A, B
<1>5. /\ Cardinality(A) \in Nat /\ Cardinality(B) \in Nat
      /\ Cardinality(B) + In(i, A) = Cardinality(A) + In(i, B)
  BY <1>2, <1>3, PlacesFinite, CountOne
<1>6. Opens(fs, d) = Cardinality(A) /\ Opens(gs, d) = Cardinality(B) BY DEF Opens, A, B
<1> QED BY <1>4, <1>5, <1>6 DEF gs

Covering(m, d) == IF m # NULL /\ m.at = d THEN 1 ELSE 0
Binding(m, d)  == IF m # NULL /\ m.bind /\ m.root = d THEN 1 ELSE 0

LEMMA CoversIs ==
    ASSUME NEW ms, DOMAIN ms = Slots, NEW i \in Slots, NEW v, NEW d
    PROVE  /\ Covers(ms, d) \in Nat /\ Binds(ms, d) \in Nat
           /\ Covers(Replaced(ms, i, v), d) \in Nat /\ Binds(Replaced(ms, i, v), d) \in Nat
           /\ Covers(Replaced(ms, i, v), d) + Covering(ms[i], d) = Covers(ms, d) + Covering(v, d)
           /\ Binds(Replaced(ms, i, v), d) + Binding(ms[i], d) = Binds(ms, d) + Binding(v, d)
<1> DEFINE ns == Replaced(ms, i, v)
           A == {j \in Slots : ms[j] # NULL /\ ms[j].at = d}
           B == {j \in Slots : ns[j] # NULL /\ ns[j].at = d}
           C == {j \in Slots : ms[j] # NULL /\ ms[j].bind /\ ms[j].root = d}
           D == {j \in Slots : ns[j] # NULL /\ ns[j].bind /\ ns[j].root = d}
<1>1. ns[i] = v /\ \A j \in Slots : j # i => ns[j] = ms[j] BY DEF Replaced
<1> HIDE DEF ns
<1>2. /\ \A j \in Slots : j # i => (j \in A <=> j \in B)
      /\ \A j \in Slots : j # i => (j \in C <=> j \in D)
  BY Zenon, <1>1
<1>3. A \subseteq Slots /\ B \subseteq Slots /\ C \subseteq Slots /\ D \subseteq Slots OBVIOUS
<1>4. i \in A <=> ms[i] # NULL /\ ms[i].at = d OBVIOUS
<1>5. i \in B <=> v # NULL /\ v.at = d BY <1>1
<1>6. i \in C <=> ms[i] # NULL /\ ms[i].bind /\ ms[i].root = d BY Zenon
<1>7. i \in D <=> v # NULL /\ v.bind /\ v.root = d BY Zenon, <1>1
<1>8. Covers(ms, d) = Cardinality(A) /\ Covers(ns, d) = Cardinality(B) BY DEF Covers
<1>9. Binds(ms, d) = Cardinality(C) /\ Binds(ns, d) = Cardinality(D) BY Zenon DEF Binds
<1> HIDE DEF A, B, C, D
<1>10. In(i, A) = Covering(ms[i], d) /\ In(i, B) = Covering(v, d) BY Zenon, <1>4, <1>5 DEF In, Covering
<1>11. In(i, C) = Binding(ms[i], d) /\ In(i, D) = Binding(v, d) BY Zenon, <1>6, <1>7 DEF In, Binding
<1>12. /\ Cardinality(A) \in Nat /\ Cardinality(B) \in Nat
       /\ Cardinality(B) + In(i, A) = Cardinality(A) + In(i, B)
  BY <1>2, <1>3, PlacesFinite, CountOne
<1>13. /\ Cardinality(C) \in Nat /\ Cardinality(D) \in Nat
       /\ Cardinality(D) + In(i, C) = Cardinality(C) + In(i, D)
  BY <1>2, <1>3, PlacesFinite, CountOne
<1> QED BY <1>8, <1>9, <1>10, <1>11, <1>12, <1>13 DEF ns

LEMMA PinsIs ==
    ASSUME NEW S, NEW ps \in Seq(S), NEW x \in S, NEW d
    PROVE  Pins(ps, d) \in Nat /\ Pins(Append(ps, x), d) = Pins(ps, d) + Of(x, d, 1)
<1> DEFINE qs == Append(ps, x)
           n == Len(ps) + 1
           A == {k \in DOMAIN ps : ps[k] = d}
           B == {k \in DOMAIN qs : qs[k] = d}
<1>1. n \in Nat /\ DOMAIN ps = 1 .. n - 1 /\ DOMAIN qs = 1 .. n /\ qs[n] = x /\ \A k \in 1 .. n - 1 : qs[k] = ps[k]
  OBVIOUS
<1> HIDE DEF n
<1> HIDE DEF qs
<1>2. \A j \in 1 .. n : j # n => (j \in A <=> j \in B) BY <1>1
<1>3. A \subseteq 1 .. n /\ B \subseteq 1 .. n BY <1>1
<1>4. n # 0
  <2>1. Len(ps) \in Nat OBVIOUS
  <2> QED BY <2>1 DEF n
<1>5. n \notin A /\ (n \in B <=> x = d)
  <2>1. n \in 1 .. n /\ n \notin 1 .. n - 1 BY <1>1, <1>4
  <2> QED BY <1>1, <2>1
<1>6. Pins(ps, d) = Cardinality(A) /\ Pins(qs, d) = Cardinality(B) BY DEF Pins
<1> HIDE DEF A, B
<1>7. In(n, A) = 0 /\ In(n, B) = Of(x, d, 1) BY <1>5 DEF In, Of
<1>8. IsFiniteSet(1 .. n) BY <1>1, FS_Interval
<1>9. /\ Cardinality(A) \in Nat /\ Cardinality(B) \in Nat
      /\ Cardinality(B) + In(n, A) = Cardinality(A) + In(n, B)
  <2> DEFINE S2 == 1 .. n
  <2>1. IsFiniteSet(S2) /\ A \subseteq S2 /\ B \subseteq S2 /\ \A j \in S2 : j # n => (j \in A <=> j \in B)
    BY Zenon, <1>2, <1>3, <1>8
  <2> HIDE DEF S2
  <2> QED BY <2>1, CountOne
<1> QED BY <1>6, <1>7, <1>9 DEF qs

-----------------------------------------------------------------------------
(* The children of a directory without one, and with one more.               *)
LEMMA WithoutIs ==
    ASSUME NEW S, NEW s \in Seq(S), NEW x
    PROVE  /\ Without(s, x) \in Seq(S)
           /\ \/ Without(s, x) = s /\ \A i \in DOMAIN s : s[i] # x
              \/ \E k \in 1 .. Len(s) :
                    /\ s[k] = x /\ Len(Without(s, x)) = Len(s) - 1
                    /\ \A i \in 1 .. Len(s) - 1 : Without(s, x)[i] = IF i < k THEN s[i] ELSE s[i + 1]
<1> DEFINE at == {i \in DOMAIN s : s[i] = x}
           one == CHOOSE i \in at : \A j \in at : i <= j
<1>1. CASE at = {} BY <1>1 DEF Without
<1>2. CASE at # {}
  <2>1. at \subseteq Nat OBVIOUS
  <2>2. \E i \in at : \A j \in at : i <= j BY <1>2, <2>1, HasLeast
  <2>3. one \in at BY <2>2
  <2>4. one \in 1 .. Len(s) /\ s[one] = x BY <2>3
  <2>5. Without(s, x) = RemoveAt(s, one) BY <1>2 DEF Without
  <2> HIDE DEF one, at
  <2> DEFINE a == SubSeq(s, 1, one - 1)
             b == SubSeq(s, one + 1, Len(s))
  <2>6. a \in Seq(S) /\ Len(a) = one - 1 /\ \A i \in 1 .. one - 1 : a[i] = s[i] BY <2>4
  <2>7. b \in Seq(S) /\ Len(b) = Len(s) - one /\ \A i \in 1 .. Len(s) - one : b[i] = s[i + one] BY <2>4
  <2>8. RemoveAt(s, one) = a \o b BY DEF RemoveAt
  <2> HIDE DEF a, b
  <2>9. a \o b \in Seq(S) /\ Len(a \o b) = Len(s) - 1
    <3>1. a \o b \in Seq(S) /\ Len(a \o b) = Len(a) + Len(b) BY <2>6, <2>7
    <3> QED BY <2>4, <2>6, <2>7, <3>1
  <2>10. ASSUME NEW i \in 1 .. Len(s) - 1 PROVE (a \o b)[i] = IF i < one THEN s[i] ELSE s[i + 1]
    <3>1. CASE i < one BY <2>4, <2>6, <2>7, <3>1
    <3>2. CASE ~(i < one)
      <4>1. i - Len(a) \in 1 .. Len(b) /\ (a \o b)[i] = b[i - Len(a)] BY <2>4, <2>6, <2>7, <3>2
      <4>2. b[i - Len(a)] = s[i + 1] BY <2>4, <2>6, <2>7, <4>1
      <4> QED BY <3>2, <4>1, <4>2
    <3> QED BY <3>1, <3>2
  <2> QED BY <2>4, <2>5, <2>8, <2>9, <2>10
<1> QED BY <1>1, <1>2

LEMMA WithoutHas ==
    ASSUME NEW S, NEW s \in Seq(S), NEW x
    PROVE  /\ Without(s, x) \in Seq(S) /\ Len(Without(s, x)) <= Len(s)
           /\ \A i \in DOMAIN Without(s, x) : \E j \in DOMAIN s : Without(s, x)[i] = s[j]
<1>1. CASE Without(s, x) = s BY <1>1
<1>2. CASE Without(s, x) # s
  <2>1. Without(s, x) \in Seq(S) BY WithoutIs
  <2>2. PICK k \in 1 .. Len(s) : /\ s[k] = x /\ Len(Without(s, x)) = Len(s) - 1
                                 /\ \A i \in 1 .. Len(s) - 1 : Without(s, x)[i] = IF i < k THEN s[i] ELSE s[i + 1]
    BY <1>2, WithoutIs
  <2>3. ASSUME NEW i \in DOMAIN Without(s, x) PROVE \E j \in DOMAIN s : Without(s, x)[i] = s[j]
    <3>1. i \in 1 .. Len(s) - 1 BY <2>1, <2>2
    <3>2. i \in DOMAIN s /\ i + 1 \in DOMAIN s BY <3>1
    <3> QED BY <2>2, <3>1, <3>2
  <2> QED BY <2>1, <2>2, <2>3
<1> QED BY <1>1, <1>2

(* What the calls of ramfs make of the nodes.                                *)
Rec(m, nm, p, ks) == [mode |-> m, name |-> nm, parent |-> p, kids |-> ks]

LEMMA RecIs ==
    ASSUME NEW m, NEW nm, NEW p, NEW ks
    PROVE  /\ Rec(m, nm, p, ks).mode = m /\ Rec(m, nm, p, ks).name = nm
           /\ Rec(m, nm, p, ks).parent = p /\ Rec(m, nm, p, ks).kids = ks
BY DEF Rec

LEMMA RecordIs ==
    ASSUME NEW x \in NodeRecords
    PROVE  /\ x = Rec(x.mode, x.name, x.parent, x.kids)
           /\ x.mode \in {"none", "file", "dir"} /\ x.name \in Names \cup {NULL}
           /\ x.parent \in Nodes \cup {NULL} /\ x.kids \in Seq(Nodes)
BY DEF NodeRecords, Rec

LEMMA RecIn ==
    ASSUME NEW m \in {"none", "file", "dir"}, NEW nm \in Names \cup {NULL}, NEW p \in Nodes \cup {NULL},
           NEW ks \in Seq(Nodes)
    PROVE  Rec(m, nm, p, ks) \in NodeRecords
BY DEF NodeRecords, Rec

WithKids(x, ks) == [x EXCEPT !.kids = ks]
WithParent(x, p) == [x EXCEPT !.parent = p]
WithName(x, nm) == [x EXCEPT !.name = nm]
LEMMA WithParts ==
    ASSUME NEW x \in NodeRecords, NEW v
    PROVE  /\ WithKids(x, v) = Rec(x.mode, x.name, x.parent, v)
           /\ WithParent(x, v) = Rec(x.mode, x.name, v, x.kids)
           /\ WithName(x, v) = Rec(x.mode, v, x.parent, x.kids)
<1>1. x = Rec(x.mode, x.name, x.parent, x.kids) BY RecordIs
<1>2. WithKids(x, v) = Rec(x.mode, x.name, x.parent, v) BY <1>1 DEF Rec, WithKids
<1>3. WithParent(x, v) = Rec(x.mode, x.name, v, x.kids) BY <1>1 DEF Rec, WithParent
<1>4. WithName(x, v) = Rec(x.mode, v, x.parent, x.kids) BY <1>1 DEF Rec, WithName
<1> QED BY <1>2, <1>3, <1>4

(* A directory loses a child.                                                *)
Dropped(u, t, par, n) ==
    /\ u = [m \in Nodes |-> u[m]]
    /\ \A m \in Nodes : u[m] = Rec(t[m].mode, t[m].name, t[m].parent,
                                   IF m = par THEN Without(t[par].kids, n) ELSE t[m].kids)

LEMMA DropIs ==
    ASSUME NEW t \in [Nodes -> NodeRecords], NEW par \in Nodes, NEW n
    PROVE  Dropped(Drop(t, par, n), t, par, n)
<1> DEFINE ks == Without(t[par].kids, n)
           r == WithKids(t[par], ks)
           u == [t EXCEPT ![par] = r]
<1>1. Drop(t, par, n) = u BY DEF Drop, WithKids
<1>2. r = Rec(t[par].mode, t[par].name, t[par].parent, ks) BY WithParts
<1> HIDE DEF r, ks
<1>3. u = [m \in Nodes |-> u[m]] /\ \A m \in Nodes : u[m] = IF m = par THEN r ELSE t[m] OBVIOUS
<1> HIDE DEF u
<1>4. \A m \in Nodes : t[m] = Rec(t[m].mode, t[m].name, t[m].parent, t[m].kids) BY RecordIs
<1>5. ASSUME NEW m \in Nodes
      PROVE  u[m] = Rec(t[m].mode, t[m].name, t[m].parent, IF m = par THEN ks ELSE t[m].kids)
  <2>1. CASE m = par BY Zenon, <1>2, <1>3, <2>1
  <2>2. CASE m # par BY Zenon, <1>3, <1>4, <2>2
  <2> QED BY <2>1, <2>2
<1> QED BY <1>1, <1>3, <1>5 DEF Dropped, ks

(* And a directory gets one, the node n, which may be new.                   *)
Put(u, t, par, n, md, nm, ks) ==
    /\ u = [m \in Nodes |-> u[m]]
    /\ \A m \in Nodes :
          u[m] = Rec(IF m = n THEN md ELSE t[m].mode, IF m = n THEN nm ELSE t[m].name,
                     IF m = n THEN par ELSE t[m].parent,
                     IF m = par THEN Append(IF m = n THEN ks ELSE t[m].kids, n) ELSE IF m = n THEN ks ELSE t[m].kids)

LEMMA InsertIs ==
    ASSUME NEW t \in [Nodes -> NodeRecords], NEW s \in [Nodes -> NodeRecords], NEW par \in Nodes, NEW n \in Nodes,
           \A m \in Nodes : m # n => s[m] = t[m]
    PROVE  Put(Insert(s, par, n), t, par, n, s[n].mode, s[n].name, s[n].kids)
<1> DEFINE r == WithKids(s[par], Append(s[par].kids, n))
           v == [s EXCEPT ![par] = r]
           q == WithParent(v[n], par)
           u == [v EXCEPT ![n] = q]
<1>1. Insert(s, par, n) = u BY DEF Insert, WithKids, WithParent
<1>2. r = Rec(s[par].mode, s[par].name, s[par].parent, Append(s[par].kids, n)) BY WithParts
<1>3. r \in NodeRecords
  <2>1. s[par] \in NodeRecords OBVIOUS
  <2>2. Append(s[par].kids, n) \in Seq(Nodes) BY <2>1, RecordIs
  <2> HIDE DEF r
  <2> DEFINE x == s[par]
             k == Append(s[par].kids, n)
  <2>3. /\ x.mode \in {"none", "file", "dir"} /\ x.name \in Names \cup {NULL} /\ x.parent \in Nodes \cup {NULL}
        /\ k \in Seq(Nodes) /\ r = Rec(x.mode, x.name, x.parent, k)
    BY <1>2, <2>1, <2>2, RecordIs
  <2> HIDE DEF x, k
  <2> QED BY <2>3, RecIn
<1> HIDE DEF r
<1>4. DOMAIN v = Nodes /\ (\A m \in Nodes : v[m] = IF m = par THEN r ELSE s[m]) /\ v[n] \in NodeRecords BY <1>3
<1> HIDE DEF v
<1>5. q = Rec(v[n].mode, v[n].name, par, v[n].kids) BY <1>4, WithParts
<1> HIDE DEF q
<1>6. u = [m \in Nodes |-> u[m]] /\ \A m \in Nodes : u[m] = IF m = n THEN q ELSE v[m] BY <1>4
<1> HIDE DEF u
<1>7. \A m \in Nodes : s[m] = Rec(s[m].mode, s[m].name, s[m].parent, s[m].kids) BY RecordIs
<1>8. ASSUME NEW m \in Nodes
      PROVE  u[m] = Rec(s[m].mode, s[m].name, IF m = n THEN par ELSE s[m].parent,
                        IF m = par THEN Append(s[m].kids, n) ELSE s[m].kids)
  <2>1. CASE m = n /\ m = par
    <3>1. v[n] = r /\ u[m] = q BY Zenon, <1>4, <1>6, <2>1
    <3> DEFINE k == Append(s[par].kids, n)
    <3>4. r = Rec(s[par].mode, s[par].name, s[par].parent, k) BY <1>2
    <3> HIDE DEF k
    <3>5. r.mode = s[par].mode /\ r.name = s[par].name /\ r.kids = k BY <3>4, RecIs
    <3>2. r.mode = s[par].mode /\ r.name = s[par].name /\ r.kids = Append(s[par].kids, n) BY <3>5 DEF k
    <3> QED BY Zenon, <1>5, <2>1, <3>1, <3>2
  <2>2. CASE m = n /\ m # par BY Zenon, <1>4, <1>5, <1>6, <2>2
  <2>3. CASE m # n /\ m = par BY Zenon, <1>2, <1>4, <1>6, <2>3
  <2>4. CASE m # n /\ m # par BY Zenon, <1>4, <1>6, <1>7, <2>4
  <2> QED BY <2>1, <2>2, <2>3, <2>4
<1>9. ASSUME NEW m \in Nodes
      PROVE  u[m] = Rec(IF m = n THEN s[n].mode ELSE t[m].mode, IF m = n THEN s[n].name ELSE t[m].name,
                     IF m = n THEN par ELSE t[m].parent,
                     IF m = par THEN Append(IF m = n THEN s[n].kids ELSE t[m].kids, n)
                     ELSE IF m = n THEN s[n].kids ELSE t[m].kids)
  <2>1. CASE m = n BY Zenon, <1>8, <2>1
  <2>2. CASE m # n
    <3>1. s[m] = t[m] BY <2>2
    <3> QED BY Zenon, <1>8, <2>2, <3>1
  <2> QED BY <2>1, <2>2
<1> QED BY Zenon, <1>1, <1>6, <1>9 DEF Put

LEMMA PutTrees ==
    ASSUME NEW t, Trees(t), NEW u, NEW par \in GivenOut(t), NEW n \in Nodes, NEW md \in {"file", "dir"},
           NEW nm \in Names \cup {NULL}, NEW ks \in Seq(Nodes), \A i \in DOMAIN ks : ks[i] \in GivenOut(t),
           Put(u, t, par, n, md, nm, ks)
    PROVE  Trees(u) /\ GivenOut(u) = GivenOut(t) \cup {n}
<1>1. par \in Nodes /\ NULL \notin Nodes BY Limits0 DEF GivenOut
<1>2. \A m \in Nodes : t[m] \in NodeRecords BY DEF Trees
<1>3. ASSUME NEW m \in Nodes
      PROVE  /\ u[m] \in NodeRecords /\ (u[m].mode # "none" <=> m = n \/ t[m].mode # "none")
             /\ \A i \in DOMAIN u[m].kids : u[m].kids[i] \in GivenOut(t) \cup {n}
  <2> DEFINE md1 == IF m = n THEN md ELSE t[m].mode
             nm1 == IF m = n THEN nm ELSE t[m].name
             p1 == IF m = n THEN par ELSE t[m].parent
             k0 == IF m = n THEN ks ELSE t[m].kids
             k1 == IF m = par THEN Append(k0, n) ELSE k0
  <2>1. u[m] = Rec(md1, nm1, p1, k1) BY Zenon DEF Put
  <2>2. t[m] \in NodeRecords BY <1>2
  <2>3. md1 \in {"none", "file", "dir"} BY <2>2, RecordIs
  <2>4. nm1 \in Names \cup {NULL} BY <2>2, RecordIs
  <2>5. p1 \in Nodes \cup {NULL} BY <1>1, <2>2, RecordIs
  <2>6. k0 \in Seq(Nodes) BY <2>2, RecordIs
  <2>7. \A i \in DOMAIN k0 : k0[i] \in GivenOut(t) BY DEF Trees
  <2>8. md1 # "none" <=> m = n \/ t[m].mode # "none" BY DEF Trees
  <2> HIDE DEF k0, md1, nm1, p1
  <2>9. k1 \in Seq(Nodes) /\ \A i \in DOMAIN k1 : k1[i] \in GivenOut(t) \cup {n}
    <3>1. CASE m = par
      <4>1. k1 = Append(k0, n) BY <3>1
      <4>2. \A i \in DOMAIN k1 : (i \in DOMAIN k0 /\ k1[i] = k0[i]) \/ k1[i] = n BY <2>6, <4>1
      <4> QED BY <2>6, <2>7, <4>1, <4>2
    <3>2. CASE m # par BY <2>6, <2>7, <3>2
    <3> QED BY <3>1, <3>2
  <2> HIDE DEF k1
  <2>10. u[m].mode = md1 /\ u[m].kids = k1 BY <2>1, RecIs
  <2>11. u[m] \in NodeRecords BY <2>1, <2>3, <2>4, <2>5, <2>9, RecIn
  <2> QED BY Zenon, <2>8, <2>9, <2>10, <2>11
<1>4. GivenOut(u) = GivenOut(t) \cup {n} BY Zenon, <1>3 DEF GivenOut
<1>5. u \in [Nodes -> NodeRecords]
  <2>1. u = [m \in Nodes |-> u[m]] BY DEF Put
  <2> QED BY <1>3, <2>1
<1> QED BY Zenon, <1>3, <1>4, <1>5 DEF Trees

LEMMA DroppedTrees ==
    ASSUME NEW t, Trees(t), NEW u, NEW par \in Nodes, NEW n, Dropped(u, t, par, n)
    PROVE  Trees(u) /\ GivenOut(u) = GivenOut(t)
<1>1. ASSUME NEW m \in Nodes
      PROVE  /\ u[m] \in NodeRecords /\ u[m].mode = t[m].mode
             /\ \A i \in DOMAIN u[m].kids : u[m].kids[i] \in GivenOut(t)
  <2> DEFINE k0 == t[m].kids
             k1 == IF m = par THEN Without(t[par].kids, n) ELSE t[m].kids
  <2>1. u[m] = Rec(t[m].mode, t[m].name, t[m].parent, k1) BY DEF Dropped
  <2>2. t[m] \in NodeRecords BY DEF Trees
  <2>3. k0 \in Seq(Nodes) /\ \A i \in DOMAIN k0 : k0[i] \in GivenOut(t) BY <2>2, RecordIs DEF Trees
  <2>4. k1 \in Seq(Nodes) /\ \A i \in DOMAIN k1 : k1[i] \in GivenOut(t)
    <3>1. CASE m = par
      <4>1. k1 = Without(k0, n) BY <3>1
      <4> HIDE DEF k0, k1
      <4>2. k1 \in Seq(Nodes) /\ \A i \in DOMAIN k1 : \E j \in DOMAIN k0 : k1[i] = k0[j] BY <2>3, <4>1, WithoutHas
      <4> QED BY <2>3, <4>2
    <3>2. CASE m # par BY <2>3, <3>2
    <3> QED BY <3>1, <3>2
  <2> HIDE DEF k1
  <2>5. u[m].mode = t[m].mode /\ u[m].kids = k1 BY <2>1, RecIs
  <2> DEFINE x == t[m]
  <2>7. /\ x.mode \in {"none", "file", "dir"} /\ x.name \in Names \cup {NULL} /\ x.parent \in Nodes \cup {NULL}
        /\ u[m] = Rec(x.mode, x.name, x.parent, k1)
    BY <2>1, <2>2, RecordIs
  <2> HIDE DEF x
  <2>6. u[m] \in NodeRecords BY <2>4, <2>7, RecIn
  <2> QED BY Zenon, <2>4, <2>5, <2>6
<1>2. GivenOut(u) = GivenOut(t) BY Zenon, <1>1 DEF GivenOut
<1>3. u \in [Nodes -> NodeRecords]
  <2>1. u = [m \in Nodes |-> u[m]] BY DEF Dropped
  <2> QED BY <1>1, <2>1
<1> QED BY Zenon, <1>1, <1>2, <1>3 DEF Trees

HasChild(t, par, nm) == \E i \in DOMAIN t[par].kids : t[t[par].kids[i]].name = nm

(* A call that makes a node n in the directory par, or fails.                *)
Creating(u, t, par, nm, md) ==
    \/ u = t
    \/ ~HasChild(t, par, nm) /\ \E n \in Nodes : t[n].mode = "none" /\ Put(u, t, par, n, md, nm, <<>>)

LEMMA CreateIs ==
    ASSUME Trees(node), NEW par \in GivenOut(node), NEW nm \in Names, NEW md \in {"file", "dir"}
    PROVE  /\ Create(par, nm, md).rc \in {"ok", "ENOSPC", "EEXIST", "ENOMEM"}
           /\ Create(par, nm, md).rc # "ok" => Create(par, nm, md).node = node
           /\ Creating(Create(par, nm, md).node, node, par, nm, md)
<1> DEFINE c == Create(par, nm, md)
           r == [mode |-> md, name |-> nm, parent |-> par, kids |-> <<>>]
           v == [node EXCEPT ![NewNode] = r]
<1>1. \/ c = [rc |-> "ENOSPC", node |-> node] \/ c = [rc |-> "EEXIST", node |-> node]
      \/ c = [rc |-> "ENOMEM", node |-> node]
      \/ /\ FindChild(node, par, nm) = NULL /\ FreeNodes # {}
         /\ c = [rc |-> "ok", node |-> Insert(v, par, NewNode)]
  BY DEF Create
<1>2. CASE c.rc # "ok"
  <2>1. c.node = node /\ c.rc \in {"ok", "ENOSPC", "EEXIST", "ENOMEM"} BY <1>1, <1>2
  <2> QED BY <2>1 DEF Creating
<1>3. CASE c.rc = "ok"
  <2>1. FindChild(node, par, nm) = NULL /\ FreeNodes # {} /\ c.node = Insert(v, par, NewNode)
    BY <1>1, <1>3
  <2> HIDE DEF c
  <2>2. par \in Nodes /\ node \in [Nodes -> NodeRecords] /\ NULL \notin Nodes BY Limits0 DEF GivenOut, Trees
  <2>3. NewNode \in FreeNodes
    <3>1. FreeNodes \subseteq Nat BY Limits0 DEF FreeNodes
    <3> QED BY <2>1, <3>1, HasLeast DEF NewNode
  <2>4. NewNode \in Nodes /\ node[NewNode].mode = "none" BY <2>3 DEF FreeNodes
  <2>5. r = Rec(md, nm, par, <<>>) BY DEF Rec
  <2>6. <<>> \in Seq(Nodes) OBVIOUS
  <2>7. r \in NodeRecords BY <2>2, <2>5, <2>6, RecIn
  <2> HIDE DEF r
  <2>8. v \in [Nodes -> NodeRecords] /\ v[NewNode] = r /\ \A m \in Nodes : m # NewNode => v[m] = node[m]
    BY <2>2, <2>4, <2>7
  <2> HIDE DEF v
  <2>9. Put(Insert(v, par, NewNode), node, par, NewNode, v[NewNode].mode, v[NewNode].name, v[NewNode].kids)
    BY <2>2, <2>4, <2>8, InsertIs
  <2>10. v[NewNode].mode = md /\ v[NewNode].name = nm /\ v[NewNode].kids = <<>> BY <2>5, <2>8, RecIs
  <2>11. Put(c.node, node, par, NewNode, md, nm, <<>>) BY Zenon, <2>1, <2>9, <2>10
  <2>12. ~HasChild(node, par, nm)
    <3>1. node[par].kids \in Seq(Nodes) /\ \A i \in DOMAIN node[par].kids : node[par].kids[i] \in Nodes
      BY <2>2, RecordIs
    <3>2. \A i \in DOMAIN node[par].kids : node[node[par].kids[i]].name # nm
      BY <2>1, <2>2, <3>1, FindChildIs
    <3> QED BY Zenon, <3>2 DEF HasChild
  <2> QED BY Zenon, <1>3, <2>4, <2>11, <2>12 DEF Creating, c
<1> QED BY <1>2, <1>3

LEMMA CreatingTrees ==
    ASSUME NEW t, Trees(t), NEW u, NEW par \in GivenOut(t), NEW nm \in Names, NEW md \in {"file", "dir"},
           Creating(u, t, par, nm, md)
    PROVE  Trees(u) /\ GivenOut(t) \subseteq GivenOut(u)
<1>1. CASE u = t BY <1>1
<1>2. CASE u # t
  <2>1. PICK n \in Nodes : Put(u, t, par, n, md, nm, <<>>) BY <1>2 DEF Creating
  <2>2. <<>> \in Seq(Nodes) /\ nm \in Names \cup {NULL} OBVIOUS
  <2>3. \A i \in DOMAIN <<>> : <<>>[i] \in GivenOut(t) OBVIOUS
  <2> DEFINE e == <<>>
  <2> HIDE DEF e
  <2>4. e \in Seq(Nodes) /\ (\A i \in DOMAIN e : e[i] \in GivenOut(t)) /\ Put(u, t, par, n, md, nm, e)
    BY <2>1, <2>2, <2>3 DEF e
  <2> QED BY <2>2, <2>4, PutTrees
<1> QED BY <1>1, <1>2

(* A node src of the directory odir goes to ndir, under the name nm, over a   *)
(* node dst that is there already; or only dst goes.                         *)
Over(t1, t, ndir, dst) == IF dst = NULL THEN t1 = t ELSE Dropped(t1, t, ndir, dst)
Found(t, par, nm, dst) ==
    IF dst = NULL THEN ~HasChild(t, par, nm)
    ELSE \E i \in DOMAIN t[par].kids : dst = t[par].kids[i] /\ t[dst].name = nm
MayMove(t, odir, src, ndir, dst, nm) ==
    /\ ~(odir = ndir /\ t[src].name = nm)
    /\ t[src].mode = "dir" => src \notin Ancestors(t, ndir)
    /\ dst # NULL => t[dst].mode = t[src].mode /\ (t[dst].mode = "dir" => t[dst].kids = <<>>)
Renaming(u, freed, t, odir, src, ndir, nm) ==
    \/ u = t /\ freed = {}
    \/ \E dst, t1, t2 :
          /\ Found(t, ndir, nm, dst) /\ MayMove(t, odir, src, ndir, dst, nm)
          /\ Over(t1, t, ndir, dst) /\ Dropped(t2, t1, odir, src) /\ freed = {dst} \ {NULL}
          /\ \/ Put(u, t2, ndir, src, t2[src].mode, nm, t2[src].kids)
             \/ Put(u, t2, odir, src, t2[src].mode, t2[src].name, t2[src].kids)

LEMMA OverTrees ==
    ASSUME NEW t, Trees(t), NEW t1, NEW par \in Nodes, NEW dst, Over(t1, t, par, dst)
    PROVE  Trees(t1) /\ GivenOut(t1) = GivenOut(t)
BY DroppedTrees DEF Over

LEMMA RenameIs ==
    ASSUME Trees(node), NEW odir \in GivenOut(node), NEW ndir \in GivenOut(node), NEW src \in GivenOut(node), NEW nm \in Names
    PROVE  Renaming(RamRename(odir, src, ndir, nm).node, RamRename(odir, src, ndir, nm).freed, node, odir, src, ndir, nm)
<1> DEFINE mv  == RamRename(odir, src, ndir, nm)
           dst == FindChild(node, ndir, nm)
           t1  == IF dst = NULL THEN node ELSE Drop(node, ndir, dst)
           t2  == Drop(t1, odir, src)
           s   == [t2 EXCEPT ![src].name = nm]
           failed(e) == [rc |-> e, node |-> node, freed |-> {}]
           May == MayMove(node, odir, src, ndir, dst, nm)
<1>1. \/ \E e : mv = failed(e)
      \/ May /\ mv = [rc |-> "ENOSPC", node |-> Insert(t2, odir, src), freed |-> {dst} \ {NULL}]
      \/ May /\ mv = [rc |-> "ok", node |-> Insert(s, ndir, src), freed |-> {dst} \ {NULL}]
  BY DEF RamRename, Restored, Above, MayMove
<1>2. odir \in Nodes /\ ndir \in Nodes /\ src \in Nodes BY DEF GivenOut
<1>3. node \in [Nodes -> NodeRecords] /\ NULL \notin Nodes BY Limits0 DEF Trees
<1>4. Found(node, ndir, nm, dst)
  <2>1. node[ndir].kids \in Seq(Nodes) /\ \A i \in DOMAIN node[ndir].kids : node[ndir].kids[i] # NULL
    BY <1>2, <1>3, RecordIs
  <2>2. \/ dst = NULL /\ \A i \in DOMAIN node[ndir].kids : node[node[ndir].kids[i]].name # nm
        \/ \E i \in DOMAIN node[ndir].kids : dst = node[ndir].kids[i] /\ node[node[ndir].kids[i]].name = nm
    BY <1>2, <2>1, FindChildIs
  <2> HIDE DEF dst
  <2>3. CASE dst = NULL BY Zenon, <2>1, <2>2, <2>3 DEF Found, HasChild
  <2>4. CASE dst # NULL BY Zenon, <2>2, <2>4 DEF Found
  <2> QED BY <2>3, <2>4
<1> HIDE DEF dst
<1>5. Over(t1, node, ndir, dst) BY <1>2, <1>3, DropIs DEF Over
<1> HIDE DEF t1
<1>6. Trees(t1) /\ t1 \in [Nodes -> NodeRecords] BY <1>2, <1>5, OverTrees DEF Trees
<1>7. Dropped(t2, t1, odir, src) BY <1>2, <1>6, DropIs
<1>8. t2 \in [Nodes -> NodeRecords] BY <1>2, <1>6, <1>7, DroppedTrees DEF Trees
<1> HIDE DEF t2
<1>9. Put(Insert(t2, odir, src), t2, odir, src, t2[src].mode, t2[src].name, t2[src].kids)
  BY <1>2, <1>8, InsertIs
<1>10. Put(Insert(s, ndir, src), t2, ndir, src, t2[src].mode, nm, t2[src].kids)
  <2> DEFINE r == WithName(t2[src], nm)
  <2>1. s = [t2 EXCEPT ![src] = r] BY DEF WithName
  <2>2. r = Rec(t2[src].mode, nm, t2[src].parent, t2[src].kids) BY <1>2, <1>8, WithParts
  <2> HIDE DEF r
  <2>3. t2[src] \in NodeRecords BY <1>2, <1>8
  <2> DEFINE x == t2[src]
  <2>4. x.mode \in {"none", "file", "dir"} /\ x.parent \in Nodes \cup {NULL} /\ x.kids \in Seq(Nodes)
    BY <2>3, RecordIs
  <2>5. r \in NodeRecords
    <3>1. nm \in Names \cup {NULL} /\ r = Rec(x.mode, nm, x.parent, x.kids) BY <2>2
    <3> HIDE DEF x
    <3> QED BY <2>4, <3>1, RecIn
  <2> HIDE DEF s
  <2>6. s \in [Nodes -> NodeRecords] /\ s[src] = r /\ \A m \in Nodes : m # src => s[m] = t2[m]
    BY <1>2, <1>8, <2>1, <2>5
  <2>7. r.mode = t2[src].mode /\ r.name = nm /\ r.kids = t2[src].kids BY <2>2, RecIs
  <2>8. Put(Insert(s, ndir, src), t2, ndir, src, s[src].mode, s[src].name, s[src].kids) BY <1>2, <1>8, <2>6, InsertIs
  <2> QED BY Zenon, <2>6, <2>7, <2>8
<1> HIDE DEF s, May, mv
<1>11. CASE \E e : mv = failed(e)
  <2>1. mv.node = node /\ mv.freed = {} BY <1>11
  <2> QED BY <2>1 DEF Renaming, mv
<1>12. CASE May /\ mv = [rc |-> "ENOSPC", node |-> Insert(t2, odir, src), freed |-> {dst} \ {NULL}]
  <2>1. mv.node = Insert(t2, odir, src) /\ mv.freed = {dst} \ {NULL} BY <1>12
  <2>2. Put(mv.node, t2, odir, src, t2[src].mode, t2[src].name, t2[src].kids) BY Zenon, <1>9, <2>1
  <2> QED BY Zenon, <1>4, <1>5, <1>7, <1>12, <2>1, <2>2 DEF Renaming, mv, May
<1>13. CASE May /\ mv = [rc |-> "ok", node |-> Insert(s, ndir, src), freed |-> {dst} \ {NULL}]
  <2>1. mv.node = Insert(s, ndir, src) /\ mv.freed = {dst} \ {NULL} BY <1>13
  <2>2. Put(mv.node, t2, ndir, src, t2[src].mode, nm, t2[src].kids) BY Zenon, <1>10, <2>1
  <2> QED BY Zenon, <1>4, <1>5, <1>7, <1>13, <2>1, <2>2 DEF Renaming, mv, May
<1> QED BY <1>1, <1>11, <1>12, <1>13

LEMMA RenamingTrees ==
    ASSUME NEW t, Trees(t), NEW odir \in GivenOut(t), NEW ndir \in GivenOut(t), NEW src \in GivenOut(t), NEW nm \in Names,
           NEW u, NEW freed, Renaming(u, freed, t, odir, src, ndir, nm)
    PROVE  Trees(u) /\ GivenOut(t) \subseteq GivenOut(u) /\ freed \subseteq Nodes
<1>1. CASE u = t /\ freed = {} BY <1>1
<1>2. CASE ~(u = t /\ freed = {})
  <2>1. PICK dst, t1, t2 :
          /\ Found(t, ndir, nm, dst)
          /\ Over(t1, t, ndir, dst) /\ Dropped(t2, t1, odir, src) /\ freed = {dst} \ {NULL}
          /\ \/ Put(u, t2, ndir, src, t2[src].mode, nm, t2[src].kids)
             \/ Put(u, t2, odir, src, t2[src].mode, t2[src].name, t2[src].kids)
    BY Zenon, <1>2 DEF Renaming
  <2>2. odir \in Nodes /\ ndir \in Nodes /\ src \in Nodes BY DEF GivenOut
  <2>3. Trees(t1) /\ GivenOut(t1) = GivenOut(t) BY <2>1, <2>2, OverTrees
  <2>4. Trees(t2) /\ GivenOut(t2) = GivenOut(t) BY <2>1, <2>2, <2>3, DroppedTrees
  <2>5. freed \subseteq Nodes
    <3>1. \A i \in DOMAIN t[ndir].kids : t[ndir].kids[i] \in Nodes BY <2>2 DEF Trees, GivenOut
    <3> QED BY <2>1, <3>1 DEF Found
  <2> DEFINE md == t2[src].mode
             nm2 == t2[src].name
             ks == t2[src].kids
  <2>6. /\ md \in {"file", "dir"} /\ nm2 \in Names \cup {NULL} /\ ks \in Seq(Nodes)
        /\ \A i \in DOMAIN ks : ks[i] \in GivenOut(t2)
    <3>1. t2[src] \in NodeRecords /\ t2[src].mode # "none" /\ \A i \in DOMAIN ks : ks[i] \in GivenOut(t2)
      <4>1. src \in GivenOut(t2) BY <2>4
      <4> QED BY <2>2, <2>4, <4>1 DEF Trees, GivenOut
    <3> QED BY <3>1, RecordIs
  <2>7. nm \in Names \cup {NULL} /\ odir \in GivenOut(t2) /\ ndir \in GivenOut(t2) BY <2>4
  <2>8. Put(u, t2, ndir, src, md, nm, ks) \/ Put(u, t2, odir, src, md, nm2, ks) BY <2>1
  <2> HIDE DEF md, nm2, ks
  <2>9. Trees(u) /\ GivenOut(u) = GivenOut(t2) \cup {src}
    <3>1. CASE Put(u, t2, ndir, src, md, nm, ks) BY <2>2, <2>4, <2>6, <2>7, <3>1, PutTrees
    <3>2. CASE Put(u, t2, odir, src, md, nm2, ks) BY <2>2, <2>4, <2>6, <2>7, <3>2, PutTrees
    <3> QED BY <2>8, <3>1, <3>2
  <2> QED BY <2>4, <2>5, <2>9
<1> QED BY <1>1, <1>2

LEMMA MoreCached ==
    ASSUME NEW dc, NEW r, NEW U, Cached(dc, r, U), NEW V, U \subseteq V
    PROVE  Cached(dc, r, V)
<1>1. dc \in [DOMAIN r -> V] BY DEF Cached
<1> QED BY <1>1 DEF Cached

LEMMA LargerOn ==
    ASSUME NEW r0, NEW r1, NEW r2, Larger(r1, r0), Larger(r2, r1)
    PROVE  Larger(r2, r0)
BY DEF Larger

LEMMA CountsOn ==
    ASSUME NEW r0, r0 \in [DOMAIN r0 -> Int], NEW r1, NEW r2, NEW b, NEW c, NEW k \in Int,
           Counts(r1, r0, b, 0), Counts(r2, r1, c, k)
    PROVE  Counts(r2, r0, c, k)
<1> SUFFICES ASSUME NEW d \in Dentries PROVE Val(r2, d) = Val(r0, d) + Of(c, d, k) BY DEF Counts
<1>1. Val(r1, d) = Val(r0, d) + Of(b, d, 0) /\ Val(r2, d) = Val(r1, d) + Of(c, d, k) BY DEF Counts
<1>2. Val(r0, d) \in Int BY ValIs
<1>3. Of(b, d, 0) = 0 BY DEF Of
<1> QED BY <1>1, <1>2, <1>3

LEMMA RebaseWent ==
    ASSUME NEW w, NEW t, NEW U, NEW r1, Went(w, t, U, r1), NEW r0, r0 \in [DOMAIN r0 -> Int], NEW b,
           Larger(r1, r0), Counts(r1, r0, b, 0)
    PROVE  Went(w, t, U, r0)
<1>1. Larger(w.ref, r0) BY LargerOn DEF Went
<1>2. w.err # "endless" => Counts(w.ref, r0, w.cur, Refs(w.err))
  <2>1. Refs(w.err) \in Int BY DEF Refs
  <2> QED BY <2>1, CountsOn DEF Went
<1> QED BY Zenon, <1>1, <1>2 DEF Went

LEMMA MoreWent ==
    ASSUME NEW w, NEW t, NEW U, NEW r0, Went(w, t, U, r0), NEW V, U \subseteq V
    PROVE  Went(w, t, V, r0)
<1>1. Cached(w.dc, w.ref, V) BY MoreCached DEF Went
<1> QED BY Zenon, <1>1 DEF Went

(* What is kept of a walk, with k references of its dentry.                  *)
KeptTo(w, k, dc, r, h) ==
    /\ dc = w.dc /\ r = IF w.err = "ok" THEN Bump(w.ref, w.cur, k - 1) ELSE w.ref
    /\ h = (w.err = "endless")

LEMMA KeepIs == ASSUME NEW w, NEW k, Keep(w, k) PROVE KeptTo(w, k, dcache', ref', hung')
BY Zenon DEF Keep, KeptTo

KeptWell(w, U, r0, k, dc, r, h) ==
    /\ Cached(dc, r, U) /\ Larger(r, r0) /\ h \in BOOLEAN
    /\ w.err = "ok" => w.cur \in DOMAIN r /\ w.cur \in Dentries /\ Counts(r, r0, w.cur, k)
    /\ h \/ w.err = "ok" \/ Counts(r, r0, w.cur, 0)

LEMMA KeptIs ==
    ASSUME NEW w, NEW t, NEW U, NEW r0, r0 \in [DOMAIN r0 -> Int], Went(w, t, U, r0), NEW k \in Int,
           NEW dc, NEW r, NEW h, KeptTo(w, k, dc, r, h)
    PROVE  KeptWell(w, U, r0, k, dc, r, h)
<1> SUFFICES /\ Cached(dc, r, U) /\ Larger(r, r0) /\ h \in BOOLEAN
             /\ w.err = "ok" => w.cur \in DOMAIN r /\ w.cur \in Dentries /\ Counts(r, r0, w.cur, k)
             /\ h \/ w.err = "ok" \/ Counts(r, r0, w.cur, 0)
  BY DEF KeptWell
<1>1. Cached(w.dc, w.ref, U) /\ Larger(w.ref, r0) BY DEF Went
<1>2. h \in BOOLEAN /\ (h <=> w.err = "endless") BY DEF KeptTo
<1>3. CASE w.err # "ok"
  <2>1. dc = w.dc /\ r = w.ref BY <1>3 DEF KeptTo
  <2>2. Refs(w.err) = 0 BY <1>3 DEF Refs
  <2>3. h \/ Counts(r, r0, w.cur, 0) BY Zenon, <1>2, <2>1, <2>2 DEF Went
  <2> QED BY <1>1, <1>2, <1>3, <2>1, <2>3
<1>4. CASE w.err = "ok"
  <2> DEFINE b == Bump(w.ref, w.cur, k - 1)
  <2>1. dc = w.dc /\ r = b BY <1>4 DEF KeptTo
  <2>2. Counts(w.ref, r0, w.cur, 1) /\ w.cur \in DOMAIN w.ref BY <1>4 DEF Refs, Went
  <2>3. w.ref \in [DOMAIN w.ref -> Int] /\ w.cur \in Dentries BY <1>1, <2>2 DEF Cached
  <2>4. /\ DOMAIN b = DOMAIN w.ref /\ b \in [DOMAIN w.ref -> Int]
        /\ \A d : Val(b, d) = Val(w.ref, d) + Of(w.cur, d, k - 1)
    <3>1. k - 1 \in Int OBVIOUS
    <3> QED BY Zenon, <2>2, <2>3, <3>1, BumpIs
  <2> HIDE DEF b
  <2>5. Cached(w.dc, b, U) /\ Larger(b, r0) BY <1>1, <2>4 DEF Cached, Larger
  <2>6. Counts(b, r0, w.cur, k)
    <3> SUFFICES ASSUME NEW d \in Dentries PROVE Val(b, d) = Val(r0, d) + Of(w.cur, d, k) BY DEF Counts
    <3>1. Val(w.ref, d) = Val(r0, d) + Of(w.cur, d, 1) BY <2>2 DEF Counts
    <3>2. Val(w.ref, d) \in Int /\ Val(r0, d) \in Int BY <2>3, ValIs
    <3>3. Val(b, d) = Val(w.ref, d) + Of(w.cur, d, k - 1) BY <2>4
    <3> QED BY <3>1, <3>2, <3>3 DEF Of
  <2> QED BY <1>2, <1>4, <2>1, <2>2, <2>3, <2>4, <2>5, <2>6
<1> QED BY <1>3, <1>4

-----------------------------------------------------------------------------
(* The types and the balance after a step.                                   *)
LEMMA AnchoredOn ==
    ASSUME NEW ms, NEW rm, NEW D, Anchored(ms, rm, D), NEW E, D \subseteq E
    PROVE  Anchored(ms, rm, E)
BY DEF Anchored

LEMMA TypesOn ==
    ASSUME NEW t, NEW g, NEW dc, NEW r, NEW ms, NEW rm, NEW fs, NEW ps, Types(t, g, dc, r, ms, rm, fs, ps),
           NEW t2, NEW g2, NEW dc2, NEW r2, Trees(t2), g2 \subseteq Nodes, Cached(dc2, r2, GivenOut(t2)), Larger(r2, r)
    PROVE  Types(t2, g2, dc2, r2, ms, rm, fs, ps)
<1>1. DOMAIN r \subseteq DOMAIN r2 BY DEF Larger
<1>2. Anchored(ms, rm, DOMAIN r2) BY <1>1, AnchoredOn DEF Types
<1>3. fs \in [Open -> DOMAIN r2 \cup {NULL}] /\ ps \in Seq(DOMAIN r2) BY <1>1 DEF Types
<1> QED BY <1>2, <1>3 DEF Types

LEMMA RefsAre ==
    ASSUME NEW t, NEW g, NEW dc, NEW r, NEW ms, NEW rm, NEW fs, NEW ps, Types(t, g, dc, r, ms, rm, fs, ps)
    PROVE  /\ r \in [DOMAIN r -> Int] /\ DOMAIN r \subseteq Dentries /\ DOMAIN fs = Open /\ DOMAIN ms = Slots
           /\ ms \in [Slots -> {NULL} \cup MountRecords] /\ Kidly(t, GivenOut(t))
<1>1. r \in [DOMAIN r -> Int] /\ DOMAIN r \subseteq Dentries BY DEF Types, Cached
<1>2. DOMAIN fs = Open BY DEF Types
<1>3. ms \in [Slots -> {NULL} \cup MountRecords] BY DEF Types, Anchored
<1>4. Kidly(t, GivenOut(t))
  <2>1. Trees(t) BY DEF Types
  <2>2. \A n \in Nodes : t[n].kids \in Seq(Nodes) BY <2>1, RecordIs DEF Trees
  <2> QED BY <2>1, <2>2 DEF Kidly, Trees, GivenOut
<1> QED BY <1>1, <1>2, <1>3, <1>4

LEMMA RootUseOn ==
    ASSUME NEW r, NEW r2, Larger(r2, r), NEW d
    PROVE  RootUse(r2, d) = RootUse(r, d) /\ RootUse(r, d) \in Nat
BY DEF RootUse, Larger

CountsAre(fs, ms, ps, d) == Opens(fs, d) \in Nat /\ Covers(ms, d) \in Nat /\ Binds(ms, d) \in Nat /\ Pins(ps, d) \in Nat

LEMMA UsersCounted ==
    ASSUME NEW t, NEW g, NEW dc, NEW r, NEW ms, NEW rm, NEW fs, NEW ps, Types(t, g, dc, r, ms, rm, fs, ps), NEW d
    PROVE  CountsAre(fs, ms, ps, d)
<1>1. DOMAIN fs = Open /\ DOMAIN ms = Slots BY RefsAre
<1>2. ps \in Seq(DOMAIN r) BY DEF Types
<1>3. 1 \in Open /\ 1 \in Slots BY Limits0 DEF Open, Slots
<1>4. Opens(fs, d) \in Nat BY <1>1, <1>3, OpensIs
<1>5. Covers(ms, d) \in Nat /\ Binds(ms, d) \in Nat BY <1>1, <1>3, CoversIs
<1>6. Pins(ps, d) \in Nat
  <2> DEFINE A == {k \in DOMAIN ps : ps[k] = d}
  <2>1. IsFiniteSet(1 .. Len(ps)) /\ A \subseteq 1 .. Len(ps) BY <1>2, FS_Interval
  <2>2. IsFiniteSet(A) BY <2>1, FS_Subset
  <2> QED BY <2>2, FS_CardinalityType DEF Pins
<1> QED BY <1>4, <1>5, <1>6 DEF CountsAre

LEMMA SameGrowth ==
    ASSUME NEW o \in Nat, NEW c \in Nat, NEW b \in Nat, NEW p \in Nat, NEW o2 \in Nat, NEW c2 \in Nat,
           NEW b2 \in Nat, NEW p2 \in Nat, NEW u \in Nat, NEW k \in Int, NEW v, NEW v2,
           v = o + c + b + u + p, v2 = v + k, o2 + c2 + b2 + p2 = o + c + b + p + k
    PROVE  v2 = o2 + c2 + b2 + u + p2
OBVIOUS

(* The references grew by as many as the users did.                          *)
LEMMA BalanceGrows ==
    ASSUME NEW r, NEW fs, NEW ms, NEW ps, Balanced(r, fs, ms, ps), NEW r2, Larger(r2, r), NEW fs2, NEW ms2, NEW ps2,
           \A d \in Dentries : CountsAre(fs, ms, ps, d) /\ CountsAre(fs2, ms2, ps2, d),
           \A d \in Dentries : \E k \in Int :
              /\ Val(r2, d) = Val(r, d) + k
              /\ Opens(fs2, d) + Covers(ms2, d) + Binds(ms2, d) + Pins(ps2, d)
                 = Opens(fs, d) + Covers(ms, d) + Binds(ms, d) + Pins(ps, d) + k
    PROVE  Balanced(r2, fs2, ms2, ps2)
<1> SUFFICES ASSUME NEW d \in Dentries
             PROVE  Val(r2, d) = Opens(fs2, d) + Covers(ms2, d) + Binds(ms2, d) + RootUse(r2, d) + Pins(ps2, d)
  BY DEF Balanced
<1>1. Val(r, d) = Opens(fs, d) + Covers(ms, d) + Binds(ms, d) + RootUse(r, d) + Pins(ps, d) BY DEF Balanced
<1>2. RootUse(r2, d) = RootUse(r, d) /\ RootUse(r, d) \in Nat BY RootUseOn
<1>3. CountsAre(fs, ms, ps, d) /\ CountsAre(fs2, ms2, ps2, d) OBVIOUS
<1>4. PICK k \in Int :
              /\ Val(r2, d) = Val(r, d) + k
              /\ Opens(fs2, d) + Covers(ms2, d) + Binds(ms2, d) + Pins(ps2, d)
                 = Opens(fs, d) + Covers(ms, d) + Binds(ms, d) + Pins(ps, d) + k
  OBVIOUS
<1>5. /\ Opens(fs, d) \in Nat /\ Covers(ms, d) \in Nat /\ Binds(ms, d) \in Nat /\ Pins(ps, d) \in Nat
      /\ Opens(fs2, d) \in Nat /\ Covers(ms2, d) \in Nat /\ Binds(ms2, d) \in Nat /\ Pins(ps2, d) \in Nat
  BY <1>3 DEF CountsAre
<1> DEFINE v == Val(r, d)
           v2 == Val(r2, d)
           u == RootUse(r, d)
<1>6. v2 = Opens(fs2, d) + Covers(ms2, d) + Binds(ms2, d) + u + Pins(ps2, d)
  <2>1. u \in Nat /\ v = Opens(fs, d) + Covers(ms, d) + Binds(ms, d) + u + Pins(ps, d) /\ v2 = v + k BY <1>1, <1>2, <1>4
  <2> HIDE DEF v, v2, u
  <2> QED BY <1>4, <1>5, <2>1, SameGrowth
<1> QED BY <1>2, <1>6

LEMMA BalanceOn ==
    ASSUME NEW t, NEW g, NEW dc, NEW r, NEW ms, NEW rm, NEW fs, NEW ps, Types(t, g, dc, r, ms, rm, fs, ps),
           Balanced(r, fs, ms, ps), NEW r2, Larger(r2, r), NEW c, Counts(r2, r, c, 0)
    PROVE  Balanced(r2, fs, ms, ps)
<1>1. \A d \in Dentries : CountsAre(fs, ms, ps, d) BY UsersCounted
<1>2. ASSUME NEW d \in Dentries
      PROVE  \E k \in Int : /\ Val(r2, d) = Val(r, d) + k
                            /\ Opens(fs, d) + Covers(ms, d) + Binds(ms, d) + Pins(ps, d)
                               = Opens(fs, d) + Covers(ms, d) + Binds(ms, d) + Pins(ps, d) + k
  <2>1. Val(r2, d) = Val(r, d) + Of(c, d, 0) BY DEF Counts
  <2>2. Of(c, d, 0) = 0 BY DEF Of
  <2>3. CountsAre(fs, ms, ps, d) BY <1>1
  <2> QED BY <2>1, <2>2, <2>3 DEF CountsAre
<1> QED BY <1>1, <1>2, BalanceGrows

(* The root of a new superblock.                                             *)
NewRooted(u, t, n) ==
    /\ u \in [Nodes -> NodeRecords] /\ \A m \in Nodes : m # n => u[m] = t[m]
    /\ u[n] = Rec("dir", t[n].name, t[n].parent, t[n].kids)

(* What a call makes of the nodes.                                           *)
TreeStep(t, g, u, h) ==
    \/ u = t /\ h = g
    \/ /\ h = g
       /\ \E par \in GivenOut(t), nm \in Names, md \in {"file", "dir"} :
             (ThroughFiles \/ t[par].mode = "dir") /\ Creating(u, t, par, nm, md)
    \/ \E par \in GivenOut(t), ch \in Nodes :
          /\ IsKid(t, par, ch) /\ (t[ch].mode = "dir" => t[ch].kids = <<>>)
          /\ Dropped(u, t, par, ch) /\ h = g \cup {ch}
    \/ \E odir \in GivenOut(t), ndir \in GivenOut(t), src \in GivenOut(t), nm \in Names, freed \in SUBSET Nodes :
          /\ IsKid(t, odir, src) /\ (ThroughFiles \/ t[ndir].mode = "dir")
          /\ Renaming(u, freed, t, odir, src, ndir, nm) /\ h = g \cup freed
    \/ h = g /\ \E n \in Nodes : t[n].mode = "none" /\ NewRooted(u, t, n)

LEMMA NewRootIs ==
    ASSUME NEW t, Trees(t), NEW n \in Nodes
    PROVE  NewRooted([t EXCEPT ![n].mode = "dir"], t, n)
<1> DEFINE r == [t[n] EXCEPT !.mode = "dir"]
           u == [t EXCEPT ![n].mode = "dir"]
<1>1. u = [t EXCEPT ![n] = r] OBVIOUS
<1>2. t \in [Nodes -> NodeRecords] BY DEF Trees
<1>3. r = Rec("dir", t[n].name, t[n].parent, t[n].kids)
  <2>1. t[n] = Rec(t[n].mode, t[n].name, t[n].parent, t[n].kids) BY <1>2, RecordIs
  <2> QED BY <2>1 DEF Rec
<1> HIDE DEF r, u
<1>4. r \in NodeRecords
  <2> DEFINE x == t[n]
  <2>1. x.name \in Names \cup {NULL} /\ x.parent \in Nodes \cup {NULL} /\ x.kids \in Seq(Nodes) BY <1>2, RecordIs
  <2>2. r = Rec("dir", x.name, x.parent, x.kids) BY <1>3
  <2> HIDE DEF x
  <2> QED BY <2>1, <2>2, RecIn
<1>5. u \in [Nodes -> NodeRecords] /\ u[n] = r /\ \A m \in Nodes : m # n => u[m] = t[m] BY <1>1, <1>2, <1>4
<1>6. NewRooted(u, t, n) BY Zenon, <1>3, <1>5 DEF NewRooted
<1> QED BY Zenon, <1>6 DEF u

LEMMA NewRootTrees ==
    ASSUME NEW t, Trees(t), NEW n \in Nodes, NEW u, NewRooted(u, t, n)
    PROVE  Trees(u) /\ GivenOut(u) = GivenOut(t) \cup {n}
<1>1. /\ u \in [Nodes -> NodeRecords] /\ \A m \in Nodes : m # n => u[m] = t[m]
      /\ u[n] = Rec("dir", t[n].name, t[n].parent, t[n].kids)
  BY DEF NewRooted
<1>2. u[n].mode = "dir" /\ u[n].kids = t[n].kids BY <1>1, RecIs
<1>3. GivenOut(u) = GivenOut(t) \cup {n} BY <1>1, <1>2 DEF GivenOut
<1>4. \A m \in Nodes : u[m].kids = t[m].kids BY <1>1, <1>2
<1> QED BY <1>1, <1>3, <1>4 DEF Trees

LEMMA TreeStepTrees ==
    ASSUME NEW t, Trees(t), NEW g, g \subseteq Nodes, NEW u, NEW h, TreeStep(t, g, u, h)
    PROVE  Trees(u) /\ GivenOut(t) \subseteq GivenOut(u) /\ h \subseteq Nodes
<1>1. CASE u = t /\ h = g BY <1>1
<1>2. CASE h = g /\ \E par \in GivenOut(t), nm \in Names, md \in {"file", "dir"} : Creating(u, t, par, nm, md)
  BY <1>2, CreatingTrees
<1>3. CASE \E par \in GivenOut(t), ch \in Nodes : Dropped(u, t, par, ch) /\ h = g \cup {ch}
  BY <1>3, DroppedTrees DEF GivenOut
<1>4. CASE \E odir \in GivenOut(t), ndir \in GivenOut(t), src \in GivenOut(t), nm \in Names, freed \in SUBSET Nodes :
              Renaming(u, freed, t, odir, src, ndir, nm) /\ h = g \cup freed
  <2>1. PICK odir \in GivenOut(t), ndir \in GivenOut(t), src \in GivenOut(t), nm \in Names, freed \in SUBSET Nodes :
              Renaming(u, freed, t, odir, src, ndir, nm) /\ h = g \cup freed
    BY <1>4
  <2>2. Trees(u) /\ GivenOut(t) \subseteq GivenOut(u) BY <2>1, RenamingTrees
  <2> QED BY <2>1, <2>2
<1>5. CASE h = g /\ \E n \in Nodes : NewRooted(u, t, n)
  <2>1. PICK n \in Nodes : NewRooted(u, t, n) BY <1>5
  <2>2. Trees(u) /\ GivenOut(u) = GivenOut(t) \cup {n} BY Zenon, <2>1, NewRootTrees
  <2> QED BY <1>5, <2>2
<1> QED BY Zenon, <1>1, <1>2, <1>3, <1>4, <1>5 DEF TreeStep

-----------------------------------------------------------------------------
Here0 == /\ Types(node, gone, dcache, ref, mounts, rootMnt, files, pins) /\ Balanced(ref, files, mounts, pins)
         /\ hung = FALSE

LEMMA NotHung == ASSUME VfsInv, ~hung PROVE Here0
BY Zenon DEF VfsInv, Here0

LEMMA HereHas ==
    ASSUME Here0
    PROVE  /\ Trees(node) /\ gone \subseteq Nodes /\ Cached(dcache, ref, GivenOut(node)) /\ Kidly(node, GivenOut(node))
           /\ Anchored(mounts, rootMnt, DOMAIN ref) /\ ref \in [DOMAIN ref -> Int] /\ DOMAIN ref \subseteq Dentries
           /\ node \in [Nodes -> NodeRecords]
BY RefsAre DEF Here0, Types, Trees

LEMMA WalkHereWent ==
    ASSUME Here0, NEW path \in Seq(Names)
    PROVE  Went(WalkHere(path), node, GivenOut(node), ref)
BY HereHas, WalkWent DEF WalkHere

LEMMA PartsOfPath ==
    ASSUME NEW path \in Seq(Names), path # <<>>
    PROVE  Parent(path) \in Seq(Names) /\ Leaf(path) \in Names
<1>1. Len(path) \in Nat /\ Len(path) # 0 OBVIOUS
<1>2. Leaf(path) \in Names BY <1>1 DEF Leaf, Last
<1>3. Parent(path) \in Seq(Names) BY <1>1 DEF Parent, Front
<1> QED BY <1>2, <1>3

LEMMA WentDir ==
    ASSUME NEW w, NEW t, NEW U, NEW r0, Went(w, t, U, r0), w.err = "ok"
    PROVE  w.dc[w.cur] \in U
BY DEF Went, Cached

LEMMA KeepStep ==
    ASSUME Here0, NEW w, NEW t, Went(w, t, GivenOut(node), ref), Keep(w, 0),
           TreeStep(node, gone, node', gone'), UNCHANGED <<mounts, rootMnt, files, pins>>
    PROVE  VfsInv'
<1>1. Trees(node') /\ GivenOut(node) \subseteq GivenOut(node') /\ gone' \subseteq Nodes BY HereHas, TreeStepTrees
<1>2. ref \in [DOMAIN ref -> Int] BY HereHas
<1>3. KeptTo(w, 0, dcache', ref', hung') BY KeepIs
<1>4. 0 \in Int OBVIOUS
<1>5. /\ Cached(dcache', ref', GivenOut(node)) /\ Larger(ref', ref) /\ hung' \in BOOLEAN
      /\ hung' \/ Counts(ref', ref, w.cur, 0)
  <2>1. KeptWell(w, GivenOut(node), ref, 0, dcache', ref', hung') BY Zenon, <1>2, <1>3, <1>4, KeptIs
  <2> QED BY Zenon, <2>1 DEF KeptWell
<1>6. Cached(dcache', ref', GivenOut(node')) BY <1>1, <1>5, MoreCached
<1>7. Types(node', gone', dcache', ref', mounts, rootMnt, files, pins)
  <2>1. Types(node, gone, dcache, ref, mounts, rootMnt, files, pins) BY DEF Here0
  <2> QED BY <1>1, <1>5, <1>6, <2>1, TypesOn
<1>8. hung' \/ Balanced(ref', files, mounts, pins)
  <2>1. Types(node, gone, dcache, ref, mounts, rootMnt, files, pins) BY DEF Here0
  <2>2. Balanced(ref, files, mounts, pins) BY DEF Here0
  <2> QED BY <1>5, <2>1, <2>2, BalanceOn
<1>9. mounts' = mounts /\ rootMnt' = rootMnt /\ files' = files /\ pins' = pins OBVIOUS
<1> QED BY Zenon, <1>5, <1>7, <1>8, <1>9 DEF VfsInv

StepsWell == VfsInv' /\ TreeStep(node, gone, node', gone')

LEMMA StatKeeps ==
    ASSUME Here0, NEW path \in Seq(Names), Stat(path)
    PROVE  StepsWell
<1>1. Keep(WalkHere(path), 0) /\ UNCHANGED <<node, gone, mounts, rootMnt, files, pins>> BY DEF Stat
<1>2. TreeStep(node, gone, node', gone') BY <1>1 DEF TreeStep
<1>3. Went(WalkHere(path), node, GivenOut(node), ref) BY WalkHereWent
<1> QED BY <1>1, <1>2, <1>3, KeepStep DEF StepsWell

LEMMA MkdirKeeps ==
    ASSUME Here0, NEW path \in Seq(Names), Mkdir(path)
    PROVE  StepsWell
<1> DEFINE w == WalkHere(Parent(path))
           par == w.dc[w.cur]
<1>1. /\ path # <<>> /\ AsDirectory(w) /\ Keep(w, 0) /\ UNCHANGED <<gone, mounts, rootMnt, files, pins>>
      /\ node' = IF w.err = "ok" THEN Create(par, Leaf(path), "dir").node ELSE node
  BY DEF Mkdir, MkdirAt
<1>2. Parent(path) \in Seq(Names) /\ Leaf(path) \in Names BY <1>1, PartsOfPath
<1>3. Went(w, node, GivenOut(node), ref) BY <1>2, WalkHereWent
<1> HIDE DEF w
<1>4. TreeStep(node, gone, node', gone')
  <2>1. CASE w.err # "ok" BY <1>1, <2>1 DEF TreeStep
  <2>2. CASE w.err = "ok"
    <3>1. par \in GivenOut(node) BY <1>3, <2>2, WentDir
    <3>2. Creating(node', node, par, Leaf(path), "dir")
      <4>1. Trees(node) BY HereHas
      <4>2. node' = Create(par, Leaf(path), "dir").node BY <1>1, <2>2
      <4> HIDE DEF par
      <4>3. Creating(Create(par, Leaf(path), "dir").node, node, par, Leaf(path), "dir") BY <1>2, <3>1, <4>1, CreateIs
      <4> QED BY Zenon, <4>2, <4>3
    <3>3. ThroughFiles \/ node[par].mode = "dir"
      <4>1. w.node = node BY <1>3 DEF Went
      <4> QED BY <1>1, <2>2, <4>1 DEF AsDirectory
    <3>4. gone' = gone BY <1>1
    <3> HIDE DEF par
    <3>5. "dir" \in {"file", "dir"} OBVIOUS
    <3> QED BY Zenon, <1>2, <3>1, <3>2, <3>3, <3>4, <3>5 DEF TreeStep
  <2> QED BY <2>1, <2>2
<1> QED BY <1>1, <1>3, <1>4, KeepStep DEF StepsWell

LEMMA RemoveKeeps ==
    ASSUME Here0, NEW path \in Seq(Names), NEW m \in {"file", "dir"}, RemoveNode(path, m)
    PROVE  StepsWell
<1> DEFINE w == WalkHere(Parent(path))
           par == w.dc[w.cur]
           ch == FindChild(node, par, Leaf(path))
<1>1. /\ path # <<>> /\ Keep(w, 0) /\ UNCHANGED <<mounts, rootMnt, files, pins>>
      /\ IF w.err = "ok" THEN TakeOut(par, ch, m) ELSE UNCHANGED <<node, gone>>
  BY DEF RemoveNode, RemoveIn
<1>2. Parent(path) \in Seq(Names) /\ Leaf(path) \in Names BY <1>1, PartsOfPath
<1>3. Went(w, node, GivenOut(node), ref) BY <1>2, WalkHereWent
<1> HIDE DEF w
<1>4. TreeStep(node, gone, node', gone')
  <2>1. CASE UNCHANGED <<node, gone>> BY <2>1 DEF TreeStep
  <2>2. CASE ~UNCHANGED <<node, gone>>
    <3>1. /\ w.err = "ok" /\ ch # NULL /\ node[ch].mode = m /\ (m = "dir" => node[ch].kids = <<>>)
          /\ node' = Drop(node, par, ch) /\ gone' = gone \cup {ch}
      BY <1>1, <2>2 DEF TakeOut
    <3>2. par \in GivenOut(node) /\ par \in Nodes BY <1>3, <3>1, WentDir DEF GivenOut
    <3>3. node \in [Nodes -> NodeRecords] BY HereHas
    <3>4. node[par].kids \in Seq(Nodes) BY <3>2, <3>3, RecordIs
    <3>5. \E i \in DOMAIN node[par].kids : ch = node[par].kids[i] BY <3>1, <3>2, <3>4, FindChildIs
    <3> HIDE DEF ch, par
    <3>6. IsKid(node, par, ch) /\ ch \in Nodes BY <3>4, <3>5 DEF IsKid
    <3>7. Dropped(node', node, par, ch) BY <3>1, <3>2, <3>3, DropIs
    <3> QED BY Zenon, <3>1, <3>2, <3>6, <3>7 DEF TreeStep
  <2> QED BY <2>1, <2>2
<1> QED BY <1>1, <1>3, <1>4, KeepStep DEF StepsWell

(* A reference is given back beside a walk.                                  *)
Give(w, x) == [w EXCEPT !.ref = Bump(@, x, -1)]

LEMMA GiveIs ==
    ASSUME NEW c, NEW dc, NEW r, NEW t, NEW e, NEW x
    PROVE  Give(W(c, dc, r, t, e), x) = W(c, dc, Bump(r, x, -1), t, e)
<1> DEFINE s == W(c, dc, r, t, e)
           b == Bump(s.ref, x, -1)
<1>1. s.ref = r BY FieldsOfWalk
<1>2. b = Bump(r, x, -1) BY <1>1
<1>3. Give(s, x) = [s EXCEPT !.ref = b] BY DEF Give
<1> HIDE DEF b
<1>4. [s EXCEPT !.ref = b] = W(c, dc, b, t, e) BY DEF W
<1> QED BY <1>2, <1>3, <1>4

LEMMA GiveWent ==
    ASSUME NEW w, NEW t, NEW U, NEW r0, r0 \in [DOMAIN r0 -> Int], NEW r1, Went(w, t, U, r1),
           NEW x \in DOMAIN r1, Larger(r1, r0), Counts(r1, r0, x, 1)
    PROVE  Went(Give(w, x), t, U, r0) /\ Give(w, x).err = w.err
<1> DEFINE b == Bump(w.ref, x, -1)
<1>0. w = W(w.cur, w.dc, w.ref, t, w.err) BY Zenon DEF Went
<1>1. Give(w, x) = W(w.cur, w.dc, b, t, w.err)
  <2>1. Give(W(w.cur, w.dc, w.ref, t, w.err), x) = W(w.cur, w.dc, b, t, w.err) BY GiveIs
  <2> QED BY Zenon, <1>0, <2>1
<1>2. Cached(w.dc, w.ref, U) /\ Larger(w.ref, r1) BY DEF Went
<1>3. Larger(w.ref, r0) BY <1>2, LargerOn
<1>4. w.ref \in [DOMAIN w.ref -> Int] /\ x \in DOMAIN w.ref BY <1>2 DEF Cached, Larger
<1>5. /\ DOMAIN b = DOMAIN w.ref /\ b \in [DOMAIN w.ref -> Int]
      /\ \A d : Val(b, d) = Val(w.ref, d) + Of(x, d, -1)
  <2>1. -1 \in Int OBVIOUS
  <2> QED BY Zenon, <1>4, <2>1, BumpIs
<1> HIDE DEF b
<1>6. Cached(w.dc, b, U) BY <1>2, <1>5 DEF Cached
<1>7. Larger(b, r0) BY <1>3, <1>5 DEF Larger
<1>8. w.err = "ok" => w.cur \in DOMAIN b BY <1>5 DEF Went
<1>9. w.err = "endless" \/ Counts(b, r0, w.cur, Refs(w.err))
  <2>1. CASE w.err = "endless" BY <2>1
  <2>2. CASE w.err # "endless"
    <3>1. Counts(w.ref, r1, w.cur, Refs(w.err)) BY Zenon, <2>2 DEF Went
    <3> DEFINE k == Refs(w.err)
    <3>2. k \in {0, 1} BY DEF Refs
    <3>3. Counts(w.ref, r1, w.cur, k) BY <3>1
    <3> HIDE DEF k
    <3>4. Counts(b, r0, w.cur, k)
      <4> SUFFICES ASSUME NEW d \in Dentries PROVE Val(b, d) = Val(r0, d) + Of(w.cur, d, k) BY DEF Counts
      <4>1. Val(w.ref, d) = Val(r1, d) + Of(w.cur, d, k) BY <3>3 DEF Counts
      <4>2. Val(r1, d) = Val(r0, d) + Of(x, d, 1) BY DEF Counts
      <4>3. Val(b, d) = Val(w.ref, d) + Of(x, d, -1) BY <1>5
      <4>4. Val(r0, d) \in Int BY ValIs
      <4>5. Of(x, d, 1) \in Int /\ Of(x, d, -1) = 0 - Of(x, d, 1) /\ Of(w.cur, d, k) \in Int BY <3>2 DEF Of
      <4> QED BY <4>1, <4>2, <4>3, <4>4, <4>5
    <3> QED BY <3>4 DEF k
  <2> QED BY <2>1, <2>2
<1>10. Went(W(w.cur, w.dc, b, t, w.err), t, U, r0) BY <1>6, <1>7, <1>8, <1>9, WentIs
<1>11. W(w.cur, w.dc, b, t, w.err).err = w.err BY FieldsOfWalk
<1> QED BY Zenon, <1>1, <1>10, <1>11

(* A second walk, from where the first one left the cache.                   *)
LEMMA SecondWent ==
    ASSUME Here0, NEW w, Went(w, node, GivenOut(node), ref), NEW path \in Seq(Names)
    PROVE  Went(Walk(path, node, w.dc, w.ref), node, GivenOut(node), w.ref)
<1>1. Cached(w.dc, w.ref, GivenOut(node)) /\ Larger(w.ref, ref) BY DEF Went
<1>2. Anchored(mounts, rootMnt, DOMAIN w.ref) BY <1>1, HereHas, AnchoredOn DEF Larger
<1> QED BY <1>1, <1>2, HereHas, WalkWent

LEMMA FoundChild ==
    ASSUME Here0, NEW par \in GivenOut(node), NEW nm, FindChild(node, par, nm) # NULL
    PROVE  IsKid(node, par, FindChild(node, par, nm)) /\ FindChild(node, par, nm) \in GivenOut(node)
<1>1. par \in Nodes /\ node \in [Nodes -> NodeRecords] /\ Trees(node) BY HereHas DEF GivenOut
<1>2. node[par].kids \in Seq(Nodes) BY <1>1, RecordIs
<1>3. \E i \in DOMAIN node[par].kids : FindChild(node, par, nm) = node[par].kids[i] BY <1>1, <1>2, FindChildIs
<1> QED BY <1>1, <1>3 DEF IsKid, Trees

LEMMA RenameKeeps ==
    ASSUME Here0, NEW old \in Seq(Names), NEW new \in Seq(Names), Rename(old, new)
    PROVE  StepsWell
<1> DEFINE wo == WalkHere(Parent(old))
           wn == Walk(Parent(new), node, wo.dc, wo.ref)
           src == FindChild(node, wo.dc[wo.cur], Leaf(old))
<1>1. /\ old # <<>> /\ new # <<>> /\ UNCHANGED <<mounts, rootMnt, files, pins>>
      /\ wo.err = "ok" => AsDirectory(wn)
      /\ IF wo.err # "ok" THEN Keep(wo, 0) ELSE Keep(Give(wn, wo.cur), 0)
      /\ IF wo.err = "ok" /\ wn.err = "ok" /\ src # NULL
         THEN Move(RamRename(wo.dc[wo.cur], src, wn.dc[wn.cur], Leaf(new)))
         ELSE UNCHANGED <<node, gone>>
  BY DEF Rename, RenameFrom, RenameAt, Give
<1>2. Parent(old) \in Seq(Names) /\ Parent(new) \in Seq(Names) /\ Leaf(new) \in Names BY <1>1, PartsOfPath
<1>3. Went(wo, node, GivenOut(node), ref) BY <1>2, WalkHereWent
<1> HIDE DEF wo
<1>4. Went(wn, node, GivenOut(node), wo.ref) BY <1>2, <1>3, SecondWent
<1> HIDE DEF wn
<1>5. CASE wo.err # "ok"
  <2>1. Keep(wo, 0) /\ UNCHANGED <<node, gone>> BY <1>1, <1>5
  <2>2. TreeStep(node, gone, node', gone') BY <2>1 DEF TreeStep
  <2> QED BY <1>1, <1>3, <2>1, <2>2, KeepStep DEF StepsWell
<1>6. CASE wo.err = "ok"
  <2> DEFINE odir == wo.dc[wo.cur]
             ndir == wn.dc[wn.cur]
  <2>1. Keep(Give(wn, wo.cur), 0) BY <1>1, <1>6
  <2>2. Went(Give(wn, wo.cur), node, GivenOut(node), ref)
    <3>1. Larger(wo.ref, ref) /\ wo.cur \in DOMAIN wo.ref BY <1>3, <1>6 DEF Went
    <3>2. Counts(wo.ref, ref, wo.cur, 1) BY <1>3, <1>6 DEF Went, Refs
    <3>3. ref \in [DOMAIN ref -> Int] BY HereHas
    <3> QED BY <1>4, <3>1, <3>2, <3>3, GiveWent
  <2>3. TreeStep(node, gone, node', gone')
    <3>1. CASE UNCHANGED <<node, gone>> BY <3>1 DEF TreeStep
    <3>2. CASE ~UNCHANGED <<node, gone>>
      <4>1. /\ wn.err = "ok" /\ src # NULL /\ AsDirectory(wn)
            /\ Move(RamRename(odir, src, ndir, Leaf(new)))
        BY <1>1, <1>6, <3>2
      <4>2. odir \in GivenOut(node) /\ ndir \in GivenOut(node) BY <1>3, <1>4, <1>6, <4>1, WentDir
      <4>3. ThroughFiles \/ node[ndir].mode = "dir"
        <5>1. wn.node = node BY <1>4 DEF Went
        <5> QED BY <4>1, <5>1 DEF AsDirectory
      <4> HIDE DEF odir, ndir
      <4>4. IsKid(node, odir, src) /\ src \in GivenOut(node)
        <5>1. src = FindChild(node, odir, Leaf(old)) BY DEF odir
        <5> HIDE DEF src
        <5> QED BY <4>1, <4>2, <5>1, FoundChild
      <4> HIDE DEF src
      <4> DEFINE mv == RamRename(odir, src, ndir, Leaf(new))
      <4>5. Renaming(mv.node, mv.freed, node, odir, src, ndir, Leaf(new)) BY <1>2, <4>2, <4>4, RenameIs, HereHas
      <4>6. node' = mv.node /\ gone' = gone \cup mv.freed BY <4>1 DEF Move
      <4> HIDE DEF mv
      <4>7. mv.freed \in SUBSET Nodes
        <5>1. Trees(node) BY HereHas
        <5> QED BY <1>2, <4>2, <4>4, <4>5, <5>1, RenamingTrees
      <4>8. Renaming(node', mv.freed, node, odir, src, ndir, Leaf(new)) BY Zenon, <4>5, <4>6
      <4>9. \E freed \in SUBSET Nodes : Renaming(node', freed, node, odir, src, ndir, Leaf(new)) /\ gone' = gone \cup freed
        BY Zenon, <4>6, <4>7, <4>8
      <4> QED BY Zenon, <1>2, <4>2, <4>3, <4>4, <4>9 DEF TreeStep
    <3> QED BY <3>1, <3>2
  <2> QED BY <1>1, <2>1, <2>2, <2>3, KeepStep DEF StepsWell
<1> QED BY <1>5, <1>6

(* The types and the balance after a step that changes the users too.        *)
UsersGrew(r2, r, fs2, fs, ms2, ms, ps2, ps) ==
    \A d \in Dentries : \E k \in Int :
        /\ Val(r2, d) = Val(r, d) + k
        /\ Opens(fs2, d) + Covers(ms2, d) + Binds(ms2, d) + Pins(ps2, d)
           = Opens(fs, d) + Covers(ms, d) + Binds(ms, d) + Pins(ps, d) + k

LEMMA GrowStep ==
    ASSUME NEW t, NEW g, NEW dc, NEW r, NEW ms, NEW rm, NEW fs, NEW ps, Types(t, g, dc, r, ms, rm, fs, ps),
           Balanced(r, fs, ms, ps),
           NEW t2, NEW g2, NEW dc2, NEW r2, NEW ms2, NEW rm2, NEW fs2, NEW ps2, Larger(r2, r),
           Types(t2, g2, dc2, r2, ms2, rm2, fs2, ps2), UsersGrew(r2, r, fs2, fs, ms2, ms, ps2, ps)
    PROVE  Balanced(r2, fs2, ms2, ps2)
<1>1. \A d \in Dentries : CountsAre(fs, ms, ps, d) BY UsersCounted
<1>2. \A d \in Dentries : CountsAre(fs2, ms2, ps2, d) BY UsersCounted
<1> QED BY <1>1, <1>2, BalanceGrows DEF UsersGrew

LEMMA TypesOf ==
    ASSUME NEW t, NEW g, NEW dc, NEW r, NEW ms, NEW rm, NEW fs, NEW ps, Types(t, g, dc, r, ms, rm, fs, ps),
           NEW fs2, fs2 \in [Open -> DOMAIN r \cup {NULL}]
    PROVE  Types(t, g, dc, r, ms, rm, fs2, ps)
BY Zenon DEF Types

(* A file is opened.                                                         *)
LEMMA AllocFileIs ==
    ASSUME FreeFiles # {}
    PROVE  AllocFile \in Open /\ files[AllocFile] = NULL
<1>1. FreeFiles \subseteq Nat BY SlotsAreNat DEF FreeFiles
<1>2. \E i \in FreeFiles : \A j \in FreeFiles : i <= j BY <1>1, HasLeast
<1>3. AllocFile \in FreeFiles BY <1>2 DEF AllocFile
<1> QED BY <1>3 DEF FreeFiles

WellOpened(w) ==
    /\ TreeStep(node, gone, w.node, gone) /\ Went(w, w.node, GivenOut(w.node), ref)

LEMMA CreateLeafWent ==
    ASSUME Here0, NEW w, Went(w, node, GivenOut(node), ref), w.err = "ENOENT",
           NEW path \in Seq(Names), path # <<>>, AsDirectory(ParentWalk(w, path))
    PROVE  WellOpened(CreateLeaf(ParentWalk(w, path), path))
<1> DEFINE pw == ParentWalk(w, path)
           par == pw.dc[pw.cur]
           mk == Create(par, Leaf(path), "file")
           made == Walk(path, mk.node, pw.dc, Bump(pw.ref, pw.cur, -1))
           out == CreateLeaf(pw, path)
<1>1. Parent(path) \in Seq(Names) /\ Leaf(path) \in Names BY PartsOfPath
<1>2. Went(pw, node, GivenOut(node), w.ref) BY <1>1, SecondWent DEF ParentWalk
<1>3. Larger(w.ref, ref) /\ Counts(w.ref, ref, w.cur, 0) BY DEF Went, Refs
<1>4. ref \in [DOMAIN ref -> Int] /\ Trees(node) BY HereHas
<1> HIDE DEF pw
<1>5. Went(pw, node, GivenOut(node), ref) BY <1>2, <1>3, <1>4, RebaseWent
<1>6. pw.node = node /\ AsDirectory(pw) BY <1>5 DEF Went, pw
<1>7. TreeStep(node, gone, node, gone) BY Zenon DEF TreeStep
<1>8. out = IF pw.err # "ok" THEN pw
            ELSE IF mk.rc # "ok" THEN Failed(pw, mk.rc) ELSE made
  BY DEF CreateLeaf, Made, Failed
<1>9. CASE pw.err # "ok"
  <2>1. out = pw BY <1>8, <1>9
  <2>2. WellOpened(pw) BY Zenon, <1>5, <1>6, <1>7 DEF WellOpened
  <2> QED BY <2>1, <2>2 DEF pw
<1>10. CASE pw.err = "ok"
  <2>1. par \in GivenOut(node) BY <1>5, <1>10, WentDir
  <2>2. ThroughFiles \/ node[par].mode = "dir" BY <1>6, <1>10 DEF AsDirectory
  <2> HIDE DEF par
  <2>3. /\ mk.rc # "ok" => mk.node = node
        /\ Creating(mk.node, node, par, Leaf(path), "file")
    BY <1>1, <1>4, <2>1, CreateIs
  <2> HIDE DEF mk
  <2>4. CASE mk.rc # "ok"
    <3>1. out = Failed(pw, mk.rc) BY <1>8, <1>10, <2>4
    <3>2. Went(Failed(pw, mk.rc), node, GivenOut(node), ref) BY <1>4, <1>5, <1>10, <2>4, FailedWent
    <3>3. Failed(pw, mk.rc).node = node BY <3>2 DEF Went
    <3>4. WellOpened(Failed(pw, mk.rc)) BY Zenon, <1>7, <3>2, <3>3 DEF WellOpened
    <3> QED BY <3>1, <3>4 DEF pw
  <2>5. CASE mk.rc = "ok"
    <3> DEFINE u == mk.node
               b == Bump(pw.ref, pw.cur, -1)
    <3>1. out = Walk(path, u, pw.dc, b) BY <1>8, <1>10, <2>5
    <3>2. Trees(u) /\ GivenOut(node) \subseteq GivenOut(u)
      <4>1. "file" \in {"file", "dir"} OBVIOUS
      <4> QED BY <1>1, <1>4, <2>1, <2>3, <4>1, CreatingTrees
    <3>3. TreeStep(node, gone, u, gone)
      <4>1. "file" \in {"file", "dir"} OBVIOUS
      <4> QED BY Zenon, <1>1, <2>1, <2>2, <2>3, <4>1 DEF TreeStep
    <3>4. Cached(pw.dc, b, GivenOut(node)) /\ Larger(b, ref) /\ Counts(b, ref, pw.cur, 0)
      <4> DEFINE f == Failed(pw, "ENOSPC")
      <4>1. Went(f, node, GivenOut(node), ref) /\ f.err = "ENOSPC"
        <5>1. "ENOSPC" # "ok" OBVIOUS
        <5> QED BY <1>4, <1>5, <1>10, <5>1, FailedWent
      <4>2. f = W(pw.cur, pw.dc, b, node, "ENOSPC")
        <5>1. pw = W(pw.cur, pw.dc, pw.ref, node, pw.err) BY Zenon, <1>5 DEF Went
        <5>2. Failed(W(pw.cur, pw.dc, pw.ref, node, pw.err), "ENOSPC") = W(pw.cur, pw.dc, b, node, "ENOSPC") BY FailedIs
        <5> QED BY Zenon, <5>1, <5>2
      <4>3. f.dc = pw.dc /\ f.ref = b /\ f.cur = pw.cur BY <4>2, FieldsOfWalk
      <4> HIDE DEF f, b
      <4>4. Cached(f.dc, f.ref, GivenOut(node)) /\ Larger(f.ref, ref) BY <4>1 DEF Went
      <4>5. Counts(f.ref, ref, f.cur, 0) BY <4>1 DEF Went, Refs
      <4> QED BY Zenon, <4>3, <4>4, <4>5
    <3> HIDE DEF u, b
    <3>5. Cached(pw.dc, b, GivenOut(u)) BY <3>2, <3>4, MoreCached
    <3>6. Anchored(mounts, rootMnt, DOMAIN b) BY <3>4, HereHas, AnchoredOn DEF Larger
    <3>7. Kidly(u, GivenOut(u))
      <4>1. u \in [Nodes -> NodeRecords] BY <3>2 DEF Trees
      <4>2. \A n \in Nodes : u[n].kids \in Seq(Nodes) BY <4>1, RecordIs
      <4> QED BY <3>2, <4>2 DEF Kidly, Trees, GivenOut
    <3>8. Went(Walk(path, u, pw.dc, b), u, GivenOut(u), b) BY <3>5, <3>6, <3>7, WalkWent
    <3>9. Went(out, u, GivenOut(u), b) BY <3>1, <3>8
    <3> HIDE DEF out
    <3>10. Went(out, u, GivenOut(u), ref) BY <1>4, <3>4, <3>9, RebaseWent
    <3>11. out.node = u BY <3>10 DEF Went
    <3>12. WellOpened(out) BY Zenon, <3>3, <3>10, <3>11 DEF WellOpened
    <3> QED BY <3>12 DEF out, pw
  <2> QED BY <2>4, <2>5
<1> QED BY <1>9, <1>10

LEMMA OpenWalkWell ==
    ASSUME Here0, NEW path \in Seq(Names), NEW creat,
           MakesLeaf(WalkHere(path), creat, path) => AsDirectory(ParentWalk(WalkHere(path), path))
    PROVE  WellOpened(OpenWalk(WalkHere(path), path, creat))
<1> DEFINE w == WalkHere(path)
<1>1. Went(w, node, GivenOut(node), ref) BY WalkHereWent
<1> HIDE DEF w
<1>2. CASE MakesLeaf(w, creat, path)
  <2>1. w.err = "ENOENT" /\ path # <<>> /\ AsDirectory(ParentWalk(w, path)) BY <1>2 DEF MakesLeaf, w
  <2>2. OpenWalk(w, path, creat) = CreateLeaf(ParentWalk(w, path), path) BY <1>2 DEF OpenWalk
  <2> QED BY <1>1, <2>1, <2>2, CreateLeafWent DEF w
<1>3. CASE ~MakesLeaf(w, creat, path)
  <2>1. OpenWalk(w, path, creat) = w BY <1>3 DEF OpenWalk
  <2>2. w.node = node BY <1>1 DEF Went
  <2>3. TreeStep(node, gone, node, gone) BY Zenon DEF TreeStep
  <2>4. WellOpened(w) BY Zenon, <1>1, <2>2, <2>3 DEF WellOpened
  <2> QED BY <2>1, <2>4 DEF w
<1> QED BY <1>2, <1>3 DEF w

(* The types after a walk that is kept with k references.                     *)
KeptHere(w, k) ==
    /\ Types(node', gone', dcache', ref', mounts, rootMnt, files, pins)
    /\ Larger(ref', ref) /\ hung' \in BOOLEAN
    /\ w.err = "ok" => w.cur \in DOMAIN ref' /\ w.cur \in Dentries /\ Counts(ref', ref, w.cur, k)
    /\ hung' \/ w.err = "ok" \/ Counts(ref', ref, w.cur, 0)

LEMMA KeepHere ==
    ASSUME Here0, NEW w, NEW t, Went(w, t, GivenOut(node'), ref), NEW k \in Int, Keep(w, k),
           TreeStep(node, gone, node', gone')
    PROVE  KeptHere(w, k)
<1>1. Trees(node') /\ gone' \subseteq Nodes BY HereHas, TreeStepTrees
<1>2. ref \in [DOMAIN ref -> Int] BY HereHas
<1>3. KeptTo(w, k, dcache', ref', hung') BY KeepIs
<1>4. KeptWell(w, GivenOut(node'), ref, k, dcache', ref', hung') BY Zenon, <1>2, <1>3, KeptIs
<1>5. Cached(dcache', ref', GivenOut(node')) /\ Larger(ref', ref) BY Zenon, <1>4 DEF KeptWell
<1>6. Types(node', gone', dcache', ref', mounts, rootMnt, files, pins)
  <2>1. Types(node, gone, dcache, ref, mounts, rootMnt, files, pins) BY DEF Here0
  <2> QED BY <1>1, <1>5, <2>1, TypesOn
<1> QED BY Zenon, <1>4, <1>6 DEF KeptWell, KeptHere

LEMMA OpenedKeeps ==
    ASSUME Here0, NEW w, WellOpened(w), NEW ok, ok => w.err = "ok" /\ FreeFiles # {}, Opened(w, ok),
           UNCHANGED <<gone, mounts, rootMnt, pins>>
    PROVE  StepsWell
<1> DEFINE k == RefsOfOpen(ok)
<1>1. k \in {0, 1} BY DEF RefsOfOpen
<1>2. ok => k = 1 BY DEF RefsOfOpen
<1>3. ~ok => k = 0 BY DEF RefsOfOpen
<1>4. /\ Keep(w, k) /\ node' = w.node
      /\ files' = IF ok THEN [files EXCEPT ![AllocFile] = w.cur] ELSE files
  BY Zenon DEF Opened
<1> HIDE DEF k
<1>5. TreeStep(node, gone, node', gone') /\ Went(w, node', GivenOut(node'), ref)
  <2>1. gone' = gone OBVIOUS
  <2> QED BY Zenon, <1>4, <2>1 DEF WellOpened
<1>6. KeptHere(w, k) BY <1>1, <1>4, <1>5, KeepHere
<1>7. Types(node', gone', dcache', ref', mounts, rootMnt, files, pins) /\ Larger(ref', ref) /\ hung' \in BOOLEAN
  BY Zenon, <1>6 DEF KeptHere
<1>8. mounts' = mounts /\ rootMnt' = rootMnt /\ pins' = pins OBVIOUS
<1>9. /\ Types(node, gone, dcache, ref, mounts, rootMnt, files, pins)
      /\ Balanced(ref, files, mounts, pins)
  BY Zenon DEF Here0
<1>10. CASE ~ok
  <2>1. files' = files BY Zenon, <1>4, <1>10
  <2>2. hung' \/ Counts(ref', ref, w.cur, 0) BY Zenon, <1>3, <1>6, <1>10 DEF KeptHere
  <2>3. hung' \/ Balanced(ref', files, mounts, pins) BY <1>7, <1>9, <2>2, BalanceOn
  <2> QED BY Zenon, <1>5, <1>7, <1>8, <2>1, <2>3 DEF VfsInv, StepsWell
<1>11. CASE ok
  <2> DEFINE i == AllocFile
             c == w.cur
             fs == [files EXCEPT ![i] = c]
  <2>1. files' = fs BY Zenon, <1>4, <1>11
  <2>2. c \in DOMAIN ref' /\ c \in Dentries /\ Counts(ref', ref, c, 1)
    <3>1. w.err = "ok" BY <1>11
    <3> QED BY Zenon, <1>2, <1>6, <1>11, <3>1 DEF KeptHere
  <2>3. i \in Open /\ files[i] = NULL BY <1>11, AllocFileIs
  <2>4. files \in [Open -> DOMAIN ref' \cup {NULL}] BY <1>7 DEF Types
  <2> HIDE DEF i, c
  <2>5. fs \in [Open -> DOMAIN ref' \cup {NULL}] BY <2>2, <2>3, <2>4
  <2>6. Types(node', gone', dcache', ref', mounts, rootMnt, fs, pins) BY <1>7, <2>5, TypesOf
  <2>7. UsersGrew(ref', ref, fs, files, mounts, mounts, pins, pins)
    <3> SUFFICES ASSUME NEW d \in Dentries
                 PROVE  /\ Val(ref', d) = Val(ref, d) + Of(c, d, 1) /\ Of(c, d, 1) \in Int
                        /\ Opens(fs, d) + Covers(mounts, d) + Binds(mounts, d) + Pins(pins, d)
                           = Opens(files, d) + Covers(mounts, d) + Binds(mounts, d) + Pins(pins, d) + Of(c, d, 1)
      BY DEF UsersGrew
    <3>1. Val(ref', d) = Val(ref, d) + Of(c, d, 1) BY <2>2 DEF Counts
    <3>2. DOMAIN files = Open BY <2>4
    <3>3. Opens(fs, d) + Of(NULL, d, 1) = Opens(files, d) + Of(c, d, 1) 
      <4>1. Opens(Replaced(files, i, c), d) + Of(files[i], d, 1) = Opens(files, d) + Of(c, d, 1) BY <2>3, <3>2, OpensIs
      <4>2. fs = Replaced(files, i, c) BY DEF Replaced
      <4> HIDE DEF fs
      <4> QED BY <2>3, <4>1, <4>2
    <3>4. Of(NULL, d, 1) = 0 /\ Of(c, d, 1) \in Int BY Limits0 DEF Of
    <3>5. CountsAre(files, mounts, pins, d) BY <1>9, UsersCounted
    <3>6. CountsAre(fs, mounts, pins, d) BY <2>6, UsersCounted
    <3> HIDE DEF fs
    <3> QED BY <3>1, <3>3, <3>4, <3>5, <3>6 DEF CountsAre
  <2> HIDE DEF fs
  <2>8. Balanced(ref', fs, mounts, pins) BY <1>7, <1>9, <2>6, <2>7, GrowStep
  <2> QED BY Zenon, <1>5, <1>7, <1>8, <2>1, <2>6, <2>8 DEF VfsInv, StepsWell
<1> QED BY Zenon, <1>10, <1>11

LEMMA OpenKeeps ==
    ASSUME Here0, NEW path \in Seq(Names), NEW creat, NEW wantDir, OpenPath(path, creat, wantDir)
    PROVE  StepsWell
<1> DEFINE w == OpenWalk(WalkHere(path), path, creat)
           ok == w.err = "ok" /\ FreeFiles # {} /\ (wantDir => node[w.dc[w.cur]].mode = "dir")
<1>1. /\ MakesLeaf(WalkHere(path), creat, path) => AsDirectory(ParentWalk(WalkHere(path), path))
      /\ Opened(w, ok) /\ UNCHANGED <<gone, mounts, rootMnt, pins>>
  BY Zenon DEF OpenPath, OpenAt
<1>2. WellOpened(w) BY <1>1, OpenWalkWell
<1>3. ok => w.err = "ok" /\ FreeFiles # {} BY Zenon
<1> HIDE DEF w, ok
<1> QED BY Zenon, <1>1, <1>2, <1>3, OpenedKeeps

LEMMA CloseKeeps ==
    ASSUME Here0, NEW i \in Open, Close(i)
    PROVE  StepsWell
<1> DEFINE c == files[i]
           fs == [files EXCEPT ![i] = NULL]
           b == Bump(ref, c, -1)
<1>1. /\ c # NULL /\ ref' = b /\ files' = fs
      /\ node' = node /\ gone' = gone /\ dcache' = dcache /\ mounts' = mounts /\ rootMnt' = rootMnt
      /\ pins' = pins /\ hung' = hung
  BY DEF Close
<1>2. /\ Types(node, gone, dcache, ref, mounts, rootMnt, files, pins)
      /\ Balanced(ref, files, mounts, pins)
  BY Zenon DEF Here0
<1>3. files \in [Open -> DOMAIN ref \cup {NULL}] BY <1>2 DEF Types
<1>4. ref \in [DOMAIN ref -> Int] /\ Trees(node) /\ gone \subseteq Nodes /\ Cached(dcache, ref, GivenOut(node))
  BY HereHas
<1>5. c \in DOMAIN ref BY <1>1, <1>3
<1>6. /\ DOMAIN b = DOMAIN ref /\ b \in [DOMAIN ref -> Int]
      /\ \A d : Val(b, d) = Val(ref, d) + Of(c, d, -1)
  <2>1. -1 \in Int OBVIOUS
  <2> HIDE DEF c
  <2> QED BY Zenon, <1>4, <1>5, <2>1, BumpIs
<1>7. fs \in [Open -> DOMAIN b \cup {NULL}] BY <1>3, <1>6
<1> HIDE DEF b
<1>8. Larger(b, ref) BY <1>6 DEF Larger
<1>9. Cached(dcache, b, GivenOut(node)) BY <1>4, <1>6 DEF Cached
<1>10. Types(node, gone, dcache, b, mounts, rootMnt, files, pins) BY <1>2, <1>4, <1>8, <1>9, TypesOn
<1>11. Types(node, gone, dcache, b, mounts, rootMnt, fs, pins) BY <1>7, <1>10, TypesOf
<1>12. UsersGrew(b, ref, fs, files, mounts, mounts, pins, pins)
  <2> SUFFICES ASSUME NEW d \in Dentries
               PROVE  /\ Val(b, d) = Val(ref, d) + Of(c, d, -1) /\ Of(c, d, -1) \in Int
                      /\ Opens(fs, d) + Covers(mounts, d) + Binds(mounts, d) + Pins(pins, d)
                         = Opens(files, d) + Covers(mounts, d) + Binds(mounts, d) + Pins(pins, d) + Of(c, d, -1)
    BY DEF UsersGrew
  <2>1. Val(b, d) = Val(ref, d) + Of(c, d, -1) BY <1>6
  <2>2. DOMAIN files = Open BY <1>3
  <2>3. Opens(fs, d) + Of(c, d, 1) = Opens(files, d) + Of(NULL, d, 1) 
    <3>1. Opens(Replaced(files, i, NULL), d) + Of(files[i], d, 1) = Opens(files, d) + Of(NULL, d, 1) BY <2>2, OpensIs
    <3>2. fs = Replaced(files, i, NULL) BY DEF Replaced
    <3> HIDE DEF fs
    <3> QED BY <3>1, <3>2
  <2>4. Of(NULL, d, 1) = 0 /\ Of(c, d, 1) \in Int /\ Of(c, d, -1) = 0 - Of(c, d, 1) BY Limits0 DEF Of
  <2>5. CountsAre(files, mounts, pins, d) BY <1>2, UsersCounted
  <2>6. CountsAre(fs, mounts, pins, d) BY <1>11, UsersCounted
  <2> HIDE DEF fs, c
  <2> QED BY <2>1, <2>3, <2>4, <2>5, <2>6 DEF CountsAre
<1> HIDE DEF fs
<1>13. Balanced(b, fs, mounts, pins) BY <1>2, <1>8, <1>11, <1>12, GrowStep
<1>14. TreeStep(node, gone, node, gone) BY Zenon DEF TreeStep
<1>15. hung' \in BOOLEAN BY <1>1 DEF Here0
<1> QED BY Zenon, <1>1, <1>11, <1>13, <1>14, <1>15 DEF VfsInv, StepsWell

(* The mount table.                                                          *)
LEMMA AllocSlotIs ==
    ASSUME FreeSlots # {}
    PROVE  AllocSlot \in Slots /\ mounts[AllocSlot] = NULL
<1>1. FreeSlots \subseteq Nat BY SlotsAreNat DEF FreeSlots
<1>2. \E i \in FreeSlots : \A j \in FreeSlots : i <= j BY <1>1, HasLeast
<1>3. AllocSlot \in FreeSlots BY <1>2 DEF AllocSlot
<1> QED BY <1>3 DEF FreeSlots

BindRec(a, r, p)  == [at |-> a, root |-> r, path |-> p, bind |-> TRUE]
PlainRec(a, r, p) == [at |-> a, root |-> r, path |-> p, bind |-> FALSE]
IsMount(m, a, r)  == m \in MountRecords /\ m.at = a /\ m.root = r

LEMMA MountRecIs ==
    ASSUME NEW a \in Dentries \cup {NULL}, NEW r \in Dentries, NEW p \in Seq(Names)
    PROVE  IsMount(BindRec(a, r, p), a, r) /\ IsMount(PlainRec(a, r, p), a, r)
<1>1. IsMount(BindRec(a, r, p), a, r) BY DEF IsMount, BindRec, MountRecords
<1>2. IsMount(PlainRec(a, r, p), a, r) BY DEF IsMount, PlainRec, MountRecords
<1> QED BY <1>1, <1>2

LEMMA MountedIs ==
    ASSUME NEW a \in Dentries \cup {NULL}, NEW r \in Dentries, NEW p \in Seq(Names), NEW d \in Dentries
    PROVE  /\ Covering(BindRec(a, r, p), d) = Of(a, d, 1) /\ Binding(BindRec(a, r, p), d) = Of(r, d, 1)
           /\ Covering(PlainRec(a, r, p), d) = Of(a, d, 1) /\ Binding(PlainRec(a, r, p), d) = 0
<1> DEFINE m == BindRec(a, r, p)
           q == PlainRec(a, r, p)
<1>1. m \in MountRecords /\ m.at = a /\ m.root = r /\ q \in MountRecords /\ q.at = a /\ q.root = r
  BY MountRecIs DEF IsMount
<1>2. m # NULL /\ q # NULL BY <1>1, Limits0
<1>3. m.bind /\ ~q.bind BY DEF BindRec, PlainRec
<1> HIDE DEF m, q
<1>4. Covering(m, d) = Of(a, d, 1) /\ Covering(q, d) = Of(a, d, 1) BY <1>1, <1>2 DEF Covering, Of
<1>5. Binding(m, d) = Of(r, d, 1) /\ Binding(q, d) = 0 BY Zenon, <1>1, <1>2, <1>3 DEF Binding, Of
<1> QED BY <1>4, <1>5 DEF m, q

LEMMA AnchoredNow ==
    ASSUME NEW ms, NEW rm, NEW D, Anchored(ms, rm, D), NEW i \in Slots, NEW m \in MountRecords,
           m.root \in D, m.at \in D \cup {NULL}
    PROVE  Anchored(Replaced(ms, i, m), rm, D) /\ Anchored(Replaced(ms, i, m), i, D)
<1> DEFINE ns == Replaced(ms, i, m)
<1>1. ms \in [Slots -> {NULL} \cup MountRecords] BY DEF Anchored
<1>2. ns \in [Slots -> {NULL} \cup MountRecords] /\ ns[i] = m /\ \A j \in Slots : j # i => ns[j] = ms[j]
  BY <1>1 DEF Replaced
<1>3. m # NULL BY Limits0
<1> HIDE DEF ns
<1>4. rm \in Slots /\ ns[rm] # NULL /\ ns[i] # NULL BY <1>2, <1>3 DEF Anchored
<1>5. ASSUME NEW j \in Slots, ns[j] # NULL PROVE ns[j].root \in D /\ ns[j].at \in D \cup {NULL}
  <2>1. CASE j = i BY <1>2, <2>1
  <2>2. CASE j # i BY <1>2, <1>5, <2>2 DEF Anchored
  <2> QED BY <2>1, <2>2
<1>6. Anchored(ns, rm, D) /\ Anchored(ns, i, D) BY <1>2, <1>4, <1>5 DEF Anchored
<1> QED BY <1>6 DEF ns

LEMMA AnchoredLess ==
    ASSUME NEW ms, NEW rm, NEW D, Anchored(ms, rm, D), NEW i \in Slots, i # rm
    PROVE  Anchored(Replaced(ms, i, NULL), rm, D)
<1> DEFINE ns == Replaced(ms, i, NULL)
<1>1. ms \in [Slots -> {NULL} \cup MountRecords] BY DEF Anchored
<1>2. ns \in [Slots -> {NULL} \cup MountRecords] /\ ns[i] = NULL /\ \A j \in Slots : j # i => ns[j] = ms[j]
  BY <1>1 DEF Replaced
<1> HIDE DEF ns
<1>3. Anchored(ns, rm, D) BY <1>2 DEF Anchored
<1> QED BY <1>3 DEF ns

LEMMA TypesMs ==
    ASSUME NEW t, NEW g, NEW dc, NEW r, NEW ms, NEW rm, NEW fs, NEW ps, Types(t, g, dc, r, ms, rm, fs, ps),
           NEW ms2, NEW rm2, Anchored(ms2, rm2, DOMAIN r)
    PROVE  Types(t, g, dc, r, ms2, rm2, fs, ps)
BY Zenon DEF Types

(* What grows when a slot that was free gets the mount m.                     *)
LEMMA SlotGrown ==
    ASSUME NEW t, NEW g, NEW dc, NEW r, NEW ms, NEW rm, NEW fs, NEW ps, Types(t, g, dc, r, ms, rm, fs, ps),
           NEW i \in Slots, ms[i] = NULL, NEW m, NEW d
    PROVE  /\ Covers(Replaced(ms, i, m), d) = Covers(ms, d) + Covering(m, d)
           /\ Binds(Replaced(ms, i, m), d) = Binds(ms, d) + Binding(m, d)
<1>1. DOMAIN ms = Slots BY RefsAre
<1>2. /\ Covers(Replaced(ms, i, m), d) + Covering(NULL, d) = Covers(ms, d) + Covering(m, d)
      /\ Binds(Replaced(ms, i, m), d) + Binding(NULL, d) = Binds(ms, d) + Binding(m, d)
      /\ Covers(Replaced(ms, i, m), d) \in Nat /\ Binds(Replaced(ms, i, m), d) \in Nat
  BY <1>1, CoversIs
<1>3. Covering(NULL, d) = 0 /\ Binding(NULL, d) = 0 BY Zenon DEF Covering, Binding
<1> QED BY <1>2, <1>3

LEMMA GivenUp == ASSUME NEW w, NEW k, Keep(w, k), w.err # "ok" PROVE Keep(w, 0)
BY Zenon DEF Keep

LEMMA BindKeeps ==
    ASSUME Here0, NEW src \in Seq(Names), NEW tgt \in Seq(Names), Bind(src, tgt)
    PROVE  StepsWell
<1> DEFINE ws == WalkHere(src)
           wt == Walk(tgt, node, ws.dc, ws.ref)
           i == AllocSlot
           m == BindRec(wt.cur, ws.cur, tgt)
<1>1. /\ FreeSlots # {} /\ node' = node /\ gone' = gone /\ rootMnt' = rootMnt /\ files' = files /\ pins' = pins
      /\ IF ws.err # "ok" THEN Keep(ws, 0)
         ELSE IF wt.err # "ok" THEN Keep(Give(wt, ws.cur), 1) ELSE Keep(wt, 1)
      /\ mounts' = IF ws.err = "ok" /\ wt.err = "ok" THEN Replaced(mounts, i, m) ELSE mounts
  BY DEF Bind, BindFrom, BindAt, Give, Replaced, BindRec
<1>2. Went(ws, node, GivenOut(node), ref) BY WalkHereWent
<1> HIDE DEF ws
<1>3. Went(wt, node, GivenOut(node), ws.ref) BY <1>2, SecondWent
<1> HIDE DEF wt
<1>4. TreeStep(node, gone, node', gone') BY Zenon, <1>1 DEF TreeStep
<1>5. ref \in [DOMAIN ref -> Int] /\ Trees(node) /\ gone \subseteq Nodes BY HereHas
<1>6. CASE ws.err # "ok"
  <2>1. Keep(ws, 0) /\ UNCHANGED <<mounts, rootMnt, files, pins>> BY <1>1, <1>6
  <2> QED BY <1>2, <1>4, <2>1, KeepStep DEF StepsWell
<1>7. CASE ws.err = "ok"
  <2>1. Larger(ws.ref, ref) /\ ws.cur \in DOMAIN ws.ref /\ Counts(ws.ref, ref, ws.cur, 1)
    BY <1>2, <1>7 DEF Went, Refs
  <2>2. CASE wt.err # "ok"
    <3>1. Keep(Give(wt, ws.cur), 1) /\ UNCHANGED <<mounts, rootMnt, files, pins>> BY <1>1, <1>7, <2>2
    <3>2. Went(Give(wt, ws.cur), node, GivenOut(node), ref) /\ Give(wt, ws.cur).err # "ok"
      <4>1. Went(Give(wt, ws.cur), node, GivenOut(node), ref) /\ Give(wt, ws.cur).err = wt.err
        BY <1>3, <1>5, <2>1, GiveWent
      <4> QED BY <2>2, <4>1
    <3>3. Keep(Give(wt, ws.cur), 0) BY <3>1, <3>2, GivenUp
    <3> QED BY <1>4, <3>1, <3>2, <3>3, KeepStep DEF StepsWell
  <2>3. CASE wt.err = "ok"
    <3> DEFINE a == wt.cur
               b == ws.cur
               ms == Replaced(mounts, i, m)
    <3>1. Keep(wt, 1) /\ mounts' = ms BY <1>1, <1>7, <2>3
    <3>2. KeptTo(wt, 1, dcache', ref', hung') BY <3>1, KeepIs
    <3>3. ws.ref \in [DOMAIN ws.ref -> Int] BY <1>2 DEF Went, Cached
    <3>4. KeptWell(wt, GivenOut(node), ws.ref, 1, dcache', ref', hung')
      <4>1. 1 \in Int OBVIOUS
      <4> QED BY Zenon, <1>3, <3>2, <3>3, <4>1, KeptIs
    <3>5. /\ Cached(dcache', ref', GivenOut(node)) /\ Larger(ref', ws.ref) /\ hung' \in BOOLEAN
          /\ a \in DOMAIN ref' /\ a \in Dentries /\ Counts(ref', ws.ref, a, 1)
      BY Zenon, <2>3, <3>4 DEF KeptWell
    <3>6. Larger(ref', ref) BY <2>1, <3>5, LargerOn
    <3>7. /\ Types(node, gone, dcache, ref, mounts, rootMnt, files, pins)
          /\ Balanced(ref, files, mounts, pins)
      BY Zenon DEF Here0
    <3>8. Types(node, gone, dcache', ref', mounts, rootMnt, files, pins) BY <1>5, <3>5, <3>6, <3>7, TypesOn
    <3>9. b \in DOMAIN ref' /\ b \in Dentries BY <2>1, <3>5 DEF Larger, Cached
    <3>10. i \in Slots /\ mounts[i] = NULL BY <1>1, AllocSlotIs
    <3> HIDE DEF i
    <3>11. m \in MountRecords /\ m.root \in DOMAIN ref' /\ m.at \in DOMAIN ref' \cup {NULL}
      <4>1. m = BindRec(a, b, tgt) OBVIOUS
      <4> HIDE DEF m, a, b
      <4>2. IsMount(m, a, b) BY <3>5, <3>9, <4>1, MountRecIs
      <4> QED BY <3>5, <3>9, <4>2 DEF IsMount
    <3>12. \A d \in Dentries : Covering(m, d) = Of(a, d, 1) /\ Binding(m, d) = Of(b, d, 1)
      <4> SUFFICES ASSUME NEW d \in Dentries PROVE Covering(m, d) = Of(a, d, 1) /\ Binding(m, d) = Of(b, d, 1) OBVIOUS
      <4>1. m = BindRec(a, b, tgt) OBVIOUS
      <4> HIDE DEF m, a, b
      <4> QED BY <3>5, <3>9, <4>1, MountedIs
    <3> HIDE DEF m, a, b
    <3>13. Anchored(ms, rootMnt, DOMAIN ref')
      <4>1. Anchored(mounts, rootMnt, DOMAIN ref') BY <3>8 DEF Types
      <4> QED BY <3>10, <3>11, <4>1, AnchoredNow
    <3>14. Types(node, gone, dcache', ref', ms, rootMnt, files, pins) BY <3>8, <3>13, TypesMs
    <3>15. UsersGrew(ref', ref, files, files, ms, mounts, pins, pins)
      <4> SUFFICES ASSUME NEW d \in Dentries
                   PROVE  \E k \in Int :
                             /\ Val(ref', d) = Val(ref, d) + k
                             /\ Opens(files, d) + Covers(ms, d) + Binds(ms, d) + Pins(pins, d)
                                = Opens(files, d) + Covers(mounts, d) + Binds(mounts, d) + Pins(pins, d) + k
        BY DEF UsersGrew
      <4>1. Val(ref', d) = Val(ws.ref, d) + Of(a, d, 1) BY <3>5 DEF Counts, a
      <4>2. Val(ws.ref, d) = Val(ref, d) + Of(b, d, 1) BY <2>1 DEF Counts, b
      <4>3. Of(a, d, 1) \in Int /\ Of(b, d, 1) \in Int BY DEF Of
      <4>4. Covers(ms, d) = Covers(mounts, d) + Of(a, d, 1) /\ Binds(ms, d) = Binds(mounts, d) + Of(b, d, 1)
        BY <3>7, <3>10, <3>12, SlotGrown
      <4>5. CountsAre(files, mounts, pins, d) BY <3>7, UsersCounted
      <4>6. Val(ref, d) \in Int BY <1>5, ValIs
      <4> HIDE DEF ms
      <4> DEFINE k == Of(a, d, 1) + Of(b, d, 1)
      <4>7. k \in Int /\ Val(ref', d) = Val(ref, d) + k BY <4>1, <4>2, <4>3, <4>6
      <4>8. Opens(files, d) + Covers(ms, d) + Binds(ms, d) + Pins(pins, d)
            = Opens(files, d) + Covers(mounts, d) + Binds(mounts, d) + Pins(pins, d) + k
        BY <4>3, <4>4, <4>5 DEF CountsAre
      <4> HIDE DEF k
      <4> QED BY <4>7, <4>8
    <3> HIDE DEF ms
    <3>16. Balanced(ref', files, ms, pins) BY <3>6, <3>7, <3>14, <3>15, GrowStep
    <3> QED BY Zenon, <1>1, <1>4, <3>1, <3>5, <3>14, <3>16 DEF VfsInv, StepsWell
  <2> QED BY <2>2, <2>3
<1> QED BY <1>6, <1>7

(* A new superblock: its root holds one reference of itself.                 *)
LEMMA NewSuperIs ==
    ASSUME FreeSupers # {}
    PROVE  Root(NewSuper) \in Dentries \ DOMAIN ref /\ Root(NewSuper).names = <<>>
<1>1. FreeSupers \subseteq Nat BY VfsAssumption DEF FreeSupers
<1>2. \E i \in FreeSupers : \A j \in FreeSupers : i <= j BY <1>1, HasLeast
<1>3. NewSuper \in FreeSupers BY <1>2 DEF NewSuper
<1>4. <<>> \in Seq(Names) OBVIOUS
<1> QED BY <1>3, <1>4 DEF FreeSupers, Root, Dentries

LEMMA NewNodeIs ==
    ASSUME FreeNodes # {}
    PROVE  NewNode \in Nodes /\ node[NewNode].mode = "none"
<1>1. FreeNodes \subseteq Nat BY Limits0 DEF FreeNodes
<1>2. \E i \in FreeNodes : \A j \in FreeNodes : i <= j BY <1>1, HasLeast
<1>3. NewNode \in FreeNodes BY <1>2 DEF NewNode
<1> QED BY <1>3 DEF FreeNodes

LEMMA SuperMade ==
    ASSUME Here0, NEW s \in Dentries, s \notin DOMAIN ref, s.names = <<>>, NEW n \in Nodes,
           NEW u, NewRooted(u, node, n)
    PROVE  /\ Types(u, gone, Adding(dcache, s, n), Adding(ref, s, 1), mounts, rootMnt, files, pins)
           /\ Balanced(Adding(ref, s, 1), files, mounts, pins) /\ s \in DOMAIN Adding(ref, s, 1)
<1> DEFINE dc == Adding(dcache, s, n)
           r == Adding(ref, s, 1)
           D == DOMAIN r
<1>1. /\ Types(node, gone, dcache, ref, mounts, rootMnt, files, pins)
      /\ Balanced(ref, files, mounts, pins)
  BY Zenon DEF Here0
<1>2. /\ Trees(node) /\ gone \subseteq Nodes /\ Cached(dcache, ref, GivenOut(node))
      /\ Anchored(mounts, rootMnt, DOMAIN ref) /\ ref \in [DOMAIN ref -> Int] /\ DOMAIN ref \subseteq Dentries
  BY HereHas
<1>3. Trees(u) /\ GivenOut(u) = GivenOut(node) \cup {n} BY <1>2, NewRootTrees
<1>4. /\ D = DOMAIN ref \cup {s} /\ r \in [D -> Int] /\ r[s] = 1 /\ \A d \in DOMAIN ref : r[d] = ref[d]
  BY <1>2 DEF Adding
<1>5. dcache \in [DOMAIN ref -> GivenOut(node)] BY <1>2 DEF Cached
<1>6. DOMAIN dc = D /\ dc \in [D -> GivenOut(u)] BY <1>3, <1>4, <1>5 DEF Adding
<1> HIDE DEF dc, r
<1>7. Cached(dc, r, GivenOut(u)) BY <1>2, <1>4, <1>6 DEF Cached
<1>8. Anchored(mounts, rootMnt, D) BY <1>2, <1>4, AnchoredOn
<1>9. files \in [Open -> D \cup {NULL}] /\ pins \in Seq(D) BY <1>1, <1>4 DEF Types
<1>10. Types(u, gone, dc, r, mounts, rootMnt, files, pins) BY <1>2, <1>3, <1>7, <1>8, <1>9 DEF Types
<1>11. Balanced(r, files, mounts, pins)
  <2> SUFFICES ASSUME NEW d \in Dentries
               PROVE  Val(r, d) = Opens(files, d) + Covers(mounts, d) + Binds(mounts, d) + RootUse(r, d) + Pins(pins, d)
    BY DEF Balanced
  <2>1. Val(ref, d) = Opens(files, d) + Covers(mounts, d) + Binds(mounts, d) + RootUse(ref, d) + Pins(pins, d)
    BY <1>1 DEF Balanced
  <2>2. CASE d = s
    <3>1. Val(r, d) = 1 /\ RootUse(r, d) = 1 BY <1>4, <2>2 DEF Val, RootUse
    <3>2. Val(ref, d) = 0 /\ RootUse(ref, d) = 0 BY <2>2 DEF Val, RootUse
    <3>3. CountsAre(files, mounts, pins, d) BY <1>1, UsersCounted
    <3> QED BY <2>1, <3>1, <3>2, <3>3 DEF CountsAre
  <2>3. CASE d # s
    <3>1. Val(r, d) = Val(ref, d) BY <1>4, <2>3 DEF Val
    <3>2. RootUse(r, d) = RootUse(ref, d) BY <1>4, <2>3 DEF RootUse
    <3> QED BY <2>1, <3>1, <3>2
  <2> QED BY <2>2, <2>3
<1> QED BY <1>4, <1>10, <1>11 DEF dc, r

(* A superblock is mounted.                                                  *)
LEMMA MountKeeps ==
    ASSUME Here0, NEW tgt \in Seq(Names), Mount(tgt)
    PROVE  StepsWell
<1> DEFINE s == Root(NewSuper)
           n == NewNode
           dc == Adding(dcache, s, n)
           r == Adding(ref, s, 1)
           w == Walk(tgt, node, dc, r)
           k == IF tgt = <<>> THEN 0 ELSE 1
           none == tgt = <<>> \/ w.err # "ok"
           a == IF none THEN NULL ELSE w.cur
           m == PlainRec(a, s, tgt)
           i == AllocSlot
           ms == Replaced(mounts, i, m)
           u == [node EXCEPT ![n].mode = "dir"]
<1>1. /\ FreeSlots # {} /\ FreeSupers # {} /\ FreeNodes # {}
      /\ node' = u /\ mounts' = ms /\ rootMnt' = (IF tgt = <<>> THEN i ELSE rootMnt)
      /\ Keep(w, k) /\ gone' = gone /\ files' = files /\ pins' = pins
  BY DEF Mount, MountAt, Replaced, PlainRec
<1>2. s \in Dentries /\ s \notin DOMAIN ref /\ s.names = <<>> BY <1>1, NewSuperIs
<1>3. n \in Nodes /\ node[n].mode = "none" BY <1>1, NewNodeIs
<1>4. i \in Slots /\ mounts[i] = NULL BY <1>1, AllocSlotIs
<1>5. Trees(node) /\ gone \subseteq Nodes BY HereHas
<1>6. NewRooted(u, node, n) BY <1>3, <1>5, NewRootIs
<1> HIDE DEF s, n, i, u
<1>7. /\ Types(u, gone, dc, r, mounts, rootMnt, files, pins) /\ Balanced(r, files, mounts, pins)
      /\ s \in DOMAIN r
  BY <1>2, <1>3, <1>6, SuperMade
<1>8. Trees(u) /\ GivenOut(u) = GivenOut(node) \cup {n} BY <1>3, <1>5, <1>6, NewRootTrees
<1>9. TreeStep(node, gone, node', gone') BY Zenon, <1>1, <1>3, <1>6 DEF TreeStep
<1> HIDE DEF dc, r
<1>10. /\ r \in [DOMAIN r -> Int] /\ DOMAIN r \subseteq Dentries BY <1>7, RefsAre
<1>11. Went(w, node, GivenOut(u), r)
  <2>1. Cached(dc, r, GivenOut(u)) /\ Anchored(mounts, rootMnt, DOMAIN r) BY <1>7 DEF Types
  <2>2. Kidly(node, GivenOut(u))
    <3>1. node \in [Nodes -> NodeRecords] BY <1>5 DEF Trees
    <3>2. \A x \in Nodes : node[x].kids \in Seq(Nodes) BY <3>1, RecordIs
    <3>3. \A x \in Nodes : \A j \in DOMAIN node[x].kids : node[x].kids[j] \in GivenOut(node) BY <1>5 DEF Trees
    <3>4. ASSUME NEW x \in GivenOut(u)
          PROVE  node[x].kids \in Seq(Nodes) /\ \A j \in DOMAIN node[x].kids : node[x].kids[j] \in GivenOut(u)
      <4>1. x \in Nodes BY <3>4 DEF GivenOut
      <4> QED BY <1>8, <3>2, <3>3, <4>1
    <3> QED BY <3>4 DEF Kidly, GivenOut
  <2> QED BY <2>1, <2>2, WalkWent
<1> HIDE DEF w
<1>12. KeptTo(w, k, dcache', ref', hung') BY <1>1, KeepIs
<1>13. k \in Int OBVIOUS
<1> HIDE DEF k
<1>14. KeptWell(w, GivenOut(u), r, k, dcache', ref', hung') BY Zenon, <1>10, <1>11, <1>12, <1>13, KeptIs
<1>15. /\ Cached(dcache', ref', GivenOut(u)) /\ Larger(ref', r) /\ hung' \in BOOLEAN
       /\ w.err = "ok" => w.cur \in DOMAIN ref' /\ w.cur \in Dentries /\ Counts(ref', r, w.cur, k)
       /\ hung' \/ w.err = "ok" \/ Counts(ref', r, w.cur, 0)
  BY Zenon, <1>14 DEF KeptWell
<1>16. Types(u, gone, dcache', ref', mounts, rootMnt, files, pins) BY <1>5, <1>7, <1>8, <1>15, TypesOn
<1>17. s \in DOMAIN ref' BY <1>7, <1>15 DEF Larger
<1>18. a \in DOMAIN ref' \cup {NULL} /\ a \in Dentries \cup {NULL} BY <1>15
<1> HIDE DEF a
<1>19. m \in MountRecords /\ m.root = s /\ m.at = a
  <2>1. IsMount(PlainRec(a, s, tgt), a, s) BY <1>2, <1>18, MountRecIs
  <2> QED BY <2>1 DEF IsMount
<1>20. \A d \in Dentries : Covering(m, d) = Of(a, d, 1) /\ Binding(m, d) = 0 BY <1>2, <1>18, MountedIs
<1> HIDE DEF m
<1>21. Anchored(mounts, rootMnt, DOMAIN ref') BY <1>16 DEF Types
<1>22. Anchored(ms, rootMnt, DOMAIN ref') /\ Anchored(ms, i, DOMAIN ref')
  BY <1>4, <1>17, <1>18, <1>19, <1>21, AnchoredNow
<1>23. Anchored(ms, rootMnt', DOMAIN ref') BY <1>1, <1>22
<1>24. Types(u, gone, dcache', ref', ms, rootMnt', files, pins) BY <1>16, <1>23, TypesMs
<1>25. ASSUME ~hung', NEW d \in Dentries PROVE Val(ref', d) = Val(r, d) + Of(a, d, 1)
  <2>1. Val(r, d) \in Int BY <1>10, ValIs
  <2>2. d # NULL BY Limits0
  <2>3. CASE w.err = "ok"
    <3>1. Val(ref', d) = Val(r, d) + Of(w.cur, d, k) BY <1>15, <2>3 DEF Counts
    <3>2. CASE tgt = <<>>
      <4>1. k = 0 /\ a = NULL BY <3>2 DEF k, a
      <4> QED BY <2>1, <2>2, <3>1, <4>1 DEF Of
    <3>3. CASE tgt # <<>>
      <4>1. k = 1 /\ a = w.cur BY <2>3, <3>3 DEF k, a
      <4> QED BY <3>1, <4>1
    <3> QED BY <3>2, <3>3
  <2>4. CASE w.err # "ok"
    <3>1. Val(ref', d) = Val(r, d) + Of(w.cur, d, 0) BY <1>15, <1>25, <2>4 DEF Counts
    <3>2. a = NULL BY <2>4 DEF a
    <3> QED BY <2>1, <2>2, <3>1, <3>2 DEF Of
  <2> QED BY <2>3, <2>4
<1>26. ASSUME ~hung' PROVE UsersGrew(ref', r, files, files, ms, mounts, pins, pins)
  <2> SUFFICES ASSUME NEW d \in Dentries
               PROVE  \E j \in Int :
                         /\ Val(ref', d) = Val(r, d) + j
                         /\ Opens(files, d) + Covers(ms, d) + Binds(ms, d) + Pins(pins, d)
                            = Opens(files, d) + Covers(mounts, d) + Binds(mounts, d) + Pins(pins, d) + j
    BY DEF UsersGrew
  <2>1. Val(ref', d) = Val(r, d) + Of(a, d, 1) BY <1>25, <1>26
  <2>2. Of(a, d, 1) \in Int BY DEF Of
  <2>3. Covers(ms, d) = Covers(mounts, d) + Of(a, d, 1) /\ Binds(ms, d) = Binds(mounts, d) + 0
    BY <1>4, <1>7, <1>20, SlotGrown
  <2>4. CountsAre(files, mounts, pins, d) BY <1>7, UsersCounted
  <2> HIDE DEF ms
  <2>5. Opens(files, d) + Covers(ms, d) + Binds(ms, d) + Pins(pins, d)
        = Opens(files, d) + Covers(mounts, d) + Binds(mounts, d) + Pins(pins, d) + Of(a, d, 1)
    BY <2>2, <2>3, <2>4 DEF CountsAre
  <2> QED BY <2>1, <2>2, <2>5
<1> HIDE DEF ms
<1>27. hung' \/ Balanced(ref', files, ms, pins) BY <1>7, <1>15, <1>24, <1>26, GrowStep
<1> QED BY Zenon, <1>1, <1>9, <1>15, <1>24, <1>27 DEF VfsInv, StepsWell

(* What an umount leaves behind of the mount m.                              *)
Covered(m) == IF m.at = NULL THEN <<>> ELSE <<m.at>>
Bound(m)   == IF m.bind THEN <<m.root>> ELSE <<>>

LEMMA PinsGrown ==
    ASSUME NEW S, NEW ps \in Seq(S), NEW m, m # NULL, m.at \in S \cup {NULL}, m.root \in S, NEW d, d # NULL
    PROVE  /\ ps \o (Covered(m) \o Bound(m)) \in Seq(S)
           /\ Pins(ps \o (Covered(m) \o Bound(m)), d) = Pins(ps, d) + Covering(m, d) + Binding(m, d)
<1> DEFINE a == m.at
           r == m.root
           q1 == IF a = NULL THEN ps ELSE Append(ps, a)
           q2 == IF m.bind THEN Append(q1, r) ELSE q1
<1>1. a \in S \cup {NULL} /\ r \in S OBVIOUS
<1>2. q1 \in Seq(S) /\ q2 \in Seq(S) BY <1>1
<1>3. ps \o (Covered(m) \o Bound(m)) = q2
  <2> HIDE DEF a, r
  <2>1. CASE a = NULL /\ m.bind
    <3>1. Covered(m) = <<>> /\ Bound(m) = <<r>> BY Zenon, <2>1 DEF Covered, Bound, a, r
    <3>2. q2 = Append(ps, r) BY <2>1
    <3>3. ps \o (<<>> \o <<r>>) = Append(ps, r) BY <1>1
    <3> QED BY <3>1, <3>2, <3>3
  <2>2. CASE a = NULL /\ ~m.bind
    <3>1. Covered(m) = <<>> /\ Bound(m) = <<>> BY Zenon, <2>2 DEF Covered, Bound, a
    <3>2. q2 = ps BY <2>2
    <3>3. ps \o (<<>> \o <<>>) = ps OBVIOUS
    <3> QED BY <3>1, <3>2, <3>3
  <2>3. CASE a # NULL /\ m.bind
    <3>1. Covered(m) = <<a>> /\ Bound(m) = <<r>> BY Zenon, <2>3 DEF Covered, Bound, a, r
    <3>2. q2 = Append(Append(ps, a), r) BY <2>3
    <3>3. a \in S BY <1>1, <2>3
    <3>4. ps \o (<<a>> \o <<r>>) = Append(Append(ps, a), r) BY <1>1, <3>3
    <3> QED BY <3>1, <3>2, <3>4
  <2>4. CASE a # NULL /\ ~m.bind
    <3>1. Covered(m) = <<a>> /\ Bound(m) = <<>> BY Zenon, <2>4 DEF Covered, Bound, a
    <3>2. q2 = Append(ps, a) BY <2>4
    <3>3. a \in S BY <1>1, <2>4
    <3>4. ps \o (<<a>> \o <<>>) = Append(ps, a) BY <3>3
    <3> QED BY <3>1, <3>2, <3>4
  <2> QED BY <2>1, <2>2, <2>3, <2>4
<1>4. Pins(q1, d) = Pins(ps, d) + Covering(m, d) /\ Pins(q1, d) \in Nat
  <2>0. Pins(ps, d) \in Nat BY <1>1, PinsIs
  <2>1. CASE a = NULL
    <3>1. q1 = ps /\ Covering(m, d) = 0 BY <2>1 DEF Covering
    <3> QED BY <2>0, <3>1
  <2>2. CASE a # NULL
    <3>1. q1 = Append(ps, a) /\ a \in S /\ Covering(m, d) = Of(a, d, 1) BY <1>1, <2>2 DEF Covering, Of
    <3>2. Of(a, d, 1) \in Nat BY DEF Of
    <3> HIDE DEF a, q1
    <3> QED BY <2>0, <3>1, <3>2, PinsIs
  <2> QED BY <2>1, <2>2
<1> HIDE DEF q1
<1>5. Pins(q2, d) = Pins(q1, d) + Binding(m, d)
  <2>1. CASE ~m.bind
    <3>1. q2 = q1 /\ Binding(m, d) = 0 BY Zenon, <2>1 DEF Binding
    <3> QED BY <1>4, <3>1
  <2>2. CASE m.bind
    <3>1. q2 = Append(q1, r) BY <2>2
    <3>2. Binding(m, d) = Of(r, d, 1) BY Zenon, <2>2 DEF Binding, Of
    <3> HIDE DEF r, q2
    <3> QED BY <1>1, <1>2, <3>1, <3>2, PinsIs
  <2> QED BY <2>1, <2>2
<1> HIDE DEF q2
<1> QED BY <1>2, <1>3, <1>4, <1>5

LEMMA UmountKeeps ==
    ASSUME Here0, NEW tgt \in Seq(Names), Umount(tgt)
    PROVE  StepsWell
<1> DEFINE hits == {j \in Slots : mounts[j] # NULL /\ mounts[j].path = tgt}
           i == CHOOSE x \in hits : \A y \in hits : x <= y
           m == mounts[i]
           ms == Replaced(mounts, i, NULL)
           ps == pins \o (Covered(m) \o Bound(m))
<1>1. /\ hits # {} /\ i # rootMnt /\ mounts' = ms /\ pins' = ps
      /\ node' = node /\ gone' = gone /\ dcache' = dcache /\ ref' = ref /\ rootMnt' = rootMnt
      /\ files' = files /\ hung' = hung
  BY DEF Umount, Replaced, Covered, Bound
<1>2. i \in Slots /\ m # NULL
  <2>1. hits \subseteq Nat BY SlotsAreNat
  <2>2. \E x \in hits : \A y \in hits : x <= y BY <1>1, <2>1, HasLeast
  <2>3. i \in hits BY <2>2
  <2> QED BY <2>3
<1>3. /\ Types(node, gone, dcache, ref, mounts, rootMnt, files, pins)
      /\ Balanced(ref, files, mounts, pins)
  BY Zenon DEF Here0
<1> HIDE DEF i
<1>4. Anchored(mounts, rootMnt, DOMAIN ref) /\ pins \in Seq(DOMAIN ref) BY <1>3 DEF Types
<1>5. m.root \in DOMAIN ref /\ m.at \in DOMAIN ref \cup {NULL} BY <1>2, <1>4 DEF Anchored
<1> HIDE DEF m
<1>6. Anchored(ms, rootMnt, DOMAIN ref) BY <1>1, <1>2, <1>4, AnchoredLess
<1>7. Types(node, gone, dcache, ref, ms, rootMnt, files, pins) BY <1>3, <1>6, TypesMs
<1>8. ASSUME NEW d, d # NULL
      PROVE  ps \in Seq(DOMAIN ref) /\ Pins(ps, d) = Pins(pins, d) + Covering(m, d) + Binding(m, d)
  BY <1>2, <1>4, <1>5, <1>8, PinsGrown
<1>9. ps \in Seq(DOMAIN ref)
  <2>1. m.root \in Dentries BY <1>3, <1>5, RefsAre
  <2>2. m.root # NULL BY <2>1, Limits0
  <2> QED BY <1>8, <2>2
<1> HIDE DEF ps
<1>10. Types(node, gone, dcache, ref, ms, rootMnt, files, ps) BY Zenon, <1>7, <1>9 DEF Types
<1>11. UsersGrew(ref, ref, files, files, ms, mounts, ps, pins)
  <2> SUFFICES ASSUME NEW d \in Dentries
               PROVE  /\ Val(ref, d) = Val(ref, d) + 0
                      /\ Opens(files, d) + Covers(ms, d) + Binds(ms, d) + Pins(ps, d)
                         = Opens(files, d) + Covers(mounts, d) + Binds(mounts, d) + Pins(pins, d) + 0
    BY DEF UsersGrew
  <2>1. Val(ref, d) \in Int BY <1>3, RefsAre, ValIs
  <2>2. DOMAIN mounts = Slots BY <1>3, RefsAre
  <2>3. /\ Covers(ms, d) + Covering(m, d) = Covers(mounts, d) + Covering(NULL, d)
        /\ Binds(ms, d) + Binding(m, d) = Binds(mounts, d) + Binding(NULL, d)
    BY <1>2, <2>2, CoversIs DEF m
  <2>4. Covering(NULL, d) = 0 /\ Binding(NULL, d) = 0 BY Zenon DEF Covering, Binding
  <2>5. Covering(m, d) \in Nat BY DEF Covering
  <2>6. Binding(m, d) \in Nat
    <3>1. Binding(m, d) = 0 \/ Binding(m, d) = 1 BY Zenon DEF Binding
    <3> QED BY <3>1
  <2>7. d # NULL BY Limits0
  <2>8. Pins(ps, d) = Pins(pins, d) + Covering(m, d) + Binding(m, d) BY <1>8, <2>7
  <2>9. CountsAre(files, mounts, pins, d) /\ CountsAre(files, ms, ps, d) BY <1>3, <1>10, UsersCounted
  <2> HIDE DEF ms
  <2>10. /\ Opens(files, d) \in Nat /\ Covers(mounts, d) \in Nat /\ Binds(mounts, d) \in Nat /\ Pins(pins, d) \in Nat
         /\ Covers(ms, d) \in Nat /\ Binds(ms, d) \in Nat /\ Pins(ps, d) \in Nat
    BY <2>9 DEF CountsAre
  <2>11. Covers(ms, d) + Covering(m, d) = Covers(mounts, d) + 0 /\ Binds(ms, d) + Binding(m, d) = Binds(mounts, d) + 0
    BY <2>3, <2>4
  <2>12. Opens(files, d) + Covers(ms, d) + Binds(ms, d) + Pins(ps, d)
         = Opens(files, d) + Covers(mounts, d) + Binds(mounts, d) + Pins(pins, d) + 0
    <3> DEFINE o == Opens(files, d)
               c == Covers(mounts, d)
               b == Binds(mounts, d)
               p == Pins(pins, d)
               c2 == Covers(ms, d)
               b2 == Binds(ms, d)
               p2 == Pins(ps, d)
               x == Covering(m, d)
               y == Binding(m, d)
    <3>1. /\ o \in Nat /\ c \in Nat /\ b \in Nat /\ p \in Nat /\ c2 \in Nat /\ b2 \in Nat /\ p2 \in Nat
          /\ x \in Nat /\ y \in Nat
      BY Zenon, <2>5, <2>6, <2>10
    <3>2. c2 + x = c + 0 /\ b2 + y = b + 0 /\ p2 = p + x + y BY Zenon, <2>8, <2>11
    <3> HIDE DEF o, c, b, p, c2, b2, p2, x, y
    <3>3. o + c2 + b2 + p2 = o + c + b + p + 0 BY <3>1, <3>2
    <3> QED BY <3>3 DEF o, c, b, p, c2, b2, p2
  <2> QED BY <2>1, <2>12
<1> HIDE DEF ms
<1>12. Larger(ref, ref) BY DEF Larger
<1>13. Balanced(ref, files, ms, ps) BY <1>3, <1>10, <1>11, <1>12, GrowStep
<1>14. TreeStep(node, gone, node, gone) BY Zenon DEF TreeStep
<1>15. hung' \in BOOLEAN BY <1>1 DEF Here0
<1> QED BY Zenon, <1>1, <1>10, <1>13, <1>14, <1>15 DEF VfsInv, StepsWell

-----------------------------------------------------------------------------
LEMMA InitTrees ==
    ASSUME VfsInit
    PROVE  Trees(node) /\ GivenOut(node) = {1} /\ \A n \in Nodes : node[n].kids = <<>> /\ node[n].parent = NULL
<1> DEFINE e == Rec("none", NULL, NULL, <<>>)
           f == Rec("dir", NULL, NULL, <<>>)
<1>1. 1 \in Nodes /\ <<>> \in Seq(Nodes) BY Limits0
<1>2. e \in NodeRecords /\ f \in NodeRecords
  <2>1. NULL \in Names \cup {NULL} /\ NULL \in Nodes \cup {NULL} OBVIOUS
  <2> QED BY <1>1, <2>1, RecIn
<1>3. e.mode = "none" /\ f.mode = "dir" /\ e.kids = <<>> /\ f.kids = <<>> /\ e.parent = NULL /\ f.parent = NULL BY RecIs
<1>4. Unused = e /\ [Unused EXCEPT !.mode = "dir"] = f BY DEF Unused, Rec
<1>5. node = [n \in Nodes |-> IF n = 1 THEN f ELSE e] BY <1>4 DEF VfsInit
<1> HIDE DEF e, f
<1>6. node \in [Nodes -> NodeRecords] BY <1>2, <1>5
<1>7. \A n \in Nodes : node[n].kids = <<>> /\ node[n].parent = NULL /\ (node[n].mode # "none" <=> n = 1) BY <1>3, <1>5
<1>8. GivenOut(node) = {1} BY <1>1, <1>7 DEF GivenOut
<1>9. \A n \in Nodes : \A i \in DOMAIN node[n].kids : node[n].kids[i] \in GivenOut(node) BY <1>7
<1> QED BY <1>6, <1>7, <1>8, <1>9 DEF Trees

LEMMA InitWell == ASSUME VfsInit PROVE VfsInv
<1> DEFINE s == Root(1)
           m == PlainRec(NULL, s, <<>>)
<1>1. Trees(node) /\ GivenOut(node) = {1} BY InitTrees
<1>2. s \in Dentries /\ s.names = <<>>
  <2>1. <<>> \in Seq(Names) /\ 1 \in Supers BY Limits0
  <2> QED BY <2>1 DEF Root, Dentries
<1>3. /\ gone = {} /\ dcache = [d \in {s} |-> 1] /\ ref = [d \in {s} |-> 1]
      /\ mounts = [i \in Slots |-> IF i = 1 THEN m ELSE NULL]
      /\ rootMnt = 1 /\ files = [i \in Open |-> NULL] /\ pins = <<>> /\ hung = FALSE
  BY DEF VfsInit, PlainRec
<1>4. m \in MountRecords /\ m.at = NULL /\ m.root = s /\ m # NULL
  <2>1. <<>> \in Seq(Names) /\ NULL \in Dentries \cup {NULL} OBVIOUS
  <2>2. IsMount(m, NULL, s) BY <1>2, <2>1, MountRecIs
  <2> QED BY <2>2, Limits0 DEF IsMount
<1>5. ~m.bind BY DEF PlainRec
<1> HIDE DEF s, m
<1>6. DOMAIN ref = {s} /\ DOMAIN dcache = {s} /\ ref[s] = 1 BY <1>3
<1>7. Cached(dcache, ref, GivenOut(node))
  <2>1. ref \in [{s} -> Int] /\ dcache \in [{s} -> GivenOut(node)] BY <1>1, <1>3
  <2> QED BY <1>2, <1>6, <2>1 DEF Cached
<1>8. Anchored(mounts, rootMnt, DOMAIN ref)
  <2>1. 1 \in Slots BY Limits0 DEF Slots
  <2>2. mounts \in [Slots -> {NULL} \cup MountRecords] BY <1>3, <1>4
  <2>3. rootMnt \in Slots /\ mounts[rootMnt] # NULL BY <1>3, <1>4, <2>1
  <2>4. \A i \in Slots : mounts[i] # NULL => mounts[i].root \in DOMAIN ref /\ mounts[i].at \in DOMAIN ref \cup {NULL}
    BY <1>3, <1>4, <1>6
  <2> QED BY <2>2, <2>3, <2>4 DEF Anchored
<1>9. files \in [Open -> DOMAIN ref \cup {NULL}] /\ pins \in Seq(DOMAIN ref) BY <1>3
<1>10. Types(node, gone, dcache, ref, mounts, rootMnt, files, pins)
  <2>1. gone \subseteq Nodes BY <1>3
  <2> QED BY <1>1, <1>7, <1>8, <1>9, <2>1 DEF Types
<1>11. Balanced(ref, files, mounts, pins)
  <2> SUFFICES ASSUME NEW d \in Dentries
               PROVE  Val(ref, d) = Opens(files, d) + Covers(mounts, d) + Binds(mounts, d) + RootUse(ref, d) + Pins(pins, d)
    BY DEF Balanced
  <2>0. d # NULL BY Limits0
  <2>1. Opens(files, d) = 0
    <3>1. {i \in Open : files[i] = d} = {} BY <1>3, <2>0
    <3> QED BY <3>1, FS_EmptySet DEF Opens
  <2>2. Covers(mounts, d) = 0
    <3>1. {i \in Slots : mounts[i] # NULL /\ mounts[i].at = d} = {} BY <1>3, <1>4, <2>0
    <3> QED BY <3>1, FS_EmptySet DEF Covers
  <2>3. Binds(mounts, d) = 0
    <3>1. \A i \in Slots : mounts[i] = m \/ mounts[i] = NULL BY <1>3
    <3>2. \A i \in Slots : ~(mounts[i] # NULL /\ mounts[i].bind /\ mounts[i].root = d) BY Zenon, <1>5, <3>1
    <3>3. {i \in Slots : mounts[i] # NULL /\ mounts[i].bind /\ mounts[i].root = d} = {} BY Zenon, <3>2
    <3> QED BY Zenon, <3>3, FS_EmptySet DEF Binds
  <2>4. Pins(pins, d) = 0
    <3>1. {k \in DOMAIN pins : pins[k] = d} = {} BY <1>3
    <3> QED BY <3>1, FS_EmptySet DEF Pins
  <2>5. Val(ref, d) = RootUse(ref, d) /\ RootUse(ref, d) \in Nat
    <3>1. CASE d = s BY <1>2, <1>6, <3>1 DEF Val, RootUse
    <3>2. CASE d # s BY <1>6, <3>2 DEF Val, RootUse
    <3> QED BY <3>1, <3>2
  <2> QED BY <2>1, <2>2, <2>3, <2>4, <2>5
<1>12. hung \in BOOLEAN BY <1>3
<1> QED BY Zenon, <1>10, <1>11, <1>12 DEF VfsInv

(* A call leaves the counts as its users are, and the nodes as a call does.   *)
LEMMA NextWell ==
    ASSUME VfsInv, VfsNext
    PROVE  StepsWell
<1>1. Here0 BY Zenon, NotHung DEF VfsNext
<1>2. \A p \in Paths : p \in Seq(Names) BY Limits0
<1>3. CASE \E path \in Paths : OpenPath(path, TRUE, FALSE) BY <1>1, <1>2, <1>3, OpenKeeps
<1>4. CASE \E path \in Paths, wantDir \in BOOLEAN : OpenPath(path, FALSE, wantDir) BY <1>1, <1>2, <1>4, OpenKeeps
<1>5. CASE \E i \in Open : Close(i) BY <1>1, <1>5, CloseKeeps
<1>6. CASE \E path \in Paths : Stat(path) BY <1>1, <1>2, <1>6, StatKeeps
<1>7. CASE \E path \in Paths : Mkdir(path) BY <1>1, <1>2, <1>7, MkdirKeeps
<1>8. CASE \E path \in Paths : RemoveNode(path, "file") BY <1>1, <1>2, <1>8, RemoveKeeps
<1>9. CASE \E path \in Paths : RemoveNode(path, "dir") BY <1>1, <1>2, <1>9, RemoveKeeps
<1>10. CASE \E old, new \in Paths : Rename(old, new) BY <1>1, <1>2, <1>10, RenameKeeps
<1>11. CASE \E src, tgt \in Paths : Bind(src, tgt) BY <1>1, <1>2, <1>11, BindKeeps
<1>12. CASE \E tgt \in Paths : Mount(tgt) BY <1>1, <1>2, <1>12, MountKeeps
<1>13. CASE \E tgt \in Paths : Umount(tgt) BY <1>1, <1>2, <1>13, UmountKeeps
<1> QED BY Zenon, <1>3, <1>4, <1>5, <1>6, <1>7, <1>8, <1>9, <1>10, <1>11, <1>12, <1>13 DEF VfsNext

LEMMA VfsStays ==
    ASSUME VfsInv, UNCHANGED vfsVars
    PROVE  VfsInv'
<1>1. /\ node' = node /\ gone' = gone /\ dcache' = dcache /\ ref' = ref /\ mounts' = mounts
      /\ rootMnt' = rootMnt /\ files' = files /\ pins' = pins /\ hung' = hung
  BY DEF vfsVars
<1> QED BY Zenon, <1>1 DEF VfsInv

LEMMA WellCounted == ASSUME VfsInv PROVE RefsBalanced
<1>1. CASE hung BY Zenon, <1>1 DEF RefsBalanced
<1>2. CASE ~hung
  <2>1. /\ Types(node, gone, dcache, ref, mounts, rootMnt, files, pins)
        /\ Balanced(ref, files, mounts, pins)
    BY Zenon, <1>2 DEF VfsInv
  <2>2. DOMAIN ref \subseteq Dentries BY <2>1 DEF Types, Cached
  <2>3. ASSUME NEW d \in DOMAIN ref PROVE ref[d] = Users(d)
    <3>1. ref[d] = Opens(files, d) + Covers(mounts, d) + Binds(mounts, d) + RootUse(ref, d) + Pins(pins, d)
      BY <2>1, <2>2 DEF Balanced, Val
    <3>2. RootUse(ref, d) = IF d.names = <<>> THEN 1 ELSE 0 BY DEF RootUse
    <3> QED BY Zenon, <3>1, <3>2 DEF Users, Opens, Covers, Binds, Pins
  <2> QED BY Zenon, <2>3 DEF RefsBalanced
<1> QED BY Zenon, <1>1, <1>2

(* Every reference path_walk takes is given to the file, mount or root that keeps   *)
(* it, or given back on the error path that drops it: after every call each d_ref   *)
(* is what its users account for (vfs_core.c:112-225, 372-679).  For any number of  *)
(* names, nodes, mounts and open files, paths of any length, and whatever is       *)
(* walked through.                                                                  *)
THEOREM ReferencesBalance == VfsSpec => []RefsBalanced
<1>1. VfsInit => VfsInv BY InitWell
<1>2. VfsInv /\ [VfsNext]_vfsVars => VfsInv' BY Zenon, NextWell, VfsStays DEF StepsWell
<1>3. VfsInv => RefsBalanced BY WellCounted
<1> QED BY <1>1, <1>2, <1>3, PTL DEF VfsSpec

-----------------------------------------------------------------------------
(* Above a node is the least set with it that has the parents of its members. *)
UpClosed(t, C) == \A m \in C : t[m].parent # NULL => t[m].parent \in C
Reaches(t, n, A) == \A C \in SUBSET Nodes : n \in C /\ UpClosed(t, C) => A \subseteq C
IsAbove(t, n, A) == A \subseteq Nodes /\ n \in A /\ UpClosed(t, A) /\ Reaches(t, n, A)
ParentsOf(t, X) == X \cup ({t[m].parent : m \in X} \ {NULL})
Parented(t) == \A m \in Nodes : t[m].parent \in Nodes \cup {NULL}

LEMMA TreesParented == ASSUME NEW t, Trees(t) PROVE Parented(t)
<1> SUFFICES ASSUME NEW m \in Nodes PROVE t[m].parent \in Nodes \cup {NULL} BY DEF Parented
<1>1. t[m] \in NodeRecords BY DEF Trees
<1> QED BY <1>1, RecordIs

(* What the way up has after k steps: it ended, or has more than k nodes.     *)
OnWay(t, n, k, X) ==
    /\ X \subseteq Nodes /\ n \in X /\ Reaches(t, n, X)
    /\ UpClosed(t, X) \/ Cardinality(X) > k

LEMMA ParentsOfIn == ASSUME NEW t, Parented(t), NEW X \in SUBSET Nodes PROVE ParentsOf(t, X) \in SUBSET Nodes
BY DEF Parented, ParentsOf

LEMMA MoreNodes ==
    ASSUME NEW X \in SUBSET Nodes, NEW Y \in SUBSET Nodes, X \subseteq Y, X # Y
    PROVE  Cardinality(X) \in Nat /\ Cardinality(Y) \in Nat /\ Cardinality(X) < Cardinality(Y)
<1>1. IsFiniteSet(Nodes) BY Limits0
<1>2. IsFiniteSet(Y) BY <1>1, FS_Subset
<1>3. IsFiniteSet(X) /\ Cardinality(X) <= Cardinality(Y) /\ (Cardinality(X) = Cardinality(Y) => X = Y)
  BY <1>2, FS_Subset
<1>4. Cardinality(X) \in Nat /\ Cardinality(Y) \in Nat BY <1>2, <1>3, FS_CardinalityType
<1> QED BY <1>3, <1>4

LEMMA OnWayStep ==
    ASSUME NEW t, Parented(t), NEW n \in Nodes, NEW k \in Nat \ {0}, NEW X, OnWay(t, n, k - 1, X)
    PROVE  OnWay(t, n, k, ParentsOf(t, X))
<1> DEFINE Y == ParentsOf(t, X)
<1>1. X \in SUBSET Nodes /\ n \in X /\ Reaches(t, n, X) /\ (UpClosed(t, X) \/ Cardinality(X) > k - 1) BY DEF OnWay
<1>2. Y \in SUBSET Nodes BY <1>1, ParentsOfIn
<1>3. X \subseteq Y BY DEF ParentsOf
<1>4. Reaches(t, n, Y)
  <2> SUFFICES ASSUME NEW C \in SUBSET Nodes, n \in C, UpClosed(t, C) PROVE Y \subseteq C BY Zenon DEF Reaches
  <2>1. X \subseteq C BY <1>1 DEF Reaches
  <2> QED BY <2>1 DEF UpClosed, ParentsOf
<1>5. CASE UpClosed(t, X)
  <2>1. Y = X BY <1>5 DEF UpClosed, ParentsOf
  <2> QED BY <1>1, <1>5, <2>1 DEF OnWay
<1>6. CASE ~UpClosed(t, X)
  <2>1. Y # X BY <1>6 DEF UpClosed, ParentsOf
  <2>2. Cardinality(X) \in Nat /\ Cardinality(Y) \in Nat /\ Cardinality(X) < Cardinality(Y)
    BY <1>1, <1>2, <1>3, <2>1, MoreNodes
  <2>3. Cardinality(X) > k - 1 BY <1>1, <1>6
  <2> DEFINE a == Cardinality(X)
             b == Cardinality(Y)
  <2>4. b > k
    <3>1. a \in Nat /\ b \in Nat /\ a < b /\ a > k - 1 BY <2>2, <2>3
    <3> HIDE DEF a, b
    <3> QED BY <3>1
  <2> QED BY <1>1, <1>2, <1>3, <1>4, <2>4 DEF OnWay
<1> QED BY <1>5, <1>6

LEMMA AncestorsIs ==
    ASSUME NEW t, Parented(t), NEW n \in Nodes
    PROVE  IsAbove(t, n, Ancestors(t, n))
<1> DEFINE M == Cardinality(Nodes)
           D == SUBSET Nodes
           F == [p \in D \X (1 .. M) |-> ParentsOf(t, p[1])]
           Goes3(g) == g = [k \in 0 .. M |-> IF k = 0 THEN {n} ELSE ParentsOf(t, g[k - 1])]
           up == CHOOSE g : Goes3(g)
<1>0. M \in Nat BY Limits0, FS_CardinalityType
<1>1. F \in Steps(D, M) BY ParentsOfIn DEF Steps
<1>2. \A x \in D, i \in 1 .. M : F[<<x, i>>] = ParentsOf(t, x) OBVIOUS
<1> HIDE DEF F
<1>3. {n} \in D OBVIOUS
<1>4. PICK g : Recurs(g, D, M, {n}, F) BY <1>0, <1>1, <1>3, Recursion
<1>5. g \in [0 .. M -> D] /\ g[0] = {n} /\ \A i \in 1 .. M : g[i] = F[<<g[i - 1], i>>] BY <1>4 DEF Recurs
<1>6. Ancestors(t, n) = up[M] BY Zenon DEF Ancestors, ParentsOf
<1> HIDE DEF M, D
<1>7. \A i \in 1 .. M : g[i] = ParentsOf(t, g[i - 1])
  <2>1. \A i \in 1 .. M : i - 1 \in 0 .. M BY <1>0
  <2>2. \A i \in 1 .. M : g[i - 1] \in D BY <1>5, <2>1
  <2> QED BY <1>2, <1>5, <2>2
<1>8. \A i \in 0 .. M : g[i] = IF i = 0 THEN {n} ELSE ParentsOf(t, g[i - 1])
  <2>1. \A i \in 0 .. M : i = 0 \/ i \in 1 .. M BY <1>0
  <2> QED BY Zenon, <1>5, <1>7, <2>1
<1>9. g = [i \in 0 .. M |-> g[i]] BY <1>5
<1>10. Goes3(g) BY Zenon, <1>8, <1>9
<1>11. Goes3(up) BY Zenon, <1>10
<1> HIDE DEF up
<1>12. \A i \in 0 .. M : up[i] = IF i = 0 THEN {n} ELSE ParentsOf(t, up[i - 1]) BY Zenon, <1>11
<1> DEFINE S == {i \in 0 .. M : OnWay(t, n, i, up[i])}
<1>13. 0 \in S
  <2>1. 0 \in 0 .. M /\ up[0] = {n} BY <1>0, <1>12
  <2>2. Reaches(t, n, {n}) BY DEF Reaches
  <2>3. Cardinality({n}) > 0
    <3>1. Cardinality({n}) = 1 BY FS_Singleton
    <3> QED BY <3>1
  <2>4. OnWay(t, n, 0, {n}) BY <2>2, <2>3 DEF OnWay
  <2> QED BY <2>1, <2>4
<1>14. ASSUME NEW i \in 1 .. M, i - 1 \in S PROVE i \in S
  <2>1. i \in 0 .. M /\ i # 0 /\ i \in Nat \ {0} BY <1>0
  <2>2. up[i] = ParentsOf(t, up[i - 1]) BY Zenon, <1>12, <2>1
  <2>3. OnWay(t, n, i - 1, up[i - 1]) BY <1>14
  <2>4. OnWay(t, n, i, ParentsOf(t, up[i - 1])) BY <2>1, <2>3, OnWayStep
  <2> QED BY <2>1, <2>2, <2>4
<1> HIDE DEF S
<1>15. \A i \in 0 .. M : i \in S BY <1>0, <1>13, <1>14, UpTo
<1>16. M \in S
  <2>1. M \in 0 .. M BY <1>0
  <2> QED BY <1>15, <2>1
<1>17. OnWay(t, n, M, up[M]) BY <1>16 DEF S
<1>18. ~(Cardinality(up[M]) > M)
  <2>1. up[M] \subseteq Nodes /\ IsFiniteSet(Nodes) BY <1>17, Limits0 DEF OnWay
  <2>2. IsFiniteSet(up[M]) /\ Cardinality(up[M]) <= M BY <2>1, FS_Subset DEF M
  <2>3. Cardinality(up[M]) \in Nat BY <2>2, FS_CardinalityType
  <2> DEFINE a == Cardinality(up[M])
  <2> HIDE DEF a
  <2>4. a \in Nat /\ a <= M BY <2>2, <2>3 DEF a
  <2>5. ~(a > M) BY <1>0, <2>4
  <2> QED BY <2>5 DEF a
<1> QED BY <1>6, <1>17, <1>18 DEF OnWay, IsAbove

LEMMA AboveHas ==
    ASSUME NEW t, Parented(t), NEW n \in Nodes
    PROVE  /\ Ancestors(t, n) \subseteq Nodes /\ n \in Ancestors(t, n)
           /\ \A m \in Ancestors(t, n) : t[m].parent # NULL => t[m].parent \in Ancestors(t, n)
BY Zenon, AncestorsIs DEF IsAbove, UpClosed

LEMMA AboveLeast ==
    ASSUME NEW t, Parented(t), NEW n \in Nodes, NEW C \in SUBSET Nodes, n \in C,
           \A m \in C : t[m].parent # NULL => t[m].parent \in C
    PROVE  Ancestors(t, n) \subseteq C
<1>1. UpClosed(t, C) BY Zenon DEF UpClosed
<1>2. Reaches(t, n, Ancestors(t, n)) BY Zenon, AncestorsIs DEF IsAbove
<1> QED BY Zenon, <1>1, <1>2 DEF Reaches

(* The same parents give the same ways up.                                    *)
LEMMA SameAbove ==
    ASSUME NEW t, Parented(t), NEW u, \A m \in Nodes : u[m].parent = t[m].parent, NEW n \in Nodes
    PROVE  Ancestors(u, n) = Ancestors(t, n)
<1>1. Parented(u) BY DEF Parented
<1>2. Ancestors(u, n) \subseteq Ancestors(t, n)
  <2>1. /\ Ancestors(t, n) \in SUBSET Nodes /\ n \in Ancestors(t, n)
        /\ \A m \in Ancestors(t, n) : u[m].parent # NULL => u[m].parent \in Ancestors(t, n)
    BY AboveHas
  <2> QED BY <1>1, <2>1, AboveLeast
<1>3. Ancestors(t, n) \subseteq Ancestors(u, n)
  <2>1. /\ Ancestors(u, n) \in SUBSET Nodes /\ n \in Ancestors(u, n)
        /\ \A m \in Ancestors(u, n) : t[m].parent # NULL => t[m].parent \in Ancestors(u, n)
    BY <1>1, AboveHas
  <2> QED BY <2>1, AboveLeast
<1> QED BY <1>2, <1>3

(* Above a directory are only directories.                                    *)
LEMMA OnlyDirsAbove ==
    ASSUME NEW t, Parented(t), InDirs(t), NEW n \in Nodes, t[n].mode = "dir"
    PROVE  \A m \in Ancestors(t, n) : t[m].mode = "dir"
<1> DEFINE C == {m \in Nodes : t[m].mode = "dir"}
<1>1. C \in SUBSET Nodes /\ n \in C OBVIOUS
<1>2. \A m \in C : t[m].parent # NULL => t[m].parent \in C BY DEF InDirs, Parented
<1> HIDE DEF C
<1>3. Ancestors(t, n) \subseteq C BY <1>1, <1>2, AboveLeast
<1> QED BY <1>3 DEF C

(* A node of C whose parents changes to one whose way up it is not on.       *)
LEMMA NoLoopOn ==
    ASSUME NEW t, Parented(t), NoLoop(t), NEW u, NEW n \in Nodes, NEW par \in Nodes, n \notin Ancestors(t, par),
           u[n].parent = par, \A m \in Nodes : m # n => u[m].parent = t[m].parent
    PROVE  NoLoop(u)
<1> DEFINE A(x) == Ancestors(t, x)
<1>1. Parented(u) BY DEF Parented
<1>2. \A x \in Nodes : /\ A(x) \subseteq Nodes /\ x \in A(x)
                       /\ \A m \in A(x) : t[m].parent # NULL => t[m].parent \in A(x)
  BY AboveHas
<1>3. ASSUME NEW x \in Nodes, n \notin A(x) PROVE Ancestors(u, x) \subseteq A(x)
  <2>1. \A m \in A(x) : u[m].parent # NULL => u[m].parent \in A(x) BY <1>2, <1>3
  <2>2. A(x) \in SUBSET Nodes /\ x \in A(x) BY <1>2
  <2> HIDE DEF A
  <2> QED BY <1>1, <2>1, <2>2, AboveLeast
<1>4. ASSUME NEW x \in Nodes PROVE Ancestors(u, x) \subseteq A(x) \cup A(par)
  <2> DEFINE C == A(x) \cup A(par)
  <2>1. C \in SUBSET Nodes /\ x \in C BY <1>2
  <2>2. \A m \in C : u[m].parent # NULL => u[m].parent \in C BY <1>2
  <2> HIDE DEF C
  <2>3. Ancestors(u, x) \subseteq C BY <1>1, <2>1, <2>2, AboveLeast
  <2> QED BY <2>3 DEF C
<1>5. ASSUME NEW x \in Nodes, NEW y \in A(x) PROVE A(y) \subseteq A(x)
  <2>1. A(x) \in SUBSET Nodes /\ y \in Nodes /\ \A m \in A(x) : t[m].parent # NULL => t[m].parent \in A(x)
    BY <1>2, <1>5
  <2> DEFINE C == A(x)
  <2>2. C \in SUBSET Nodes /\ y \in Nodes /\ y \in C /\ \A m \in C : t[m].parent # NULL => t[m].parent \in C
    BY <1>5, <2>1
  <2> HIDE DEF C
  <2>3. Ancestors(t, y) \subseteq C BY <2>2, AboveLeast
  <2> QED BY <2>3 DEF C
<1> SUFFICES ASSUME NEW m \in Nodes, u[m].parent # NULL PROVE m \notin Ancestors(u, u[m].parent) BY DEF NoLoop
<1> HIDE DEF A
<1>6. n \notin A(par) BY DEF A
<1>7. CASE m = n
  <2>1. Ancestors(u, par) \subseteq A(par) BY <1>3, <1>6
  <2> QED BY <1>6, <1>7, <2>1
<1>8. CASE m # n
  <2> DEFINE x == t[m].parent
  <2>1. u[m].parent = x /\ x # NULL /\ x \in Nodes BY <1>8 DEF Parented
  <2>2. m \notin A(x) BY <2>1 DEF NoLoop, A
  <2> HIDE DEF x
  <2>3. CASE n \notin A(x) BY <1>3, <2>1, <2>2, <2>3
  <2>4. CASE n \in A(x)
    <3>1. ASSUME m \in A(par) PROVE FALSE
      <4>1. x \in A(par) BY <1>2, <2>1, <3>1 DEF x
      <4>2. A(x) \subseteq A(par) BY <1>5, <4>1
      <4> QED BY <1>6, <2>4, <4>2
    <3>2. Ancestors(u, x) \subseteq A(x) \cup A(par) BY <1>4, <2>1
    <3> QED BY <2>1, <2>2, <3>1, <3>2
  <2> QED BY <2>3, <2>4
<1> QED BY <1>7, <1>8

-----------------------------------------------------------------------------
(* Children without one, when no two are the same, and with one more.         *)
NoTwice(s) == \A i, j \in DOMAIN s : i # j => s[i] # s[j]
Has(s, x) == \E i \in DOMAIN s : s[i] = x
TakenOut(q, s, x) ==
    /\ \A y : Has(q, y) <=> Has(s, y) /\ y # x
    /\ NoTwice(q)

LEMMA WithoutOne ==
    ASSUME NEW S, NEW s \in Seq(S), NEW x, NoTwice(s)
    PROVE  TakenOut(Without(s, x), s, x)
<1> DEFINE q == Without(s, x)
<1>1. q \in Seq(S) BY WithoutIs
<1>2. CASE q = s /\ \A i \in DOMAIN s : s[i] # x
  <2> HIDE DEF q
  <2>1. TakenOut(q, s, x) BY <1>2 DEF TakenOut, Has
  <2> QED BY <2>1 DEF q
<1>3. CASE \E k \in 1 .. Len(s) : /\ s[k] = x /\ Len(q) = Len(s) - 1
                                  /\ \A i \in 1 .. Len(s) - 1 : q[i] = IF i < k THEN s[i] ELSE s[i + 1]
  <2>1. PICK k \in 1 .. Len(s) : /\ s[k] = x /\ Len(q) = Len(s) - 1
                                 /\ \A i \in 1 .. Len(s) - 1 : q[i] = IF i < k THEN s[i] ELSE s[i + 1]
    BY <1>3
  <2> HIDE DEF q
  <2>2. DOMAIN q = 1 .. Len(s) - 1 /\ DOMAIN s = 1 .. Len(s) /\ Len(s) \in Nat BY <1>1, <2>1
  <2> DEFINE at(i) == IF i < k THEN i ELSE i + 1
  <2>3. \A i \in DOMAIN q : at(i) \in DOMAIN s /\ at(i) # k /\ q[i] = s[at(i)] BY <2>1, <2>2
  <2>4. \A i, j \in DOMAIN q : i # j => at(i) # at(j) BY <2>2
  <2>5. \A i \in DOMAIN s : i # k => \E j \in DOMAIN q : at(j) = i
    <3> TAKE i \in DOMAIN s
    <3> HAVE i # k
    <3>1. CASE i < k BY <2>2, <3>1
    <3>2. CASE ~(i < k)
      <4>1. i - 1 \in DOMAIN q /\ at(i - 1) = i BY <2>2, <3>2
      <4> QED BY <4>1
    <3> QED BY <3>1, <3>2
  <2> HIDE DEF at
  <2>6. NoTwice(q) BY <2>3, <2>4 DEF NoTwice
  <2>7. ASSUME NEW y, Has(q, y) PROVE Has(s, y) /\ y # x
    <3>1. PICK i \in DOMAIN q : q[i] = y BY <2>7 DEF Has
    <3>2. at(i) \in DOMAIN s /\ at(i) # k /\ s[at(i)] = y BY <2>3, <3>1
    <3>3. k \in DOMAIN s BY <2>2
    <3> QED BY <2>1, <3>2, <3>3 DEF Has, NoTwice
  <2>8. ASSUME NEW y, Has(s, y), y # x PROVE Has(q, y)
    <3>1. PICK i \in DOMAIN s : s[i] = y BY <2>8 DEF Has
    <3>2. i # k BY <2>1, <2>8, <3>1
    <3>3. PICK j \in DOMAIN q : at(j) = i BY <2>5, <3>1, <3>2
    <3>4. q[j] = y BY <2>3, <3>1, <3>3
    <3> QED BY <3>4 DEF Has
  <2>9. TakenOut(q, s, x) BY Zenon, <2>6, <2>7, <2>8 DEF TakenOut
  <2> QED BY <2>9 DEF q
<1> QED BY <1>2, <1>3, WithoutIs

LEMMA AppendHas ==
    ASSUME NEW S, NEW s \in Seq(S), NEW x \in S
    PROVE  /\ \A y : Has(Append(s, x), y) <=> Has(s, y) \/ y = x
           /\ NoTwice(s) /\ ~Has(s, x) => NoTwice(Append(s, x))
<1> DEFINE q == Append(s, x)
<1>1. DOMAIN q = 1 .. Len(s) + 1 /\ DOMAIN s = 1 .. Len(s) /\ Len(s) \in Nat OBVIOUS
<1>2. (\A i \in 1 .. Len(s) : q[i] = s[i]) /\ q[Len(s) + 1] = x OBVIOUS
<1> HIDE DEF q
<1>3. \A i \in DOMAIN q : (i \in DOMAIN s /\ q[i] = s[i]) \/ (i = Len(s) + 1 /\ q[i] = x) BY <1>1, <1>2
<1>4. \A i \in DOMAIN s : i \in DOMAIN q /\ q[i] = s[i] BY <1>1, <1>2
<1>5. Len(s) + 1 \in DOMAIN q BY <1>1
<1>6. \A y : Has(q, y) <=> Has(s, y) \/ y = x BY <1>2, <1>3, <1>4, <1>5 DEF Has
<1>7. ASSUME NoTwice(s), ~Has(s, x) PROVE NoTwice(q) BY <1>3, <1>7 DEF NoTwice, Has
<1> QED BY <1>6, <1>7 DEF q

(* The nodes are a forest: siblings are named apart, a child is of its parent  *)
(* and was not removed, and whoever was not is a child of its parent.         *)
Kid(t, p, n) == Has(t[p].kids, n)
Apart(t) ==
    \A p \in Nodes : /\ NoTwice(t[p].kids)
                     /\ \A n, m : Kid(t, p, n) /\ Kid(t, p, m) /\ n # m => t[n].name # t[m].name
Own(t, g) == \A p \in Nodes : \A n : Kid(t, p, n) => n \in GivenOut(t) \ g /\ t[n].parent = p
Had(t, g) == \A n \in GivenOut(t) \ g : t[n].parent # NULL => Kid(t, t[n].parent, n)
Blank(t, g) == \A n \in Nodes : t[n].mode = "none" => t[n].kids = <<>> /\ t[n].parent = NULL /\ n \notin g
Grove(t, g) == Apart(t) /\ Own(t, g) /\ Had(t, g) /\ InDirs(t) /\ Blank(t, g) /\ NoLoop(t)

LEMMA ApartDiffer == ASSUME NEW t, Apart(t) PROVE KidsDiffer(t)
BY Zenon DEF KidsDiffer, Apart, NoTwice, Kid, Has

(* The fields of the nodes when a directory loses or gets a child.            *)
LEMMA DroppedParts ==
    ASSUME NEW t, Trees(t), NEW u, NEW par \in Nodes, NEW n, Dropped(u, t, par, n), Apart(t)
    PROVE  /\ \A m \in Nodes : u[m].mode = t[m].mode /\ u[m].name = t[m].name /\ u[m].parent = t[m].parent
           /\ \A p \in Nodes : p # par => u[p].kids = t[p].kids
           /\ TakenOut(u[par].kids, t[par].kids, n)
<1>1. ASSUME NEW m \in Nodes
      PROVE  /\ u[m].mode = t[m].mode /\ u[m].name = t[m].name /\ u[m].parent = t[m].parent
             /\ u[m].kids = IF m = par THEN Without(t[par].kids, n) ELSE t[m].kids
  <2> DEFINE k == IF m = par THEN Without(t[par].kids, n) ELSE t[m].kids
  <2>1. u[m] = Rec(t[m].mode, t[m].name, t[m].parent, k) BY DEF Dropped
  <2> HIDE DEF k
  <2>2. u[m].mode = t[m].mode /\ u[m].name = t[m].name /\ u[m].parent = t[m].parent /\ u[m].kids = k BY <2>1, RecIs
  <2> QED BY <2>2 DEF k
<1>2. t[par].kids \in Seq(Nodes)
  <2>1. t[par] \in NodeRecords BY DEF Trees
  <2> QED BY <2>1, RecordIs
<1>3. NoTwice(t[par].kids) BY DEF Apart
<1>4. TakenOut(Without(t[par].kids, n), t[par].kids, n) BY <1>2, <1>3, WithoutOne
<1>5. u[par].kids = Without(t[par].kids, n) BY <1>1
<1>6. TakenOut(u[par].kids, t[par].kids, n) BY Zenon, <1>4, <1>5
<1>7. \A p \in Nodes : p # par => u[p].kids = t[p].kids BY <1>1
<1> QED BY <1>1, <1>6, <1>7

-----------------------------------------------------------------------------
LEMMA DroppedGrove ==
    ASSUME NEW t, Trees(t), NEW g, Grove(t, g), NEW u, NEW par \in Nodes, NEW n \in Nodes, Kid(t, par, n),
           Dropped(u, t, par, n)
    PROVE  /\ Grove(u, g \cup {n})
           /\ \A m \in Nodes : u[m].mode = t[m].mode /\ u[m].name = t[m].name /\ u[m].parent = t[m].parent
           /\ \A p \in Nodes : \A m : Kid(u, p, m) <=> Kid(t, p, m) /\ m # n
<1> DEFINE h == g \cup {n}
<1>0. Apart(t) /\ Own(t, g) /\ Had(t, g) /\ InDirs(t) /\ Blank(t, g) /\ NoLoop(t) BY DEF Grove
<1>1. /\ \A m \in Nodes : u[m].mode = t[m].mode /\ u[m].name = t[m].name /\ u[m].parent = t[m].parent
      /\ \A p \in Nodes : p # par => u[p].kids = t[p].kids
      /\ TakenOut(u[par].kids, t[par].kids, n)
  BY <1>0, DroppedParts
<1>2. NoTwice(u[par].kids) /\ \A m : Kid(u, par, m) <=> Kid(t, par, m) /\ m # n BY Zenon, <1>1 DEF TakenOut, Kid
<1>3. n \in GivenOut(t) \ g /\ t[n].parent = par BY <1>0 DEF Own
<1>4. ASSUME NEW p \in Nodes, NEW m PROVE Kid(u, p, m) <=> Kid(t, p, m) /\ m # n
  <2>1. CASE p = par BY Zenon, <1>2, <2>1
  <2>2. CASE p # par
    <3>1. ~Kid(t, p, n) BY <1>0, <1>3, <2>2 DEF Own
    <3>2. Kid(u, p, m) <=> Kid(t, p, m) BY Zenon, <1>1, <2>2 DEF Kid
    <3> QED BY Zenon, <3>1, <3>2
  <2> QED BY <2>1, <2>2
<1>5. GivenOut(u) = GivenOut(t) BY Zenon, <1>1 DEF GivenOut
<1>6. Apart(u)
  <2>1. \A p \in Nodes : NoTwice(u[p].kids) BY Zenon, <1>0, <1>1, <1>2 DEF Apart
  <2>2. ASSUME NEW p \in Nodes, NEW a, NEW b, Kid(u, p, a), Kid(u, p, b), a # b PROVE u[a].name # u[b].name
    <3>1. Kid(t, p, a) /\ Kid(t, p, b) BY <1>4, <2>2
    <3>2. t[a].name # t[b].name BY Zenon, <1>0, <2>2, <3>1 DEF Apart
    <3>3. a \in Nodes /\ b \in Nodes BY <1>0, <3>1 DEF Own, GivenOut
    <3> QED BY <1>1, <3>2, <3>3
  <2> QED BY Zenon, <2>1, <2>2 DEF Apart
<1>7. Own(u, h)
  <2> SUFFICES ASSUME NEW p \in Nodes, NEW m, Kid(u, p, m) PROVE m \in GivenOut(u) \ h /\ u[m].parent = p
    BY Zenon DEF Own
  <2>1. Kid(t, p, m) /\ m # n BY <1>4
  <2>2. m \in GivenOut(t) \ g /\ t[m].parent = p BY <1>0, <2>1 DEF Own
  <2> QED BY <1>1, <1>5, <2>1, <2>2 DEF GivenOut
<1>8. Had(u, h)
  <2> SUFFICES ASSUME NEW m \in GivenOut(u) \ h, u[m].parent # NULL PROVE Kid(u, u[m].parent, m)
    BY Zenon DEF Had
  <2>1. m \in GivenOut(t) \ g /\ m # n /\ m \in Nodes BY <1>5 DEF GivenOut
  <2>2. u[m].parent = t[m].parent BY <1>1, <2>1
  <2>3. Kid(t, t[m].parent, m) BY Zenon, <1>0, <2>1, <2>2 DEF Had
  <2>4. t[m].parent \in Nodes BY <2>1, <2>2, TreesParented DEF Parented
  <2> QED BY Zenon, <1>4, <2>1, <2>2, <2>3, <2>4
<1>9. InDirs(u)
  <2> SUFFICES ASSUME NEW m \in Nodes, u[m].parent # NULL PROVE u[u[m].parent].mode = "dir" BY Zenon DEF InDirs
  <2> DEFINE x == t[m].parent
  <2>1. u[m].parent = x BY <1>1
  <2>2. x \in Nodes /\ t[x].mode = "dir" BY <1>0, <2>1, TreesParented DEF Parented, InDirs
  <2> HIDE DEF x
  <2> QED BY <1>1, <2>1, <2>2
<1>10. Blank(u, h)
  <2> SUFFICES ASSUME NEW m \in Nodes, u[m].mode = "none" PROVE u[m].kids = <<>> /\ u[m].parent = NULL /\ m \notin h
    BY Zenon DEF Blank
  <2>1. t[m].mode = "none" BY <1>1
  <2>2. t[m].kids = <<>> /\ t[m].parent = NULL /\ m \notin g BY <1>0, <2>1 DEF Blank
  <2>3. m # n BY <1>3, <2>1 DEF GivenOut
  <2>4. m # par
    <3>1. ~Has(<<>>, n) BY DEF Has
    <3> QED BY Zenon, <2>2, <3>1 DEF Kid
  <2> QED BY <1>1, <2>2, <2>3, <2>4
<1>11. NoLoop(u)
  <2> SUFFICES ASSUME NEW m \in Nodes, u[m].parent # NULL PROVE m \notin Ancestors(u, u[m].parent) BY Zenon DEF NoLoop
  <2>1. u[m].parent = t[m].parent BY <1>1
  <2>2. Parented(t) BY TreesParented
  <2> DEFINE x == t[m].parent
  <2>3. x \in Nodes BY <2>1, <2>2 DEF Parented
  <2>4. m \notin Ancestors(t, x) BY <1>0, <2>1 DEF NoLoop
  <2>5. u[m].parent = x BY <2>1
  <2> HIDE DEF x
  <2>6. Ancestors(u, x) = Ancestors(t, x) BY <1>1, <2>2, <2>3, SameAbove
  <2> QED BY Zenon, <2>4, <2>5, <2>6
<1>12. Grove(u, h) BY Zenon, <1>6, <1>7, <1>8, <1>9, <1>10, <1>11 DEF Grove
<1> QED BY Zenon, <1>1, <1>4, <1>12

(* The node n is nobody's child, and may become par's as nm: par is a         *)
(* directory, n is not on its way up and no child of par has the name.        *)
Loose(t, g, par, n, nm) ==
    /\ n \in g \/ t[n].mode = "none"
    /\ t[par].mode = "dir" /\ n \notin Ancestors(t, par)
    /\ \A m : Kid(t, par, m) => t[m].name # nm

HasPut(u, t, par, n, md, nm) ==
    /\ \A m \in Nodes \ {n} : u[m].mode = t[m].mode /\ u[m].name = t[m].name /\ u[m].parent = t[m].parent
    /\ u[n].mode = md /\ u[n].name = nm /\ u[n].parent = par
    /\ \A p \in Nodes \ {par} : u[p].kids = t[p].kids
    /\ NoTwice(u[par].kids) /\ \A m : Kid(u, par, m) <=> Kid(t, par, m) \/ m = n

LEMMA PutParts ==
    ASSUME NEW t, Trees(t), NEW u, NEW par \in Nodes, NEW n \in Nodes, NEW md, NEW nm, n # par,
           Put(u, t, par, n, md, nm, t[n].kids), Apart(t), ~Kid(t, par, n)
    PROVE  HasPut(u, t, par, n, md, nm)
<1>1. ASSUME NEW m \in Nodes
      PROVE  /\ u[m].mode = (IF m = n THEN md ELSE t[m].mode) /\ u[m].name = (IF m = n THEN nm ELSE t[m].name)
             /\ u[m].parent = (IF m = n THEN par ELSE t[m].parent)
             /\ u[m].kids = IF m = par THEN Append(t[m].kids, n) ELSE t[m].kids
  <2> DEFINE md1 == IF m = n THEN md ELSE t[m].mode
             nm1 == IF m = n THEN nm ELSE t[m].name
             p1 == IF m = n THEN par ELSE t[m].parent
             k1 == IF m = par THEN Append(IF m = n THEN t[n].kids ELSE t[m].kids, n)
                   ELSE IF m = n THEN t[n].kids ELSE t[m].kids
  <2>1. u[m] = Rec(md1, nm1, p1, k1) BY Zenon DEF Put
  <2>2. k1 = IF m = par THEN Append(t[m].kids, n) ELSE t[m].kids OBVIOUS
  <2> HIDE DEF md1, nm1, p1, k1
  <2>3. u[m].mode = md1 /\ u[m].name = nm1 /\ u[m].parent = p1 /\ u[m].kids = k1 BY <2>1, RecIs
  <2> QED BY <2>2, <2>3 DEF md1, nm1, p1
<1>2. t[par].kids \in Seq(Nodes)
  <2>1. t[par] \in NodeRecords BY DEF Trees
  <2> QED BY <2>1, RecordIs
<1>3. NoTwice(t[par].kids) /\ ~Has(t[par].kids, n) BY DEF Apart, Kid
<1>4. /\ \A y : Has(Append(t[par].kids, n), y) <=> Has(t[par].kids, y) \/ y = n
      /\ NoTwice(Append(t[par].kids, n))
  BY <1>2, <1>3, AppendHas
<1>5. u[par].kids = Append(t[par].kids, n) BY <1>1
<1>6. NoTwice(u[par].kids) /\ \A m : Kid(u, par, m) <=> Kid(t, par, m) \/ m = n BY Zenon, <1>4, <1>5 DEF Kid
<1>7. /\ \A m \in Nodes \ {n} : u[m].mode = t[m].mode /\ u[m].name = t[m].name /\ u[m].parent = t[m].parent
      /\ u[n].mode = md /\ u[n].name = nm /\ u[n].parent = par
      /\ \A p \in Nodes \ {par} : u[p].kids = t[p].kids
  BY <1>1
<1> QED BY Zenon, <1>6, <1>7 DEF HasPut

LEMMA PutGrove ==
    ASSUME NEW t, Trees(t), NEW g, Grove(t, g), NEW u, NEW par \in Nodes, NEW n \in Nodes, NEW nm,
           NEW md \in {"file", "dir"}, t[n].mode \in {"none", md}, Loose(t, g, par, n, nm),
           Put(u, t, par, n, md, nm, t[n].kids)
    PROVE  Grove(u, g \ {n})
<1> DEFINE h == g \ {n}
<1>0. Apart(t) /\ Own(t, g) /\ Had(t, g) /\ InDirs(t) /\ Blank(t, g) /\ NoLoop(t) BY DEF Grove
<1>1. /\ n \in g \/ t[n].mode = "none"
      /\ t[par].mode = "dir" /\ n \notin Ancestors(t, par)
      /\ \A m : Kid(t, par, m) => t[m].name # nm
  BY DEF Loose
<1>2. Parented(t) BY TreesParented
<1>3. n # par /\ t[par].mode = "dir" /\ n \notin Ancestors(t, par) BY <1>2, AboveHas DEF Loose
<1>4. ASSUME NEW p \in Nodes PROVE ~Kid(t, p, n) BY <1>0, <1>1 DEF Own, GivenOut
<1>5. /\ \A m \in Nodes \ {n} : u[m].mode = t[m].mode /\ u[m].name = t[m].name /\ u[m].parent = t[m].parent
      /\ u[n].mode = md /\ u[n].name = nm /\ u[n].parent = par
      /\ \A p \in Nodes \ {par} : u[p].kids = t[p].kids
      /\ NoTwice(u[par].kids) /\ \A m : Kid(u, par, m) <=> Kid(t, par, m) \/ m = n
  <2>1. HasPut(u, t, par, n, md, nm)
    <3>1. Apart(t) /\ n # par /\ ~Kid(t, par, n) BY <1>0, <1>3, <1>4
    <3> QED BY <3>1, PutParts
  <2> QED BY Zenon, <2>1 DEF HasPut
<1>6. ASSUME NEW p \in Nodes, NEW m PROVE Kid(u, p, m) <=> Kid(t, p, m) \/ (p = par /\ m = n)
  <2>1. CASE p = par BY Zenon, <1>5, <2>1
  <2>2. CASE p # par
    <3>1. u[p].kids = t[p].kids BY <1>5, <2>2
    <3> QED BY Zenon, <2>2, <3>1 DEF Kid
  <2> QED BY <2>1, <2>2
<1>7. GivenOut(u) = GivenOut(t) \cup {n} BY <1>5 DEF GivenOut
<1>8. Apart(u)
  <2>1. \A p \in Nodes : NoTwice(u[p].kids)
    <3>1. \A p \in Nodes : p = par \/ p \in Nodes \ {par} OBVIOUS
    <3> QED BY Zenon, <1>0, <1>5, <3>1 DEF Apart
  <2>2. ASSUME NEW p \in Nodes, NEW a, Kid(t, p, a) PROVE a \in Nodes \ {n} /\ u[a].name = t[a].name
    <3>1. a \in Nodes /\ a # n BY <1>0, <1>4, <2>2 DEF Own, GivenOut
    <3> QED BY <1>5, <3>1
  <2>3. ASSUME NEW p \in Nodes, NEW a, NEW b, Kid(u, p, a), Kid(u, p, b), a # b PROVE u[a].name # u[b].name
    <3>1. CASE Kid(t, p, a) /\ Kid(t, p, b)
      <4>1. t[a].name # t[b].name BY Zenon, <1>0, <2>3, <3>1 DEF Apart
      <4> QED BY Zenon, <2>2, <3>1, <4>1
    <3>2. CASE Kid(t, p, a) /\ p = par /\ b = n
      <4>1. t[a].name # nm BY <1>1, <3>2
      <4>2. u[a].name = t[a].name BY <2>2, <3>2
      <4> QED BY <1>5, <3>2, <4>1, <4>2
    <3>3. CASE Kid(t, p, b) /\ p = par /\ a = n
      <4>1. t[b].name # nm BY <1>1, <3>3
      <4>2. u[b].name = t[b].name BY <2>2, <3>3
      <4> QED BY <1>5, <3>3, <4>1, <4>2
    <3>4. (Kid(t, p, a) \/ (p = par /\ a = n)) /\ (Kid(t, p, b) \/ (p = par /\ b = n)) BY Zenon, <1>6, <2>3
    <3> QED BY <2>3, <3>1, <3>2, <3>3, <3>4
  <2> QED BY Zenon, <2>1, <2>3 DEF Apart
<1>9. Own(u, h)
  <2> SUFFICES ASSUME NEW p \in Nodes, NEW m, Kid(u, p, m) PROVE m \in GivenOut(u) \ h /\ u[m].parent = p
    BY Zenon DEF Own
  <2>1. CASE Kid(t, p, m)
    <3>1. m \in GivenOut(t) \ g /\ t[m].parent = p BY <1>0, <2>1 DEF Own
    <3>2. m # n /\ m \in Nodes BY <1>4, <2>1, <3>1 DEF GivenOut
    <3> QED BY <1>5, <1>7, <3>1, <3>2
  <2>2. CASE p = par /\ m = n BY <1>5, <1>7, <2>2
  <2> QED BY <1>6, <2>1, <2>2
<1>10. Had(u, h)
  <2> SUFFICES ASSUME NEW m \in GivenOut(u) \ h, u[m].parent # NULL PROVE Kid(u, u[m].parent, m)
    BY Zenon DEF Had
  <2>1. CASE m = n BY Zenon, <1>5, <2>1
  <2>2. CASE m # n
    <3>1. m \in GivenOut(t) \ g /\ m \in Nodes \ {n} BY <1>7, <2>2 DEF GivenOut
    <3>2. u[m].parent = t[m].parent BY <1>5, <3>1
    <3>3. Kid(t, t[m].parent, m) BY Zenon, <1>0, <3>1, <3>2 DEF Had
    <3>4. t[m].parent \in Nodes BY <1>2, <3>1, <3>2 DEF Parented
    <3> QED BY Zenon, <1>6, <3>2, <3>3, <3>4
  <2> QED BY <2>1, <2>2
<1>11. InDirs(u)
  <2> SUFFICES ASSUME NEW m \in Nodes, u[m].parent # NULL PROVE u[u[m].parent].mode = "dir" BY Zenon DEF InDirs
  <2>1. CASE m = n
    <3>1. u[m].parent = par /\ par \in Nodes \ {n} BY <1>3, <1>5, <2>1
    <3> QED BY <1>3, <1>5, <3>1
  <2>2. CASE m # n
    <3> DEFINE x == t[m].parent
    <3>1. u[m].parent = x BY <1>5, <2>2
    <3>2. x \in Nodes /\ t[x].mode = "dir" BY <1>0, <1>2, <3>1 DEF Parented, InDirs
    <3> HIDE DEF x
    <3>3. CASE x = n BY <1>5, <3>1, <3>2, <3>3
    <3>4. CASE x # n BY <1>5, <3>1, <3>2, <3>4
    <3> QED BY <3>3, <3>4
  <2> QED BY <2>1, <2>2
<1>12. Blank(u, h)
  <2> SUFFICES ASSUME NEW m \in Nodes, u[m].mode = "none" PROVE u[m].kids = <<>> /\ u[m].parent = NULL /\ m \notin h
    BY Zenon DEF Blank
  <2>1. m \in Nodes \ {n} BY <1>5
  <2>2. t[m].mode = "none" BY <1>5, <2>1
  <2>3. m \in Nodes \ {par} BY <1>3, <2>2
  <2> QED BY <1>0, <1>5, <2>1, <2>2, <2>3 DEF Blank
<1>13. NoLoop(u)
  <2>1. u[n].parent = par /\ \A m \in Nodes : m # n => u[m].parent = t[m].parent BY <1>5
  <2> QED BY <1>0, <1>2, <1>3, <2>1, NoLoopOn
<1> QED BY Zenon, <1>8, <1>9, <1>10, <1>11, <1>12, <1>13 DEF Grove

-----------------------------------------------------------------------------
(* What each call of ramfs does to the forest.                                *)
LEMMA GroveParts ==
    ASSUME NEW t, NEW g, Grove(t, g)
    PROVE  Apart(t) /\ Own(t, g) /\ Had(t, g) /\ InDirs(t) /\ Blank(t, g) /\ NoLoop(t)
BY DEF Grove

LEMMA KidFacts ==
    ASSUME NEW t, NEW g, Grove(t, g), NEW p \in Nodes, NEW n, Kid(t, p, n)
    PROVE  n \in Nodes /\ n \in GivenOut(t) /\ n \notin g /\ t[n].parent = p
BY DEF Grove, Own, GivenOut

LEMMA CreatingGrove ==
    ASSUME NEW t, Trees(t), NEW g, Grove(t, g), NEW par \in GivenOut(t), NEW nm \in Names, NEW md \in {"file", "dir"},
           t[par].mode = "dir", NEW u, Creating(u, t, par, nm, md)
    PROVE  Grove(u, g)
<1>1. CASE u = t BY <1>1
<1>2. CASE u # t
  <2>1. PICK n \in Nodes : ~HasChild(t, par, nm) /\ t[n].mode = "none" /\ Put(u, t, par, n, md, nm, <<>>)
    BY <1>2 DEF Creating
  <2>2. par \in Nodes /\ Parented(t) BY TreesParented DEF GivenOut
  <2>3. t[n].kids = <<>> /\ n \notin g BY <2>1 DEF Grove, Blank
  <2>4. Put(u, t, par, n, md, nm, t[n].kids) BY Zenon, <2>1, <2>3
  <2>5. n \notin Ancestors(t, par)
    <3>1. \A m \in Ancestors(t, par) : t[m].mode = "dir" BY <2>2, GroveParts, OnlyDirsAbove
    <3> QED BY <2>1, <3>1
  <2>6. Loose(t, g, par, n, nm) BY Zenon, <2>1, <2>5 DEF Loose, HasChild, Kid, Has
  <2>7. t[n].mode \in {"none", md} BY <2>1
  <2>8. Grove(u, g \ {n}) BY <2>2, <2>4, <2>6, <2>7, PutGrove
  <2>9. g \ {n} = g BY <2>3
  <2> QED BY Zenon, <2>8, <2>9
<1> QED BY <1>1, <1>2

LEMMA NewRootGrove ==
    ASSUME NEW t, Trees(t), NEW g, Grove(t, g), NEW n \in Nodes, t[n].mode = "none", NEW u, NewRooted(u, t, n)
    PROVE  Grove(u, g)
<1>0. Apart(t) /\ Own(t, g) /\ Had(t, g) /\ InDirs(t) /\ Blank(t, g) /\ NoLoop(t) BY GroveParts
<1>1. \A m \in Nodes : m # n => u[m] = t[m] BY DEF NewRooted
<1>2. u[n].mode = "dir" /\ u[n].name = t[n].name /\ u[n].parent = t[n].parent /\ u[n].kids = t[n].kids
  <2>1. u[n] = Rec("dir", t[n].name, t[n].parent, t[n].kids) BY DEF NewRooted
  <2> QED BY <2>1, RecIs
<1>3. \A m \in Nodes : u[m].name = t[m].name /\ u[m].parent = t[m].parent /\ u[m].kids = t[m].kids BY <1>1, <1>2
<1>4. GivenOut(u) = GivenOut(t) \cup {n} BY <1>1, <1>2 DEF GivenOut
<1>5. \A p \in Nodes : \A m : Kid(u, p, m) <=> Kid(t, p, m) BY Zenon, <1>3 DEF Kid
<1>6. \A p \in Nodes : \A m : Kid(t, p, m) => m \in Nodes BY KidFacts
<1>7. Apart(u)
  <2>1. \A p \in Nodes : NoTwice(u[p].kids)
    <3> SUFFICES ASSUME NEW p \in Nodes PROVE NoTwice(u[p].kids) OBVIOUS
    <3>1. u[p].kids = t[p].kids /\ NoTwice(t[p].kids) BY <1>0, <1>3 DEF Apart
    <3> QED BY <3>1
  <2>2. ASSUME NEW p \in Nodes, NEW a, NEW b, Kid(u, p, a), Kid(u, p, b), a # b PROVE u[a].name # u[b].name
    <3>1. Kid(t, p, a) /\ Kid(t, p, b) BY <1>5, <2>2
    <3>2. t[a].name # t[b].name BY Zenon, <1>0, <2>2, <3>1 DEF Apart
    <3>3. a \in Nodes /\ b \in Nodes BY <1>6, <3>1
    <3> QED BY <1>3, <3>2, <3>3
  <2> QED BY Zenon, <2>1, <2>2 DEF Apart
<1>8. Own(u, g)
  <2> SUFFICES ASSUME NEW p \in Nodes, NEW m, Kid(u, p, m) PROVE m \in GivenOut(u) \ g /\ u[m].parent = p
    BY Zenon DEF Own
  <2>1. Kid(t, p, m) BY <1>5
  <2>2. m \in Nodes /\ m \in GivenOut(t) /\ m \notin g /\ t[m].parent = p BY <2>1, KidFacts
  <2> QED BY <1>3, <1>4, <2>2
<1>9. t[n].parent = NULL BY <1>0 DEF Blank
<1>10. Had(u, g)
  <2> SUFFICES ASSUME NEW m \in GivenOut(u) \ g, u[m].parent # NULL PROVE Kid(u, u[m].parent, m) BY Zenon DEF Had
  <2>1. m \in Nodes BY DEF GivenOut
  <2>2. u[m].parent = t[m].parent BY <1>3, <2>1
  <2>3. m \in GivenOut(t) \ g BY <1>4, <1>9, <2>2
  <2>4. Kid(t, t[m].parent, m) BY Zenon, <1>0, <2>2, <2>3 DEF Had
  <2>5. t[m].parent \in Nodes BY <2>1, <2>2, TreesParented DEF Parented
  <2> QED BY Zenon, <1>5, <2>2, <2>4, <2>5
<1>11. InDirs(u)
  <2> SUFFICES ASSUME NEW m \in Nodes, u[m].parent # NULL PROVE u[u[m].parent].mode = "dir" BY Zenon DEF InDirs
  <2> DEFINE x == t[m].parent
  <2>1. u[m].parent = x BY <1>3
  <2>2. x \in Nodes /\ t[x].mode = "dir" BY <1>0, <2>1, TreesParented DEF Parented, InDirs
  <2> HIDE DEF x
  <2> QED BY <1>1, <1>2, <2>1, <2>2
<1>12. Blank(u, g)
  <2> SUFFICES ASSUME NEW m \in Nodes, u[m].mode = "none" PROVE u[m].kids = <<>> /\ u[m].parent = NULL /\ m \notin g
    BY Zenon DEF Blank
  <2>1. u[m] = t[m] BY <1>1, <1>2
  <2> QED BY Zenon, <1>0, <2>1 DEF Blank
<1>13. NoLoop(u)
  <2> SUFFICES ASSUME NEW m \in Nodes, u[m].parent # NULL PROVE m \notin Ancestors(u, u[m].parent) BY Zenon DEF NoLoop
  <2>1. Parented(t) BY TreesParented
  <2> DEFINE x == t[m].parent
  <2>2. u[m].parent = x BY <1>3
  <2>3. x \in Nodes BY <2>1, <2>2 DEF Parented
  <2>4. m \notin Ancestors(t, x) BY <1>0, <2>2 DEF NoLoop
  <2> HIDE DEF x
  <2>5. Ancestors(u, x) = Ancestors(t, x) BY <1>3, <2>1, <2>3, SameAbove
  <2> QED BY Zenon, <2>2, <2>4, <2>5
<1> QED BY Zenon, <1>7, <1>8, <1>10, <1>11, <1>12, <1>13 DEF Grove

(* The node that is in the way, when there is one, is taken out first.        *)
Cleared(t1, t, h, par, nm, dst) ==
    /\ Grove(t1, h) /\ Trees(t1) /\ GivenOut(t1) = GivenOut(t)
    /\ \A m \in Nodes : t1[m].mode = t[m].mode /\ t1[m].name = t[m].name /\ t1[m].parent = t[m].parent
    /\ \A p \in Nodes : \A m : Kid(t1, p, m) <=> Kid(t, p, m) /\ m # dst
    /\ \A m : Kid(t1, par, m) => t1[m].name # nm

LEMMA OverGrove ==
    ASSUME NEW t, Trees(t), NEW g, Grove(t, g), NEW par \in Nodes, NEW nm, NEW dst, Found(t, par, nm, dst),
           NEW t1, Over(t1, t, par, dst)
    PROVE  Cleared(t1, t, g \cup ({dst} \ {NULL}), par, nm, dst)
<1>0. Trees(t1) /\ GivenOut(t1) = GivenOut(t) BY OverTrees
<1>1. NULL \notin Nodes BY Limits0
<1>2. \A p \in Nodes : \A m : Kid(t, p, m) => m \in Nodes BY KidFacts
<1>3. CASE dst = NULL
  <2>1. t1 = t BY <1>3 DEF Over
  <2>2. g \cup ({dst} \ {NULL}) = g BY <1>3
  <2>3. \A m : Kid(t, par, m) => t[m].name # nm BY Zenon, <1>3 DEF Found, HasChild, Kid, Has
  <2>4. \A p \in Nodes : \A m : Kid(t, p, m) => m # dst BY <1>1, <1>2, <1>3
  <2>5. Grove(t1, g \cup ({dst} \ {NULL})) BY Zenon, <2>1, <2>2
  <2> QED BY Zenon, <1>0, <2>1, <2>3, <2>4, <2>5 DEF Cleared
<1>4. CASE dst # NULL
  <2>1. Kid(t, par, dst) /\ t[dst].name = nm BY Zenon, <1>4 DEF Found, Kid, Has
  <2>2. dst \in Nodes BY <1>2, <2>1
  <2>3. Dropped(t1, t, par, dst) BY <1>4 DEF Over
  <2>4. /\ Grove(t1, g \cup {dst})
        /\ \A m \in Nodes : t1[m].mode = t[m].mode /\ t1[m].name = t[m].name /\ t1[m].parent = t[m].parent
        /\ \A p \in Nodes : \A m : Kid(t1, p, m) <=> Kid(t, p, m) /\ m # dst
    BY <2>1, <2>2, <2>3, DroppedGrove
  <2>5. ASSUME NEW m, Kid(t1, par, m) PROVE t1[m].name # nm
    <3>1. Kid(t, par, m) /\ m # dst BY <2>4, <2>5
    <3>2. t[m].name # t[dst].name BY Zenon, <2>1, <3>1 DEF Grove, Apart
    <3>3. m \in Nodes BY <1>2, <3>1
    <3> QED BY <2>1, <2>4, <3>2, <3>3
  <2>6. g \cup ({dst} \ {NULL}) = g \cup {dst} BY <1>4
  <2>7. Grove(t1, g \cup ({dst} \ {NULL})) BY Zenon, <2>4, <2>6
  <2> QED BY Zenon, <1>0, <2>4, <2>5, <2>7 DEF Cleared
<1> QED BY <1>3, <1>4

-----------------------------------------------------------------------------
LEMMA RenamingGrove ==
    ASSUME NEW t, Trees(t), NEW g, Grove(t, g), NEW odir \in GivenOut(t), NEW ndir \in GivenOut(t),
           NEW src \in GivenOut(t), NEW nm \in Names, Kid(t, odir, src), t[ndir].mode = "dir",
           NEW u, NEW freed, Renaming(u, freed, t, odir, src, ndir, nm)
    PROVE  Grove(u, g \cup freed)
<1>1. CASE u = t /\ freed = {}
  <2>1. g \cup freed = g BY <1>1
  <2> QED BY Zenon, <1>1, <2>1
<1>2. CASE ~(u = t /\ freed = {})
  <2>1. PICK dst, t1, t2 :
          /\ Found(t, ndir, nm, dst) /\ MayMove(t, odir, src, ndir, dst, nm)
          /\ Over(t1, t, ndir, dst) /\ Dropped(t2, t1, odir, src) /\ freed = {dst} \ {NULL}
          /\ \/ Put(u, t2, ndir, src, t2[src].mode, nm, t2[src].kids)
             \/ Put(u, t2, odir, src, t2[src].mode, t2[src].name, t2[src].kids)
    BY Zenon, <1>2 DEF Renaming
  <2> DEFINE g1 == g \cup ({dst} \ {NULL})
             g2 == g1 \cup {src}
             md == t2[src].mode
             nm2 == t2[src].name
  <2>2. odir \in Nodes /\ ndir \in Nodes /\ src \in Nodes /\ NULL \notin Nodes BY Limits0 DEF GivenOut
  <2>3. /\ Grove(t1, g1) /\ Trees(t1) /\ GivenOut(t1) = GivenOut(t)
        /\ \A m \in Nodes : t1[m].mode = t[m].mode /\ t1[m].name = t[m].name /\ t1[m].parent = t[m].parent
        /\ \A p \in Nodes : \A m : Kid(t1, p, m) <=> Kid(t, p, m) /\ m # dst
        /\ \A m : Kid(t1, ndir, m) => t1[m].name # nm
    <3>1. Found(t, ndir, nm, dst) /\ Over(t1, t, ndir, dst) BY <2>1
    <3>2. Cleared(t1, t, g \cup ({dst} \ {NULL}), ndir, nm, dst) BY <2>2, <3>1, OverGrove
    <3>3. Cleared(t1, t, g1, ndir, nm, dst) BY <3>2
    <3> HIDE DEF g1
    <3> QED BY Zenon, <3>3 DEF Cleared
  <2>4. t[src].parent = odir BY <2>2, KidFacts
  <2>5. dst # src
    <3> SUFFICES ASSUME dst = src PROVE FALSE OBVIOUS
    <3>1. dst # NULL BY <2>2
    <3>2. Kid(t, ndir, dst) /\ t[dst].name = nm BY Zenon, <2>1, <3>1 DEF Found, Kid, Has
    <3>3. Kid(t, ndir, src) /\ t[src].name = nm BY <3>2
    <3>4. t[src].parent = ndir BY <2>2, <3>3, KidFacts
    <3>5. ~(odir = ndir /\ t[src].name = nm) BY Zenon, <2>1 DEF MayMove
    <3> QED BY <2>4, <3>3, <3>4, <3>5
  <2>6. Kid(t1, odir, src) BY <2>2, <2>3, <2>5
  <2> HIDE DEF g1
  <2>7. src \notin g1 BY <2>2, <2>3, <2>6, KidFacts
  <2>8. /\ Grove(t2, g2)
        /\ \A m \in Nodes : t2[m].mode = t1[m].mode /\ t2[m].name = t1[m].name /\ t2[m].parent = t1[m].parent
        /\ \A p \in Nodes : \A m : Kid(t2, p, m) <=> Kid(t1, p, m) /\ m # src
    <3>1. Trees(t1) /\ Grove(t1, g1) /\ Dropped(t2, t1, odir, src) BY <2>1, <2>3
    <3> QED BY Zenon, <2>2, <2>6, <3>1, DroppedGrove
  <2>9. Trees(t2) /\ GivenOut(t2) = GivenOut(t1) BY <2>1, <2>2, <2>3, DroppedTrees
  <2>10. Parented(t) BY TreesParented
  <2>11. \A m \in Nodes : t2[m].parent = t[m].parent BY <2>3, <2>8
  <2>12. Ancestors(t2, odir) = Ancestors(t, odir) /\ Ancestors(t2, ndir) = Ancestors(t, ndir)
    BY <2>2, <2>10, <2>11, SameAbove
  <2>13. md \in {"file", "dir"}
    <3>1. src \in GivenOut(t2) /\ t2[src] \in NodeRecords BY <2>2, <2>3, <2>9 DEF Trees
    <3>2. md \in {"none", "file", "dir"} /\ md # "none" BY <3>1, RecordIs DEF GivenOut
    <3> QED BY <3>2
  <2>14. \A p \in Nodes : \A m : Kid(t1, p, m) => m \in Nodes BY <2>3, KidFacts
  <2>15. Loose(t2, g2, ndir, src, nm)
    <3>1. t2[ndir].mode = "dir" BY <2>2, <2>3, <2>8
    <3>2. src \notin Ancestors(t, ndir)
      <4>1. CASE t[src].mode = "dir" BY Zenon, <2>1, <4>1 DEF MayMove
      <4>2. CASE t[src].mode # "dir"
        <5>1. \A m \in Ancestors(t, ndir) : t[m].mode = "dir" BY <2>2, <2>10, GroveParts, OnlyDirsAbove
        <5> QED BY <4>2, <5>1
      <4> QED BY <4>1, <4>2
    <3>3. ASSUME NEW m, Kid(t2, ndir, m) PROVE t2[m].name # nm
      <4>1. Kid(t1, ndir, m) BY <2>2, <2>8, <3>3
      <4>2. m \in Nodes /\ t1[m].name # nm BY <2>2, <2>3, <2>14, <4>1
      <4> QED BY <2>8, <4>2
    <3>4. src \in g2 OBVIOUS
    <3>5. src \notin Ancestors(t2, ndir) BY <2>12, <3>2
    <3> QED BY Zenon, <3>1, <3>3, <3>4, <3>5 DEF Loose
  <2>16. Loose(t2, g2, odir, src, nm2)
    <3>1. t2[odir].mode = "dir"
      <4>1. InDirs(t2) BY <2>8, GroveParts
      <4>2. t2[src].parent = odir BY <2>2, <2>4, <2>11
      <4> QED BY <2>2, <4>1, <4>2 DEF InDirs
    <3>2. src \notin Ancestors(t, odir)
      <4>1. NoLoop(t) BY GroveParts
      <4> QED BY <2>2, <2>4, <4>1 DEF NoLoop
    <3>3. ASSUME NEW m, Kid(t2, odir, m) PROVE t2[m].name # nm2
      <4>1. Kid(t1, odir, m) /\ m # src BY <2>2, <2>8, <3>3
      <4>2. Apart(t1) BY <2>3, GroveParts
      <4>3. t1[m].name # t1[src].name BY Zenon, <2>2, <2>6, <4>1, <4>2 DEF Apart
      <4>4. m \in Nodes BY <2>2, <2>14, <4>1
      <4> QED BY <2>2, <2>8, <4>3, <4>4
    <3>4. src \in g2 OBVIOUS
    <3>5. src \notin Ancestors(t2, odir) BY <2>12, <3>2
    <3> QED BY Zenon, <3>1, <3>3, <3>4, <3>5 DEF Loose
  <2>17. t2[src].mode \in {"none", md} OBVIOUS
  <2>18. Put(u, t2, ndir, src, md, nm, t2[src].kids) \/ Put(u, t2, odir, src, md, nm2, t2[src].kids) BY <2>1
  <2>19. g2 \ {src} = g1 BY <2>7
  <2>20. g1 = g \cup freed BY <2>1 DEF g1
  <2> HIDE DEF md, nm2, g2
  <2>21. Grove(u, g2 \ {src})
    <3>1. CASE Put(u, t2, ndir, src, md, nm, t2[src].kids)
      BY <2>2, <2>8, <2>9, <2>13, <2>15, <2>17, <3>1, PutGrove
    <3>2. CASE Put(u, t2, odir, src, md, nm2, t2[src].kids)
      BY <2>2, <2>8, <2>9, <2>13, <2>16, <2>17, <3>2, PutGrove
    <3> QED BY <2>18, <3>1, <3>2
  <2> QED BY Zenon, <2>19, <2>20, <2>21
<1> QED BY <1>1, <1>2

(* As long as programs do not use the path of a file as a directory's.        *)
LEMMA TreeStepGrove ==
    ASSUME NEW t, Trees(t), NEW g, Grove(t, g), NEW u, NEW h, TreeStep(t, g, u, h), ~ThroughFiles
    PROVE  Grove(u, h)
<1>0. \A p, n : IsKid(t, p, n) <=> Kid(t, p, n) BY Zenon DEF IsKid, Kid, Has
<1>1. CASE u = t /\ h = g BY <1>1
<1>2. CASE h = g /\ \E par \in GivenOut(t), nm \in Names, md \in {"file", "dir"} :
                       t[par].mode = "dir" /\ Creating(u, t, par, nm, md)
  BY <1>2, CreatingGrove
<1>3. CASE \E par \in GivenOut(t), ch \in Nodes :
              IsKid(t, par, ch) /\ Dropped(u, t, par, ch) /\ h = g \cup {ch}
  <2>1. PICK par \in GivenOut(t), ch \in Nodes : Kid(t, par, ch) /\ Dropped(u, t, par, ch) /\ h = g \cup {ch}
    BY <1>0, <1>3
  <2>2. par \in Nodes BY DEF GivenOut
  <2>3. Grove(u, g \cup {ch}) BY <2>1, <2>2, DroppedGrove
  <2> QED BY Zenon, <2>1, <2>3
<1>4. CASE \E odir \in GivenOut(t), ndir \in GivenOut(t), src \in GivenOut(t), nm \in Names, freed \in SUBSET Nodes :
              /\ IsKid(t, odir, src) /\ t[ndir].mode = "dir"
              /\ Renaming(u, freed, t, odir, src, ndir, nm) /\ h = g \cup freed
  <2>1. PICK odir \in GivenOut(t), ndir \in GivenOut(t), src \in GivenOut(t), nm \in Names, freed \in SUBSET Nodes :
              /\ Kid(t, odir, src) /\ t[ndir].mode = "dir"
              /\ Renaming(u, freed, t, odir, src, ndir, nm) /\ h = g \cup freed
    BY <1>0, <1>4
  <2>2. Grove(u, g \cup freed) BY <2>1, RenamingGrove
  <2> QED BY Zenon, <2>1, <2>2
<1>5. CASE h = g /\ \E n \in Nodes : t[n].mode = "none" /\ NewRooted(u, t, n) BY <1>5, NewRootGrove
<1> QED BY Zenon, <1>1, <1>2, <1>3, <1>4, <1>5 DEF TreeStep

LEMMA InitGrove == ASSUME VfsInit PROVE Grove(node, gone)
<1>1. /\ Trees(node) /\ GivenOut(node) = {1}
      /\ \A n \in Nodes : node[n].kids = <<>> /\ node[n].parent = NULL
  BY InitTrees
<1>2. gone = {} BY DEF VfsInit
<1>3. \A p \in Nodes : \A m : ~Kid(node, p, m)
  <2>1. \A m : ~Has(<<>>, m) BY DEF Has
  <2> QED BY Zenon, <1>1, <2>1 DEF Kid
<1>4. Apart(node)
  <2>1. NoTwice(<<>>) BY DEF NoTwice
  <2> QED BY Zenon, <1>1, <1>3, <2>1 DEF Apart
<1>5. Own(node, gone) BY Zenon, <1>3 DEF Own
<1>6. \A n \in GivenOut(node) : node[n].parent = NULL BY <1>1 DEF GivenOut
<1>7. Had(node, gone) BY <1>6 DEF Had
<1>8. InDirs(node) /\ NoLoop(node) BY Zenon, <1>1 DEF InDirs, NoLoop
<1>9. Blank(node, gone) BY <1>1, <1>2 DEF Blank
<1> QED BY Zenon, <1>4, <1>5, <1>7, <1>8, <1>9 DEF Grove

LEMMA TreeSoundFrom == ASSUME Trees(node), Grove(node, gone) PROVE TreeSound
<1>1. Apart(node) /\ Own(node, gone) /\ Had(node, gone) /\ NoLoop(node) BY GroveParts
<1>2. Live = GivenOut(node) \ gone BY DEF Live, GivenOut
<1>3. KidsDiffer(node) BY <1>1, ApartDiffer
<1>4. ASSUME NEW n \in Live, NEW i \in DOMAIN node[n].kids
      PROVE  node[n].kids[i] \in Live /\ node[node[n].kids[i]].parent = n
  <2>1. Kid(node, n, node[n].kids[i]) BY DEF Kid, Has
  <2>2. n \in Nodes BY <1>2 DEF GivenOut
  <2> QED BY Zenon, <1>1, <1>2, <2>1, <2>2 DEF Own
<1>5. ASSUME NEW n \in Live, node[n].parent # NULL
      PROVE  /\ Cardinality({i \in DOMAIN node[node[n].parent].kids : node[node[n].parent].kids[i] = n}) = 1
             /\ n \notin Ancestors(node, node[n].parent)
  <2> DEFINE p == node[n].parent
             s == node[p].kids
  <2>1. n \in Nodes /\ n \in GivenOut(node) \ gone BY <1>2 DEF GivenOut
  <2>2. p \in Nodes BY <1>5, <2>1, TreesParented DEF Parented
  <2>3. n \notin Ancestors(node, p) BY <1>1, <1>5, <2>1 DEF NoLoop
  <2>4. Kid(node, p, n) BY Zenon, <1>1, <1>5, <2>1 DEF Had
  <2>5. NoTwice(s) BY <1>1, <2>2 DEF Apart
  <2>6. PICK i \in DOMAIN s : s[i] = n BY <2>4 DEF Kid, Has
  <2> HIDE DEF s
  <2>7. {j \in DOMAIN s : s[j] = n} = {i} BY <2>5, <2>6 DEF NoTwice
  <2>8. Cardinality({j \in DOMAIN s : s[j] = n}) = 1 BY Zenon, <2>7, FS_Singleton
  <2> QED BY <2>3, <2>8 DEF s
<1>6. ASSUME NEW n \in Live
      PROVE  \A i, j \in DOMAIN node[n].kids : i # j => node[node[n].kids[i]].name # node[node[n].kids[j]].name
  <2>1. n \in Nodes BY <1>2 DEF GivenOut
  <2> QED BY Zenon, <1>3, <2>1 DEF KidsDiffer
<1> QED BY Zenon, <1>4, <1>5, <1>6 DEF TreeSound

DentryInv == VfsInv /\ Grove(node, gone)

LEMMA NextDentries == ASSUME ~ThroughFiles, DentryInv, [VfsNext]_vfsVars PROVE DentryInv'
<1>1. CASE VfsNext
  <2>1. VfsInv' /\ TreeStep(node, gone, node', gone') BY <1>1, NextWell DEF DentryInv, StepsWell
  <2>2. Trees(node) BY DEF DentryInv, VfsInv, Types
  <2>3. Grove(node, gone) BY DEF DentryInv
  <2>4. Grove(node', gone') BY <2>1, <2>2, <2>3, TreeStepGrove
  <2> QED BY Zenon, <2>1, <2>4 DEF DentryInv
<1>2. CASE UNCHANGED vfsVars
  <2>1. node' = node /\ gone' = gone BY <1>2 DEF vfsVars
  <2>2. VfsInv' BY <1>2, VfsStays DEF DentryInv
  <2>3. Grove(node, gone) BY DEF DentryInv
  <2>4. Grove(node', gone') BY Zenon, <2>1, <2>3
  <2> QED BY Zenon, <2>2, <2>4 DEF DentryInv
<1> QED BY <1>1, <1>2

(* The counts balance, and the nodes stay a tree under every order of ram_create,   *)
(* ram_unlink, ram_rmdir and ram_rename (ramfs.c:170-307), also by dentries that    *)
(* are still cached after their node was removed, as long as no program uses the    *)
(* path of a file as a directory's: ramfs_lookup does not ask for one.             *)
THEOREM DentriesAreSound == ~ThroughFiles => (VfsSpec => []DentriesSound)
<1> SUFFICES ASSUME ~ThroughFiles PROVE VfsSpec => []DentriesSound OBVIOUS
<1>1. VfsInit => DentryInv BY Zenon, InitWell, InitGrove DEF DentryInv
<1>2. DentryInv /\ [VfsNext]_vfsVars => DentryInv' BY Zenon, NextDentries
<1>3. DentryInv => DentriesSound
  <2> SUFFICES ASSUME DentryInv PROVE DentriesSound OBVIOUS
  <2>1. Trees(node) BY DEF DentryInv, VfsInv, Types
  <2>2. TreeSound BY <2>1, TreeSoundFrom DEF DentryInv
  <2>3. RefsBalanced BY WellCounted DEF DentryInv
  <2> QED BY <2>2, <2>3 DEF DentriesSound
<1> QED BY <1>1, <1>2, <1>3, PTL DEF VfsSpec
=============================================================================
