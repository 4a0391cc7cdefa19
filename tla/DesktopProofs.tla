--------------------------- MODULE DesktopProofs ---------------------------
(***************************************************************************)
(* Theorems about what a desktop program stands on. Heap: the kernel heap  *)
(* tiles its memory, its counters add up, and it implements Allocator.     *)
(* ProcSnapshot: what a program reads of the others is whole and about     *)
(* processes that are. Input: a program asleep for input has missed none.  *)
(* Loader: code that runs is in its place. WindowServer: the keyboard is   *)
(* with a window that can take it, and the screen will show the windows.   *)
(***************************************************************************)
EXTENDS Heap, Input, Loader, ProcSnapshot, WindowServer, FiniteSetTheorems, NumberLemmas, TLAPS

(* Blocks within the heap, whose sizes can be added up.                      *)
Sized(f) == f \in [DOMAIN f -> Nat] /\ DOMAIN f \subseteq 0 .. End - 1

Summed(f, g) == g = [a \in 0 .. End |-> IF a = 0 THEN 0 ELSE g[a - 1] + Room(f, a - 1)]

LEMMA TotalIs ==
    ASSUME NEW f, Sized(f)
    PROVE  \E g \in [0 .. End -> Nat] :
              g[0] = 0 /\ Total(f) = g[End] /\ \A k \in 1 .. End : g[k] = g[k - 1] + Room(f, k - 1)
<1>0. End \in Nat /\ \A k \in 1 .. End : Room(f, k - 1) \in Nat
  BY HeapAssumption DEF HeapAssumption, Room, Sized
<1> DEFINE F == [p \in Nat \X (1 .. End) |-> p[1] + Room(f, p[2] - 1)]
<1>1. F \in Steps(Nat, End) BY <1>0 DEF Steps
<1>2. \A x \in Nat, k \in 1 .. End : F[<<x, k>>] = x + Room(f, k - 1) OBVIOUS
<1> HIDE DEF F
<1>3. PICK g : Recurs(g, Nat, End, 0, F) BY <1>0, <1>1, Recursion
<1>4. g \in [0 .. End -> Nat] /\ g[0] = 0 /\ \A k \in 1 .. End : g[k] = F[<<g[k - 1], k>>]
  BY <1>3 DEF Recurs
<1>5. \A k \in 1 .. End : g[k] = g[k - 1] + Room(f, k - 1)
  <2>1. \A k \in 1 .. End : k - 1 \in 0 .. End /\ g[k - 1] \in Nat BY <1>0, <1>4
  <2> QED BY <1>2, <1>4, <2>1
<1>6. Summed(f, g)
  <2>1. \A a \in 0 .. End : g[a] = IF a = 0 THEN 0 ELSE g[a - 1] + Room(f, a - 1)
    BY <1>0, <1>4, <1>5
  <2>2. g = [a \in 0 .. End |-> g[a]] BY <1>4
  <2> QED BY Zenon, <2>1, <2>2 DEF Summed
<1> DEFINE u == CHOOSE u : Summed(f, u)
<1>7. Total(f) = u[End] BY Zenon DEF Total, Summed
<1>8. Summed(f, u) BY Zenon, <1>6
<1> HIDE DEF u
<1>9. \A a \in 0 .. End : u[a] = IF a = 0 THEN 0 ELSE u[a - 1] + Room(f, a - 1)
  BY Zenon, <1>8 DEF Summed
<1> DEFINE K == {k \in 0 .. End : u[k] = g[k]}
<1>10. 0 \in K BY <1>0, <1>4, <1>9
<1>11. ASSUME NEW k \in 1 .. End, k - 1 \in K PROVE k \in K
  BY <1>0, <1>5, <1>9, <1>11
<1> HIDE DEF K
<1>12. End \in K BY <1>0, <1>10, <1>11, UpTo
<1> QED BY <1>4, <1>5, <1>7, <1>12 DEF K

LEMMA TotalNat == ASSUME NEW f, Sized(f) PROVE Total(f) \in Nat
<1>1. End \in 0 .. End BY HeapAssumption DEF HeapAssumption
<1> QED BY <1>1, TotalIs

(* The sizes of two functions that differ in one block.                      *)
LEMMA TotalDiffers ==
    ASSUME NEW f, Sized(f), NEW q, Sized(q), NEW a \in 0 .. End - 1,
           \A b \in 0 .. End - 1 : b # a => Room(q, b) = Room(f, b)
    PROVE  Total(q) = Total(f) + Room(q, a) - Room(f, a)
<1>0. End \in Nat /\ \A b \in 0 .. End - 1 : Room(f, b) \in Nat /\ Room(q, b) \in Nat
  BY HeapAssumption DEF HeapAssumption, Room, Sized
<1>1. PICK g \in [0 .. End -> Nat] :
         g[0] = 0 /\ Total(f) = g[End] /\ \A k \in 1 .. End : g[k] = g[k - 1] + Room(f, k - 1)
  BY TotalIs
<1>2. PICK h \in [0 .. End -> Nat] :
         h[0] = 0 /\ Total(q) = h[End] /\ \A k \in 1 .. End : h[k] = h[k - 1] + Room(q, k - 1)
  BY TotalIs
<1> DEFINE d == Room(q, a) - Room(f, a)
           K == {k \in 0 .. End : h[k] = IF k <= a THEN g[k] ELSE g[k] + d}
<1>3. 0 \in K BY <1>0, <1>1, <1>2
<1>4. ASSUME NEW k \in 1 .. End, k - 1 \in K PROVE k \in K
  <2>1. k - 1 \in 0 .. End - 1 /\ k \in 0 .. End /\ k - 1 \in 0 .. End /\ End \in Nat BY <1>0
  <2>2. g[k] = g[k - 1] + Room(f, k - 1) /\ h[k] = h[k - 1] + Room(q, k - 1) BY <1>1, <1>2
  <2>3. g[k - 1] \in Nat /\ h[k - 1] \in Nat BY <2>1
  <2>4. h[k - 1] = IF k - 1 <= a THEN g[k - 1] ELSE g[k - 1] + d BY <1>4
  <2>5. Room(f, k - 1) \in Nat /\ Room(q, k - 1) \in Nat /\ d \in Int /\ a \in Nat /\ k \in Nat BY <1>0, <2>1
  <2>6. CASE k - 1 = a
    <3>1. Room(q, k - 1) = Room(f, k - 1) + d /\ ~(k <= a) /\ k - 1 <= a BY <1>0, <2>5, <2>6
    <3> HIDE DEF d
    <3> QED BY <2>2, <2>3, <2>4, <2>5, <3>1
  <2>7. CASE k - 1 # a
    <3>1. Room(q, k - 1) = Room(f, k - 1) BY <2>1, <2>7
    <3>2. k <= a <=> k - 1 <= a BY <2>5, <2>7
    <3> HIDE DEF d
    <3>3. CASE k <= a BY <2>2, <2>3, <2>4, <2>5, <3>1, <3>2, <3>3
    <3>4. CASE ~(k <= a) BY <2>2, <2>3, <2>4, <2>5, <3>1, <3>2, <3>4
    <3> QED BY <3>3, <3>4
  <2>9. h[k] = IF k <= a THEN g[k] ELSE g[k] + d BY <2>6, <2>7
  <2> HIDE DEF d
  <2> QED BY <2>1, <2>9
<1> HIDE DEF K
<1>5. End \in K
  <2>1. End \in Nat /\ End \in 0 .. End BY <1>0
  <2>2. \A k \in 0 .. End : k \in K BY <2>1, <1>3, <1>4, UpTo
  <2> QED BY <2>1, <2>2
<1>6. ~(End <= a) /\ h[End] = g[End] + d
  <2> HIDE DEF d
  <2> QED BY <1>0, <1>5 DEF K
<1>7. Room(f, a) \in Nat /\ Room(q, a) \in Nat /\ End \in 0 .. End BY <1>0
<1>8. g[End] \in Nat BY <1>7
<1> QED BY <1>1, <1>2, <1>6, <1>7, <1>8

LEMMA WithoutTotal ==
    ASSUME NEW f, Sized(f), NEW a \in 0 .. End - 1
    PROVE  Sized(Without(f, {a})) /\ Total(Without(f, {a})) = Total(f) - Room(f, a)
<1> DEFINE q == Without(f, {a})
<1>1. DOMAIN q = DOMAIN f \ {a} /\ \A b \in DOMAIN q : q[b] = f[b] BY DEF Without
<1>2. q = [b \in DOMAIN q |-> q[b]] BY DEF Without
<1> HIDE DEF q
<1>3. Sized(q) BY <1>1, <1>2 DEF Sized
<1>4. Room(q, a) = 0 /\ \A b \in 0 .. End - 1 : b # a => Room(q, b) = Room(f, b) BY <1>1 DEF Room
<1>5. Total(q) = Total(f) + Room(q, a) - Room(f, a) BY <1>3, <1>4, TotalDiffers
<1>6. Total(f) \in Nat /\ Room(f, a) \in Nat BY TotalNat DEF Room, Sized
<1> QED BY <1>3, <1>4, <1>5, <1>6 DEF q

LEMMA WithTotal ==
    ASSUME NEW f, Sized(f), NEW a \in 0 .. End - 1, NEW v \in Nat
    PROVE  Sized(With(f, a, v)) /\ Total(With(f, a, v)) = Total(f) - Room(f, a) + v
<1> DEFINE q == With(f, a, v)
<1>1. DOMAIN q = DOMAIN f \cup {a} /\ q[a] = v /\ \A b \in DOMAIN f : b # a => q[b] = f[b] BY DEF With
<1>2. q = [b \in DOMAIN q |-> q[b]] BY DEF With
<1> HIDE DEF q
<1>3. Sized(q) BY <1>1, <1>2 DEF Sized
<1>4. Room(q, a) = v /\ \A b \in 0 .. End - 1 : b # a => Room(q, b) = Room(f, b) BY <1>1 DEF Room
<1>5. Total(q) = Total(f) + Room(q, a) - Room(f, a) BY <1>3, <1>4, TotalDiffers
<1>6. Total(f) \in Nat /\ Room(f, a) \in Nat BY TotalNat DEF Room, Sized
<1> QED BY <1>3, <1>4, <1>5, <1>6 DEF q
LEMMA NothingTotal == ASSUME NEW f, f = [b \in DOMAIN f |-> f[b]], DOMAIN f = {} PROVE Total(f) = 0
<1>0. End \in Nat BY HeapAssumption DEF HeapAssumption
<1>1. Sized(f) BY DEF Sized
<1>2. PICK g \in [0 .. End -> Nat] :
         g[0] = 0 /\ Total(f) = g[End] /\ \A k \in 1 .. End : g[k] = g[k - 1] + Room(f, k - 1)
  BY <1>1, TotalIs
<1> DEFINE K == {k \in 0 .. End : g[k] = 0}
<1>3. 0 \in K BY <1>0, <1>2
<1>4. ASSUME NEW k \in 1 .. End, k - 1 \in K PROVE k \in K BY <1>0, <1>2, <1>4 DEF Room
<1> HIDE DEF K
<1>5. End \in Nat /\ End \in 0 .. End BY <1>0
<1>6. \A k \in 0 .. End : k \in K BY <1>3, <1>4, <1>5, UpTo
<1> QED BY <1>2, <1>5, <1>6 DEF K
-----------------------------------------------------------------------------
(* Blocks, each a start and a width, that tile the heap up to w.             *)
Layout(g, w) ==
    /\ g \in [DOMAIN g -> Nat \ {0}] /\ DOMAIN g \subseteq Nat /\ w \in Base .. End
    /\ Base \in DOMAIN g \cup {w}
    /\ \A b \in DOMAIN g : /\ Base <= b /\ b + g[b] <= w
                          /\ b + g[b] \in DOMAIN g \cup {w}
                          /\ \A c \in DOMAIN g : b < c => b + g[b] <= c

Joined(f, g) == [b \in DOMAIN f \cup DOMAIN g |-> IF b \in DOMAIN f THEN f[b] ELSE g[b]]

Widths(f) == f \in [DOMAIN f -> Nat \ {0}]

(* No two blocks of f side by side                                           *)
Apart(f) == \A b, c \in DOMAIN f : b + f[b] # c

(* What is free below the wilderness and what is somebody's fills it.        *)
Adds(h, o) == Total(h.free) + Total(o) = h.wild - Base

(* The heap h and the blocks o that are somebody's.                          *)
Laid(h, o) ==
    /\ h = [free |-> h.free, wild |-> h.wild]
    /\ Widths(h.free) /\ Widths(o) /\ DOMAIN o \cap DOMAIN h.free = {}
    /\ Layout(Joined(o, h.free), h.wild)
    /\ Apart(h.free)
    /\ Adds(h, o)
-----------------------------------------------------------------------------
(* What may be done to a layout.                                             *)
LEMMA DropLast ==
    ASSUME NEW g, NEW w, Layout(g, w), NEW a \in DOMAIN g, a + g[a] = w
    PROVE  Layout(Without(g, {a}), a)
<1> DEFINE k == Without(g, {a})
<1>1. /\ DOMAIN k = DOMAIN g \ {a} /\ \A b \in DOMAIN k : k[b] = g[b]
      /\ k = [b \in DOMAIN k |-> k[b]]
  BY DEF Without
<1> HIDE DEF k
<1>2. k \in [DOMAIN k -> Nat \ {0}] /\ DOMAIN k \subseteq Nat /\ a \in Base .. End
  BY <1>1, HeapAssumption DEF Layout
<1>3. \A b \in DOMAIN k : b < a
  BY <1>1, HeapAssumption DEF Layout
<1>4. \A b \in DOMAIN k : /\ Base <= b /\ b + k[b] <= a
                          /\ b + k[b] \in DOMAIN k \cup {a}
                          /\ \A c \in DOMAIN k : b < c => b + k[b] <= c
  BY <1>1, <1>3, HeapAssumption DEF Layout
<1>5. Base \in DOMAIN k \cup {a} BY <1>1, HeapAssumption DEF Layout
<1> QED BY <1>2, <1>4, <1>5 DEF Layout, k

LEMMA Merge ==
    ASSUME NEW g, NEW w, Layout(g, w), NEW a \in DOMAIN g, a + g[a] \in DOMAIN g
    PROVE  Layout(With(Without(g, {a + g[a]}), a, g[a] + g[a + g[a]]), w)
<1> DEFINE e == a + g[a]
           k == With(Without(g, {e}), a, g[a] + g[e])
<1>1. a \in Nat /\ g[a] \in Nat \ {0} /\ g[e] \in Nat \ {0} /\ e \in Nat /\ a < e
      /\ e = a + g[a] /\ e \in DOMAIN g
  BY DEF Layout
<1>2. /\ DOMAIN k = DOMAIN g \ {e} /\ k[a] = g[a] + g[e]
      /\ \A b \in DOMAIN k : b # a => k[b] = g[b]
      /\ k = [b \in DOMAIN k |-> k[b]]
  BY <1>1 DEF With, Without
<1> HIDE DEF k, e
<1>3. k \in [DOMAIN k -> Nat \ {0}] /\ DOMAIN k \subseteq Nat
  BY <1>1, <1>2 DEF Layout
<1>4. \A b \in DOMAIN k : b # a => b + g[b] # e
  BY <1>1, <1>2 DEF Layout
<1>5. ASSUME NEW b \in DOMAIN k
      PROVE  /\ Base <= b /\ b + k[b] <= w
             /\ b + k[b] \in DOMAIN k \cup {w}
             /\ \A c \in DOMAIN k : b < c => b + k[b] <= c
  <2>1. CASE b = a BY <1>1, <1>2, <2>1, HeapAssumption DEF Layout
  <2>2. CASE b # a BY <1>1, <1>2, <1>4, <2>2, HeapAssumption DEF Layout
  <2> QED BY <2>1, <2>2
<1>6. Base \in DOMAIN k \cup {w} BY <1>1, <1>2, HeapAssumption DEF Layout
<1> QED BY <1>3, <1>5, <1>6 DEF Layout, k, e

LEMMA Split ==
    ASSUME NEW g, NEW w, Layout(g, w), NEW a \in DOMAIN g, NEW n \in 1 .. g[a] - 1
    PROVE  /\ a + n \notin DOMAIN g
           /\ Layout(With(With(g, a, n), a + n, g[a] - n), w)
<1> DEFINE e == a + n
           k == With(With(g, a, n), e, g[a] - n)
<1>1. /\ a \in Nat /\ g[a] \in Nat \ {0} /\ n \in Nat \ {0} /\ g[a] - n \in Nat \ {0}
      /\ e \in Nat /\ a < e /\ e = a + n /\ e + (g[a] - n) = a + g[a]
  BY DEF Layout
<1>2. e \notin DOMAIN g BY <1>1 DEF Layout
<1>3. /\ DOMAIN k = DOMAIN g \cup {e} /\ k[a] = n /\ k[e] = g[a] - n
      /\ \A b \in DOMAIN g : b # a => k[b] = g[b]
      /\ k = [b \in DOMAIN k |-> k[b]]
  BY <1>1, <1>2 DEF With
<1> HIDE DEF k, e
<1>4. k \in [DOMAIN k -> Nat \ {0}] /\ DOMAIN k \subseteq Nat
  BY <1>1, <1>3 DEF Layout
<1>5. ASSUME NEW b \in DOMAIN k
      PROVE  /\ Base <= b /\ b + k[b] <= w
             /\ b + k[b] \in DOMAIN k \cup {w}
             /\ \A c \in DOMAIN k : b < c => b + k[b] <= c
  <2>1. CASE b = a BY <1>1, <1>3, <2>1, HeapAssumption DEF Layout
  <2>2. CASE b = e BY <1>1, <1>3, <2>2, HeapAssumption DEF Layout
  <2>3. CASE b \in DOMAIN g /\ b # a
    <3>1. b + g[b] <= a \/ a + g[a] <= b BY <1>1, <2>3 DEF Layout
    <3> QED BY <1>1, <1>3, <2>3, <3>1, HeapAssumption DEF Layout
  <2> QED BY <1>3, <2>1, <2>2, <2>3
<1>6. Base \in DOMAIN k \cup {w} BY <1>3, HeapAssumption DEF Layout
<1> QED BY <1>2, <1>4, <1>5, <1>6 DEF Layout, k, e

LEMMA Grow ==
    ASSUME NEW g, NEW w, Layout(g, w), NEW n \in Nat \ {0}, w + n <= End
    PROVE  w \notin DOMAIN g /\ Layout(With(g, w, n), w + n)
<1> DEFINE k == With(g, w, n)
<1>1. w \in Nat /\ w \notin DOMAIN g BY HeapAssumption DEF Layout
<1>2. /\ DOMAIN k = DOMAIN g \cup {w} /\ k[w] = n /\ \A b \in DOMAIN g : k[b] = g[b]
      /\ k = [b \in DOMAIN k |-> k[b]]
  BY <1>1 DEF With
<1> HIDE DEF k
<1>3. k \in [DOMAIN k -> Nat \ {0}] /\ DOMAIN k \subseteq Nat /\ w + n \in Base .. End
  BY <1>1, <1>2, HeapAssumption DEF Layout
<1>4. ASSUME NEW b \in DOMAIN k
      PROVE  /\ Base <= b /\ b + k[b] <= w + n
             /\ b + k[b] \in DOMAIN k \cup {w + n}
             /\ \A c \in DOMAIN k : b < c => b + k[b] <= c
  <2>1. CASE b = w BY <1>1, <1>2, <2>1, HeapAssumption DEF Layout
  <2>2. CASE b # w BY <1>1, <1>2, <2>2, HeapAssumption DEF Layout
  <2> QED BY <2>1, <2>2
<1>5. Base \in DOMAIN k \cup {w + n} BY <1>2, HeapAssumption DEF Layout
<1> QED BY <1>1, <1>3, <1>4, <1>5 DEF Layout, k
-----------------------------------------------------------------------------
(* What is left of a function; when two functions are the same.             *)
LEMMA WithoutAt ==
    ASSUME NEW f, NEW S
    PROVE  /\ DOMAIN Without(f, S) = DOMAIN f \ S
           /\ \A b \in DOMAIN f \ S : Without(f, S)[b] = f[b]
           /\ Without(f, S) = [b \in DOMAIN Without(f, S) |-> Without(f, S)[b]]
BY DEF Without

LEMMA SameFunction ==
    ASSUME NEW f, NEW g, f = [b \in DOMAIN f |-> f[b]], g = [b \in DOMAIN g |-> g[b]],
           DOMAIN f = DOMAIN g, \A b \in DOMAIN f : f[b] = g[b]
    PROVE  f = g
OBVIOUS

LEMMA LaidSized ==
    ASSUME NEW h, NEW o, Laid(h, o)
    PROVE  /\ Sized(h.free) /\ Sized(o) /\ h.wild \in Base .. End
           /\ \A b \in DOMAIN o : b \notin DOMAIN h.free /\ b + o[b] <= h.wild
<1> DEFINE f == h.free
           g == Joined(o, f)
<1>1. Widths(f) /\ Widths(o) /\ Layout(g, h.wild) /\ DOMAIN o \cap DOMAIN f = {} BY DEF Laid
<1>2. /\ DOMAIN g = DOMAIN o \cup DOMAIN f /\ \A b \in DOMAIN o : g[b] = o[b]
      /\ \A b \in DOMAIN f : g[b] = f[b]
  BY <1>1 DEF Joined
<1> HIDE DEF g, f
<1>3. Base \in Nat /\ End \in Nat /\ h.wild \in Base .. End BY <1>1, HeapAssumption DEF HeapAssumption, Layout
<1>4. \A b \in DOMAIN g : b \in Nat /\ g[b] \in Nat \ {0} /\ b + g[b] <= h.wild BY <1>1 DEF Layout
<1>5. \A b \in DOMAIN g : b \in 0 .. End - 1 BY <1>3, <1>4
<1>6. f \in [DOMAIN f -> Nat] /\ o \in [DOMAIN o -> Nat] BY <1>1 DEF Widths
<1>7. Sized(f) /\ Sized(o) BY <1>2, <1>5, <1>6 DEF Sized
<1>8. \A b \in DOMAIN o : b \notin DOMAIN f /\ b + o[b] <= h.wild BY <1>1, <1>2, <1>4
<1> QED BY <1>3, <1>7, <1>8 DEF f

(* Nothing is lost in freelist_insert, whichever way it merges.               *)
LEMMA InsertAdds ==
    ASSUME NEW h, NEW o, Laid(h, o), NEW a \in DOMAIN o
    PROVE  Adds(Insert(h, a, o[a]), Without(o, {a}))
<1> DEFINE f == h.free
           w == h.wild
           n == o[a]
           e == a + n
           m == IF e \in DOMAIN f THEN n + f[e] ELSE n
           rest == Without(f, {e})
           before == {b \in DOMAIN f : b < a /\ b + f[b] = a}
           r == Insert(h, a, n)
<1>1. /\ Sized(f) /\ Sized(o) /\ w \in Base .. End /\ a \notin DOMAIN f /\ e <= w
      /\ Base \in Nat /\ End \in Nat
  BY LaidSized, HeapAssumption DEF HeapAssumption
<1>2. h = [free |-> f, wild |-> w] /\ Total(f) + Total(o) = w - Base BY DEF Laid, Adds
<1>3. a \in 0 .. End - 1 /\ n \in Nat /\ e \in Nat /\ Room(o, a) = n /\ Room(f, a) = 0
  BY <1>1 DEF Sized, Room
<1>4. Total(Without(o, {a})) = Total(o) - n BY <1>1, <1>3, WithoutTotal
<1>5. Total(f) \in Nat /\ Total(o) \in Nat /\ w \in Nat /\ Base \in Nat BY <1>1, TotalNat
<1>6. r = CASE e = w -> [h EXCEPT !.wild = a]
            [] e # w /\ a + m = w -> [free |-> rest, wild |-> a]
            [] a + m # w /\ before = {} -> [h EXCEPT !.free = With(rest, a, m)]
            [] OTHER -> LET q == CHOOSE q \in before : TRUE
                        IN  [h EXCEPT !.free = With(rest, q, f[q] + m)]
  BY DEF Insert
<1>7. m = n + Room(f, e) /\ Room(f, e) \in Nat BY <1>1, <1>3 DEF Room, Sized
<1>8. SUFFICES r.wild - Base = Total(r.free) + (Total(o) - n) BY <1>4 DEF Adds
<1>9. CASE e = w
  <2>1. e \notin DOMAIN f
    <3>1. Layout(Joined(o, f), w) BY DEF Laid
    <3>2. DOMAIN Joined(o, f) = DOMAIN o \cup DOMAIN f BY DEF Joined
    <3> DEFINE g == Joined(o, f)
    <3> HIDE DEF g
    <3>3. \A b \in DOMAIN g : b \in Nat /\ g[b] \in Nat \ {0} /\ b + g[b] <= w
      BY <3>1 DEF Layout, g
    <3>4. \A b \in DOMAIN g : b # w BY <1>5, <3>3
    <3> QED BY <1>9, <3>2, <3>4 DEF g
  <2>2. m = n BY <2>1
  <2>3. r.free = f /\ r.wild = a BY <1>2, <1>6, <1>9, <2>2
  <2> HIDE DEF r, f, w, n
  <2> QED BY <1>2, <1>3, <1>5, <1>9, <2>3
<1>10. CASE e # w
  <2>1. e \in 0 .. End - 1 BY <1>1, <1>3, <1>10
  <2>2. Sized(rest) /\ Total(rest) = Total(f) - Room(f, e) BY <1>1, <2>1, WithoutTotal
  <2>3. DOMAIN rest = DOMAIN f \ {e} /\ \A b \in DOMAIN rest : rest[b] = f[b] BY DEF Without
  <2>4. CASE a + m = w
    <3>1. r.free = rest /\ r.wild = a BY <1>6, <1>10, <2>4
    <3> HIDE DEF r, f, w, n, m, e, rest
    <3> QED BY <1>2, <1>3, <1>5, <1>7, <2>2, <2>4, <3>1
  <2>5. CASE a + m # w /\ before = {}
    <3>1. r.free = With(rest, a, m) /\ r.wild = w BY <1>2, <1>6, <1>10, <2>5
    <3>2. Room(rest, a) = 0 BY <1>1, <2>3 DEF Room
    <3> HIDE DEF r, f, w, n, m, e, rest
    <3>3. m \in Nat BY <1>3, <1>7
    <3>4. Total(With(rest, a, m)) = Total(rest) - Room(rest, a) + m BY <1>3, <2>2, <3>3, WithTotal
    <3> QED BY <1>2, <1>3, <1>5, <1>7, <2>2, <3>1, <3>2, <3>3, <3>4
  <2>6. CASE a + m # w /\ before # {}
    <3> DEFINE q == CHOOSE q \in before : TRUE
    <3>1. q \in DOMAIN f /\ q < a BY <2>6
    <3>2. r.free = With(rest, q, f[q] + m) /\ r.wild = w BY <1>2, <1>6, <1>10, <2>6
    <3> HIDE DEF q
    <3>3. q \in 0 .. End - 1 /\ f[q] \in Nat /\ q # e BY <1>1, <1>3, <3>1 DEF Sized
    <3>4. Room(rest, q) = f[q] BY <2>3, <3>1, <3>3 DEF Room
    <3> HIDE DEF r, f, w, n, m, e, rest
    <3>5. m \in Nat /\ f[q] + m \in Nat BY <1>3, <1>7, <3>3
    <3>6. Total(With(rest, q, f[q] + m)) = Total(rest) - Room(rest, q) + (f[q] + m)
      BY <2>2, <3>3, <3>5, WithTotal
    <3> QED BY <1>2, <1>3, <1>5, <1>7, <2>2, <3>2, <3>3, <3>4, <3>5, <3>6
  <2> QED BY <2>4, <2>5, <2>6
<1> QED BY <1>9, <1>10

(* freelist_insert of a block that is somebody's gives it back.              *)
LEMMA InsertLaid ==
    ASSUME NEW h, NEW o, Laid(h, o), NEW a \in DOMAIN o
    PROVE  Laid(Insert(h, a, o[a]), Without(o, {a}))
<1> DEFINE f == h.free
           w == h.wild
           n == o[a]
           g == Joined(o, f)
           p == Without(o, {a})
           e == a + n
           m == IF e \in DOMAIN f THEN n + f[e] ELSE n
           rest == Without(f, {e})
           before == {b \in DOMAIN f : b < a /\ b + f[b] = a}
           r == Insert(h, a, n)
<1>1. /\ h = [free |-> f, wild |-> w] /\ Widths(f) /\ Widths(o) /\ DOMAIN o \cap DOMAIN f = {}
      /\ Layout(g, w) /\ Apart(f)
  BY DEF Laid
<1>2. /\ DOMAIN p = DOMAIN o \ {a} /\ \A b \in DOMAIN p : p[b] = o[b]
      /\ Widths(p) /\ p = [b \in DOMAIN p |-> p[b]]
  BY <1>1 DEF Without, Widths
<1>3. /\ DOMAIN rest = DOMAIN f \ {e} /\ \A b \in DOMAIN rest : rest[b] = f[b]
      /\ Widths(rest) /\ rest = [b \in DOMAIN rest |-> rest[b]]
  BY <1>1 DEF Without, Widths
<1>4. /\ DOMAIN g = DOMAIN o \cup DOMAIN f
      /\ \A b \in DOMAIN o : g[b] = o[b]
      /\ \A b \in DOMAIN f : g[b] = f[b]
      /\ g = [b \in DOMAIN g |-> g[b]]
  BY <1>1 DEF Joined
<1>5. /\ a \in DOMAIN g /\ g[a] = n /\ a \in Nat /\ n \in Nat \ {0} /\ e \in Nat /\ a < e
      /\ DOMAIN g \subseteq Nat /\ a \notin DOMAIN f /\ w \in Nat
  BY <1>1, <1>4, HeapAssumption DEF Layout
<1>6. r = CASE e = w -> [h EXCEPT !.wild = a]
            [] e # w /\ a + m = w -> [free |-> rest, wild |-> a]
            [] a + m # w /\ before = {} -> [h EXCEPT !.free = With(rest, a, m)]
            [] OTHER -> LET q == CHOOSE q \in before : TRUE
                        IN  [h EXCEPT !.free = With(rest, q, f[q] + m)]
  BY DEF Insert
<1>7. m \in Nat \ {0} BY <1>1, <1>5 DEF Widths
(* The blocks with the one at e merged into the one at a.                    *)
<1> DEFINE mg == IF e \in DOMAIN f THEN With(Without(g, {e}), a, m) ELSE g
<1>8. /\ Layout(mg, w) /\ DOMAIN mg = DOMAIN g \ (DOMAIN f \cap {e}) /\ mg[a] = m
      /\ \A b \in DOMAIN mg : b # a => mg[b] = g[b]
      /\ mg = [b \in DOMAIN mg |-> mg[b]]
  <2>1. CASE e \in DOMAIN f
    <3>1. m = g[a] + g[a + g[a]] /\ e = a + g[a] /\ e \in DOMAIN g BY <1>4, <1>5, <2>1
    <3>2. Layout(With(Without(g, {e}), a, m), w) BY <1>1, <1>5, <3>1, Merge
    <3> QED BY <1>4, <1>5, <2>1, <3>2 DEF With, Without
  <2>2. CASE e \notin DOMAIN f BY <1>1, <1>4, <1>5, <2>2
  <2> QED BY <2>1, <2>2
<1>9. a + m \notin DOMAIN f BY <1>1, <1>4, <1>5 DEF Apart, Layout
<1>14. Adds(r, p) BY InsertAdds
<1> HIDE DEF g, p, mg, rest, before, m, r
<1>10. CASE e = w
  <2>1. e \notin DOMAIN f BY <1>1, <1>4, <1>5, <1>10 DEF Layout
  <2>2. r.free = f /\ r.wild = a /\ r = [free |-> r.free, wild |-> r.wild]
    <3>1. a + m = w BY <1>10, <2>1 DEF m
    <3> QED BY <1>1, <1>6, <1>10, <3>1
  <2>3. Layout(Without(g, {a}), a) BY <1>1, <1>5, <1>10, DropLast
  <2>4. Joined(p, f) = Without(g, {a})
    <3> DEFINE z == Without(g, {a})
    <3>1. DOMAIN p \cap DOMAIN f = {} BY <1>1, <1>2
    <3>2. /\ DOMAIN Joined(p, f) = DOMAIN p \cup DOMAIN f
          /\ \A b \in DOMAIN p : Joined(p, f)[b] = p[b]
          /\ \A b \in DOMAIN f : Joined(p, f)[b] = f[b]
          /\ Joined(p, f) = [b \in DOMAIN Joined(p, f) |-> Joined(p, f)[b]]
      BY <3>1 DEF Joined
    <3>3. /\ DOMAIN z = DOMAIN g \ {a} /\ \A b \in DOMAIN g \ {a} : z[b] = g[b]
          /\ z = [b \in DOMAIN z |-> z[b]]
      BY WithoutAt, Zenon
    <3> HIDE DEF z
    <3>4. DOMAIN p \cup DOMAIN f = DOMAIN g \ {a} BY <1>1, <1>2, <1>4, <1>5
    <3>5. \A b \in DOMAIN g \ {a} : Joined(p, f)[b] = z[b]
      BY <1>2, <1>4, <3>2, <3>3, <3>4
    <3>6. Joined(p, f) = z BY <3>2, <3>3, <3>4, <3>5, SameFunction
    <3> QED BY <3>6 DEF z
  <2> QED BY <1>1, <1>2, <2>2, <2>3, <2>4, <1>14 DEF Laid, r, p
<1>11. CASE e # w /\ a + m = w
  <2>1. r.free = rest /\ r.wild = a /\ r = [free |-> r.free, wild |-> r.wild]
    BY <1>1, <1>6, <1>11
  <2>2. Layout(Without(mg, {a}), a) BY <1>5, <1>8, <1>11, DropLast
  <2>3. Joined(p, rest) = Without(mg, {a})
    <3>1. /\ DOMAIN Joined(p, rest) = DOMAIN p \cup DOMAIN rest
          /\ \A b \in DOMAIN p : Joined(p, rest)[b] = p[b]
          /\ \A b \in DOMAIN rest : Joined(p, rest)[b] = rest[b]
          /\ Joined(p, rest) = [b \in DOMAIN Joined(p, rest) |-> Joined(p, rest)[b]]
      <4>1. DOMAIN p \cap DOMAIN rest = {} BY <1>1, <1>2, <1>3
      <4> QED BY <4>1 DEF Joined
    <3>2. DOMAIN p \cup DOMAIN rest = DOMAIN mg \ {a}
      BY <1>1, <1>2, <1>3, <1>4, <1>5, <1>8
    <3>3. \A b \in DOMAIN mg \ {a} : Joined(p, rest)[b] = mg[b]
      BY <1>2, <1>3, <1>4, <1>8, <3>1, <3>2
    <3> DEFINE z == Without(mg, {a})
    <3>4. /\ DOMAIN z = DOMAIN mg \ {a} /\ \A b \in DOMAIN mg \ {a} : z[b] = mg[b]
          /\ z = [b \in DOMAIN z |-> z[b]]
      BY WithoutAt, Zenon
    <3> HIDE DEF z
    <3>5. Joined(p, rest) = z BY <3>1, <3>2, <3>3, <3>4, SameFunction
    <3> QED BY <3>5 DEF z
  <2>4. Apart(rest) BY <1>1, <1>3 DEF Apart
  <2> QED BY <1>1, <1>2, <1>3, <2>1, <2>2, <2>3, <2>4, <1>14 DEF Laid, r, p
<1>12. CASE a + m # w /\ before = {} /\ e # w
  <2> DEFINE k == With(rest, a, m)
  <2>1. /\ DOMAIN k = DOMAIN rest \cup {a} /\ k[a] = m
        /\ \A b \in DOMAIN rest : k[b] = f[b]
        /\ k = [b \in DOMAIN k |-> k[b]]
    BY <1>3, <1>5 DEF With
  <2>2. r.free = k /\ r.wild = w /\ r = [free |-> r.free, wild |-> r.wild]
    BY <1>1, <1>6, <1>12
  <2> HIDE DEF k
  <2>4. Widths(k) BY <1>1, <1>3, <1>7, <2>1 DEF Widths
  <2>3. Joined(p, k) = mg
    <3>1. DOMAIN p \cap DOMAIN k = {} BY <1>1, <1>2, <1>3, <2>1
    <3>2. /\ DOMAIN Joined(p, k) = DOMAIN p \cup DOMAIN k
          /\ \A b \in DOMAIN p : Joined(p, k)[b] = p[b]
          /\ \A b \in DOMAIN k : Joined(p, k)[b] = k[b]
          /\ Joined(p, k) = [b \in DOMAIN Joined(p, k) |-> Joined(p, k)[b]]
      BY <3>1 DEF Joined
    <3>3. DOMAIN p \cup DOMAIN k = DOMAIN mg
      BY <1>1, <1>2, <1>3, <1>4, <1>5, <1>8, <2>1
    <3>4. \A b \in DOMAIN mg : Joined(p, k)[b] = mg[b]
      BY <1>2, <1>3, <1>4, <1>8, <2>1, <3>2, <3>3
    <3> QED BY <1>8, <3>2, <3>3, <3>4, SameFunction
  <2>5. Apart(k)
    <3> SUFFICES ASSUME NEW b \in DOMAIN k, NEW c \in DOMAIN k PROVE b + k[b] # c BY DEF Apart
    <3>1. CASE b = a BY <1>3, <1>5, <1>7, <1>9, <2>1, <3>1
    <3>2. CASE b # a /\ c # a BY <1>1, <1>3, <2>1, <3>2 DEF Apart
    <3>3. CASE b # a /\ c = a
      <4>1. b \in DOMAIN f /\ k[b] = f[b] /\ f[b] \in Nat \ {0} /\ b \in Nat
        BY <1>1, <1>3, <1>4, <1>5, <2>1, <3>3 DEF Widths
      <4> QED BY <1>12, <3>3, <4>1 DEF before
    <3> QED BY <3>1, <3>2, <3>3
  <2> QED BY <1>1, <1>2, <1>3, <1>8, <2>1, <2>2, <2>3, <2>4, <2>5, <1>14 DEF Laid, r, p
<1>13. CASE a + m # w /\ before # {} /\ e # w
  <2> DEFINE q == CHOOSE q \in before : TRUE
             k == With(rest, q, f[q] + m)
  <2>1. q \in DOMAIN f /\ q < a /\ q + f[q] = a /\ q \in Nat /\ f[q] \in Nat \ {0}
    BY <1>1, <1>4, <1>5, <1>13 DEF before, Widths
  <2>2. r.free = k /\ r.wild = w /\ r = [free |-> r.free, wild |-> r.wild]
    BY <1>1, <1>6, <1>13
  <2> HIDE DEF q
  <2>3. q # e /\ q \in DOMAIN rest BY <1>3, <1>5, <2>1
  <2>4. /\ DOMAIN k = DOMAIN rest /\ k[q] = f[q] + m
        /\ \A b \in DOMAIN rest : b # q => k[b] = f[b]
        /\ k = [b \in DOMAIN k |-> k[b]]
    BY <1>3, <2>3 DEF With
  <2> HIDE DEF k
  <2>5. q \in DOMAIN mg /\ mg[q] = f[q] /\ q + mg[q] = a /\ a \in DOMAIN mg
    BY <1>4, <1>5, <1>8, <2>1, <2>3
  <2>6. Layout(With(Without(mg, {a}), q, f[q] + m), w)
    BY <1>8, <2>5, Merge
  <2>8. Widths(k) BY <1>1, <1>3, <1>7, <2>1, <2>4 DEF Widths
  <2>7. Joined(p, k) = With(Without(mg, {a}), q, f[q] + m)
    <3> DEFINE z == With(Without(mg, {a}), q, f[q] + m)
    <3>1. DOMAIN p \cap DOMAIN k = {} BY <1>1, <1>2, <1>3, <2>4
    <3>2. /\ DOMAIN Joined(p, k) = DOMAIN p \cup DOMAIN k
          /\ \A b \in DOMAIN p : Joined(p, k)[b] = p[b]
          /\ \A b \in DOMAIN k : Joined(p, k)[b] = k[b]
          /\ Joined(p, k) = [b \in DOMAIN Joined(p, k) |-> Joined(p, k)[b]]
      BY <3>1 DEF Joined
    <3>3. DOMAIN p \cup DOMAIN k = DOMAIN mg \ {a}
      BY <1>1, <1>2, <1>3, <1>4, <1>5, <1>8, <2>4
    <3>4. /\ DOMAIN z = DOMAIN mg \ {a} /\ z[q] = f[q] + m
          /\ \A b \in DOMAIN mg \ {a} : b # q => z[b] = mg[b]
          /\ z = [b \in DOMAIN z |-> z[b]]
      <4> DEFINE y == Without(mg, {a})
      <4>1. DOMAIN y = DOMAIN mg \ {a} /\ \A b \in DOMAIN mg \ {a} : y[b] = mg[b]
        BY WithoutAt, Zenon
      <4> HIDE DEF y
      <4>2. /\ DOMAIN With(y, q, f[q] + m) = DOMAIN y \cup {q}
            /\ With(y, q, f[q] + m)[q] = f[q] + m
            /\ \A b \in DOMAIN y : b # q => With(y, q, f[q] + m)[b] = y[b]
            /\ With(y, q, f[q] + m) = [b \in DOMAIN With(y, q, f[q] + m) |-> With(y, q, f[q] + m)[b]]
        BY DEF With
      <4>3. z = With(y, q, f[q] + m) BY DEF y
      <4>4. q # a BY <2>1, <1>5
      <4> HIDE DEF z
      <4> QED BY <2>5, <4>1, <4>2, <4>3, <4>4
    <3> HIDE DEF z
    <3>5. \A b \in DOMAIN mg \ {a} : Joined(p, k)[b] = z[b]
      BY <1>2, <1>3, <1>4, <1>8, <2>3, <2>4, <3>2, <3>3, <3>4
    <3>6. Joined(p, k) = z BY <3>2, <3>3, <3>4, <3>5, SameFunction
    <3> QED BY <3>6 DEF z
  <2>9. Apart(k)
    <3> SUFFICES ASSUME NEW b \in DOMAIN k, NEW c \in DOMAIN k PROVE b + k[b] # c BY DEF Apart
    <3>1. CASE b = q
      <4>1. b + k[b] = a + m BY <1>7, <2>1, <2>4, <3>1
      <4> QED BY <1>3, <1>9, <2>4, <4>1
    <3>2. CASE b # q BY <1>1, <1>3, <2>3, <2>4, <3>2 DEF Apart
    <3> QED BY <3>1, <3>2
  <2> QED BY <1>1, <1>2, <2>1, <2>2, <2>3, <2>4, <2>6, <2>7, <2>8, <2>9, <1>3, <1>14 DEF Laid, r, p
<1> QED BY <1>10, <1>11, <1>12, <1>13 DEF r, p

LEMMA WithWith ==
    ASSUME NEW o, NEW a, NEW x, NEW y
    PROVE  With(With(o, a, x), a, y) = With(o, a, y)
<1>1. DOMAIN With(o, a, x) = DOMAIN o \cup {a} BY DEF With
<1>2. \A b \in DOMAIN o \cup {a} : b # a => With(o, a, x)[b] = o[b] BY DEF With
<1>3. (DOMAIN o \cup {a}) \cup {a} = DOMAIN o \cup {a} OBVIOUS
<1> DEFINE k == With(o, a, x)
<1> HIDE DEF k
<1>4. DOMAIN k \cup {a} = DOMAIN o \cup {a} BY <1>1, <1>3 DEF k
<1>5. \A b \in DOMAIN o \cup {a} : (IF b = a THEN y ELSE k[b]) = (IF b = a THEN y ELSE o[b])
  BY <1>2 DEF k
<1> QED BY <1>4, <1>5 DEF With, k

LEMMA WithoutWith ==
    ASSUME NEW z, z = [b \in DOMAIN z |-> z[b]], NEW e, e \notin DOMAIN z, NEW v
    PROVE  Without(With(z, e, v), {e}) = z
<1> DEFINE k == With(z, e, v)
<1>1. DOMAIN k = DOMAIN z \cup {e} /\ \A b \in DOMAIN z : k[b] = z[b] BY DEF With
<1> HIDE DEF k
<1>2. Without(k, {e}) = [b \in DOMAIN z |-> k[b]] BY <1>1 DEF Without
<1>3. [b \in DOMAIN z |-> k[b]] = [b \in DOMAIN z |-> z[b]] BY <1>1
<1> QED BY <1>2, <1>3 DEF k

(* Somebody's block becomes two.                                             *)
LEMMA SplitLaid ==
    ASSUME NEW h, NEW o, Laid(h, o), NEW a \in DOMAIN o, NEW n \in 1 .. o[a] - 1
    PROVE  /\ a + n \notin DOMAIN o
           /\ Laid(h, With(With(o, a, n), a + n, o[a] - n))
<1> DEFINE f == h.free
           g == Joined(o, f)
           e == a + n
           p == With(With(o, a, n), e, o[a] - n)
           k == With(With(g, a, n), e, o[a] - n)
<1>1. /\ Widths(f) /\ Widths(o) /\ DOMAIN o \cap DOMAIN f = {} /\ Layout(g, h.wild)
  BY DEF Laid
<1>2. /\ DOMAIN g = DOMAIN o \cup DOMAIN f /\ \A b \in DOMAIN o : g[b] = o[b]
      /\ \A b \in DOMAIN f : g[b] = f[b]
  BY <1>1 DEF Joined
<1>3. a \in DOMAIN g /\ g[a] = o[a] /\ a \in Nat /\ o[a] \in Nat \ {0} /\ n \in Nat \ {0}
      /\ o[a] - n \in Nat \ {0}
  BY <1>1, <1>2 DEF Widths, Layout
<1> HIDE DEF g
<1>4. e \notin DOMAIN g /\ Layout(k, h.wild) BY <1>1, <1>3, Split
<1>5. /\ DOMAIN p = DOMAIN o \cup {e} /\ p[a] = n /\ p[e] = o[a] - n
      /\ \A b \in DOMAIN o : b # a => p[b] = o[b]
      /\ p = [b \in DOMAIN p |-> p[b]]
  BY <1>2, <1>4 DEF With
<1>6. /\ DOMAIN k = DOMAIN g \cup {e} /\ k[a] = n /\ k[e] = o[a] - n
      /\ \A b \in DOMAIN g : b # a => k[b] = g[b]
      /\ k = [b \in DOMAIN k |-> k[b]]
  BY <1>3, <1>4 DEF With
<1>11. Adds(h, p)
  <2>1. Sized(o) /\ a \in 0 .. End - 1 /\ Room(o, a) = o[a] BY LaidSized DEF Sized, Room
  <2> DEFINE q == With(o, a, n)
  <2>2. Sized(q) /\ Total(q) = Total(o) - o[a] + n BY <1>3, <2>1, WithTotal
  <2>3. Room(q, e) = 0
    <3>1. DOMAIN q = DOMAIN o \cup {a} /\ e # a BY <1>3 DEF With
    <3> HIDE DEF q
    <3> QED BY <1>2, <1>4, <3>1 DEF Room
  <2>4. e \in 0 .. End - 1
    <3>1. a + o[a] <= h.wild /\ h.wild \in 0 .. End BY LaidSized, HeapAssumption DEF HeapAssumption
    <3>2. End \in Nat BY HeapAssumption DEF HeapAssumption
    <3> QED BY <1>3, <3>1, <3>2
  <2>5. Total(p) = Total(q) - Room(q, e) + (o[a] - n)
    <3> HIDE DEF q, e
    <3>1. Total(With(q, e, o[a] - n)) = Total(q) - Room(q, e) + (o[a] - n) BY <1>3, <2>2, <2>4, WithTotal
    <3> QED BY <3>1 DEF q
  <2>6. Total(o) \in Nat BY <2>1, TotalNat
  <2>7. Total(h.free) + Total(o) = h.wild - Base BY DEF Laid, Adds
  <2> HIDE DEF q, e, p, f
  <2>8. Total(p) = Total(o) BY <1>3, <2>2, <2>3, <2>5, <2>6
  <2> QED BY <2>7, <2>8 DEF Adds
<1> HIDE DEF k, p, e
<1>7. Widths(p) BY <1>1, <1>3, <1>5 DEF Widths
<1>8. DOMAIN p \cap DOMAIN f = {} BY <1>1, <1>2, <1>4, <1>5
<1>9. Joined(p, f) = k
  <2>1. /\ DOMAIN Joined(p, f) = DOMAIN p \cup DOMAIN f
        /\ \A b \in DOMAIN p : Joined(p, f)[b] = p[b]
        /\ \A b \in DOMAIN f : Joined(p, f)[b] = f[b]
        /\ Joined(p, f) = [b \in DOMAIN Joined(p, f) |-> Joined(p, f)[b]]
    BY <1>8 DEF Joined
  <2>2. DOMAIN p \cup DOMAIN f = DOMAIN k BY <1>2, <1>5, <1>6
  <2>3. \A b \in DOMAIN k : Joined(p, f)[b] = k[b]
    BY <1>1, <1>2, <1>3, <1>4, <1>5, <1>6, <1>8, <2>1, <2>2
  <2> QED BY <1>6, <2>1, <2>2, <2>3, SameFunction
<1>10. Laid(h, p) BY <1>1, <1>4, <1>7, <1>8, <1>9, <1>11 DEF Laid
<1> QED BY <1>2, <1>4, <1>10 DEF e, p

(* The tail or the head of somebody's block is given back.                    *)
LEMMA TailLaid ==
    ASSUME NEW h, NEW o, o = [c \in DOMAIN o |-> o[c]], NEW a, a \notin DOMAIN o, NEW m,
           Laid(h, With(o, a, m)), NEW n \in 1 .. m - 1
    PROVE  Laid(Insert(h, a + n, m - n), With(o, a, n))
<1> DEFINE o1 == With(o, a, m)
           o2 == With(With(o1, a, n), a + n, m - n)
<1>1. o1[a] = m /\ a \in DOMAIN o1 /\ DOMAIN o1 = DOMAIN o \cup {a} BY DEF With
<1> HIDE DEF o1
<1>2. n \in 1 .. o1[a] - 1 /\ Laid(h, o1) BY <1>1 DEF o1
<1>3. a + n \notin DOMAIN o1 /\ Laid(h, o2) BY <1>1, <1>2, SplitLaid
<1>4. a + n \in DOMAIN o2 /\ o2[a + n] = m - n BY DEF With
<1> HIDE DEF o2
<1>5. Laid(Insert(h, a + n, m - n), Without(o2, {a + n}))
  <2>1. Laid(Insert(h, a + n, o2[a + n]), Without(o2, {a + n})) BY <1>3, <1>4, InsertLaid
  <2> QED BY <1>4, <2>1
<1>6. With(o1, a, n) = With(o, a, n) BY WithWith DEF o1
<1>7. DOMAIN With(o, a, n) = DOMAIN o \cup {a} /\
      With(o, a, n) = [c \in DOMAIN With(o, a, n) |-> With(o, a, n)[c]]
  BY DEF With
<1>8. a + n \notin DOMAIN With(o, a, n) BY <1>1, <1>3, <1>7
<1>9. Without(o2, {a + n}) = With(o, a, n) BY <1>6, <1>7, <1>8, WithoutWith DEF o2
<1> QED BY <1>5, <1>9

LEMMA HeadLaid ==
    ASSUME NEW h, NEW o, o = [c \in DOMAIN o |-> o[c]], NEW a, a \notin DOMAIN o, NEW m,
           Laid(h, With(o, a, m)), NEW n \in 1 .. m - 1
    PROVE  a + n \notin DOMAIN o /\ Laid(Insert(h, a, n), With(o, a + n, m - n))
<1> DEFINE o1 == With(o, a, m)
           o2 == With(With(o1, a, n), a + n, m - n)
           k == With(o, a + n, m - n)
<1>1. /\ o1[a] = m /\ DOMAIN o1 = DOMAIN o \cup {a} /\ \A c \in DOMAIN o : o1[c] = o[c]
  BY DEF With
<1> HIDE DEF o1
<1>2. n \in 1 .. o1[a] - 1 /\ Laid(h, o1) /\ a \in DOMAIN o1 BY <1>1 DEF o1
<1>3. a + n \notin DOMAIN o1 /\ Laid(h, o2) BY <1>1, <1>2, SplitLaid
<1>4. /\ DOMAIN o2 = DOMAIN o1 \cup {a + n} /\ o2[a] = n /\ o2[a + n] = m - n
      /\ \A c \in DOMAIN o : o2[c] = o[c]
  BY <1>1, <1>2, <1>3 DEF With
<1>5. /\ DOMAIN k = DOMAIN o \cup {a + n} /\ k[a + n] = m - n
      /\ \A c \in DOMAIN o : k[c] = o[c]
  BY <1>1, <1>3 DEF With
<1> HIDE DEF o2, k
<1>6. Laid(Insert(h, a, n), Without(o2, {a}))
  <2>1. a \in DOMAIN o2 BY <1>2, <1>4
  <2>2. Laid(Insert(h, a, o2[a]), Without(o2, {a})) BY <1>3, <2>1, InsertLaid
  <2> QED BY <1>4, <2>2
<1>7. Without(o2, {a}) = k
  <2>1. DOMAIN o2 \ {a} = DOMAIN k BY <1>1, <1>2, <1>3, <1>4, <1>5
  <2>2. \A c \in DOMAIN k : o2[c] = k[c] BY <1>4, <1>5
  <2>3. Without(o2, {a}) = [c \in DOMAIN k |-> o2[c]] BY <2>1 DEF Without
  <2>4. k = [c \in DOMAIN k |-> k[c]] BY DEF k, With
  <2> QED BY <2>2, <2>3, <2>4
<1> QED BY <1>1, <1>3, <1>6, <1>7 DEF k

(* A free block becomes somebody's.                                          *)
LEMMA MoveLaid ==
    ASSUME NEW h, NEW o, Laid(h, o), NEW b \in DOMAIN h.free
    PROVE  /\ b \notin DOMAIN o
           /\ Laid([h EXCEPT !.free = Without(h.free, {b})], With(o, b, h.free[b]))
<1> DEFINE f == h.free
           g == Joined(o, f)
           rest == Without(f, {b})
           p == With(o, b, f[b])
<1>1. /\ h = [free |-> f, wild |-> h.wild] /\ Widths(f) /\ Widths(o)
      /\ DOMAIN o \cap DOMAIN f = {} /\ Layout(g, h.wild) /\ Apart(f)
  BY DEF Laid
<1>2. /\ DOMAIN g = DOMAIN o \cup DOMAIN f /\ \A c \in DOMAIN o : g[c] = o[c]
      /\ \A c \in DOMAIN f : g[c] = f[c]
      /\ g = [c \in DOMAIN g |-> g[c]]
  BY <1>1 DEF Joined
<1>3. b \notin DOMAIN o BY <1>1
<1>4. /\ DOMAIN p = DOMAIN o \cup {b} /\ p[b] = f[b] /\ \A c \in DOMAIN o : p[c] = o[c]
      /\ p = [c \in DOMAIN p |-> p[c]]
  BY <1>3 DEF With
<1>5. /\ DOMAIN rest = DOMAIN f \ {b} /\ \A c \in DOMAIN rest : rest[c] = f[c]
      /\ rest = [c \in DOMAIN rest |-> rest[c]]
  BY DEF Without
<1> HIDE DEF p, rest, g
<1>6. Widths(p) /\ Widths(rest) BY <1>1, <1>4, <1>5 DEF Widths
<1>7. DOMAIN p \cap DOMAIN rest = {} BY <1>1, <1>4, <1>5
<1>8. Apart(rest) BY <1>1, <1>5 DEF Apart
<1>9. Joined(p, rest) = g
  <2>1. /\ DOMAIN Joined(p, rest) = DOMAIN p \cup DOMAIN rest
        /\ \A c \in DOMAIN p : Joined(p, rest)[c] = p[c]
        /\ \A c \in DOMAIN rest : Joined(p, rest)[c] = rest[c]
        /\ Joined(p, rest) = [c \in DOMAIN Joined(p, rest) |-> Joined(p, rest)[c]]
    BY <1>7 DEF Joined
  <2>2. DOMAIN p \cup DOMAIN rest = DOMAIN g BY <1>2, <1>4, <1>5
  <2>3. \A c \in DOMAIN g : Joined(p, rest)[c] = g[c]
    BY <1>2, <1>4, <1>5, <2>1, <2>2
  <2> QED BY <1>2, <2>1, <2>2, <2>3, SameFunction
<1>10. [h EXCEPT !.free = rest] = [free |-> rest, wild |-> h.wild] BY <1>1
<1>12. Adds([free |-> rest, wild |-> h.wild], p)
  <2>1. /\ Sized(f) /\ Sized(o) /\ b \in 0 .. End - 1 /\ Room(f, b) = f[b] /\ f[b] \in Nat
        /\ Room(o, b) = 0
    BY <1>3, LaidSized DEF Sized, Room
  <2>2. Total(rest) = Total(f) - f[b] BY <2>1, WithoutTotal DEF rest
  <2>3. Total(p) = Total(o) - 0 + f[b] BY <2>1, WithTotal DEF p
  <2>4. Total(o) \in Nat /\ Total(f) \in Nat BY <2>1, TotalNat
  <2>5. Total(f) + Total(o) = h.wild - Base BY DEF Laid, Adds
  <2> HIDE DEF f
  <2> QED BY <2>1, <2>2, <2>3, <2>4, <2>5 DEF Adds
<1>11. Laid([free |-> rest, wild |-> h.wild], p)
  BY <1>1, <1>6, <1>7, <1>8, <1>9, <1>12 DEF Laid
<1> QED BY <1>3, <1>10, <1>11 DEF p, rest

(* take_region: a block of at least need units that was nobody's.            *)
LEMMA TakeLaid ==
    ASSUME NEW h, NEW o, Laid(h, o), NEW need \in Nat \ {0}, TakeRegion(h, need).at >= 0
    PROVE  LET r == TakeRegion(h, need)
           IN  /\ r.at \in Nat /\ r.at \notin DOMAIN o /\ r.size \in Nat /\ r.size >= need
               /\ Laid(r.heap, With(o, r.at, r.size))
<1> DEFINE f == h.free
           r == TakeRegion(h, need)
           fits == {b \in DOMAIN f : f[b] >= need}
<1>1. /\ h = [free |-> f, wild |-> h.wild] /\ Widths(f) /\ Widths(o) /\ DOMAIN o \cap DOMAIN f = {}
      /\ Layout(Joined(o, f), h.wild) /\ Apart(f)
  BY DEF Laid
<1>2. DOMAIN Joined(o, f) = DOMAIN o \cup DOMAIN f BY DEF Joined
<1>3. DOMAIN f \subseteq Nat /\ DOMAIN o \subseteq Nat /\ h.wild \in Nat /\ End \in Nat
  BY <1>1, <1>2, HeapAssumption DEF Layout
<1>4. o = [b \in DOMAIN o |-> o[b]] BY <1>1 DEF Widths
<1>5. CASE fits # {}
  <2> DEFINE b == Min(fits)
             hr == [h EXCEPT !.free = Without(f, {b})]
             o1 == With(o, b, f[b])
  <2>1. b \in fits BY <1>3, <1>5, HasLeast DEF Min
  <2>2. b \in DOMAIN f /\ f[b] >= need /\ b \in Nat /\ f[b] \in Nat \ {0}
    BY <1>1, <1>3, <2>1 DEF Widths
  <2>3. r = IF f[b] < need + MIN_BLOCK THEN [at |-> b, size |-> f[b], heap |-> hr]
            ELSE [at |-> b, size |-> need, heap |-> Insert(hr, b + need, f[b] - need)]
    BY <1>5 DEF TakeRegion
  <2> HIDE DEF b, r
  <2>4. b \notin DOMAIN o /\ Laid(hr, o1) BY <2>2, MoveLaid
  <2>5. CASE f[b] < need + MIN_BLOCK BY <2>2, <2>3, <2>4, <2>5 DEF r
  <2>6. CASE ~(f[b] < need + MIN_BLOCK)
    <3>1. need \in 1 .. f[b] - 1 BY <2>2, <2>6 DEF MIN_BLOCK
    <3> HIDE DEF hr
    <3>2. Laid(Insert(hr, b + need, f[b] - need), With(o, b, need))
      BY <1>4, <2>2, <2>4, <3>1, TailLaid
    <3> QED BY <2>2, <2>3, <2>4, <2>6, <3>2 DEF r
  <2> QED BY <2>5, <2>6
<1>6. CASE fits = {} /\ need <= End - h.wild
  <2> DEFINE w == h.wild
             p == With(o, w, need)
             g == Joined(o, f)
  <2>1. r = [at |-> w, size |-> need, heap |-> [h EXCEPT !.wild = w + need]]
    BY <1>6 DEF TakeRegion
  <2>2. [h EXCEPT !.wild = w + need] = [free |-> f, wild |-> w + need] BY <1>1
  <2>3. w \notin DOMAIN g /\ Layout(With(g, w, need), w + need)
    BY <1>1, <1>3, <1>6, Grow
  <2>4. /\ DOMAIN p = DOMAIN o \cup {w} /\ p[w] = need /\ \A c \in DOMAIN o : p[c] = o[c]
        /\ p = [c \in DOMAIN p |-> p[c]]
    BY <1>2, <2>3 DEF With
  <2>5. Joined(p, f) = With(g, w, need)
    <3>1. g = [b \in DOMAIN o \cup DOMAIN f |-> IF b \in DOMAIN o THEN o[b] ELSE f[b]]
      BY DEF Joined
    <3> HIDE DEF p, g
    <3>2. DOMAIN p \cup DOMAIN f = DOMAIN g \cup {w} BY <2>4, <3>1
    <3>3. \A b \in DOMAIN g \cup {w} :
             (IF b \in DOMAIN p THEN p[b] ELSE f[b]) = (IF b = w THEN need ELSE g[b])
      BY <1>1, <2>3, <2>4, <3>1
    <3> QED BY <3>2, <3>3 DEF Joined, With
  <2>6. DOMAIN p \cap DOMAIN f = {} /\ Widths(p)
    BY <1>1, <1>2, <2>3, <2>4 DEF Widths
  <2>8. Adds([free |-> f, wild |-> w + need], p)
    <3>1. /\ Sized(o) /\ Sized(f) /\ Room(o, w) = 0 /\ w \in 0 .. End - 1
          /\ Base \in Nat /\ w \in Nat
      BY <1>2, <1>3, <1>6, <2>3, LaidSized, HeapAssumption DEF HeapAssumption, Room
    <3>2. Total(p) = Total(o) - Room(o, w) + need BY <3>1, WithTotal
    <3>3. Total(o) \in Nat /\ Total(f) \in Nat BY <3>1, TotalNat
    <3>4. Total(f) + Total(o) = w - Base BY DEF Laid, Adds
    <3> HIDE DEF p, f, w
    <3> QED BY <3>1, <3>2, <3>3, <3>4 DEF Adds
  <2> HIDE DEF p, g
  <2>7. Laid([free |-> f, wild |-> w + need], p) BY <2>8, <1>1, <2>3, <2>5, <2>6 DEF Laid
  <2> QED BY <1>2, <1>3, <2>1, <2>2, <2>3, <2>7 DEF p, g
<1>7. CASE fits = {} /\ ~(need <= End - h.wild)
  <2>1. r.at = -1 BY <1>7 DEF TakeRegion
  <2> QED BY <2>1
<1> QED BY <1>5, <1>6, <1>7
-----------------------------------------------------------------------------
(* What is asked for fits its block, and lies where it was asked to.         *)
Held == [b \in DOMAIN used |-> used[b].size]

Fitted ==
    /\ used \in [DOMAIN used -> [size : Nat \ {0}, want : Sizes, align : Aligns]]
    /\ \A b \in DOMAIN used : /\ b \in Nat /\ HDR + used[b].want <= used[b].size
                              /\ (b + HDR) % used[b].align = 0

HeapInv == Laid(heap, Held) /\ Fitted /\ g_used = Total(Held)

(* Nothing is handed out, or a block that was nobody's.                       *)
Handed(size, align) ==
    \/ used' = used
    \/ \E b \in Nat \ DOMAIN used, n \in Nat : HandOut(b, n, size, align)

LEMMA HeapInitInv == HeapInit => HeapInv
<1> SUFFICES ASSUME HeapInit PROVE HeapInv OBVIOUS
<1>1. /\ DOMAIN free = {} /\ DOMAIN used = {} /\ wilderness = Base
      /\ free = [b \in DOMAIN free |-> free[b]] /\ used = [b \in DOMAIN used |-> used[b]]
  BY DEF HeapInit
<1>2. DOMAIN Held = {} /\ Widths(Held) /\ Widths(free) BY <1>1 DEF Held, Widths
<1>3. DOMAIN Joined(Held, free) = {} /\ Joined(Held, free) \in [{} -> Nat \ {0}]
  BY <1>1, <1>2 DEF Joined
<1>4. Layout(Joined(Held, free), Base)
  BY <1>3, HeapAssumption DEF Layout, MIN_BLOCK
<1>7. Total(free) = 0 /\ Total(Held) = 0
  <2>1. Total(free) = 0 BY Zenon, <1>1, NothingTotal
  <2>2. Held = [b \in DOMAIN Held |-> Held[b]] BY DEF Held
  <2>3. Total(Held) = 0 BY Zenon, <1>2, <2>2, NothingTotal
  <2> QED BY <2>1, <2>3
<1>8. Adds(heap, Held) BY <1>1, <1>7, HeapAssumption DEF HeapAssumption, Adds, heap
<1>5. Laid(heap, Held) BY <1>1, <1>2, <1>4, <1>8 DEF Laid, heap, Apart
<1>6. Fitted BY <1>1 DEF Fitted
<1> QED BY <1>5, <1>6, <1>7 DEF HeapInv, HeapInit

(* The block b is handed out.                                                *)
LEMMA HandOutInv ==
    ASSUME HeapInv, NEW h, NEW b \in Nat, NEW n \in Nat, NEW size \in Sizes, NEW align \in Aligns,
           b \notin DOMAIN used, HDR + size <= n, (b + HDR) % align = 0,
           Laid(h, With(Held, b, n)), SetHeap(h), HandOut(b, n, size, align)
    PROVE  HeapInv' /\ Handed(size, align)
<1> DEFINE rec == [size |-> n, want |-> size, align |-> align]
<1>1. used' = With(used, b, rec) BY DEF HandOut
<1>2. n \in Nat \ {0} BY HeapAssumption DEF HDR
<1>3. rec \in [size : Nat \ {0}, want : Sizes, align : Aligns] BY <1>2
<1>4. rec.size = n /\ rec.want = size /\ rec.align = align OBVIOUS
<1> HIDE DEF rec
<1>5. /\ DOMAIN used' = DOMAIN used \cup {b} /\ used'[b] = rec
      /\ \A c \in DOMAIN used : used'[c] = used[c]
      /\ used' = [c \in DOMAIN used' |-> used'[c]]
  BY <1>1 DEF With
<1>6. Fitted' BY <1>3, <1>4, <1>5 DEF HeapInv, Fitted
<1>7. Held' = With(Held, b, n)
  <2>1. DOMAIN Held = DOMAIN used BY DEF Held
  <2>2. \A c \in DOMAIN used \cup {b} : used'[c].size = IF c = b THEN n ELSE Held[c]
    BY <1>4, <1>5 DEF Held
  <2>3. Held' = [c \in DOMAIN used \cup {b} |-> used'[c].size] BY <1>5 DEF Held
  <2> QED BY <2>1, <2>2, <2>3 DEF With
<1>8. heap' = h
  <2>1. h = [free |-> h.free, wild |-> h.wild] BY DEF Laid
  <2> QED BY <2>1 DEF heap, SetHeap
<1>9. Handed(size, align) BY DEF Handed
<1>10. g_used' = Total(Held')
  <2>1. Sized(Held) /\ Sized(With(Held, b, n))
    <3> DEFINE o == With(Held, b, n)
    <3> HIDE DEF o
    <3>1. Sized(o) BY LaidSized DEF o
    <3> QED BY <3>1, LaidSized DEF HeapInv, o
  <2>2. b \in 0 .. End - 1 /\ Room(Held, b) = 0
    <3>1. b \in DOMAIN With(Held, b, n) BY DEF With
    <3> QED BY <2>1, <3>1 DEF Sized, Room, Held
  <2>3. Total(With(Held, b, n)) = Total(Held) - 0 + n BY <2>1, <2>2, WithTotal
  <2>4. g_used' = g_used + n /\ g_used = Total(Held) BY DEF HandOut, HeapInv
  <2>5. Total(Held) \in Nat BY <2>1, TotalNat
  <2> QED BY <1>7, <2>3, <2>4, <2>5
<1> QED BY <1>6, <1>7, <1>8, <1>9, <1>10 DEF HeapInv

LEMMA KfreeInv == ASSUME HeapInv, NEW b \in DOMAIN used, Kfree(b) PROVE HeapInv'
<1>1. /\ used' = Without(used, {b}) /\ SetHeap(Insert(heap, b, used[b].size))
  BY DEF Kfree
<1>2. b \in DOMAIN Held /\ Held[b] = used[b].size BY DEF Held
<1>3. Laid(Insert(heap, b, used[b].size), Without(Held, {b}))
  <2>1. Laid(Insert(heap, b, Held[b]), Without(Held, {b})) BY <1>2, InsertLaid DEF HeapInv
  <2> QED BY <1>2, <2>1
<1>4. /\ DOMAIN used' = DOMAIN used \ {b} /\ \A c \in DOMAIN used' : used'[c] = used[c]
      /\ used' = [c \in DOMAIN used' |-> used'[c]]
  BY <1>1 DEF Without
<1>5. Fitted' BY <1>4 DEF HeapInv, Fitted
<1>6. Held' = Without(Held, {b})
  <2>1. DOMAIN Held = DOMAIN used /\ \A c \in DOMAIN used \ {b} : Held[c] = used'[c].size
    BY <1>4 DEF Held
  <2>2. Held' = [c \in DOMAIN used \ {b} |-> used'[c].size] BY <1>4 DEF Held
  <2> QED BY <2>1, <2>2 DEF Without
<1> DEFINE h == Insert(heap, b, used[b].size)
<1>7. heap' = h
  <2>1. h = [free |-> h.free, wild |-> h.wild] BY <1>3 DEF Laid
  <2> HIDE DEF h
  <2>2. SetHeap(h) BY <1>1 DEF h
  <2> QED BY <2>1, <2>2 DEF heap, SetHeap
<1>8. g_used' = Total(Held')
  <2>1. Sized(Held) /\ b \in 0 .. End - 1 /\ Room(Held, b) = Held[b] /\ Held[b] \in Nat
    <3>1. Sized(Held) BY LaidSized DEF HeapInv
    <3> QED BY <1>2, <3>1 DEF Sized, Room
  <2>2. Sized(Without(Held, {b})) /\ Total(Without(Held, {b})) = Total(Held) - Held[b]
    BY <2>1, WithoutTotal
  <2>3. Total(Without(Held, {b})) \in Nat /\ Total(Held) \in Nat BY <2>1, <2>2, TotalNat
  <2>4. g_used = Total(Held) /\ g_used' = IF g_used >= Held[b] THEN g_used - Held[b] ELSE 0
    BY <1>2 DEF HeapInv, Kfree, Count
  <2> QED BY <1>6, <2>1, <2>2, <2>3, <2>4
<1> QED BY <1>3, <1>5, <1>6, <1>7, <1>8 DEF HeapInv
-----------------------------------------------------------------------------
(* Multiples, rounding up, and the payload alloc_aligned_locked picks.        *)
LEMMA MultipleOf == \A k \in Nat, n \in Nat \ {0} : k * n \in Nat /\ (k * n) % n = 0
OBVIOUS

LEMMA AlignUpIs ==
    ASSUME NEW p \in Nat, NEW n \in Nat \ {0}
    PROVE  \E k \in Nat : AlignUp(p, n) = k * n /\ p <= k * n
<1> DEFINE x == p + n - 1
           k == x \div n
<1>1. x \in Nat OBVIOUS
<1> HIDE DEF x
<1>2. k \in Nat /\ k * n \in Int /\ x - n + 1 <= k * n BY <1>1
<1>3. AlignUp(p, n) = k * n BY DEF AlignUp, x
<1> HIDE DEF k
<1>4. p <= k * n BY <1>2 DEF x
<1> QED BY <1>2, <1>3, <1>4

LEMMA UserIs ==
    ASSUME NEW start \in Nat, NEW align \in Nat \ {0}
    PROVE  /\ User(start, align) \in Nat /\ User(start, align) % align = 0
           /\ LET lead == User(start, align) - HDR - start IN lead = 0 \/ lead >= MIN_BLOCK
<1> DEFINE first == AlignUp(start + HDR, align)
<1>1. start + HDR \in Nat BY DEF HDR
<1>2. PICK k \in Nat : first = k * align /\ start + HDR <= k * align BY <1>1, AlignUpIs
<1>3. k * align \in Nat /\ (k * align) % align = 0 BY MultipleOf
<1> DEFINE j == k + 1
<1>4. j \in Nat /\ j * align = k * align + align OBVIOUS
<1> HIDE DEF j
<1>5. j * align \in Nat /\ (j * align) % align = 0 BY <1>4, MultipleOf
<1>6. User(start, align) = IF first - HDR - start \in 1 .. MIN_BLOCK - 1 THEN first + align ELSE first
  BY DEF User
<1> HIDE DEF first
<1>7. first \in Nat /\ first % align = 0 /\ (first + align) % align = 0 /\ start + HDR <= first
  BY <1>2, <1>3, <1>4, <1>5
<1> QED BY <1>6, <1>7 DEF HDR, MIN_BLOCK

(* alloc_raw_locked                                                          *)
LEMMA AllocRawInv ==
    ASSUME HeapInv, NEW size \in Sizes, 1 \in Aligns, AllocRaw(size)
    PROVE  HeapInv' /\ Handed(size, 1)
<1> DEFINE r == TakeRegion(heap, HDR + size)
<1>1. HDR + size \in Nat \ {0} BY HeapAssumption DEF HDR
<1>2. CASE UNCHANGED heapVars
  BY <1>2 DEF heapVars, HeapInv, heap, Held, Fitted, Handed
<1>3. CASE r.at >= 0 /\ SetHeap(r.heap) /\ HandOut(r.at, r.size, size, 1)
  <2>1. /\ r.at \in Nat /\ r.at \notin DOMAIN Held /\ r.size \in Nat /\ HDR + size <= r.size
        /\ Laid(r.heap, With(Held, r.at, r.size))
    BY <1>1, <1>3, TakeLaid DEF HeapInv
  <2>2. r.at \notin DOMAIN used BY <2>1 DEF Held
  <2> HIDE DEF r
  <2>3. (r.at + HDR) % 1 = 0 BY <2>1 DEF HDR
  <2> QED BY <1>3, <2>1, <2>2, <2>3, HandOutInv
<1> QED BY <1>2, <1>3 DEF AllocRaw, NoMemory

(* alloc_aligned_locked                                                      *)
LEMMA AllocAlignedInv ==
    ASSUME HeapInv, NEW size \in Sizes, NEW align \in Aligns, AllocAligned(size, align)
    PROVE  HeapInv' /\ Handed(size, align)
<1> DEFINE need == HDR + size + align + MIN_BLOCK
           r == TakeRegion(heap, need)
           a == r.at
           end == a + r.size
           u == User(a, align)
           hdr == u - HDR
           lead == hdr - a
           left == end - (hdr + HDR + size)
           tail == IF left < MIN_BLOCK THEN 0 ELSE left
           h1 == IF lead >= MIN_BLOCK THEN Insert(r.heap, a, lead) ELSE r.heap
           h2 == IF tail > 0 THEN Insert(h1, end - tail, tail) ELSE h1
<1>1. size \in Nat \ {0} /\ align \in Nat \ {0} /\ need \in Nat \ {0} /\ need > size
  BY HeapAssumption DEF HDR, MIN_BLOCK
<1>2. CASE UNCHANGED heapVars
  BY <1>2 DEF heapVars, HeapInv, heap, Held, Fitted, Handed
<1>3. CASE a >= 0 /\ IF hdr + HDR + size <= end
                     THEN SetHeap(h2) /\ HandOut(hdr, end - tail - hdr, size, align)
                     ELSE SetHeap(Insert(r.heap, a, r.size)) /\ UNCHANGED <<used, g_used>>
  <2>1. /\ a \in Nat /\ a \notin DOMAIN Held /\ r.size \in Nat /\ need <= r.size
        /\ Laid(r.heap, With(Held, a, r.size))
    <3> HIDE DEF need
    <3> QED BY <1>1, <1>3, TakeLaid DEF HeapInv
  <2>2. Held = [c \in DOMAIN Held |-> Held[c]] /\ DOMAIN Held = DOMAIN used BY DEF Held
  <2>3. u \in Nat /\ u % align = 0 /\ (lead = 0 \/ lead >= MIN_BLOCK)
    BY <1>1, <2>1, UserIs
  <2>4. end \in Nat /\ u = hdr + HDR /\ hdr = a + lead /\ lead \in Nat /\ hdr \in Nat
    <3>1. end \in Nat BY <2>1
    <3> HIDE DEF a, u
    <3>2. a \in Nat /\ u \in Nat /\ (lead = 0 \/ lead >= MIN_BLOCK) BY <2>1, <2>3
    <3>3. u = hdr + HDR /\ hdr = a + lead /\ lead \in Nat /\ hdr \in Nat
      BY <3>2 DEF HDR, MIN_BLOCK
    <3> QED BY <3>1, <3>3
  <2>5. CASE hdr + HDR + size <= end
    <3>1. SetHeap(h2) /\ HandOut(hdr, end - tail - hdr, size, align) BY <1>3, <2>5
    <3>2. left \in Nat /\ tail \in Nat /\ (tail = 0 \/ tail = left)
          /\ end - tail - hdr \in Nat /\ HDR + size <= end - tail - hdr
          /\ end - hdr \in Nat /\ tail < end - hdr
      BY <1>1, <2>4, <2>5 DEF HDR, MIN_BLOCK
    <3>3. hdr \notin DOMAIN Held /\ Laid(h1, With(Held, hdr, end - hdr))
      <4>1. CASE lead = 0
        <5>1. h1 = r.heap /\ hdr = a /\ end - hdr = r.size BY <2>1, <2>4, <4>1 DEF MIN_BLOCK
        <5> QED BY <2>1, <5>1
      <4>2. CASE lead # 0
        <5>1. h1 = Insert(r.heap, a, lead) BY <2>3, <4>2
        <5>2. lead \in 1 .. r.size - 1 BY <1>1, <2>1, <2>4, <2>5, <4>2 DEF HDR
        <5>3. a + lead = hdr /\ r.size - lead = end - hdr BY <2>1, <2>4
        <5> HIDE DEF r, lead, hdr, h1
        <5>4. a + lead \notin DOMAIN Held
              /\ Laid(Insert(r.heap, a, lead), With(Held, a + lead, r.size - lead))
          BY <2>1, <2>2, <5>2, HeadLaid
        <5> QED BY <5>1, <5>3, <5>4
      <4> QED BY <4>1, <4>2
    <3>4. Laid(h2, With(Held, hdr, end - tail - hdr))
      <4>1. CASE tail = 0
        <5>1. h2 = h1 /\ end - tail - hdr = end - hdr BY <2>4, <4>1
        <5> QED BY <3>3, <5>1
      <4>2. CASE tail # 0
        <5> DEFINE m == end - hdr
                   n == m - tail
        <5>1. h2 = Insert(h1, end - tail, tail) BY <3>2, <4>2
        <5>2. n \in 1 .. m - 1 BY <3>2, <4>2
        <5>3. hdr + n = end - tail /\ m - n = tail /\ n = end - tail - hdr
          BY <2>4, <3>2
        <5>4. Laid(h1, With(Held, hdr, m)) BY <3>3
        <5> HIDE DEF n, m, h1, h2, hdr, tail, end
        <5>5. Laid(Insert(h1, hdr + n, m - n), With(Held, hdr, n))
          BY <2>2, <3>3, <5>2, <5>4, TailLaid
        <5> QED BY <5>1, <5>3, <5>5
      <4> QED BY <4>1, <4>2
    <3>5. (hdr + HDR) % align = 0 BY <2>3, <2>4
    <3> DEFINE n == end - tail - hdr
    <3>6. n \in Nat /\ HDR + size <= n /\ hdr \notin DOMAIN used /\ hdr \in Nat
          /\ Laid(h2, With(Held, hdr, n)) /\ HandOut(hdr, n, size, align) /\ SetHeap(h2)
      BY <2>2, <2>4, <3>1, <3>2, <3>3, <3>4
    <3> HIDE DEF hdr, n, h2
    <3> QED BY <3>5, <3>6, HandOutInv
  <2>6. CASE ~(hdr + HDR + size <= end)
    <3> DEFINE o1 == With(Held, a, r.size)
               h == Insert(r.heap, a, r.size)
    <3>1. SetHeap(h) /\ used' = used BY <1>3, <2>6
    <3>2. a \in DOMAIN o1 /\ o1[a] = r.size BY DEF With
    <3>3. Without(o1, {a}) = Held BY <2>1, <2>2, WithoutWith
    <3>4. Laid(h, Held)
      <4> HIDE DEF o1, r, h
      <4>1. Laid(Insert(r.heap, a, o1[a]), Without(o1, {a})) BY <2>1, <3>2, InsertLaid DEF o1
      <4> QED BY <3>2, <3>3, <4>1 DEF h
    <3>5. heap' = h
      <4>1. h = [free |-> h.free, wild |-> h.wild] BY <3>4 DEF Laid
      <4> HIDE DEF h
      <4> QED BY <3>1, <4>1 DEF heap, SetHeap
    <3>6. Held' = Held /\ (Fitted' <=> Fitted) /\ g_used' = g_used
      BY <1>3, <2>6, <3>1 DEF Held, Fitted
    <3> HIDE DEF h
    <3> QED BY <3>1, <3>4, <3>5, <3>6 DEF HeapInv, Handed
  <2> QED BY <2>5, <2>6
<1> QED BY <1>2, <1>3 DEF AllocAligned, NoMemory

LEMMA KmallocInv ==
    ASSUME HeapInv, NEW size \in Sizes, NEW align \in Aligns, Kmalloc(size, align)
    PROVE  HeapInv' /\ Handed(size, align)
<1>1. CASE align = 1 BY <1>1, AllocRawInv DEF Kmalloc
<1>2. CASE align # 1 BY <1>2, AllocAlignedInv DEF Kmalloc
<1> QED BY <1>1, <1>2

LEMMA HeapNextInv == HeapInv /\ [HeapNext]_heapVars => HeapInv'
<1> SUFFICES ASSUME HeapInv, [HeapNext]_heapVars PROVE HeapInv' OBVIOUS
<1>1. CASE UNCHANGED heapVars
  BY <1>1 DEF heapVars, HeapInv, heap, Held, Fitted
<1>2. ASSUME NEW size \in Sizes, NEW align \in Aligns, Kmalloc(size, align) PROVE HeapInv'
  BY <1>2, KmallocInv
<1>3. ASSUME NEW b \in DOMAIN used, Kfree(b) PROVE HeapInv'
  BY <1>3, KfreeInv
<1> QED BY <1>1, <1>2, <1>3 DEF HeapNext

(* kmalloc, kmalloc_aligned and kfree keep the heap tiled by its blocks in    *)
(* use, its free blocks and the wilderness, with no two free blocks side by   *)
(* side, and heap_used and heap_free add up to it (heap.c:72-490), whatever   *)
(* the heap's bounds, the sizes and the alignments.                          *)
THEOREM HeapIsSound == HeapSpec => []HeapSound
<1>1. HeapInv => HeapSound
  <2> SUFFICES ASSUME HeapInv PROVE HeapSound OBVIOUS
  <2> DEFINE g == Joined(Held, free)
  <2>1. /\ Widths(free) /\ Widths(Held) /\ DOMAIN Held \cap DOMAIN free = {}
        /\ Layout(g, wilderness) /\ Apart(free)
    BY DEF HeapInv, Laid, heap
  <2>2. DOMAIN Held = DOMAIN used /\ \A b \in DOMAIN used : Held[b] = used[b].size BY DEF Held
  <2>3. DOMAIN g = Blocks /\ \A b \in Blocks : g[b] = Size(b)
    <3>1. DOMAIN g = DOMAIN Held \cup DOMAIN free /\
          \A b \in DOMAIN Held \cup DOMAIN free :
              g[b] = IF b \in DOMAIN Held THEN Held[b] ELSE free[b]
      BY DEF Joined
    <3> HIDE DEF g
    <3> QED BY <2>2, <3>1 DEF Blocks, Size
  <2> HIDE DEF g
  <2>4. Tiled BY <2>1, <2>2, <2>3 DEF Tiled, Layout
  <2>5. Accounted
    <3>1. /\ Total(free) \in Nat /\ g_used \in Nat /\ wilderness \in Base .. End
          /\ Total(free) + g_used = wilderness - Base
      <4>1. Sized(heap.free) /\ Sized(Held) /\ heap.wild \in Base .. End BY LaidSized DEF HeapInv
      <4>2. Total(heap.free) + Total(Held) = heap.wild - Base BY DEF HeapInv, Laid, Adds
      <4>3. heap.free = free /\ heap.wild = wilderness BY DEF heap
      <4> QED BY <4>1, <4>2, <4>3, TotalNat DEF HeapInv
    <3>2. Base \in Nat /\ End \in Nat BY HeapAssumption DEF HeapAssumption
    <3> QED BY <3>1, <3>2 DEF Accounted, HeapFree
  <2> QED BY <2>1, <2>4, <2>5 DEF HeapSound, Coalesced, Apart
<1> QED BY <1>1, HeapInitInv, HeapNextInv, PTL DEF HeapSpec
-----------------------------------------------------------------------------
(* What Laid and Fitted say of the blocks in use.                            *)
Lies ==
    /\ used = [b \in DOMAIN used |-> used[b]]
    /\ \A b \in DOMAIN used :
          /\ b \in Nat /\ Base <= b /\ used[b].want \in Nat
          /\ b + HDR + used[b].want <= End
          /\ (b + HDR) % used[b].align = 0
          /\ \A c \in DOMAIN used : b < c => b + HDR + used[b].want <= c

LEMMA UsedLies == HeapInv => Lies
<1> SUFFICES ASSUME HeapInv, NEW b \in DOMAIN used
             PROVE  /\ b \in Nat /\ Base <= b /\ used[b].want \in Nat
                    /\ b + HDR + used[b].want <= End
                    /\ (b + HDR) % used[b].align = 0
                    /\ \A c \in DOMAIN used : b < c => b + HDR + used[b].want <= c
  BY DEF Lies, HeapInv, Fitted
<1> DEFINE g == Joined(Held, free)
<1>1. Layout(g, wilderness) BY DEF HeapInv, Laid, heap
<1>2. /\ DOMAIN Held = DOMAIN used /\ \A c \in DOMAIN used : Held[c] = used[c].size BY DEF Held
<1>3. DOMAIN used \subseteq DOMAIN g /\ \A c \in DOMAIN used : g[c] = used[c].size
  BY <1>2 DEF Joined
<1> HIDE DEF g
<1>4. /\ b \in Nat /\ used[b].want \in Nat /\ used[b].size \in Nat
      /\ HDR + used[b].want <= used[b].size /\ (b + HDR) % used[b].align = 0
  BY HeapAssumption DEF HeapInv, Fitted
<1>5. /\ Base <= b /\ b + used[b].size <= End
      /\ \A c \in DOMAIN used : c \in Nat /\ (b < c => b + used[b].size <= c)
  BY <1>1, <1>3, HeapAssumption DEF Layout
<1>6. b + HDR + used[b].want <= b + used[b].size BY <1>4 DEF HDR
<1>7. b + HDR + used[b].want <= End BY <1>4, <1>5, <1>6, HeapAssumption DEF HDR
<1>8. \A c \in DOMAIN used : b < c => b + HDR + used[b].want <= c
  BY <1>4, <1>5, <1>6 DEF HDR
<1> QED BY <1>4, <1>5, <1>7, <1>8

LEMMA UsedLiesNext == HeapInv' => Lies'
BY UsedLies, PTL

(* A block handed out is a range of memory of its own.                       *)
LEMMA MallocStep ==
    ASSUME Lies, Lies', NEW size, NEW align,
           NEW b \in Nat \ DOMAIN used, NEW n \in Nat, HandOut(b, n, size, align)
    PROVE  A!Malloc(size, align)
<1> DEFINE r == [at |-> b + HDR, size |-> size, align |-> align]
<1>1. /\ DOMAIN used' = DOMAIN used \cup {b}
      /\ used'[b].want = size /\ used'[b].align = align
      /\ \A c \in DOMAIN used : used'[c] = used[c]
  BY DEF HandOut, With
<1>2. /\ b + HDR \in Base .. End - size /\ (b + HDR) % align = 0 /\ size \in Nat
      /\ \A c \in DOMAIN used : c \in Nat /\ (b < c => b + HDR + size <= c)
      /\ \A c \in DOMAIN used : used[c].want \in Nat /\ (c < b => c + HDR + used[c].want <= b)
  BY <1>1, HeapAssumption DEF Lies, HDR
<1>3. \A s \in Live : A!Disjoint(r, s)
  <2> SUFFICES ASSUME NEW c \in DOMAIN used
               PROVE  \/ b + HDR + size <= c + HDR
                      \/ c + HDR + used[c].want <= b + HDR
    BY DEF Live, A!Disjoint
  <2>1. c \in Nat /\ used[c].want \in Nat /\ (b < c \/ c < b) BY <1>2
  <2> QED BY <1>2, <2>1 DEF HDR
<1>4. Live' = Live \cup {r}
  <2>1. Live' = {[at |-> c + HDR, size |-> used'[c].want, align |-> used'[c].align] : c \in DOMAIN used'}
    BY DEF Live
  <2> QED BY <1>1, <2>1 DEF Live
<1> QED BY <1>2, <1>3, <1>4 DEF A!Malloc

(* A block given back was one of them.                                       *)
LEMMA FreeStep ==
    ASSUME Lies, NEW b \in DOMAIN used, Kfree(b)
    PROVE  \E r \in Live : A!Free(r)
<1> DEFINE r == [at |-> b + HDR, size |-> used[b].want, align |-> used[b].align]
<1>1. /\ DOMAIN used' = DOMAIN used \ {b} /\ \A c \in DOMAIN used' : used'[c] = used[c]
  BY DEF Kfree, Without
<1>2. Live' = {[at |-> c + HDR, size |-> used[c].want, align |-> used[c].align] : c \in DOMAIN used \ {b}}
  BY <1>1 DEF Live
<1>3. \A c \in DOMAIN used \ {b} : c + HDR # b + HDR BY DEF Lies, HDR
<1>4. r \in Live BY DEF Live
<1>5. Live' = Live \ {r} BY <1>2, <1>3 DEF Live
<1> QED BY <1>4, <1>5 DEF A!Free

(* heap.c implements the allocator of heap.h: what kmalloc hands out is       *)
(* aligned, of the size asked for, inside the heap and nobody else's, however *)
(* its blocks are split and merged; and kfree takes back that range alone.    *)
THEOREM HeapImplements == HeapSpec => ImplementsAllocator
<1>1. HeapInit => A!Init
  <2> SUFFICES ASSUME HeapInit PROVE Live = {} BY DEF A!Init
  <2> QED BY DEF HeapInit, Live
<1>2. HeapInv /\ HeapInv' /\ [HeapNext]_heapVars => [A!Next]_Live
  <2> SUFFICES ASSUME HeapInv, HeapInv', [HeapNext]_heapVars PROVE [A!Next]_Live OBVIOUS
  <2>1. Lies /\ Lies' BY UsedLies, UsedLiesNext
  <2>2. CASE used' = used BY <2>2 DEF Live
  <2>3. ASSUME NEW size \in Sizes, NEW align \in Aligns, Kmalloc(size, align) PROVE [A!Next]_Live
    <3>1. Handed(size, align) BY <2>3, KmallocInv
    <3>2. ASSUME NEW b \in Nat \ DOMAIN used, NEW n \in Nat, HandOut(b, n, size, align)
          PROVE  A!Next
      BY <2>1, <3>2, MallocStep DEF A!Next
    <3> QED BY <2>2, <3>1, <3>2 DEF Handed
  <2>4. ASSUME NEW b \in DOMAIN used, Kfree(b) PROVE [A!Next]_Live
    BY <2>1, <2>4, FreeStep DEF A!Next
  <2> QED BY <2>2, <2>3, <2>4 DEF HeapNext, heapVars
<1> QED BY <1>1, <1>2, HeapInitInv, HeapNextInv, PTL DEF HeapSpec, ImplementsAllocator, A!Spec
-----------------------------------------------------------------------------
Snaps == [page  : [seq : Nat, generation : Nat, info : SUBSET (Programs \cup Watchers),
                   list : SUBSET (Programs \cup Watchers)],
          dirty : BOOLEAN, last : Nat,
          watch : [Watchers -> [pc : {"runs", "asleep", "woken"}, gen : Nat, proc_wait_gen : Nat]]]

LifeStates == [Programs -> {"none", "live", "zombie"}]

(* A page that was ever published has a generation, so that process_wake_     *)
(* proc_waiters can tell a waiter of it from somebody who waits for nothing.  *)
Numbered(s) == s.dirty = FALSE => s.page.generation # 0

Waits(s) ==
    \A w \in Watchers : s.watch[w].pc = "asleep" =>
        /\ s.watch[w].gen = s.page.generation
        /\ s.watch[w].proc_wait_gen = s.page.generation
        /\ s.page.generation # 0

(* The page s shows nobody but those of L.                                    *)
PageSound(s, L) ==
    /\ s \in Snaps /\ Numbered(s) /\ Waits(s)
    /\ s.page.info = s.page.list /\ s.page.list \subseteq L

(* What the reader has read since its sequence number is of the page with it. *)
Reads(page) ==
    /\ reader.s1 \in Nat /\ reader.s1 <= page.seq
    /\ reader.pc \in {"entries", "check"} /\ reader.s1 = page.seq => reader.info = page.info
    /\ reader.pc = "check" /\ reader.s1 = page.seq => reader.list = page.list
    /\ reader.pc = "got" => reader.info = reader.list

SnapshotInv ==
    /\ life \in LifeStates /\ now \in Nat
    /\ reader \in [pc : {"idle", "info", "entries", "check", "got"}, s1 : Nat,
                   info : SUBSET (Programs \cup Watchers), list : SUBSET (Programs \cup Watchers)]
    /\ PageSound(snap, Up(life))
    /\ Reads(snap.page)

LEMMA SnapshotInitInv == SnapshotInit => SnapshotInv
BY SMTT(30) DEF SnapshotInit, SnapshotInv, LifeStates, Snaps, PageSound, Numbered, Waits, Reads, NotReading, Up

(* Two pages are the same, or the second is newer.                            *)
Since(p, q) == p.seq <= q.seq /\ (p.seq = q.seq => p.info = q.info /\ p.list = q.list)

LEMMA ReadsSince ==
    ASSUME NEW p \in [seq : Nat, generation : Nat, info : SUBSET (Programs \cup Watchers),
                      list : SUBSET (Programs \cup Watchers)],
           NEW q \in [seq : Nat, generation : Nat, info : SUBSET (Programs \cup Watchers),
                      list : SUBSET (Programs \cup Watchers)],
           Since(p, q), Reads(p)
    PROVE  Reads(q)
BY DEF Since, Reads

LEMMA MarkedSound ==
    ASSUME NEW s, NEW L, PageSound(s, L)
    PROVE  PageSound(MarkedDirty(s), L) /\ MarkedDirty(s).page = s.page /\ MarkedDirty(s).dirty = TRUE
BY DEF PageSound, MarkedDirty, Numbered, Waits, Snaps

LEMMA BumpedSound ==
    ASSUME NEW s, NEW L, PageSound(s, L)
    PROVE  /\ Bumped(s) \in Snaps /\ Waits(Bumped(s))
           /\ Bumped(s).page.seq = s.page.seq /\ Bumped(s).page.generation # 0
<1>1. CASE s.dirty = FALSE BY <1>1 DEF PageSound, Numbered, Bumped
<1>2. CASE s.dirty # FALSE
  <2> DEFINE g == s.page.generation + 1
             t == [s EXCEPT !.page.generation = g]
             b == ToldWatchers(t, g)
  <2>1. s \in Snaps /\ g \in Nat \ {0} BY DEF PageSound, Snaps
  <2>2. /\ t \in Snaps /\ t.watch = s.watch /\ t.page.seq = s.page.seq
        /\ t.page.generation = g
    BY <2>1 DEF Snaps
  <2>3. Bumped(s) = b BY <1>2, <2>1 DEF Bumped, Snaps
  <2> HIDE DEF t
  <2>4. \A w \in Watchers :
           /\ Woken(t, w) \in [pc : {"runs", "asleep", "woken"}, gen : Nat, proc_wait_gen : Nat]
           /\ Woken(t, w).pc = "woken"
    BY <2>2, ZenonT(60) DEF Woken, Snaps
  <2>5. /\ b \in Snaps /\ b.page = t.page
        /\ \A w \in Watchers : b.watch[w] =
              IF t.watch[w].pc = "asleep" /\ t.watch[w].proc_wait_gen \notin {0, g}
              THEN Woken(t, w) ELSE t.watch[w]
    BY <2>2, <2>4 DEF ToldWatchers, Snaps
  <2>6. Waits(b)
    <3> SUFFICES ASSUME NEW w \in Watchers, b.watch[w].pc = "asleep" PROVE FALSE BY DEF Waits
    <3>1. s.watch[w].pc = "asleep" /\ s.watch[w].proc_wait_gen \in {0, g} BY <2>2, <2>4, <2>5
    <3>2. s.watch[w].proc_wait_gen = s.page.generation /\ s.page.generation # 0
      BY <3>1 DEF PageSound, Waits
    <3> QED BY <2>1, <3>1, <3>2 DEF Snaps
  <2> QED BY <2>1, <2>2, <2>3, <2>5, <2>6
<1> QED BY <1>1, <1>2

LEMMA PublishSound ==
    ASSUME NEW s, NEW L, NEW st, PageSound(s, L), now \in Nat, Up(st) \subseteq Programs \cup Watchers,
           L \subseteq Up(st) \/ s.dirty = TRUE
    PROVE  PageSound(PublishPage(s, st), Up(st)) /\ Since(s.page, PublishPage(s, st).page)
<1> DEFINE b == Bumped(s)
           r == [page |-> [seq |-> b.page.seq + 2, generation |-> b.page.generation,
                           info |-> Up(st), list |-> Up(st)],
                 dirty |-> FALSE, last |-> now, watch |-> b.watch]
<1>1. CASE Fresh16(s)
  <2>1. s.dirty # TRUE BY <1>1, Zenon DEF Fresh16
  <2>2. PublishPage(s, st) = s BY <1>1 DEF PublishPage
  <2>3. L \subseteq Up(st) BY <2>1
  <2> QED BY <2>2, <2>3 DEF PageSound, Since, Snaps
<1>2. CASE ~Fresh16(s)
  <2>1. PublishPage(s, st) = r BY <1>2 DEF PublishPage
  <2>2. b \in Snaps /\ Waits(b) /\ b.page.seq = s.page.seq /\ b.page.generation # 0 BY BumpedSound
  <2> HIDE DEF b
  <2>3. /\ r \in Snaps /\ r.watch = b.watch /\ r.page.seq = b.page.seq + 2
        /\ r.page.generation = b.page.generation /\ r.page.info = Up(st) /\ r.page.list = Up(st)
        /\ r.dirty = FALSE
    BY <2>2 DEF Snaps
  <2> HIDE DEF r
  <2>4. Waits(r) BY <2>2, <2>3 DEF Waits
  <2>5. Since(s.page, r.page) BY <2>2, <2>3 DEF Since, Snaps, PageSound
  <2> QED BY <2>1, <2>2, <2>3, <2>4, <2>5 DEF PageSound, Numbered
<1> QED BY <1>1, <1>2

LEMMA PublishedNumbered ==
    ASSUME NEW s, NEW L, NEW st, PageSound(s, L)
    PROVE  PublishPage(s, st).page.generation # 0
<1>1. CASE Fresh16(s)
  <2>1. s.dirty = FALSE BY <1>1 DEF Fresh16, PageSound, Snaps
  <2> QED BY <1>1, <2>1 DEF PublishPage, PageSound, Numbered
<1>2. CASE ~Fresh16(s)
  <2> DEFINE b == Bumped(s)
  <2>1. b \in Snaps /\ b.page.generation # 0 BY BumpedSound
  <2>2. PublishPage(s, st).page.generation = b.page.generation BY <1>2 DEF PublishPage
  <2> QED BY <2>1, <2>2
<1> QED BY <1>1, <1>2

LEMMA PublishedAwake ==
    ASSUME NEW s, NEW L, NEW st, PageSound(s, L), NEW w \in Watchers, s.watch[w].pc # "asleep"
    PROVE  PublishPage(s, st).watch[w].pc # "asleep"
<1>1. Bumped(s).watch[w].pc # "asleep"
  <2> DEFINE g == s.page.generation + 1
             t == [s EXCEPT !.page.generation = g]
  <2>1. t.watch = s.watch /\ s.watch \in [Watchers -> [pc : {"runs", "asleep", "woken"}, gen : Nat, proc_wait_gen : Nat]]
    BY DEF PageSound, Snaps
  <2>2. Bumped(s) = s \/ Bumped(s) = ToldWatchers(t, g)
    BY DEF Bumped, PageSound, Snaps
  <2> HIDE DEF t
  <2>3. t \in Snaps BY DEF t, PageSound, Snaps
  <2>4. ToldWatchers(t, g).watch[w] = t.watch[w] BY <2>1, <2>3 DEF ToldWatchers, Snaps
  <2> QED BY <2>1, <2>2, <2>4
<1>2. PublishPage(s, st).watch = s.watch \/ PublishPage(s, st).watch = Bumped(s).watch
  BY DEF PublishPage
<1> QED BY <1>1, <1>2

(* The wait begins with the generation that the page has now.                *)
LEMMA WaitSound ==
    ASSUME NEW s, NEW L, PageSound(s, L), NEW w \in Watchers, s.page.generation # 0
    PROVE  LET g == s.page.generation
               t == [s EXCEPT !.watch[w].pc = "asleep", !.watch[w].proc_wait_gen = g]
           IN  s.watch[w].gen = g => PageSound(MarkedDirty(t), L) /\ MarkedDirty(t).page = s.page
<1> DEFINE g == s.page.generation
           t == [s EXCEPT !.watch[w].pc = "asleep", !.watch[w].proc_wait_gen = g]
<1> SUFFICES ASSUME s.watch[w].gen = g
             PROVE  PageSound(MarkedDirty(t), L) /\ MarkedDirty(t).page = s.page
  OBVIOUS
<1>1. /\ t \in Snaps /\ t.page = s.page /\ t.dirty = s.dirty
      /\ t.watch[w].gen = g /\ t.watch[w].proc_wait_gen = g
      /\ \A x \in Watchers : x # w => t.watch[x] = s.watch[x]
  <2>1. s \in Snaps /\ g \in Nat BY DEF PageSound, Snaps
  <2> HIDE DEF g
  <2> QED BY <2>1, ZenonT(60) DEF Snaps
<1> HIDE DEF t
<1>2. PageSound(t, L) BY <1>1 DEF PageSound, Waits, Numbered
<1> QED BY <1>1, <1>2, MarkedSound

(* Somebody who no longer sleeps, whatever it last read.                     *)
LEMMA AwakeSound ==
    ASSUME NEW s, NEW L, PageSound(s, L), NEW t \in Snaps, t.page = s.page, t.dirty = s.dirty,
           \A w \in Watchers : t.watch[w].pc = "asleep" => t.watch[w] = s.watch[w]
    PROVE  PageSound(t, L)
BY DEF PageSound, Waits, Numbered

LEMMA SnapshotNextInv == SnapshotInv /\ [SnapshotNext]_snapshotVars => SnapshotInv'
<1> SUFFICES ASSUME SnapshotInv, [SnapshotNext]_snapshotVars PROVE SnapshotInv' OBVIOUS
<1>1. /\ PageSound(snap, Up(life)) /\ snap \in Snaps /\ life \in LifeStates /\ now \in Nat /\ Reads(snap.page)
      /\ Up(life) \subseteq Programs \cup Watchers
  BY DEF SnapshotInv, PageSound, Up
(* All the steps but the reader's.                                           *)
<1>2. ASSUME NEW L, PageSound(snap', L), L \subseteq Up(life'), life' \in LifeStates, now' \in Nat,
             Since(snap.page, snap'.page), reader' = reader
      PROVE  SnapshotInv'
  <2>1. PageSound(snap', Up(life')) BY <1>2 DEF PageSound
  <2>2. Up(life)' = Up(life') BY DEF Up
  <2>3. Reads(snap'.page) BY <1>1, <1>2, ReadsSince DEF PageSound, Snaps
  <2>4. Reads(snap.page)' BY <1>2, <2>3 DEF Reads
  <2> QED BY <1>2, <2>1, <2>2, <2>4 DEF SnapshotInv, PageSound
<1>3. ASSUME snap' = MarkedDirty(snap), life' \in LifeStates, Up(life) \subseteq Up(life'), now' \in Nat, reader' = reader
      PROVE  SnapshotInv'
  <2>1. PageSound(snap', Up(life)) /\ snap'.page = snap.page BY <1>1, <1>3, MarkedSound
  <2>2. Since(snap.page, snap'.page) BY <1>1, <2>1 DEF Since, Snaps
  <2> QED BY <1>2, <1>3, <2>1, <2>2
<1>4. ASSUME NEW p \in Programs, SpawnProgram(p) PROVE SnapshotInv'
  BY <1>1, <1>3, <1>4 DEF SpawnProgram, LifeStates, Up
<1>5. ASSUME NEW p \in Programs, ReapProgram(p) PROVE SnapshotInv'
  BY <1>1, <1>3, <1>5 DEF ReapProgram, LifeStates, Up
<1>6. ASSUME NEW p \in Programs, NEW e \in {"none", "zombie"}, EndProgram(p, [life EXCEPT ![p] = e])
      PROVE  SnapshotInv'
  <2> DEFINE m == MarkedDirty(snap)
  <2>1. /\ life' = [life EXCEPT ![p] = e] /\ snap' = PublishPage(m, life') /\ now' = now /\ reader' = reader
    BY <1>6 DEF EndProgram, EndMarked
  <2>2. PageSound(m, Up(life)) /\ m.page = snap.page /\ m.dirty = TRUE BY <1>1, MarkedSound
  <2> HIDE DEF m
  <2>3. PageSound(snap', Up(life')) /\ Since(snap.page, snap'.page)
    BY <1>1, <2>1, <2>2, PublishSound DEF Up
  <2>4. life' \in LifeStates BY <1>1, <2>1 DEF LifeStates
  <2> QED BY <1>1, <1>2, <2>1, <2>3, <2>4
<1>7. CASE TableChanges BY <1>1, <1>3, <1>7 DEF TableChanges
<1>8. CASE ProcMap
  <2> DEFINE m == MarkedDirty(snap)
  <2>1. snap' = PublishPage(m, life) /\ life' = life /\ now' = now /\ reader' = reader BY <1>8 DEF ProcMap
  <2>2. PageSound(m, Up(life)) /\ m.page = snap.page BY <1>1, MarkedSound
  <2> HIDE DEF m
  <2>3. PageSound(snap', Up(life)) /\ Since(snap.page, snap'.page) BY <1>1, <2>1, <2>2, PublishSound
  <2> QED BY <1>1, <1>2, <2>1, <2>3
<1>9. CASE ProcList
  <2>1. snap' = PublishPage(snap, life) /\ life' = life /\ now' = now /\ reader' = reader BY <1>9 DEF ProcList
  <2>2. PageSound(snap', Up(life)) /\ Since(snap.page, snap'.page) BY <1>1, <2>1, PublishSound
  <2> QED BY <1>1, <1>2, <2>1, <2>2
<1>10. ASSUME NEW w \in Watchers, ProcWait(w) PROVE SnapshotInv'
  <2> DEFINE s == PublishPage(snap, life)
             g == s.watch[w].gen
             t == [s EXCEPT !.watch[w].pc = "asleep", !.watch[w].proc_wait_gen = g]
             u == [s EXCEPT !.watch[w].gen = s.page.generation]
  <2>1. /\ snap.watch[w].pc = "runs"
        /\ snap' = IF s.page.generation # g THEN u ELSE MarkedDirty(t)
        /\ life' = life /\ now' = now /\ reader' = reader
    BY <1>10 DEF ProcWait
  <2>2. PageSound(s, Up(life)) /\ Since(snap.page, s.page) BY <1>1, PublishSound
  <2>3. s.page.generation # 0 BY <1>1, PublishedNumbered
  <2>4. s.watch[w].pc # "asleep" BY <1>1, <2>1, PublishedAwake
  <2> HIDE DEF s
  <2>5. PageSound(snap', Up(life)) /\ snap'.page = s.page
    <3>1. CASE s.page.generation # g
      <4>1. u \in Snaps /\ u.page = s.page /\ u.dirty = s.dirty
            /\ \A x \in Watchers : u.watch[x].pc = s.watch[x].pc /\ (x # w => u.watch[x] = s.watch[x])
        BY <2>2 DEF PageSound, Snaps
      <4> HIDE DEF u
      <4> QED BY <2>1, <2>2, <2>4, <3>1, <4>1, AwakeSound
    <3>2. CASE s.page.generation = g
      <4>1. snap' = MarkedDirty([s EXCEPT !.watch[w].pc = "asleep", !.watch[w].proc_wait_gen = s.page.generation])
        BY <2>1, <3>2
      <4> QED BY <2>2, <2>3, <3>2, <4>1, WaitSound
    <3> QED BY <3>1, <3>2
  <2>6. Since(snap.page, snap'.page) BY <2>2, <2>5
  <2> QED BY <1>1, <1>2, <2>1, <2>5, <2>6
<1>11. ASSUME NEW w \in Watchers, ProcWaitEnds(w) PROVE SnapshotInv'
  <2> DEFINE v == [snap EXCEPT !.watch[w].pc = "runs", !.watch[w].proc_wait_gen = 0]
             s == PublishPage(v, life)
             u == [s EXCEPT !.watch[w].gen = s.page.generation]
  <2>1. snap' = u /\ life' = life /\ now' = now /\ reader' = reader BY <1>11 DEF ProcWaitEnds
  <2>2. v \in Snaps /\ v.page = snap.page /\ v.dirty = snap.dirty /\ v.watch[w].pc = "runs"
        /\ \A x \in Watchers : x # w => v.watch[x] = snap.watch[x]
    BY <1>1, ZenonT(60) DEF Snaps
  <2> HIDE DEF v
  <2>3. PageSound(v, Up(life)) BY <1>1, <2>2, AwakeSound
  <2>4. PageSound(s, Up(life)) /\ Since(snap.page, s.page) BY <1>1, <2>2, <2>3, PublishSound
  <2>5. s.watch[w].pc # "asleep" BY <2>2, <2>3, PublishedAwake
  <2> HIDE DEF s
  <2>6. u \in Snaps /\ u.page = s.page /\ u.dirty = s.dirty
        /\ \A x \in Watchers : u.watch[x].pc = s.watch[x].pc /\ (x # w => u.watch[x] = s.watch[x])
    BY <2>4 DEF PageSound, Snaps
  <2> HIDE DEF u
  <2>7. PageSound(u, Up(life)) BY <2>4, <2>5, <2>6, AwakeSound
  <2> QED BY <1>1, <1>2, <2>1, <2>4, <2>6, <2>7
<1>12. CASE SnapshotTick
  <2>1. life' = life /\ now' \in Nat /\ reader' = reader BY <1>1, <1>12 DEF SnapshotTick
  <2>2. CASE snap' = snap BY <1>1, <1>2, <2>1, <2>2 DEF Since, Snaps
  <2>3. ASSUME NEW due \in SUBSET Watchers,
               snap' = MarkedDirty([snap EXCEPT !.watch = [w \in Watchers |->
                           IF w \in due THEN Woken(snap, w) ELSE snap.watch[w]]])
        PROVE  SnapshotInv'
    <3> DEFINE t == [snap EXCEPT !.watch = [w \in Watchers |->
                           IF w \in due THEN Woken(snap, w) ELSE snap.watch[w]]]
    <3>1. \A w \in Watchers :
             /\ Woken(snap, w) \in [pc : {"runs", "asleep", "woken"}, gen : Nat, proc_wait_gen : Nat]
             /\ Woken(snap, w).pc = "woken"
      BY <1>1 DEF Woken, Snaps
    <3>2. /\ t \in Snaps /\ t.page = snap.page /\ t.dirty = snap.dirty
          /\ \A w \in Watchers : t.watch[w] = IF w \in due THEN Woken(snap, w) ELSE snap.watch[w]
      BY <1>1, <3>1 DEF Snaps
    <3>3. snap' = MarkedDirty(t) BY <2>3
    <3> HIDE DEF t
    <3>4. PageSound(t, Up(life)) BY <1>1, <3>1, <3>2, AwakeSound
    <3>5. PageSound(snap', Up(life)) /\ snap'.page = snap.page BY <3>2, <3>3, <3>4, MarkedSound
    <3>6. Since(snap.page, snap'.page) BY <1>1, <3>5 DEF Since, Snaps
    <3> QED BY <1>1, <1>2, <2>1, <3>5, <3>6
  <2> QED BY <1>12, <2>2, <2>3 DEF SnapshotTick
<1>13. CASE ReadSeq \/ ReadInfo \/ ReadEntries \/ Recheck
  <2>1. /\ snap' = snap /\ life' = life /\ now' = now /\ snap.page.seq \in Nat
        /\ snap.page.info \in SUBSET (Programs \cup Watchers)
        /\ snap.page.list \in SUBSET (Programs \cup Watchers) /\ snap.page.info = snap.page.list
    BY <1>1, <1>13 DEF ReadSeq, ReadInfo, ReadEntries, Recheck, PageSound, Snaps
  <2>2. /\ Reads(snap.page)'
        /\ reader' \in [pc : {"idle", "info", "entries", "check", "got"}, s1 : Nat,
                         info : SUBSET (Programs \cup Watchers), list : SUBSET (Programs \cup Watchers)]
    <3> DEFINE pg == snap.page
    <3>1. /\ pg.seq \in Nat /\ pg' = pg /\ pg.info = pg.list /\ Reads(pg)
          /\ pg.info \in SUBSET (Programs \cup Watchers)
          /\ reader \in [pc : {"idle", "info", "entries", "check", "got"}, s1 : Nat,
                         info : SUBSET (Programs \cup Watchers), list : SUBSET (Programs \cup Watchers)]
      BY <1>1, <2>1 DEF SnapshotInv
    <3>2. CASE ReadSeq
      <4>1. /\ reader'.pc = "info" /\ reader'.s1 = pg.seq
            /\ reader'.info = reader.info /\ reader'.list = reader.list
            /\ reader' \in [pc : {"idle", "info", "entries", "check", "got"}, s1 : Nat,
                            info : SUBSET (Programs \cup Watchers), list : SUBSET (Programs \cup Watchers)]
        BY <3>1, <3>2 DEF ReadSeq
      <4> HIDE DEF pg
      <4>2. Reads(pg)' BY <3>1, <4>1 DEF Reads
      <4> QED BY <4>1, <4>2 DEF pg
    <3>3. CASE ReadInfo BY <3>1, <3>3 DEF ReadInfo, Reads
    <3>4. CASE ReadEntries BY <3>1, <3>4 DEF ReadEntries, Reads
    <3>5. CASE Recheck BY <3>1, <3>5 DEF Recheck, Reads, NotReading
    <3> QED BY <1>13, <3>2, <3>3, <3>4, <3>5
  <2> QED BY <1>1, <2>1, <2>2 DEF SnapshotInv, Up
<1>14. CASE UNCHANGED snapshotVars
  BY <1>14 DEF snapshotVars, SnapshotInv, Up, Reads
<1> QED BY <1>4, <1>5, <1>6, <1>7, <1>8, <1>9, <1>10, <1>11, <1>12, <1>13, <1>14 DEF SnapshotNext

(* What a reader takes for a sample is of one page, the page shows nobody who *)
(* has ended, and no watcher sleeps on a generation that has passed, for any  *)
(* programs and watchers (process.c:462-554, syscall.c:451-483).              *)
THEOREM SnapshotIsTrue == SnapshotSpec => []SnapshotTells
<1>1. SnapshotInv => SnapshotTells
  BY DEF SnapshotInv, SnapshotTells, PageSound, Waits, Reads
<1> QED BY <1>1, SnapshotInitInv, SnapshotNextInv, PTL DEF SnapshotSpec
-----------------------------------------------------------------------------
(* The rows of the input path's state.                                       *)
Events == [type : {"move", "down", "up"}, at : InputPoints, title : BOOLEAN]
Windows == [at : [Apps -> InputPoints], top : Apps \cup {NoApp}, focus : Apps \cup {NoApp},
            drag : Apps \cup {NoApp}, keys : [Apps -> Nat]]
Waiters == [Running -> [pc : {"wait", "blocked", "state", "keys"}, seq : Nat, focus : BOOLEAN, drag : BOOLEAN]]
Flags == SUBSET {"move", "button", "key", "focus"}
Moves == InputPoints \cup {NoPoint}
PumpStates == [wm : Windows, seq : Nat, app : Waiters, flags : Flags, move : Moves]

InputTypeOK ==
    /\ kbd \in Nat /\ evq \in Seq(Events)
    /\ mouse \in [at : InputPoints, down : BOOLEAN]
    /\ cursor \in Moves /\ notified \in Moves
    /\ wm \in Windows /\ seq \in Nat /\ app \in Waiters /\ lostUp \in BOOLEAN

(* How far a pump may have come from where it began: who still sleeps has not *)
(* got the focus meanwhile, and whoever is not told of a change has none.     *)
Onward(s, t) ==
    /\ s.seq <= t.seq
    /\ \A w \in Running :
          /\ t.app[w] # s.app[w] => /\ s.app[w].pc = "blocked"
                                    /\ t.app[w] = [s.app[w] EXCEPT !.pc = "state"]
          /\ t.app[w].pc = "blocked" /\ t.wm.focus = w => s.wm.focus = w
    /\ t.seq = s.seq => t.wm.focus = s.wm.focus

LEMMA OnwardOn ==
    ASSUME NEW r \in PumpStates, NEW s \in PumpStates, NEW t \in PumpStates, Onward(r, s), Onward(s, t)
    PROVE  Onward(r, t)
<1>1. r.seq \in Nat /\ s.seq \in Nat /\ t.seq \in Nat BY DEF PumpStates
<1>2. r.seq <= t.seq /\ (t.seq = r.seq => s.seq = r.seq /\ t.seq = s.seq) BY <1>1 DEF Onward
<1>3. \A w \in Running : s.app[w].pc = "blocked" => s.app[w] = r.app[w]
  <2> SUFFICES ASSUME NEW w \in Running, s.app[w] # r.app[w] PROVE s.app[w].pc # "blocked" OBVIOUS
  <2>1. s.app[w] = [r.app[w] EXCEPT !.pc = "state"] BY DEF Onward
  <2>2. r.app[w] \in [pc : {"wait", "blocked", "state", "keys"}, seq : Nat, focus : BOOLEAN, drag : BOOLEAN]
    BY DEF PumpStates, Waiters
  <2> QED BY <2>1, <2>2
<1>4. \A w \in Running : t.app[w].pc = "blocked" => t.app[w] = s.app[w]
  <2> SUFFICES ASSUME NEW w \in Running, s.app[w] # t.app[w] PROVE t.app[w].pc # "blocked" OBVIOUS
  <2>1. t.app[w] = [s.app[w] EXCEPT !.pc = "state"] BY DEF Onward
  <2>2. s.app[w] \in [pc : {"wait", "blocked", "state", "keys"}, seq : Nat, focus : BOOLEAN, drag : BOOLEAN]
    BY DEF PumpStates, Waiters
  <2> QED BY <2>1, <2>2
<1> QED BY <1>2, <1>3, <1>4 DEF Onward

(* input_event_notify                                                        *)
LEMMA NotifyOn ==
    ASSUME NEW s \in PumpStates, NEW hit, NEW focus, NEW prev, NEW own
    PROVE  LET t == Notify(s, hit, focus, prev, own)
           IN  /\ t \in PumpStates /\ t.wm = s.wm /\ t.flags = s.flags /\ t.move = s.move /\ t.seq = s.seq + 1
               /\ \A w \in Running : t.app[w] = IF s.app[w].pc = "blocked" /\ Relevant(w, hit, focus, prev, own)
                                               THEN [s.app[w] EXCEPT !.pc = "state"] ELSE s.app[w]
<1> DEFINE a == [w \in Running |-> IF s.app[w].pc = "blocked" /\ Relevant(w, hit, focus, prev, own)
                                  THEN [s.app[w] EXCEPT !.pc = "state"] ELSE s.app[w]]
           t == Notify(s, hit, focus, prev, own)
<1>1. a \in Waiters BY DEF PumpStates, Waiters
<1>2. t = [s EXCEPT !.seq = s.seq + 1, !.app = a] BY DEF Notify
<1>3. \A w \in Running : a[w] = IF s.app[w].pc = "blocked" /\ Relevant(w, hit, focus, prev, own)
                                THEN [s.app[w] EXCEPT !.pc = "state"] ELSE s.app[w]
  OBVIOUS
<1> HIDE DEF a, t
<1>5. s.seq + 1 \in Nat BY DEF PumpStates
<1>4. /\ t \in PumpStates /\ t.wm = s.wm /\ t.flags = s.flags /\ t.move = s.move /\ t.seq = s.seq + 1
      /\ t.app = a
  BY <1>1, <1>2, <1>5 DEF PumpStates
<1> QED BY <1>3, <1>4 DEF t

(* What the pump does without telling anybody: no key, and no drag but with   *)
(* the flag of a button.                                                    *)
Pumping(s, t) ==
    /\ Onward(s, t) /\ t.wm.keys = s.wm.keys /\ s.flags \subseteq t.flags
    /\ t.wm.drag # s.wm.drag => "button" \in t.flags

LEMMA PumpingOn ==
    ASSUME NEW r \in PumpStates, NEW s \in PumpStates, NEW t \in PumpStates, Pumping(r, s), Pumping(s, t)
    PROVE  Pumping(r, t)
BY OnwardOn DEF Pumping

LEMMA Same ==
    ASSUME NEW s \in PumpStates, NEW t \in PumpStates,
           t.seq = s.seq, t.app = s.app, t.wm.focus = s.wm.focus, t.wm.keys = s.wm.keys,
           s.flags \subseteq t.flags, t.wm.drag # s.wm.drag => "button" \in t.flags
    PROVE  Pumping(s, t)
BY DEF Pumping, Onward, PumpStates

LEMMA HitIs == ASSUME NEW m, NEW p PROVE Hit(m, p) \in Apps \cup {NoApp}
<1> DEFINE over == {w \in Apps : m.at[w] = p}
<1>1. CASE over = {} BY <1>1 DEF Hit
<1>2. CASE m.top \in over BY <1>2 DEF Hit
<1>3. CASE over # {} /\ m.top \notin over
  <2>1. Hit(m, p) = CHOOSE w \in over : TRUE BY <1>3 DEF Hit
  <2>2. (CHOOSE w \in over : TRUE) \in over BY <1>3
  <2> QED BY <2>1, <2>2
<1> QED BY <1>1, <1>2, <1>3

LEMMA FocusStep ==
    ASSUME NEW s \in PumpStates, NEW w \in Apps
    PROVE  LET t == FocusApp(s, w)
           IN  /\ t \in PumpStates /\ Onward(s, t) /\ t.seq = s.seq + 1
               /\ t.wm.focus = w /\ t.wm.keys = s.wm.keys /\ t.wm.drag = s.wm.drag
               /\ t.flags = s.flags /\ t.move = s.move
<1> DEFINE r == [s EXCEPT !.wm.focus = w, !.wm.top = w]
           t == FocusApp(s, w)
<1>1. /\ r \in PumpStates /\ r.wm.focus = w /\ r.wm.keys = s.wm.keys /\ r.wm.drag = s.wm.drag
      /\ r.flags = s.flags /\ r.move = s.move /\ r.seq = s.seq /\ r.app = s.app
  BY DEF PumpStates, Windows
<1>2. t = Notify(r, w, w, NoApp, w) BY DEF FocusApp
<1> HIDE DEF r, t
<1>3. /\ t \in PumpStates /\ t.wm = r.wm /\ t.flags = r.flags /\ t.move = r.move /\ t.seq = r.seq + 1
      /\ \A x \in Running : t.app[x] = IF r.app[x].pc = "blocked" /\ Relevant(x, w, w, NoApp, w)
                                      THEN [r.app[x] EXCEPT !.pc = "state"] ELSE r.app[x]
  BY <1>1, <1>2, NotifyOn
<1>4. Onward(s, t)
  <2>1. s.seq \in Nat /\ t.seq = s.seq + 1 BY <1>1, <1>3 DEF PumpStates
  <2>2. ASSUME NEW x \in Running
        PROVE  /\ t.app[x] # s.app[x] => /\ s.app[x].pc = "blocked"
                                        /\ t.app[x] = [s.app[x] EXCEPT !.pc = "state"]
               /\ t.app[x].pc = "blocked" /\ t.wm.focus = x => s.wm.focus = x
    <3>1. t.app[x] = IF s.app[x].pc = "blocked" /\ Relevant(x, w, w, NoApp, w)
                     THEN [s.app[x] EXCEPT !.pc = "state"] ELSE s.app[x]
      BY <1>1, <1>3
    <3>2. s.app[x] \in [pc : {"wait", "blocked", "state", "keys"}, seq : Nat, focus : BOOLEAN, drag : BOOLEAN]
      BY DEF PumpStates, Waiters
    <3>3. t.wm.focus = w BY <1>1, <1>3
    <3>4. x = w => t.app[x].pc # "blocked" BY <3>1, <3>2 DEF Relevant
    <3> QED BY <3>1, <3>3, <3>4
  <2> QED BY <2>1, <2>2 DEF Onward
<1> QED BY <1>1, <1>3, <1>4 DEF t

LEMMA ApplyMoveOn ==
    ASSUME NEW s \in PumpStates
    PROVE  LET t == ApplyMove(s)
           IN  /\ t \in PumpStates /\ t.wm.drag = s.wm.drag /\ t.flags = s.flags /\ Pumping(s, t)
<1> DEFINE t == ApplyMove(s)
<1>1. /\ t \in PumpStates /\ t.seq = s.seq /\ t.app = s.app /\ t.flags = s.flags
      /\ t.wm.focus = s.wm.focus /\ t.wm.keys = s.wm.keys /\ t.wm.drag = s.wm.drag
  <2>1. CASE s.move = NoPoint \/ s.wm.drag = NoApp
    BY <2>1 DEF ApplyMove, PumpStates, Windows, Moves
  <2>2. CASE ~(s.move = NoPoint \/ s.wm.drag = NoApp)
    <3>1. s.move \in InputPoints /\ s.wm.drag \in Apps /\ s.wm.at \in [Apps -> InputPoints]
      BY <2>2 DEF PumpStates, Moves, Windows
    <3> DEFINE at == [s.wm.at EXCEPT ![s.wm.drag] = s.move]
    <3>2. at \in [Apps -> InputPoints] BY <3>1
    <3>3. t = [s EXCEPT !.wm.at = at, !.move = NoPoint] BY <2>2 DEF ApplyMove, PumpStates, Windows
    <3> HIDE DEF at, t
    <3>4. NoPoint \in Moves BY DEF Moves
    <3> QED BY <3>2, <3>3, <3>4 DEF PumpStates, Windows
  <2> QED BY <2>1, <2>2
<1> HIDE DEF t
<1>2. Pumping(s, t) BY <1>1, Same
<1> QED BY <1>1, <1>2 DEF t

LEMMA PressStep ==
    ASSUME NEW s \in PumpStates, NEW w \in Apps \cup {NoApp}, NEW title \in BOOLEAN
    PROVE  LET t == PressAt(s, w, title)
           IN  t \in PumpStates /\ Onward(s, t) /\ t.wm.keys = s.wm.keys /\ t.flags = s.flags
<1>1. CASE w = NoApp
  <2>1. PressAt(s, w, title) = s BY <1>1 DEF PressAt
  <2> QED BY <2>1, Same DEF Pumping
<1>2. CASE w # NoApp
  <2> DEFINE f == FocusApp(s, w)
             t == GrabIf(f, w, title)
  <2>1. w \in Apps BY <1>2
  <2>2. /\ f \in PumpStates /\ Onward(s, f) /\ f.wm.keys = s.wm.keys /\ f.flags = s.flags
    BY <2>1, FocusStep
  <2>3. PressAt(s, w, title) = t BY <1>2 DEF PressAt
  <2> HIDE DEF f
  <2>4. /\ t \in PumpStates /\ t.wm.keys = f.wm.keys /\ t.flags = f.flags /\ t.seq = f.seq
        /\ t.app = f.app /\ t.wm.focus = f.wm.focus
    BY <2>1, <2>2 DEF GrabIf, PumpStates, Windows
  <2> HIDE DEF t
  <2>5. Onward(s, t) BY <2>2, <2>4 DEF Onward
  <2> QED BY <2>2, <2>3, <2>4, <2>5
<1> QED BY <1>1, <1>2

LEMMA FlagOn ==
    ASSUME NEW s \in PumpStates, NEW f \in {"move", "button", "key", "focus"}
    PROVE  LET t == WithFlag(s, f)
           IN  /\ t \in PumpStates /\ t.wm = s.wm /\ t.seq = s.seq /\ t.app = s.app /\ t.move = s.move
               /\ t.flags = s.flags \cup {f}
BY DEF WithFlag, PumpStates, Flags

LEMMA OnMouseOn ==
    ASSUME NEW s \in PumpStates, NEW e \in Events
    PROVE  LET t == OnMouse(s, e)
           IN  /\ t \in PumpStates /\ Pumping(s, t)
               /\ e.type = "move" => t.wm.drag = s.wm.drag
               /\ e.type = "up" => t.wm.drag = NoApp
<1>1. CASE e.type = "move"
  <2> DEFINE m == [s EXCEPT !.move = e.at]
             t == WithFlag(m, "move")
  <2>1. /\ m \in PumpStates /\ m.wm = s.wm /\ m.seq = s.seq /\ m.app = s.app /\ m.flags = s.flags
    BY DEF PumpStates, Moves, Events
  <2>2. OnMouse(s, e) = t BY <1>1 DEF OnMouse
  <2> HIDE DEF m
  <2>3. /\ t \in PumpStates /\ t.wm = m.wm /\ t.seq = m.seq /\ t.app = m.app
        /\ t.flags = m.flags \cup {"move"}
    BY <2>1, FlagOn
  <2> HIDE DEF t
  <2>4. Pumping(s, t) BY <2>1, <2>3, Same
  <2> QED BY <1>1, <2>1, <2>2, <2>3, <2>4
<1>2. CASE e.type = "down"
  <2> DEFINE m == ApplyMove(s)
             hit == Hit(m.wm, e.at)
             q == PressAt(m, hit, e.title)
             t == WithFlag(q, "button")
  <2>1. m \in PumpStates /\ Pumping(s, m) BY ApplyMoveOn
  <2>2. hit \in Apps \cup {NoApp} BY HitIs
  <2>3. OnMouse(s, e) = t BY <1>2 DEF OnMouse
  <2>4. e.title \in BOOLEAN BY DEF Events
  <2> HIDE DEF m, hit
  <2>5. q \in PumpStates /\ Onward(m, q) /\ q.wm.keys = m.wm.keys /\ q.flags = m.flags
    BY <2>1, <2>2, <2>4, PressStep
  <2> HIDE DEF q
  <2>6. /\ t \in PumpStates /\ t.wm = q.wm /\ t.seq = q.seq /\ t.app = q.app
        /\ t.flags = q.flags \cup {"button"}
    BY <2>5, FlagOn
  <2> HIDE DEF t
  <2>7. Onward(m, t) BY <2>5, <2>6 DEF Onward
  <2>8. Pumping(m, t) BY <2>5, <2>6, <2>7 DEF Pumping
  <2> QED BY <1>2, <2>1, <2>3, <2>6, <2>8, PumpingOn
<1>3. CASE e.type = "up"
  <2> DEFINE m == ApplyMove(s)
             q == [m EXCEPT !.wm.drag = NoApp]
             t == WithFlag(q, "button")
  <2>1. m \in PumpStates /\ Pumping(s, m) BY ApplyMoveOn
  <2>2. OnMouse(s, e) = t BY <1>3 DEF OnMouse
  <2> HIDE DEF m
  <2>3. /\ q \in PumpStates /\ q.seq = m.seq /\ q.app = m.app /\ q.flags = m.flags
        /\ q.wm.focus = m.wm.focus /\ q.wm.keys = m.wm.keys /\ q.wm.drag = NoApp
    BY <2>1 DEF PumpStates, Windows
  <2> HIDE DEF q
  <2>4. /\ t \in PumpStates /\ t.wm = q.wm /\ t.seq = q.seq /\ t.app = q.app
        /\ t.flags = q.flags \cup {"button"}
    BY <2>3, FlagOn
  <2> HIDE DEF t
  <2>5. Pumping(m, t) BY <2>1, <2>3, <2>4, Same
  <2> QED BY <1>3, <2>1, <2>2, <2>3, <2>4, <2>5, PumpingOn
<1> QED BY <1>1, <1>2, <1>3 DEF Events

(* What the ring of the mouse says of the button: its last event of a button  *)
(* is of the position the button is in; with none a window is dragged only    *)
(* with the button down.                                                     *)
Buttonless(q, i) == \A k \in i .. Len(q) : q[k].type = "move"

Ring(q, down, dragged) ==
    /\ Buttonless(q, 1) /\ dragged => down = TRUE
    /\ \A j \in 1 .. Len(q) :
          q[j].type # "move" /\ Buttonless(q, j + 1) => (q[j].type = "down" <=> down = TRUE)

RingSound == lostUp = FALSE => Ring(evq, mouse.down, wm.drag # NoApp)

(* The fold of Drained.                                                      *)
LEMMA DrainedIs ==
    ASSUME InputTypeOK, NEW s \in PumpStates
    PROVE  \E go \in [0 .. Len(evq) -> PumpStates] :
               /\ go[0] = s /\ \A k \in 1 .. Len(evq) : go[k] = OnMouse(go[k - 1], evq[k])
               /\ Drained(s) = ApplyMove(go[Len(evq)])
<1> DEFINE n == Len(evq)
           F == [p \in PumpStates \X (1 .. n) |-> OnMouse(p[1], evq[p[2]])]
           Is(g) == g = [k \in 0 .. n |-> IF k = 0 THEN s ELSE OnMouse(g[k - 1], evq[k])]
           go == CHOOSE g : Is(g)
<1>1. n \in Nat /\ \A k \in 1 .. n : evq[k] \in Events BY DEF InputTypeOK
<1>2. F \in Steps(PumpStates, n) BY <1>1, OnMouseOn DEF Steps
<1>3. \A t \in PumpStates, k \in 1 .. n : F[<<t, k>>] = OnMouse(t, evq[k]) OBVIOUS
<1>4. Drained(s) = ApplyMove(go[n]) BY DEF Drained
<1> HIDE DEF F, n
<1>5. PICK g : Recurs(g, PumpStates, n, s, F) BY <1>1, <1>2, Recursion
<1>6. g \in [0 .. n -> PumpStates] /\ g[0] = s /\ \A k \in 1 .. n : g[k] = F[<<g[k - 1], k>>]
  BY <1>5 DEF Recurs
<1>7. Is(g)
  <2>1. \A k \in 0 .. n : g[k] = IF k = 0 THEN s ELSE OnMouse(g[k - 1], evq[k])
    <3> SUFFICES ASSUME NEW k \in 0 .. n, k # 0 PROVE g[k] = OnMouse(g[k - 1], evq[k]) BY <1>6
    <3>1. k \in 1 .. n /\ k - 1 \in 0 .. n BY <1>1
    <3>2. g[k - 1] \in PumpStates BY <1>6, <3>1
    <3> QED BY <1>3, <1>6, <3>1, <3>2
  <2>2. g = [k \in 0 .. n |-> g[k]] BY <1>6
  <2> QED BY <2>1, <2>2
<1> HIDE DEF Is
<1>8. Is(go) BY <1>7
<1>9. go = [k \in 0 .. n |-> IF k = 0 THEN s ELSE OnMouse(go[k - 1], evq[k])] BY <1>8 DEF Is
<1> HIDE DEF go
<1>10. go[0] = s /\ \A k \in 1 .. n : go[k] = OnMouse(go[k - 1], evq[k]) BY <1>1, <1>9
<1>11. \A k \in 0 .. n : go[k] \in PumpStates
  <2> DEFINE S == {k \in 0 .. n : go[k] \in PumpStates}
  <2>1. 0 \in S BY <1>1, <1>10
  <2>2. ASSUME NEW k \in 1 .. n, k - 1 \in S PROVE k \in S BY <1>1, <1>10, <2>2, OnMouseOn
  <2> HIDE DEF S
  <2>3. \A k \in 0 .. n : k \in S BY <1>1, <2>1, <2>2, UpTo
  <2> QED BY <2>3 DEF S
<1>12. go \in [0 .. n -> PumpStates] BY <1>9, <1>11
<1> QED BY <1>4, <1>10, <1>12 DEF n

(* A drag that outlives the events of the ring has the button down.          *)
LEMMA DrainedOn ==
    ASSUME InputTypeOK, RingSound, NEW s \in PumpStates, s.wm.drag = wm.drag
    PROVE  LET t == Drained(s)
           IN  /\ t \in PumpStates /\ Pumping(s, t)
               /\ t.wm.drag # NoApp /\ ~lostUp => mouse.down = TRUE
<1> DEFINE n == Len(evq)
<1>1. PICK go \in [0 .. n -> PumpStates] :
          /\ go[0] = s /\ \A k \in 1 .. n : go[k] = OnMouse(go[k - 1], evq[k])
          /\ Drained(s) = ApplyMove(go[n])
  BY DrainedIs
<1>2. n \in Nat /\ \A k \in 1 .. n : evq[k] \in Events BY DEF InputTypeOK
<1> HIDE DEF n
<1>3. ASSUME NEW k \in 1 .. n
      PROVE  /\ go[k - 1] \in PumpStates /\ go[k] \in PumpStates /\ Pumping(go[k - 1], go[k])
             /\ evq[k].type = "move" => go[k].wm.drag = go[k - 1].wm.drag
             /\ evq[k].type = "up" => go[k].wm.drag = NoApp
  <2>1. go[k - 1] \in PumpStates /\ evq[k] \in Events /\ go[k] = OnMouse(go[k - 1], evq[k])
    BY <1>1, <1>2
  <2> QED BY <2>1, OnMouseOn
<1>4. \A k \in 0 .. n : Pumping(s, go[k])
  <2> DEFINE S == {k \in 0 .. n : Pumping(s, go[k])}
  <2>1. 0 \in S BY <1>1, <1>2, Same
  <2>2. ASSUME NEW k \in 1 .. n, k - 1 \in S PROVE k \in S BY <1>2, <1>3, <2>2, PumpingOn
  <2> HIDE DEF S
  <2>3. \A k \in 0 .. n : k \in S BY <1>2, <2>1, <2>2, UpTo
  <2> QED BY <2>3 DEF S
<1>5. \A j \in 0 .. n : Buttonless(evq, j + 1) => go[n].wm.drag = go[j].wm.drag
  <2> SUFFICES ASSUME NEW j \in 0 .. n, Buttonless(evq, j + 1) PROVE go[n].wm.drag = go[j].wm.drag OBVIOUS
  <2> DEFINE S == {k \in 0 .. n : k >= j => go[k].wm.drag = go[j].wm.drag}
  <2>1. 0 \in S BY <1>2
  <2>2. ASSUME NEW k \in 1 .. n, k - 1 \in S PROVE k \in S
    <3> SUFFICES ASSUME k >= j, k # j PROVE go[k].wm.drag = go[j].wm.drag BY <1>2
    <3>1. k \in j + 1 .. n /\ k - 1 >= j BY <1>2
    <3>2. evq[k].type = "move" BY <3>1 DEF Buttonless, n
    <3> QED BY <1>3, <2>2, <3>1, <3>2
  <2> HIDE DEF S
  <2>3. \A k \in 0 .. n : k \in S BY <1>2, <2>1, <2>2, UpTo
  <2> QED BY <1>2, <2>3 DEF S
<1> DEFINE t == Drained(s)
<1>6. go[n] \in PumpStates /\ Pumping(s, go[n]) BY <1>1, <1>2, <1>4
<1>7. /\ t \in PumpStates /\ Pumping(s, t) /\ t.wm.drag = go[n].wm.drag
  <2> DEFINE z == go[n]
  <2>1. z \in PumpStates /\ Pumping(s, z) /\ t = ApplyMove(z) BY <1>1, <1>6
  <2> HIDE DEF z
  <2> QED BY <2>1, ApplyMoveOn, PumpingOn DEF z
<1>8. ASSUME go[n].wm.drag # NoApp, lostUp # TRUE PROVE mouse.down = TRUE
  <2>1. lostUp = FALSE BY <1>8 DEF InputTypeOK
  <2>2. CASE Buttonless(evq, 1)
    <3>1. go[n].wm.drag = go[0].wm.drag BY <1>2, <1>5, <2>2
    <3> QED BY <1>1, <1>8, <2>1, <2>2, <3>1 DEF RingSound, Ring, n
  <2>3. CASE ~Buttonless(evq, 1)
    <3> DEFINE B == {m \in 0 .. n : m < n /\ evq[n - m].type # "move"}
    <3>1. B # {}
      <4>1. PICK k \in 1 .. n : evq[k].type # "move" BY <2>3 DEF Buttonless, n
      <4>2. n - k \in B BY <1>2, <4>1
      <4> QED BY <4>2
    <3>5. B \subseteq Nat BY <1>2
    <3>2. PICK m \in B : \A y \in B : m <= y BY <3>1, <3>5, HasLeast
    <3> DEFINE j == n - m
    <3>3. j \in 1 .. n /\ evq[j].type # "move" BY <1>2, <3>2
    <3>4. Buttonless(evq, j + 1)
      <4> SUFFICES ASSUME NEW k \in j + 1 .. n, evq[k].type # "move" PROVE FALSE BY DEF Buttonless, n
      <4>1. m \in 0 .. n /\ k \in 1 .. n /\ n - k < m /\ n - (n - k) = k BY <1>2, <3>3
      <4>2. n - k \in B BY <1>2, <4>1
      <4> QED BY <1>2, <3>2, <4>1, <4>2, SMTT(30)
    <3> HIDE DEF j
    <3>7. evq[j].type = "down" <=> mouse.down = TRUE BY <2>1, <3>3, <3>4 DEF RingSound, Ring, n
    <3>6. evq[j].type # "up"
      <4> SUFFICES ASSUME evq[j].type = "up" PROVE FALSE OBVIOUS
      <4>1. go[j].wm.drag = NoApp BY <1>3, <3>3
      <4> QED BY <1>5, <1>8, <3>3, <3>4, <4>1
    <3> QED BY <1>2, <3>3, <3>6, <3>7 DEF Events
  <2> QED BY <2>2, <2>3
<1> HIDE DEF t
<1> QED BY <1>7, <1>8 DEF t

(* A whole pump: without a flag nothing that a program waits for changed.     *)
Begun == PumpState({})

LEMMA BegunIs ==
    ASSUME InputTypeOK
    PROVE  /\ Begun \in PumpStates /\ Begun.wm = wm /\ Begun.seq = seq /\ Begun.app = app /\ Begun.flags = {}
BY DEF Begun, PumpState, PumpStates, InputTypeOK, Flags, Moves

LEMMA TypedOn ==
    ASSUME InputTypeOK, NEW s \in PumpStates
    PROVE  LET t == KeyFlag(Typed(s))
           IN  /\ t \in PumpStates /\ Onward(s, t) /\ t.wm.drag = s.wm.drag /\ s.flags \subseteq t.flags
               /\ "key" \notin t.flags => t.wm.keys = s.wm.keys
<1> DEFINE y == Typed(s)
           t == KeyFlag(y)
<1>1. kbd \in Nat BY DEF InputTypeOK
<1>2. /\ y \in PumpStates /\ y.seq = s.seq /\ y.app = s.app /\ y.flags = s.flags
      /\ y.wm.focus = s.wm.focus /\ y.wm.drag = s.wm.drag
      /\ kbd = 0 => y.wm.keys = s.wm.keys
  <2>1. CASE s.wm.focus = NoApp \/ kbd = 0
    <3>1. y = s BY <2>1 DEF Typed
    <3> QED BY <3>1
  <2>2. CASE ~(s.wm.focus = NoApp \/ kbd = 0)
    <3> DEFINE f == s.wm.focus
               n == s.wm.keys[f] + kbd
               v == IF n < WM_KEYBUF_SIZE THEN n ELSE WM_KEYBUF_SIZE - 1
    <3>1. f \in Apps /\ s.wm.keys \in [Apps -> Nat] BY <2>2 DEF PumpStates, Windows
    <3>2. v \in Nat BY <1>1, <3>1, InputAssumption
    <3>3. y = [s EXCEPT !.wm.keys[f] = v] BY <2>2 DEF Typed
    <3> HIDE DEF f, v, y
    <3> QED BY <2>2, <3>1, <3>2, <3>3 DEF PumpStates, Windows
  <2> QED BY <2>1, <2>2
<1> HIDE DEF y
<1>3. CASE kbd = 0
  <2>1. t = y BY <1>3 DEF KeyFlag
  <2> QED BY <1>2, <1>3, <2>1 DEF Onward, PumpStates, y
<1>4. CASE kbd # 0
  <2>1. t = WithFlag(y, "key") BY <1>4 DEF KeyFlag
  <2>2. /\ t \in PumpStates /\ t.wm = y.wm /\ t.seq = y.seq /\ t.app = y.app
        /\ t.flags = y.flags \cup {"key"}
    BY <1>2, <2>1, FlagOn
  <2> HIDE DEF t
  <2> QED BY <1>2, <2>2 DEF Onward, PumpStates, y, t
<1> QED BY <1>3, <1>4

LEMMA FlagsOn ==
    ASSUME NEW s \in PumpStates
    PROVE  LET t == MoveFlag(FocusFlag(s))
           IN  /\ t \in PumpStates /\ t.wm = s.wm /\ t.seq = s.seq /\ t.app = s.app /\ s.flags \subseteq t.flags
<1> DEFINE x == FocusFlag(s)
           t == MoveFlag(x)
<1>1. /\ x \in PumpStates /\ x.wm = s.wm /\ x.seq = s.seq /\ x.app = s.app /\ s.flags \subseteq x.flags
  <2> DEFINE y == WithFlag(s, "focus")
             z == WithFlag(y, "move")
  <2>1. x = s \/ x = z BY DEF FocusFlag
  <2>2. /\ y \in PumpStates /\ y.wm = s.wm /\ y.seq = s.seq /\ y.app = s.app
        /\ y.flags = s.flags \cup {"focus"}
    BY FlagOn
  <2> HIDE DEF y
  <2>3. /\ z \in PumpStates /\ z.wm = y.wm /\ z.seq = y.seq /\ z.app = y.app
        /\ z.flags = y.flags \cup {"move"}
    BY <2>2, FlagOn
  <2> HIDE DEF z, x
  <2> QED BY <2>1, <2>2, <2>3
<1> HIDE DEF x
<1>2. t = x \/ t = WithFlag(x, "move") BY DEF MoveFlag
<1>3. LET z == WithFlag(x, "move")
      IN  /\ z \in PumpStates /\ z.wm = x.wm /\ z.seq = x.seq /\ z.app = x.app
          /\ z.flags = x.flags \cup {"move"}
  BY <1>1, FlagOn
<1> HIDE DEF t
<1>4. /\ t \in PumpStates /\ t.wm = s.wm /\ t.seq = s.seq /\ t.app = s.app /\ s.flags \subseteq t.flags
  BY <1>1, <1>2, <1>3
<1> QED BY <1>4 DEF t, x

LEMMA PumpedOn ==
    ASSUME InputTypeOK, RingSound
    PROVE  LET s == Pumped
           IN  /\ s \in PumpStates /\ Onward(Begun, s)
               /\ lostUp = FALSE => /\ s.wm.drag # NoApp => mouse.down = TRUE
                                    /\ s.flags = {} => s.wm.keys = wm.keys /\ s.wm.drag = wm.drag
<1> DEFINE d == Drained(Begun)
           r == Released(d)
           k == KeyFlag(Typed(r))
           m == MoveFlag(FocusFlag(k))
           s == Coalesce(m)
<1>0. Begun \in PumpStates /\ Begun.wm = wm BY BegunIs
<1>1. /\ d \in PumpStates /\ Pumping(Begun, d)
      /\ d.wm.drag # NoApp /\ ~lostUp => mouse.down = TRUE
  BY <1>0, DrainedOn
<1> HIDE DEF d
<1>2. /\ r \in PumpStates /\ Onward(d, r) /\ r.flags = d.flags /\ r.wm.keys = d.wm.keys
      /\ lostUp = FALSE => r.wm.drag = d.wm.drag /\ (r.wm.drag # NoApp => mouse.down = TRUE)
  <2>1. CASE mouse.down = TRUE
    <3>1. r = d BY <2>1 DEF Released
    <3>2. Onward(d, d) BY <1>1 DEF Onward, PumpStates
    <3> QED BY <1>1, <2>1, <3>1, <3>2
  <2>2. CASE mouse.down = FALSE
    <3>1. r = [d EXCEPT !.wm.drag = NoApp] BY <2>2 DEF Released
    <3>2. /\ r \in PumpStates /\ r.flags = d.flags /\ r.wm.keys = d.wm.keys /\ r.seq = d.seq /\ r.app = d.app
          /\ r.wm.drag = NoApp /\ r.wm.focus = d.wm.focus
      BY <1>1, <3>1 DEF PumpStates, Windows
    <3> HIDE DEF r
    <3>3. Onward(d, r) BY <1>1, <3>2 DEF Onward, PumpStates
    <3>4. lostUp = FALSE => d.wm.drag = NoApp BY <1>1, <2>2
    <3> QED BY <3>2, <3>3, <3>4
  <2> QED BY <2>1, <2>2 DEF InputTypeOK
<1> HIDE DEF r
<1>3. /\ k \in PumpStates /\ Onward(r, k) /\ k.wm.drag = r.wm.drag /\ r.flags \subseteq k.flags
      /\ "key" \notin k.flags => k.wm.keys = r.wm.keys
  BY <1>2, TypedOn
<1> HIDE DEF k
<1>4. /\ m \in PumpStates /\ m.wm = k.wm /\ m.seq = k.seq /\ m.app = k.app /\ k.flags \subseteq m.flags
  BY <1>3, FlagsOn
<1> HIDE DEF m
<1>5. /\ s \in PumpStates /\ s.wm = m.wm /\ s.seq = m.seq /\ s.app = m.app
      /\ s.flags = {} => m.flags \subseteq {"move"}
  BY <1>4 DEF Coalesce, PumpStates, Flags
<1> HIDE DEF s
<1>6. Onward(Begun, r) BY <1>0, <1>1, <1>2, OnwardOn DEF Pumping
<1>7. Onward(Begun, k) BY <1>0, <1>2, <1>3, <1>6, OnwardOn
<1>8. Onward(Begun, s) BY <1>4, <1>5, <1>7 DEF Onward
<1>9. ASSUME s.flags = {}, lostUp = FALSE PROVE s.wm.keys = wm.keys /\ s.wm.drag = wm.drag
  <2>1. "key" \notin k.flags /\ "button" \notin d.flags BY <1>2, <1>3, <1>4, <1>5, <1>9
  <2> QED BY <1>0, <1>1, <1>2, <1>3, <1>4, <1>5, <1>9, <2>1 DEF Pumping
<1>10. lostUp = FALSE => (s.wm.drag # NoApp => mouse.down = TRUE) BY <1>2, <1>3, <1>4, <1>5
<1>11. Pumped = s BY DEF Pumped, s, m, k, r, d, Begun
<1> QED BY <1>5, <1>8, <1>9, <1>10, <1>11

LEMMA ToldOn ==
    ASSUME NEW s \in PumpStates, Onward(Begun, s), InputTypeOK
    PROVE  LET t == Told(s)
           IN  /\ t \in PumpStates /\ t.wm = s.wm /\ Onward(Begun, t)
               /\ s.flags # {} => /\ t.seq > seq
                                  /\ \A w \in Running : t.wm.focus = w => t.app[w].pc # "blocked"
<1> DEFINE t == Told(s)
<1>1. CASE s.flags = {} BY <1>1 DEF Told
<1>2. CASE s.flags # {}
  <2> DEFINE h == Hit(s.wm, mouse.at)
             pr == Hit(wm, cursor)
  <2>1. t = Notify(s, h, s.wm.focus, pr, NoApp) BY <1>2 DEF Told
  <2> HIDE DEF t, h, pr
  <2>2. /\ t \in PumpStates /\ t.wm = s.wm /\ t.seq = s.seq + 1
        /\ \A w \in Running : t.app[w] = IF s.app[w].pc = "blocked" /\ Relevant(w, h, s.wm.focus, pr, NoApp)
                                        THEN [s.app[w] EXCEPT !.pc = "state"] ELSE s.app[w]
    BY <2>1, NotifyOn
  <2>3. \A w \in Running : s.app[w] \in [pc : {"wait", "blocked", "state", "keys"}, seq : Nat, focus : BOOLEAN, drag : BOOLEAN]
    BY DEF PumpStates, Waiters
  <2>4. s.seq \in Nat /\ t.seq > s.seq /\ Begun.seq = seq /\ seq \in Nat /\ seq <= s.seq
    BY <2>2, BegunIs DEF PumpStates, Onward
  <2>5. \A w \in Running : t.wm.focus = w => t.app[w].pc # "blocked"
    BY <2>2, <2>3 DEF Relevant
  <2>6. Onward(s, t) BY <2>2, <2>4, <2>5 DEF Onward
  <2>7. Onward(Begun, t) BY <2>2, <2>6, BegunIs, OnwardOn
  <2> QED BY <2>2, <2>4, <2>5, <2>7 DEF t
<1> QED BY <1>1, <1>2
-----------------------------------------------------------------------------
(* What a program knows of its window is true while its sequence number is    *)
(* the server's, and as long as it sleeps.                                   *)
Awaits(w) ==
    LET a == app[w]
    IN  /\ a.seq <= seq
        /\ a.pc \in {"keys", "wait"} /\ a.seq = seq =>
              /\ a.focus = TRUE <=> wm.focus = w
              /\ lostUp = FALSE => (a.drag = TRUE <=> wm.drag = w)
        /\ a.pc = "wait" /\ a.seq = seq /\ lostUp = FALSE =>
              (a.focus = TRUE /\ a.drag = FALSE => wm.keys[w] = 0)
        /\ a.pc = "blocked" /\ lostUp = FALSE =>
              (wm.focus = w /\ wm.drag # w => a.focus = TRUE /\ wm.keys[w] = 0)

InputInv == InputTypeOK /\ RingSound /\ \A w \in Running : Awaits(w)

LEMMA InputInitInv == InputInit => InputInv
<1> SUFFICES ASSUME InputInit PROVE InputInv OBVIOUS
<1>1. InputTypeOK
  <2>1. \A w \in Apps : Home[w] \in InputPoints BY DEF InputPoints
  <2>5. Home \in [Apps -> InputPoints] BY <2>1, InputAssumption
  <2>6. [w \in Apps |-> 0] \in [Apps -> Nat] OBVIOUS
  <2> DEFINE none == [w \in Apps |-> 0]
  <2>7. wm = [at |-> Home, top |-> NoApp, focus |-> NoApp, drag |-> NoApp, keys |-> none] BY DEF InputInit
  <2> HIDE DEF none
  <2>2. wm \in Windows BY <2>5, <2>6, <2>7 DEF Windows, none
  <2>3. mouse \in [at : InputPoints, down : BOOLEAN] /\ evq \in Seq(Events)
    <3>1. evq = << >> /\ mouse \in [at : InputPoints, down : {FALSE}] BY DEF InputInit
    <3>2. << >> \in Seq(Events) OBVIOUS
    <3>3. [at : InputPoints, down : {FALSE}] \subseteq [at : InputPoints, down : BOOLEAN]
      <4> DEFINE P == InputPoints
      <4> HIDE DEF P
      <4>1. [at : P, down : {FALSE}] \subseteq [at : P, down : BOOLEAN] OBVIOUS
      <4> QED BY <4>1 DEF P
    <3>4. evq \in Seq(Events) BY ONLY <3>1, <3>2
    <3> QED BY <3>1, <3>3, <3>4
  <2>4. app \in Waiters BY DEF InputInit, Waiters
  <2> QED BY <2>2, <2>3, <2>4 DEF InputInit, InputTypeOK, Moves
<1>2. RingSound BY InputAssumption DEF InputInit, RingSound, Ring
<1>3. \A w \in Running : Awaits(w) BY DEF InputInit, Awaits
<1> QED BY <1>1, <1>2, <1>3 DEF InputInv

(* A pump leaves what a program other than its caller knows true.            *)
LEMMA PumpAwaits ==
    ASSUME InputInv, NEW w \in Running, Pump(Pumped, Told(Pumped)), app'[w] = Told(Pumped).app[w]
    PROVE  Awaits(w)'
<1> DEFINE s == Pumped
           t == Told(s)
<1>1. /\ s \in PumpStates /\ Onward(Begun, s)
      /\ lostUp = FALSE => /\ s.flags = {} => s.wm.keys = wm.keys /\ s.wm.drag = wm.drag
  BY PumpedOn DEF InputInv
<1> HIDE DEF s
<1>2. /\ t \in PumpStates /\ t.wm = s.wm /\ Onward(Begun, t)
      /\ s.flags # {} => /\ t.seq > seq
                         /\ t.wm.focus = w => t.app[w].pc # "blocked"
  BY <1>1, ToldOn DEF InputInv
<1>3. wm' = t.wm /\ seq' = t.seq /\ lostUp' = lostUp /\ app'[w] = t.app[w] BY DEF Pump, s
<1> HIDE DEF t
<1>4. /\ seq <= t.seq /\ t.seq \in Nat /\ seq \in Nat
      /\ t.app[w] # app[w] => app[w].pc = "blocked" /\ t.app[w] = [app[w] EXCEPT !.pc = "state"]
      /\ t.app[w].pc = "blocked" /\ t.wm.focus = w => wm.focus = w
      /\ t.seq = seq => t.wm.focus = wm.focus
  BY <1>2, BegunIs DEF Onward, InputInv, InputTypeOK, PumpStates
<1>5. app[w] \in [pc : {"wait", "blocked", "state", "keys"}, seq : Nat, focus : BOOLEAN, drag : BOOLEAN]
  BY DEF InputInv, InputTypeOK, Waiters
<1>6. Awaits(w) BY DEF InputInv
<1>7. CASE t.app[w] # app[w]
  <2>1. t.app[w].pc = "state" /\ t.app[w].seq = app[w].seq BY <1>4, <1>5, <1>7
  <2>2. app'[w].pc = "state" /\ app'[w].seq <= seq' BY <1>3, <1>4, <1>5, <1>6, <2>1 DEF Awaits
  <2> QED BY <2>2 DEF Awaits
<1>8. CASE t.app[w] = app[w]
  <2>1. app'[w] = app[w] /\ app[w].seq <= seq' /\ (app[w].seq = seq' => app[w].seq = seq /\ seq' = seq)
    BY <1>3, <1>4, <1>5, <1>6, <1>8 DEF Awaits
  <2>2. CASE s.flags # {}
    <3>1. app[w].seq # seq' BY <1>2, <1>3, <1>4, <2>1, <2>2
    <3>2. app[w].pc = "blocked" => wm'.focus # w BY <1>2, <1>3, <1>8, <2>2
    <3> QED BY <2>1, <3>1, <3>2 DEF Awaits
  <2>3. CASE s.flags = {}
    <3>1. lostUp = FALSE => wm'.keys = wm.keys /\ wm'.drag = wm.drag BY <1>1, <1>2, <1>3, <2>3
    <3>2. app[w].seq = seq' => wm'.focus = wm.focus BY <1>3, <1>4, <2>1
    <3>3. app[w].pc = "blocked" /\ wm'.focus = w => wm.focus = w BY <1>3, <1>4, <1>8
    <3> QED BY <1>3, <1>6, <2>1, <3>1, <3>2, <3>3 DEF Awaits
  <2> QED BY <2>2, <2>3
<1> QED BY <1>7, <1>8

LEMMA PumpRest ==
    ASSUME InputInv, Pump(Pumped, Told(Pumped))
    PROVE  /\ RingSound' /\ wm' \in Windows /\ seq' \in Nat /\ kbd' \in Nat /\ evq' \in Seq(Events)
           /\ mouse' = mouse /\ cursor' \in Moves /\ notified' \in Moves /\ lostUp' = lostUp
           /\ Told(Pumped).app \in Waiters
<1> DEFINE s == Pumped
           t == Told(s)
<1>1. /\ s \in PumpStates /\ Onward(Begun, s)
      /\ lostUp = FALSE => (s.wm.drag # NoApp => mouse.down = TRUE)
  BY PumpedOn DEF InputInv
<1>2. /\ kbd' = 0 /\ evq' = << >> /\ cursor' = mouse.at /\ wm' = t.wm /\ seq' = t.seq
      /\ mouse' = mouse /\ lostUp' = lostUp /\ notified' \in {mouse.at, notified}
  BY DEF Pump
<1> HIDE DEF s
<1>3. t \in PumpStates /\ t.wm = s.wm BY <1>1, ToldOn DEF InputInv
<1> HIDE DEF t
<1>4. mouse.at \in Moves /\ notified \in Moves BY DEF InputInv, InputTypeOK, Moves
<1>5. wm' \in Windows /\ seq' \in Nat /\ t.app \in Waiters BY <1>2, <1>3 DEF PumpStates
<1>6. RingSound' BY <1>1, <1>2, <1>3 DEF RingSound, Ring, InputInv, InputTypeOK
<1>7. evq' \in Seq(Events) BY <1>2
<1> QED BY <1>2, <1>4, <1>5, <1>6, <1>7 DEF s, t

(* ev_push of an event that agrees with the button.                          *)
LEMMA RingAppend ==
    ASSUME NEW q \in Seq(Events), NEW down, NEW dragged, NEW e \in Events, NEW new,
           e.type = "move" => new = down,
           e.type # "move" => (e.type = "down" <=> new = TRUE),
           Ring(q, down, dragged)
    PROVE  Ring(Append(q, e), new, dragged)
<1> DEFINE n == Len(q)
           p == Append(q, e)
<1>1. /\ n \in Nat /\ Len(p) = n + 1 /\ p[n + 1] = e /\ \A k \in 1 .. n : p[k] = q[k]
  OBVIOUS
<1> HIDE DEF n, p
<1>2. CASE e.type = "move"
  <2>1. \A i \in 1 .. n + 1 : Buttonless(p, i) => Buttonless(q, i) BY <1>1 DEF Buttonless, n
  <2>2. Buttonless(p, 1) /\ dragged => new = TRUE BY <1>1, <1>2, <2>1 DEF Ring
  <2>3. ASSUME NEW j \in 1 .. n + 1, p[j].type # "move", Buttonless(p, j + 1)
        PROVE  p[j].type = "down" <=> new = TRUE
    <3>1. j \in 1 .. n /\ p[j] = q[j] BY <1>1, <1>2, <2>3
    <3>2. Buttonless(q, j + 1) BY <1>1, <2>1, <2>3, <3>1
    <3> QED BY <1>2, <2>3, <3>1, <3>2 DEF Ring, n
  <2> QED BY <1>1, <2>2, <2>3 DEF Ring, p
<1>3. CASE e.type # "move"
  <2>1. \A i \in 1 .. n + 1 : ~Buttonless(p, i) BY <1>1, <1>3 DEF Buttonless
  <2>2. \A j \in 1 .. n + 1 : Buttonless(p, j + 1) => j = n + 1 BY <1>1, <2>1
  <2> QED BY <1>1, <1>3, <2>1, <2>2 DEF Ring, p
<1> QED BY <1>2, <1>3

LEMMA RingTail ==
    ASSUME NEW q \in Seq(Events), NEW down, NEW dragged, q # << >>, q[1].type # "up",
           Ring(q, down, dragged)
    PROVE  Ring(Tail(q), down, dragged)
<1> DEFINE n == Len(q)
           p == Tail(q)
<1>1. n \in Nat \ {0} /\ Len(p) = n - 1 /\ \A k \in 1 .. n - 1 : p[k] = q[k + 1] OBVIOUS
<1>2. q[1] \in Events OBVIOUS
<1> HIDE DEF n, p
<1>3. ASSUME NEW i \in Nat \ {0}, Buttonless(p, i) PROVE Buttonless(q, i + 1)
  <2> SUFFICES ASSUME NEW k \in i + 1 .. n PROVE q[k].type = "move" BY DEF Buttonless, n
  <2>1. k - 1 \in i .. n - 1 /\ k - 1 \in 1 .. n - 1 /\ (k - 1) + 1 = k BY <1>1
  <2>2. p[k - 1].type = "move" BY <1>1, <1>3, <2>1 DEF Buttonless
  <2> QED BY <1>1, <2>1, <2>2
<1>4. ASSUME Buttonless(p, 1), dragged PROVE down = TRUE
  <2>1. Buttonless(q, 2) BY <1>3, <1>4
  <2>2. CASE q[1].type = "move"
    <3>1. Buttonless(q, 1)
      <4>1. \A k \in 1 .. n : k = 1 \/ k \in 2 .. n BY <1>1
      <4> QED BY <2>1, <2>2, <4>1 DEF Buttonless, n
    <3> QED BY <1>4, <3>1 DEF Ring
  <2>3. CASE q[1].type = "down" BY <1>1, <2>1, <2>3 DEF Ring, n
  <2> QED BY <1>2, <2>2, <2>3 DEF Events
<1>5. ASSUME NEW j \in 1 .. n - 1, p[j].type # "move", Buttonless(p, j + 1)
      PROVE  p[j].type = "down" <=> down = TRUE
  <2>3. j \in Nat /\ j >= 1 /\ j <= n - 1 /\ n \in Nat BY <1>1
  <2>4. p[j] = q[j + 1] BY <1>1
  <2>1. j + 1 \in 1 .. n /\ p[j] = q[j + 1] /\ j + 1 \in Nat \ {0}
    <3> HIDE <1>1
    <3> QED BY <2>3, <2>4
  <2>2. Buttonless(q, (j + 1) + 1) BY <1>3, <1>5, <2>1
  <2> QED BY <1>5, <2>1, <2>2 DEF Ring, n
<1> QED BY <1>1, <1>4, <1>5 DEF Ring, p

LEMMA RingMove ==
    ASSUME NEW q \in Seq(Events), NEW down, NEW dragged, q # << >>, q[Len(q)].type = "move",
           NEW e \in Events, e.type = "move", Ring(q, down, dragged)
    PROVE  Ring([q EXCEPT ![Len(q)] = e], down, dragged)
<1> DEFINE n == Len(q)
           p == [q EXCEPT ![n] = e]
<1>1. n \in Nat \ {0} /\ Len(p) = n /\ \A k \in 1 .. n : p[k].type = q[k].type OBVIOUS
<1> HIDE DEF n, p
<1>2. \A i \in Nat \ {0} : Buttonless(p, i) => Buttonless(q, i) BY <1>1 DEF Buttonless, n
<1>3. \A j \in 1 .. n : j + 1 \in Nat \ {0} BY <1>1
<1>4. Buttonless(p, 1) /\ dragged => down = TRUE BY <1>2 DEF Ring
<1>5. ASSUME NEW j \in 1 .. n, p[j].type # "move", Buttonless(p, j + 1)
      PROVE  p[j].type = "down" <=> down = TRUE
  BY <1>1, <1>2, <1>3, <1>5 DEF Ring, n
<1>6. Ring(p, down, dragged) BY <1>1, <1>4, <1>5 DEF Ring
<1> QED BY <1>6 DEF p, n

LEMMA PushSound ==
    ASSUME InputTypeOK, RingSound, NEW e \in Events, Push(e), wm' = wm,
           NEW new, mouse'.down = new,
           e.type = "move" => new = mouse.down,
           e.type # "move" => (e.type = "down" <=> new = TRUE)
    PROVE  evq' \in Seq(Events) /\ lostUp' \in BOOLEAN /\ (lostUp' = FALSE => lostUp = FALSE) /\ RingSound'
<1> DEFINE n == Len(evq)
           dragged == wm.drag # NoApp
<1>1. evq \in Seq(Events) /\ lostUp \in BOOLEAN /\ MOUSE_EVQ \in Nat \ {0, 1}
  BY InputAssumption DEF InputTypeOK
<1>2. RingSound' <=> (lostUp' = FALSE => Ring(evq', new, dragged)) BY DEF RingSound
<1>3. lostUp = FALSE => Ring(evq, mouse.down, dragged) BY DEF RingSound
<1> HIDE DEF dragged
<1>4. CASE e.type = "move" /\ evq # << >> /\ evq[n].type = "move"
  <2>1. evq' = [evq EXCEPT ![n] = e] /\ lostUp' = lostUp BY <1>4 DEF Push
  <2>2. lostUp = FALSE => Ring(evq', mouse.down, dragged) BY <1>1, <1>3, <1>4, <2>1, RingMove
  <2>3. evq' \in Seq(Events) BY <1>1, <1>4, <2>1
  <2> QED BY <1>1, <1>2, <1>4, <2>1, <2>2, <2>3
<1>5. CASE ~(e.type = "move" /\ evq # << >> /\ evq[n].type = "move") /\ n # MOUSE_EVQ - 1
  <2>1. evq' = Append(evq, e) /\ lostUp' = lostUp BY <1>5 DEF Push
  <2>2. lostUp = FALSE => Ring(evq', new, dragged) BY <1>1, <1>3, <2>1, RingAppend
  <2> QED BY <1>1, <1>2, <2>1, <2>2
<1>6. CASE ~(e.type = "move" /\ evq # << >> /\ evq[n].type = "move") /\ n = MOUSE_EVQ - 1
  <2>1. evq' = Append(Tail(evq), e) /\ lostUp' = (lostUp \/ evq[1].type = "up") BY <1>6 DEF Push
  <2>2. evq # << >> /\ Tail(evq) \in Seq(Events) BY <1>1, <1>6
  <2>3. lostUp' \in BOOLEAN /\ (lostUp' = FALSE => lostUp = FALSE /\ evq[1].type # "up") BY <1>1, <2>1
  <2>4. lostUp' = FALSE => Ring(Tail(evq), mouse.down, dragged) BY <1>1, <1>3, <2>2, <2>3, RingTail
  <2>5. lostUp' = FALSE => Ring(evq', new, dragged) BY <2>1, <2>2, <2>4, RingAppend
  <2> QED BY <1>2, <2>1, <2>2, <2>3, <2>5
<1> QED BY <1>4, <1>5, <1>6

(* What neither the server nor the devices do to a program leaves it its      *)
(* knowledge.                                                                *)
LEMMA AwaitsStays ==
    ASSUME InputInv, NEW w \in Running, app'[w] = app[w], seq' = seq, lostUp' \in BOOLEAN,
           lostUp' = FALSE => lostUp = FALSE, wm'.focus = wm.focus, wm'.drag = wm.drag,
           wm'.keys[w] = wm.keys[w]
    PROVE  Awaits(w)'
BY DEF InputInv, Awaits

LEMMA InputNextInv == InputInv /\ [InputNext]_inputVars => InputInv'
<1> SUFFICES ASSUME InputInv, [InputNext]_inputVars PROVE InputInv' OBVIOUS
<1>1. /\ InputTypeOK /\ RingSound /\ \A w \in Running : Awaits(w)
      /\ wm \in Windows /\ app \in Waiters /\ seq \in Nat /\ lostUp \in BOOLEAN /\ mouse.down \in BOOLEAN
  BY DEF InputInv, InputTypeOK
<1>2. ASSUME NEW p \in InputPoints, MouseMoves(p) PROVE InputInv'
  <2> DEFINE e == [type |-> "move", at |-> p, title |-> FALSE]
  <2>1. /\ mouse' = [mouse EXCEPT !.at = p] /\ Push(e)
        /\ UNCHANGED <<kbd, cursor, notified, wm, seq, app>>
    BY <1>2 DEF MouseMoves
  <2>2. mouse' \in [at : InputPoints, down : BOOLEAN] /\ mouse'.down = mouse.down
    BY <2>1 DEF InputInv, InputTypeOK
  <2>3. e \in Events /\ e.type = "move" BY DEF Events
  <2> HIDE DEF e
  <2>4. evq' \in Seq(Events) /\ lostUp' \in BOOLEAN /\ (lostUp' = FALSE => lostUp = FALSE) /\ RingSound'
    BY <1>1, <2>1, <2>2, <2>3, PushSound
  <2>5. \A w \in Running : Awaits(w)' BY <2>1, <2>4, AwaitsStays
  <2>6. InputTypeOK' BY <1>1, <2>1, <2>2, <2>4 DEF InputTypeOK
  <2> QED BY <2>4, <2>5, <2>6 DEF InputInv
<1>3. ASSUME NEW title \in BOOLEAN, MouseButton(title) PROVE InputInv'
  <2> DEFINE e == [type |-> IF mouse.down THEN "up" ELSE "down", at |-> mouse.at, title |-> title]
             new == ~mouse.down
  <2>1. /\ mouse' = [mouse EXCEPT !.down = new] /\ Push(e)
        /\ UNCHANGED <<kbd, cursor, notified, wm, seq, app>>
    BY <1>3 DEF MouseButton
  <2>2. mouse' \in [at : InputPoints, down : BOOLEAN] /\ mouse'.down = new
    BY <2>1 DEF InputInv, InputTypeOK
  <2>3. e \in Events /\ e.type # "move" /\ (e.type = "down" <=> new = TRUE)
    <3>1. mouse.at \in InputPoints BY DEF InputInv, InputTypeOK
    <3>2. CASE mouse.down = TRUE BY <3>1, <3>2 DEF Events
    <3>3. CASE mouse.down = FALSE BY <3>1, <3>3 DEF Events
    <3> QED BY <1>1, <3>2, <3>3
  <2> HIDE DEF e, new
  <2>4. evq' \in Seq(Events) /\ lostUp' \in BOOLEAN /\ (lostUp' = FALSE => lostUp = FALSE) /\ RingSound'
    BY <1>1, <2>1, <2>2, <2>3, PushSound
  <2>5. \A w \in Running : Awaits(w)' BY <2>1, <2>4, AwaitsStays
  <2>6. InputTypeOK' BY <1>1, <2>1, <2>2, <2>4 DEF InputTypeOK
  <2> QED BY <2>4, <2>5, <2>6 DEF InputInv
<1>4. ASSUME KeyPressed PROVE InputInv'
  <2>1. kbd' \in Nat /\ UNCHANGED <<evq, mouse, cursor, notified, wm, seq, app, lostUp>>
    BY <1>1, <1>4 DEF KeyPressed, InputTypeOK
  <2>2. \A w \in Running : Awaits(w)' BY <1>1, <2>1, AwaitsStays
  <2>3. InputTypeOK' BY <1>1, <2>1 DEF InputTypeOK
  <2>4. RingSound' BY <1>1, <2>1 DEF RingSound
  <2> QED BY <2>2, <2>3, <2>4 DEF InputInv
<1>5. ASSUME NEW w \in Apps, AskFocus(w) PROVE InputInv'
  <2> DEFINE s == FocusApp(Begun, w)
  <2>1. /\ wm' = s.wm /\ seq' = s.seq /\ app' = s.app
        /\ UNCHANGED <<kbd, evq, mouse, cursor, notified, lostUp>>
    BY <1>5 DEF AskFocus, Begun
  <2>2. Begun \in PumpStates /\ Begun.wm = wm /\ Begun.seq = seq /\ Begun.app = app BY <1>1, BegunIs
  <2>3. /\ s \in PumpStates /\ Onward(Begun, s) /\ s.seq = seq + 1
        /\ s.wm.focus = w /\ s.wm.keys = wm.keys /\ s.wm.drag = wm.drag
    BY <2>2, FocusStep
  <2> HIDE DEF s
  <2>4. InputTypeOK' BY <1>1, <2>1, <2>3 DEF InputTypeOK, PumpStates
  <2>5. RingSound' BY <1>1, <2>1, <2>3 DEF RingSound
  <2>6. ASSUME NEW x \in Running PROVE Awaits(x)'
    <3>1. /\ s.app[x] # app[x] => app[x].pc = "blocked" /\ s.app[x] = [app[x] EXCEPT !.pc = "state"]
          /\ s.app[x].pc = "blocked" /\ s.wm.focus = x => wm.focus = x
      BY <2>2, <2>3 DEF Onward
    <3>2. app[x] \in [pc : {"wait", "blocked", "state", "keys"}, seq : Nat, focus : BOOLEAN, drag : BOOLEAN]
      BY <1>1 DEF Waiters
    <3>3. app'[x].seq < seq' /\ (app'[x].pc = "blocked" => app'[x] = app[x])
      BY <1>1, <2>1, <2>3, <3>1, <3>2 DEF Awaits
    <3>4. app'[x].seq \in Nat /\ seq' \in Nat BY <2>1, <2>4 DEF InputTypeOK, Waiters
    <3> QED BY <1>1, <2>1, <2>3, <3>1, <3>3, <3>4 DEF Awaits
  <2> QED BY <2>4, <2>5, <2>6 DEF InputInv
<1>6. ASSUME PumpInput PROVE InputInv'
  <2>1. Pump(Pumped, Told(Pumped)) /\ app' = Told(Pumped).app BY <1>6 DEF PumpInput
  <2>2. \A w \in Running : Awaits(w)' BY <2>1, PumpAwaits
  <2>3. RingSound' /\ InputTypeOK' BY <1>1, <2>1, PumpRest DEF InputTypeOK
  <2> QED BY <2>2, <2>3 DEF InputInv
<1>7. ASSUME NEW w \in Running, InputWait(w) \/ TimeOut(w) PROVE InputInv'
  <2> DEFINE pc == app'[w].pc
  <2>1. /\ UNCHANGED <<kbd, evq, mouse, cursor, notified, wm, seq, inputs, lostUp>>
        /\ app' \in Waiters /\ \A x \in Running : x # w => app'[x] = app[x]
        /\ app'[w].seq = app[w].seq /\ app'[w].focus = app[w].focus /\ app'[w].drag = app[w].drag
        /\ pc \in {"state", "blocked"}
        /\ pc = "blocked" => app[w].pc = "wait" /\ app[w].seq = seq
    BY <1>1, <1>7 DEF InputWait, TimeOut, Waiters
  <2>2. \A x \in Running : x # w => Awaits(x)' BY <1>1, <2>1, AwaitsStays
  <2>3. app[w].drag \in BOOLEAN /\ app[w].focus \in BOOLEAN BY <1>1 DEF Waiters
  <2>4. Awaits(w)' BY <1>1, <2>1, <2>3 DEF Awaits
  <2>5. InputTypeOK' BY <1>1, <2>1 DEF InputTypeOK
  <2>6. RingSound' BY <1>1, <2>1 DEF RingSound
  <2> QED BY <2>2, <2>4, <2>5, <2>6 DEF InputInv
<1>8. ASSUME NEW w \in Running, InputState(w) PROVE InputInv'
  <2> DEFINE t == Told(Pumped)
             r == [pc |-> "keys", seq |-> t.seq, focus |-> t.wm.focus = w, drag |-> t.wm.drag = w]
  <2>1. Pump(Pumped, t) /\ app' = [t.app EXCEPT ![w] = r] BY <1>8 DEF InputState
  <2>2. /\ RingSound' /\ wm' \in Windows /\ seq' \in Nat /\ kbd' \in Nat /\ evq' \in Seq(Events)
        /\ mouse' = mouse /\ cursor' \in Moves /\ notified' \in Moves /\ lostUp' = lostUp /\ t.app \in Waiters
    BY <2>1, PumpRest
  <2>3. wm' = t.wm /\ seq' = t.seq BY <2>1 DEF Pump
  <2>4. r \in [pc : {"wait", "blocked", "state", "keys"}, seq : Nat, focus : BOOLEAN, drag : BOOLEAN]
    BY <2>2, <2>3
  <2>5. r.pc = "keys" /\ r.seq = seq' /\ (r.focus = TRUE <=> wm'.focus = w) /\ (r.drag = TRUE <=> wm'.drag = w)
    BY <2>3
  <2> HIDE DEF r
  <2>6. app' \in Waiters /\ app'[w] = r /\ \A x \in Running : x # w => app'[x] = t.app[x]
    BY <2>1, <2>2, <2>4 DEF Waiters
  <2>7. \A x \in Running : x # w => Awaits(x)' BY <2>1, <2>6, PumpAwaits
  <2>8. Awaits(w)' BY <2>2, <2>5, <2>6 DEF Awaits
  <2>9. InputTypeOK' BY <1>1, <2>2, <2>6 DEF InputTypeOK
  <2> QED BY <2>2, <2>7, <2>8, <2>9 DEF InputInv
<1>9. ASSUME NEW w \in Running, PopKey(w) PROVE InputInv'
  <2>1. app[w].pc = "keys" /\ UNCHANGED <<kbd, evq, mouse, cursor, notified, seq, inputs, lostUp>>
    BY <1>9 DEF PopKey
  <2>2. app[w] \in [pc : {"wait", "blocked", "state", "keys"}, seq : Nat, focus : BOOLEAN, drag : BOOLEAN]
    BY <1>1 DEF Waiters
  <2>3. w \in Apps /\ wm.keys \in [Apps -> Nat] /\ Running \subseteq Apps BY <1>1, InputAssumption DEF Windows
  <2>4. CASE app[w].focus = TRUE /\ app[w].drag = FALSE /\ wm.keys[w] # 0
    <3>1. wm' = [wm EXCEPT !.keys[w] = wm.keys[w] - 1] /\ app' = app BY <1>9, <2>4 DEF PopKey
    <3>2. /\ wm' \in Windows /\ wm'.focus = wm.focus /\ wm'.drag = wm.drag
          /\ \A x \in Apps : x # w => wm'.keys[x] = wm.keys[x]
      BY <1>1, <2>3, <2>4, <3>1 DEF Windows
    <3>3. \A x \in Running : x # w => Awaits(x)' BY <1>1, <2>1, <2>3, <3>1, <3>2, AwaitsStays
    <3>4. Awaits(w)' BY <1>1, <2>1, <3>1, <3>2 DEF Awaits
    <3>5. InputTypeOK' BY <1>1, <2>1, <3>1, <3>2 DEF InputTypeOK
    <3>6. RingSound' BY <1>1, <2>1, <3>2 DEF RingSound
    <3> QED BY <3>3, <3>4, <3>5, <3>6 DEF InputInv
  <2>5. CASE ~(app[w].focus = TRUE /\ app[w].drag = FALSE /\ wm.keys[w] # 0)
    <3>1. wm' = wm /\ app' = [app EXCEPT ![w].pc = "wait"]
      <4>1. ~(app[w].focus /\ ~app[w].drag /\ wm.keys[w] # 0) BY <2>2, <2>5
      <4> QED BY <1>9, <4>1 DEF PopKey
    <3>2. /\ app' \in Waiters /\ \A x \in Running : x # w => app'[x] = app[x]
          /\ app'[w].pc = "wait" /\ app'[w].seq = app[w].seq /\ app'[w].focus = app[w].focus
          /\ app'[w].drag = app[w].drag
      BY <1>1, <3>1 DEF Waiters
    <3>3. \A x \in Running : x # w => Awaits(x)' BY <1>1, <2>1, <3>1, <3>2, AwaitsStays
    <3>4. Awaits(w)' BY <1>1, <2>1, <2>5, <3>1, <3>2 DEF Awaits
    <3>5. InputTypeOK' BY <1>1, <2>1, <3>1, <3>2 DEF InputTypeOK
    <3>6. RingSound' BY <1>1, <2>1, <3>1 DEF RingSound
    <3> QED BY <3>3, <3>4, <3>5, <3>6 DEF InputInv
  <2> QED BY <2>4, <2>5
<1>10. CASE UNCHANGED inputVars
  BY <1>1, <1>10 DEF inputVars, InputInv, InputTypeOK, RingSound, Awaits
<1> QED BY <1>2, <1>3, <1>4, <1>5, <1>6, <1>7, <1>8, <1>9, <1>10 DEF InputNext

(* A program that sleeps for input has missed none: no key, click or change   *)
(* of focus comes unseen between its reading of the state and its sleep       *)
(* (sync.c:155-253, server.c:610-653).                                        *)
THEOREM NoInputMissed == InputSpec => []KeysHeard
<1>1. InputInv => KeysHeard
  <2> SUFFICES ASSUME InputInv, lostUp # TRUE, NEW w \in Running,
                      app[w].pc = "blocked", wm.focus = w, wm.drag # w
               PROVE  app[w].focus /\ wm.keys[w] = 0
    BY DEF KeysHeard
  <2>1. lostUp = FALSE BY DEF InputInv, InputTypeOK
  <2> QED BY <2>1 DEF InputInv, Awaits
<1> QED BY <1>1, InputInitInv, InputNextInv, PTL DEF InputSpec
-----------------------------------------------------------------------------
(* What the loader's state is made of.                                       *)
Processes == [state : {"unused", "live", "zombie"}, build : BuildIds \cup {NoBuild}, boot : BOOLEAN]
Tables    == [ProcSlots -> Processes]
KmodNames == {k.name : k \in Kmods}

LoaderTypeOK ==
    /\ files \in [Files -> BuildIds \cup {NoBuild}]
    /\ memory \in [Pages -> BuildIds \cup {NoBuild}]
    /\ bound = [b \in BuildIds |-> bound[b]]
    /\ procs \in Tables
    /\ libs \in Seq(Libs)

(* FirstOf finds the first of some places in a table.                        *)
LEMMA FirstIs ==
    ASSUME NEW S, S \subseteq Nat, S # {}
    PROVE  FirstOf(S) \in S
<1>1. PICK x \in S : \A y \in S : x <= y BY HasLeast
<1> QED BY <1>1 DEF FirstOf

LEMMA LookupIs ==
    ASSUME NEW ls \in Seq(Libs), NEW sym, DynlibLookup(ls, sym) # 0
    PROVE  DynlibLookup(ls, sym) \in DOMAIN ls /\ sym \in ls[DynlibLookup(ls, sym)].syms
<1> DEFINE S == Exporters(ls, sym)
<1>1. S \subseteq DOMAIN ls /\ DOMAIN ls \subseteq Nat BY DEF Exporters
<1>2. S # {} BY DEF DynlibLookup, FirstOf
<1> HIDE DEF S
<1>3. FirstOf(S) \in S BY <1>1, <1>2, FirstIs
<1>4. DynlibLookup(ls, sym) = FirstOf(S) BY DEF DynlibLookup, S
<1> HIDE <1>1
<1> QED BY <1>3, <1>4 DEF S, Exporters

(* A search along PATH finds a program that is there.                        *)
LEMMA ResolveIs ==
    ASSUME LoaderTypeOK, NEW cmd, Tries(cmd) # {}
    PROVE  Resolve(cmd) \in Files /\ BuildAt(Resolve(cmd)) \in BuildIds
<1> DEFINE T == Tries(cmd)
           N == {t[1] : t \in T}
<1>1. T \subseteq (1 .. Len(Search)) \X (1 .. 2) /\ Len(Search) \in Nat
  BY LoaderAssumption DEF LoaderAssumption, Tries
<1>2. \A t \in T : LET f == <<Search[t[1]], cmd, Suffixes[t[2]]>> IN f \in Files /\ files[f] # NoBuild
  BY DEF Tries
<1>3. T # {} OBVIOUS
<1>4. Resolve(cmd) = LET t == CHOOSE t \in T : \A u \in T : Before(t, u)
                     IN  <<Search[t[1]], cmd, Suffixes[t[2]]>>
  BY DEF Resolve
<1> HIDE DEF T
<1>5. PICK n \in N : \A m \in N : n <= m
  <2>1. N # {} /\ N \subseteq Nat BY <1>1, <1>3
  <2> HIDE DEF N
  <2> QED BY <2>1, HasLeast
<1>6. \E t \in T : t[1] = n OBVIOUS
<1>7. \E t \in T : t[1] = n /\ \A u \in T : u[1] = n => t[2] <= u[2]
  <2>1. CASE \E t \in T : t[1] = n /\ t[2] = 1 BY <1>1, <2>1
  <2>2. CASE ~\E t \in T : t[1] = n /\ t[2] = 1 BY <1>1, <1>6, <2>2
  <2> QED BY <2>1, <2>2
<1>8. PICK t \in T : \A u \in T : Before(t, u)
  <2>1. PICK t \in T : t[1] = n /\ \A u \in T : u[1] = n => t[2] <= u[2] BY <1>7
  <2>2. ASSUME NEW u \in T PROVE Before(t, u)
    <3>1. u[1] \in N /\ n <= u[1] /\ u[1] \in Nat /\ n \in Nat BY <1>1, <1>5
    <3> QED BY <2>1, <3>1 DEF Before
  <2> QED BY <2>2
<1>9. (CHOOSE v \in T : \A u \in T : Before(v, u)) \in T BY <1>8
<1> DEFINE r == Resolve(cmd)
<1>10. r \in Files /\ files[r] # NoBuild BY <1>2, <1>4, <1>9
<1> HIDE DEF r
<1>11. BuildAt(r) \in BuildIds
  <2>1. CASE InInitrd(r) # {}
    <3>1. InInitrd(r) \subseteq BuildIds BY LoaderAssumption DEF LoaderAssumption, InInitrd
    <3> QED BY <2>1, <3>1 DEF BuildAt
  <2>2. CASE InInitrd(r) = {} BY <1>10, <2>2 DEF BuildAt, LoaderTypeOK
  <2> QED BY <2>1, <2>2
<1> QED BY <1>10, <1>11 DEF r
-----------------------------------------------------------------------------
(* Libraries are only added: what a place in the table held it goes on to hold. *)
Extends(a, b) == DOMAIN a \subseteq DOMAIN b /\ \A i \in DOMAIN a : b[i] = a[i]

Loads == [ok : BOOLEAN, libs : Seq(Libs)]

LEMMA EnsureIs ==
    ASSUME NEW ls \in Seq(Libs), NEW n
    PROVE  Ensure(ls, n) \in Loads /\ Extends(ls, Ensure(ls, n).libs)
<1> DEFINE able == {l \in LibFile(n) : Len(ls) < DYNLIB_MAX /\ \A sym \in l.undef : DynlibLookup(ls, sym) # 0}
<1>1. CASE Found(ls, n) # {}
  <2>1. Ensure(ls, n) = [ok |-> TRUE, libs |-> ls] BY <1>1 DEF Ensure
  <2> QED BY <2>1 DEF Loads, Extends
<1>2. CASE Found(ls, n) = {} /\ able = {}
  <2>1. Ensure(ls, n) = [ok |-> FALSE, libs |-> ls] BY <1>2 DEF Ensure
  <2> QED BY <2>1 DEF Loads, Extends
<1>3. CASE Found(ls, n) = {} /\ able # {}
  <2> DEFINE l == CHOOSE l \in able : TRUE
  <2>1. Ensure(ls, n) = [ok |-> TRUE, libs |-> Append(ls, l)] BY <1>3 DEF Ensure
  <2>2. l \in able BY <1>3
  <2>3. l \in Libs BY <2>2 DEF LibFile
  <2> HIDE DEF l
  <2>4. Append(ls, l) \in Seq(Libs) /\ Extends(ls, Append(ls, l)) BY <2>3 DEF Extends
  <2> QED BY <2>1, <2>4 DEF Loads
<1> QED BY <1>1, <1>2, <1>3

LEMMA EnsureAllIs ==
    ASSUME libs \in Seq(Libs), NEW needs, Len(needs) \in Nat
    PROVE  EnsureAll(needs) \in Loads /\ Extends(libs, EnsureAll(needs).libs)
<1> DEFINE n == Len(needs)
           a == [ok |-> TRUE, libs |-> libs]
           Step(e, k) == IF e.ok THEN Ensure(e.libs, needs[k]) ELSE e
           F == [p \in Loads \X (1 .. n) |-> Step(p[1], p[2])]
           Is(g) == g = [k \in 0 .. n |-> IF k = 0 THEN a ELSE Step(g[k - 1], k)]
           go == CHOOSE g : Is(g)
<1>1. a \in Loads /\ Extends(libs, a.libs) /\ n \in Nat BY DEF Loads, Extends
<1>2. ASSUME NEW e \in Loads, NEW k \in 1 .. n
      PROVE  Step(e, k) \in Loads /\ Extends(e.libs, Step(e, k).libs)
  <2>1. e.libs \in Seq(Libs) /\ e.ok \in BOOLEAN BY DEF Loads
  <2>2. CASE e.ok = TRUE BY <2>1, <2>2, EnsureIs
  <2>3. CASE e.ok = FALSE BY <2>1, <2>3 DEF Extends
  <2> QED BY <2>1, <2>2, <2>3
<1>3. EnsureAll(needs) = go[n] BY DEF EnsureAll
<1>4. F \in Steps(Loads, n) BY <1>2 DEF Steps
<1>5. \A e \in Loads, k \in 1 .. n : F[<<e, k>>] = Step(e, k) OBVIOUS
<1> HIDE DEF F, n, a, Step
<1>6. PICK g : Recurs(g, Loads, n, a, F) BY <1>1, <1>4, Recursion
<1>7. g \in [0 .. n -> Loads] /\ g[0] = a /\ \A k \in 1 .. n : g[k] = F[<<g[k - 1], k>>]
  BY <1>6 DEF Recurs
<1>8. Is(g)
  <2>1. \A k \in 0 .. n : g[k] = IF k = 0 THEN a ELSE Step(g[k - 1], k)
    <3> SUFFICES ASSUME NEW k \in 0 .. n, k # 0 PROVE g[k] = Step(g[k - 1], k) BY <1>7
    <3>1. k \in 1 .. n /\ k - 1 \in 0 .. n BY <1>1
    <3>2. g[k - 1] \in Loads BY <1>7, <3>1
    <3> QED BY <1>5, <1>7, <3>1, <3>2
  <2>2. g = [k \in 0 .. n |-> g[k]] BY <1>7
  <2> QED BY <2>1, <2>2
<1> HIDE DEF Is
<1>9. Is(go) BY <1>8
<1>10. go = [k \in 0 .. n |-> IF k = 0 THEN a ELSE Step(go[k - 1], k)] BY <1>9 DEF Is
<1> HIDE DEF go
<1>11. go[0] = a /\ \A k \in 1 .. n : go[k] = Step(go[k - 1], k) BY <1>1, <1>10
<1>12. \A k \in 0 .. n : go[k] \in Loads /\ Extends(libs, go[k].libs)
  <2> DEFINE S == {k \in 0 .. n : go[k] \in Loads /\ Extends(libs, go[k].libs)}
  <2>1. 0 \in S BY <1>1, <1>11
  <2>2. ASSUME NEW k \in 1 .. n, k - 1 \in S PROVE k \in S
    <3>1. go[k - 1] \in Loads /\ Extends(libs, go[k - 1].libs) BY <2>2
    <3>2. go[k] \in Loads /\ Extends(go[k - 1].libs, go[k].libs) BY <1>2, <1>11, <3>1
    <3>3. Extends(libs, go[k].libs) BY <3>1, <3>2 DEF Extends
    <3> QED BY <1>1, <3>2, <3>3
  <2> HIDE DEF S
  <2>3. \A k \in 0 .. n : k \in S BY <1>1, <2>1, <2>2, UpTo
  <2> QED BY <2>3 DEF S
<1> QED BY <1>1, <1>3, <1>12 DEF n
-----------------------------------------------------------------------------
(* Who lives in the process table qs lived in ps already, as the same build.  *)
Thinned(ps, qs) ==
    \A s \in ProcSlots : qs[s].state = "live" => ps[s].state = "live" /\ qs[s].build = ps[s].build

LEMMA VacantIs == Vacant \in Processes /\ Vacant.state # "live"
BY DEF Vacant, Processes

LEMMA EndAllIs ==
    ASSUME procs \in Tables, NEW S
    PROVE  /\ EndAll(S) \in Tables /\ Thinned(procs, EndAll(S))
           /\ \A s \in ProcSlots : EndAll(S)[s].state = "live" => s \notin S
<1>1. ASSUME NEW s \in ProcSlots PROVE AfterEnd(procs[s]) \in Processes /\ AfterEnd(procs[s]).state # "live"
  <2>1. procs[s] \in Processes BY DEF Tables
  <2>2. CASE procs[s].boot = TRUE BY <2>2, VacantIs DEF AfterEnd
  <2>3. CASE procs[s].boot = FALSE
    <3>1. AfterEnd(procs[s]) = [procs[s] EXCEPT !.state = "zombie"] BY <2>3 DEF AfterEnd
    <3> QED BY <2>1, <3>1 DEF Processes
  <2> QED BY <2>1, <2>2, <2>3 DEF Processes
<1>2. \A s \in ProcSlots : procs[s] \in Processes BY DEF Tables
<1>3. \A s \in ProcSlots : EndAll(S)[s] = IF s \in S THEN AfterEnd(procs[s]) ELSE procs[s] BY DEF EndAll
<1>4. \A s \in ProcSlots : EndAll(S)[s] \in Processes BY <1>1, <1>2, <1>3
<1>5. EndAll(S) \in Tables BY <1>4 DEF EndAll, Tables
<1>6. \A s \in ProcSlots : EndAll(S)[s].state = "live" => s \notin S /\ EndAll(S)[s] = procs[s]
  BY <1>1, <1>3
<1> QED BY <1>5, <1>6 DEF Thinned

LEMMA ReapedIs ==
    ASSUME NEW ps \in Tables
    PROVE  Reaped(ps) \in Tables /\ Thinned(ps, Reaped(ps))
<1>1. CASE FreeProcs(ps) # {} BY <1>1 DEF Reaped, Thinned
<1>2. CASE FreeProcs(ps) = {}
  <2> DEFINE r == [s \in ProcSlots |-> IF ps[s].state = "zombie" THEN Vacant ELSE ps[s]]
  <2>1. Reaped(ps) = r BY <1>2 DEF Reaped
  <2>2. r \in Tables BY VacantIs DEF Tables
  <2>3. Thinned(ps, r) BY VacantIs DEF Thinned
  <2> QED BY <2>1, <2>2, <2>3
<1> QED BY <1>1, <1>2

LEMMA StartedIs ==
    ASSUME NEW ps \in Tables, NEW b \in BuildIds, NEW boot \in BOOLEAN
    PROVE  /\ Started(ps, b, boot) \in Tables
           /\ \E s \in ProcSlots \cup {0} :
                 \A t \in ProcSlots : Started(ps, b, boot)[t].state = "live" =>
                    \/ t = s /\ Started(ps, b, boot)[t].build = b
                    \/ t # s /\ ps[t].state = "live" /\ Started(ps, b, boot)[t].build = ps[t].build
<1> DEFINE r == Reaped(ps)
           room == FreeProcs(r)
           new == [state |-> "live", build |-> b, boot |-> boot]
<1>1. r \in Tables /\ Thinned(ps, r) BY ReapedIs
<1>2. CASE room = {}
  <2>1. Started(ps, b, boot) = r BY <1>2 DEF Started
  <2>2. 0 \notin ProcSlots BY DEF ProcSlots
  <2> QED BY <1>1, <2>1, <2>2 DEF Thinned
<1>3. CASE room # {}
  <2> DEFINE s == FirstOf(room)
  <2>1. Started(ps, b, boot) = [r EXCEPT ![s] = new] BY <1>3 DEF Started
  <2>2. room \subseteq ProcSlots /\ ProcSlots \subseteq Nat BY DEF FreeProcs, ProcSlots
  <2>3. s \in ProcSlots BY <1>3, <2>2, FirstIs
  <2>4. new \in Processes BY DEF Processes
  <2> HIDE DEF s, r, new
  <2>5. [r EXCEPT ![s] = new] \in Tables BY <1>1, <2>3, <2>4 DEF Tables
  <2>6. new.state = "live" /\ new.build = b BY DEF new
  <2>7. \A t \in ProcSlots : [r EXCEPT ![s] = new][t] = IF t = s THEN new ELSE r[t] BY <1>1, <2>3 DEF Tables
  <2> QED BY <1>1, <2>1, <2>3, <2>5, <2>6, <2>7 DEF Thinned
<1> QED BY <1>2, <1>3
-----------------------------------------------------------------------------
(* The build b is in its pages, and its imports lead to what exports them.    *)
Intact(b, mem, bnd, ls) ==
    /\ \A p \in PagesOf(b) : mem[p] = b
    /\ \A sym \in Builds[b].imports : bnd[b][sym] \in DOMAIN ls /\ sym \in ls[bnd[b][sym]].syms

ProgramsInv ==
    /\ LoaderTypeOK
    /\ \A s \in ProcSlots : Lives(s) =>
          /\ procs[s].build \in BuildIds /\ Intact(procs[s].build, memory, bound, libs)
          /\ \A t \in ProcSlots \ {s} : Lives(t) => PagesOf(procs[t].build) \cap PagesOf(procs[s].build) = {}

LEMMA EntryIsOwn ==
    ASSUME NEW b \in BuildIds, NEW c \in BuildIds, Builds[c].entry \notin PagesOf(b)
    PROVE  c # b /\ PagesOf(c) \cap PagesOf(b) = {}
<1> DEFINE x == Builds[c]
           y == Builds[b]
<1>1. {x.lo, x.hi, x.entry, y.lo, y.hi, y.entry} \subseteq Nat
  BY LoaderAssumption DEF LoaderAssumption
<1>2. /\ y.lo <= y.entry /\ y.entry < y.hi
      /\ (x.lo < y.hi /\ y.lo < x.hi) => y.lo <= x.entry /\ x.entry < y.hi
  BY LoaderAssumption DEF LoaderAssumption, LinkedApart
<1>3. ~(y.lo <= x.entry /\ x.entry < y.hi) BY <1>1 DEF PagesOf
<1>4. c # b BY <1>2, <1>3
<1>5. ~(x.lo < y.hi /\ y.lo < x.hi) BY <1>2, <1>3
<1>6. PagesOf(c) = x.lo .. x.hi - 1 /\ PagesOf(b) = y.lo .. y.hi - 1 BY DEF PagesOf
<1> HIDE DEF x, y
<1> QED BY <1>1, <1>4, <1>5, <1>6

LEMMA ThinnedKeeps ==
    ASSUME ProgramsInv, procs' \in Tables, Thinned(procs, procs'), UNCHANGED <<memory, bound, libs>>,
           files' \in [Files -> BuildIds \cup {NoBuild}]
    PROVE  ProgramsInv'
<1>1. LoaderTypeOK' BY DEF ProgramsInv, LoaderTypeOK
<1>2. \A s \in ProcSlots : Lives(s)' => Lives(s) /\ procs'[s].build = procs[s].build BY DEF Thinned, Lives
<1>3. memory' = memory /\ bound' = bound /\ libs' = libs OBVIOUS
<1> QED BY <1>1, <1>2, <1>3 DEF ProgramsInv

(* A program goes on as it was when another build is read into memory, whose *)
(* pages its entry is not in.                                                *)
LEMMA LoadSpares ==
    ASSUME LoaderTypeOK, NEW b \in BuildIds, NEW c \in BuildIds, NEW n, NEW ls, NEW slots,
           Builds[c].entry \notin PagesOf(b), Intact(c, memory, bound, libs), Extends(libs, ls)
    PROVE  Intact(c, LoadedTo(b, n), [bound EXCEPT ![b] = slots], ls)
<1> DEFINE m == LoadedTo(b, n)
           d == [bound EXCEPT ![b] = slots]
<1>1. c # b /\ PagesOf(c) \cap PagesOf(b) = {} BY EntryIsOwn
<1>2. ASSUME NEW p \in PagesOf(c) PROVE m[p] = c
  <2>1. p \in Pages BY DEF Pages
  <2>2. m[p] = memory[p] BY <1>1, <2>1 DEF LoadedTo
  <2> QED BY <2>2 DEF Intact
<1>3. d[c] = bound[c] BY <1>1 DEF LoaderTypeOK
<1> HIDE DEF m, d
<1>4. \A sym \in Builds[c].imports :
         d[c][sym] \in DOMAIN ls /\ sym \in ls[d[c][sym]].syms
  BY <1>3 DEF Intact, Extends
<1>5. Intact(c, m, d, ls) BY <1>2, <1>4 DEF Intact
<1> QED BY <1>5 DEF m, d

LEMMA LoadFills ==
    ASSUME LoaderTypeOK, NEW b \in BuildIds, NEW e \in Loads, Binds(b, e)
    PROVE  Intact(b, Loaded(b), [bound EXCEPT ![b] = Bound(b, e)], e.libs)
<1> DEFINE d == [bound EXCEPT ![b] = Bound(b, e)]
<1>1. ASSUME NEW p \in PagesOf(b) PROVE Loaded(b)[p] = b
  <2>1. p \in Pages BY DEF Pages
  <2>2. Builds[b].lo \in Nat /\ Builds[b].hi \in Nat BY LoaderAssumption DEF LoaderAssumption
  <2>3. p < Builds[b].lo + Builds[b].hi BY <2>2 DEF PagesOf
  <2> QED BY <2>1, <2>3 DEF Loaded, LoadedTo
<1>2. d[b] = Bound(b, e) BY DEF LoaderTypeOK
<1>3. ASSUME NEW sym \in Builds[b].imports
      PROVE  d[b][sym] \in DOMAIN e.libs /\ sym \in e.libs[d[b][sym]].syms
  <2>1. Bound(b, e)[sym] = DynlibLookup(e.libs, sym) /\ Bound(b, e)[sym] # 0 /\ e.libs \in Seq(Libs)
    BY DEF Binds, Bound, Loads
  <2> QED BY <1>2, <2>1, LookupIs
<1> QED BY <1>1, <1>3 DEF Intact

LEMMA LoadedType ==
    ASSUME LoaderTypeOK, NEW b \in BuildIds, NEW n
    PROVE  LoadedTo(b, n) \in [Pages -> BuildIds \cup {NoBuild}]
BY DEF LoaderTypeOK, LoadedTo

LEMMA SpawnInv ==
    ASSUME ProgramsInv, NEW c \in {0} \cup ProcSlots, NEW cmd \in Commands, NEW n \in Nat, Spawn(c, cmd, n)
    PROVE  ProgramsInv'
<1> DEFINE b == BuildAt(Resolve(cmd))
           ended == EndAll(Overlaps(b))
           e == EnsureAll(Builds[b].needs)
<1>1. LoaderTypeOK /\ libs \in Seq(Libs) /\ procs \in Tables BY DEF ProgramsInv, LoaderTypeOK
<1>2. b \in BuildIds BY <1>1, ResolveIs DEF Spawn
<1>3. Len(Builds[b].needs) \in Nat BY <1>2, LoaderAssumption DEF LoaderAssumption
<1>4. e \in Loads /\ Extends(libs, e.libs) BY <1>1, <1>3, EnsureAllIs
<1>5. /\ ended \in Tables /\ Thinned(procs, ended)
      /\ \A s \in ProcSlots : ended[s].state = "live" => s \notin Overlaps(b)
  BY <1>1, EndAllIs
<1>6. \A s \in ProcSlots : ended[s].state = "live" =>
         /\ Lives(s) /\ ended[s].build = procs[s].build /\ procs[s].build \in BuildIds
         /\ Builds[procs[s].build].entry \notin PagesOf(b)
         /\ Intact(procs[s].build, memory, bound, libs)
  BY <1>5 DEF Thinned, Lives, Overlaps, ProgramsInv
<1>7. \A s, t \in ProcSlots : ended[s].state = "live" /\ ended[t].state = "live" /\ s # t =>
         PagesOf(ended[t].build) \cap PagesOf(ended[s].build) = {}
  BY <1>6 DEF ProgramsInv
<1>8. files' = files BY DEF Spawn
<1>9. CASE n < Builds[b].image
  <2>1. memory' = LoadedTo(b, n) /\ procs' = ended /\ bound' = bound /\ libs' = libs
    BY <1>9 DEF Spawn
  <2> HIDE DEF b, ended, e
  <2>2. LoaderTypeOK' BY <1>1, <1>2, <1>5, <1>8, <2>1, LoadedType DEF LoaderTypeOK
  <2>3. ASSUME NEW s \in ProcSlots, ended[s].state = "live"
        PROVE  Intact(ended[s].build, memory', bound', libs')
    <3>1. bound = [bound EXCEPT ![b] = bound[b]] BY <1>1, <1>2 DEF LoaderTypeOK
    <3>2. Extends(libs, libs) BY DEF Extends
    <3>3. Intact(procs[s].build, LoadedTo(b, n), [bound EXCEPT ![b] = bound[b]], libs)
      BY <1>1, <1>2, <1>6, <2>3, <3>2, LoadSpares
    <3> QED BY <1>6, <2>1, <2>3, <3>1, <3>3
  <2> QED BY <1>6, <1>7, <2>1, <2>2, <2>3 DEF ProgramsInv, Lives
<1>10. CASE ~(n < Builds[b].image)
  <2>1. /\ memory' = Loaded(b) /\ bound' = [bound EXCEPT ![b] = Bound(b, e)] /\ libs' = e.libs
        /\ procs' = IF Binds(b, e) THEN Started(ended, b, c = 0) ELSE ended
    BY <1>10 DEF Spawn
  <2> HIDE DEF b, ended, e
  <2>2. ASSUME NEW s \in ProcSlots, ended[s].state = "live"
        PROVE  Intact(ended[s].build, memory', bound', libs')
    <3>1. Intact(procs[s].build, LoadedTo(b, Builds[b].hi), [bound EXCEPT ![b] = Bound(b, e)], e.libs)
      BY <1>1, <1>2, <1>4, <1>6, <2>2, LoadSpares
    <3> QED BY <1>6, <2>1, <2>2, <3>1 DEF Loaded
  <2>3. memory' \in [Pages -> BuildIds \cup {NoBuild}] /\ libs' \in Seq(Libs)
        /\ bound' = [x \in BuildIds |-> bound'[x]]
    BY <1>1, <1>2, <1>4, <2>1, LoadedType DEF Loaded, Loads, LoaderTypeOK
  <2>4. CASE Binds(b, e)
    <3> DEFINE q == Started(ended, b, c = 0)
    <3>1. (c = 0) \in BOOLEAN OBVIOUS
    <3>2. q \in Tables BY <1>2, <1>5, <3>1, StartedIs
    <3>3. PICK s \in ProcSlots \cup {0} :
             \A t \in ProcSlots : q[t].state = "live" =>
                \/ t = s /\ q[t].build = b
                \/ t # s /\ ended[t].state = "live" /\ q[t].build = ended[t].build
      BY <1>2, <1>5, <3>1, StartedIs
    <3>4. procs' = q BY <2>1, <2>4
    <3> HIDE DEF q
    <3>5. Intact(b, memory', bound', libs') BY <1>1, <1>2, <1>4, <2>1, <2>4, LoadFills
    <3>6. ASSUME NEW t \in ProcSlots, q[t].state = "live"
          PROVE  q[t].build \in BuildIds /\ Intact(q[t].build, memory', bound', libs')
      BY <1>2, <1>6, <2>2, <3>3, <3>5, <3>6
    <3>7. ASSUME NEW t \in ProcSlots, NEW u \in ProcSlots \ {t}, q[t].state = "live", q[u].state = "live"
          PROVE  PagesOf(q[u].build) \cap PagesOf(q[t].build) = {}
      <4>1. \A x \in ProcSlots : ended[x].state = "live" => PagesOf(ended[x].build) \cap PagesOf(b) = {}
        BY <1>2, <1>6, EntryIsOwn
      <4>2. CASE t = s BY <3>3, <3>7, <4>1, <4>2
      <4>3. CASE u = s BY <3>3, <3>7, <4>1, <4>3
      <4>4. CASE t # s /\ u # s BY <1>7, <3>3, <3>7, <4>4
      <4> QED BY <4>2, <4>3, <4>4
    <3>8. LoaderTypeOK' BY <1>1, <1>8, <2>3, <3>2, <3>4 DEF LoaderTypeOK
    <3> QED BY <3>4, <3>6, <3>7, <3>8 DEF ProgramsInv, Lives
  <2>5. CASE ~Binds(b, e)
    <3>1. procs' = ended BY <2>1, <2>5
    <3>2. LoaderTypeOK' BY <1>1, <1>5, <1>8, <2>3, <3>1 DEF LoaderTypeOK
    <3> QED BY <1>6, <1>7, <2>2, <3>1, <3>2 DEF ProgramsInv, Lives
  <2> QED BY <2>4, <2>5
<1> QED BY <1>9, <1>10
-----------------------------------------------------------------------------
(* The images in the heap are those of the modules in the table, and as many  *)
(* modules as the table holds leave one more image free.                     *)
DriverRecords == [name : KmodNames \cup {"none"}, state : {"unused", "loaded", "failed"}, image : Images \cup {0}]

DriversInv ==
    /\ images \in [Images -> KmodNames \cup {NoKmod}]
    /\ mods \in Seq([name : KmodNames, image : Images])
    /\ drivers \in [1 .. DRIVER_MAX -> DriverRecords]
    /\ \A d \in DOMAIN drivers : /\ drivers[d].state = "loaded" => drivers[d].name # "none"
                                 /\ drivers[d] # NoDriver => drivers[d].name # "none"
    /\ DriversInPlace

LEMMA ImageIsFree ==
    ASSUME DriversInv, Len(mods) < MODULE_MAX
    PROVE  FreeImage \in Images /\ images[FreeImage] = NoKmod
<1> DEFINE F == {i \in Images : images[i] = NoKmod}
           f == [i \in Images |-> CHOOSE m \in DOMAIN mods : mods[m].image = i]
<1>1. MODULE_MAX \in Nat /\ Len(mods) \in Nat /\ DOMAIN mods = 1 .. Len(mods)
  BY LoaderAssumption DEF LoaderAssumption, DriversInv
<1>2. F # {}
  <2> SUFFICES ASSUME F = {} PROVE FALSE OBVIOUS
  <2>1. \A i \in Images : \E m \in DOMAIN mods : mods[m].image = i BY DEF DriversInv, DriversInPlace
  <2>2. \A i \in Images : f[i] \in DOMAIN mods /\ mods[f[i]].image = i BY <2>1
  <2>3. f \in [Images -> DOMAIN mods] BY <2>2
  <2>4. ASSUME NEW n \in Nat PROVE IsFiniteSet(1 .. n) /\ Cardinality(1 .. n) = n
    <3>1. Cardinality(1 .. n) = IF 1 > n THEN 0 ELSE n - 1 + 1 BY FS_Interval
    <3> QED BY <3>1, FS_Interval
  <2>5. /\ IsFiniteSet(Images) /\ Cardinality(Images) = MODULE_MAX + 1
        /\ IsFiniteSet(DOMAIN mods) /\ Cardinality(DOMAIN mods) = Len(mods)
    BY <1>1, <2>4 DEF Images
  <2>6. Cardinality(DOMAIN mods) < Cardinality(Images) BY <1>1, <2>5
  <2> HIDE DEF f
  <2> DEFINE D == DOMAIN mods
             I == Images
  <2>7. f \in [I -> D] /\ IsFiniteSet(I) /\ IsFiniteSet(D) /\ Cardinality(D) < Cardinality(I)
    BY <2>3, <2>5, <2>6
  <2> HIDE DEF D, I
  <2>8. \E x, y \in I : x # y /\ f[x] = f[y] BY ONLY <2>7, FS_PigeonHole, Zenon
  <2>9. \E x, y \in Images : x # y /\ f[x] = f[y] BY <2>8 DEF I
  <2> QED BY <2>2, <2>9
<1>3. F \subseteq Nat BY DEF Images
<1>4. PICK i \in F : \A j \in F : i <= j BY <1>2, <1>3, HasLeast
<1>5. \A j \in 1 .. i - 1 : images[j] # NoKmod BY <1>1, <1>4 DEF Images
<1> QED BY <1>4, <1>5 DEF FreeImage

LEMMA LoadModuleInv ==
    ASSUME DriversInv, NEW k \in Kmods, NEW works \in BOOLEAN, LoadModule(k, works)
    PROVE  DriversInv'
<1> DEFINE place == FreeImage
           slot == AllocSlot
           new == [name |-> k.name, state |-> IF works THEN "loaded" ELSE "failed", image |-> place]
<1>1. place \in Images /\ images[place] = NoKmod BY ImageIsFree DEF LoadModule
<1>2. k.name \in KmodNames /\ k.name # NoKmod /\ k.name # "none"
  BY LoaderAssumption DEF LoaderAssumption, KmodNames, NoKmod
<1>3. CASE ~Registers(k)
  BY <1>3 DEF LoadModule, Registered, DriversInv, DriversInPlace
<1>4. CASE Registers(k)
  <2> DEFINE S == {d \in DOMAIN drivers : drivers[d] = NoDriver}
  <2>1. slot \in DOMAIN drivers /\ drivers[slot] = NoDriver
    <3>1. slot = FirstOf(S) /\ slot # 0 BY <1>4 DEF Registers, AllocSlot
    <3>2. S # {} /\ S \subseteq Nat BY <3>1 DEF FirstOf, DriversInv
    <3>3. FirstOf(S) \in S BY <3>2, FirstIs
    <3> QED BY <3>1, <3>3
  <2>2. \A d \in DOMAIN drivers : drivers[d].name # k.name BY <1>4 DEF Registers, FindSlot
  <2>3. drivers' = [drivers EXCEPT ![slot] = new] BY <1>4 DEF LoadModule, Registered
  <2>4. new \in DriverRecords /\ new.name = k.name /\ new.image = place BY <1>1, <1>2 DEF DriverRecords
  <2>5. new.state = "loaded" => works = TRUE OBVIOUS
  <2> HIDE DEF new, place, slot
  <2>6. drivers' \in [1 .. DRIVER_MAX -> DriverRecords] /\ DOMAIN drivers' = DOMAIN drivers
        /\ \A d \in DOMAIN drivers : drivers'[d] = IF d = slot THEN new ELSE drivers[d]
    BY <2>1, <2>3, <2>4 DEF DriversInv
  <2>7. \A d, e \in DOMAIN drivers' : d # e /\ drivers'[d] # NoDriver => drivers'[d].name # drivers'[e].name
    <3> SUFFICES ASSUME NEW d \in DOMAIN drivers, NEW e \in DOMAIN drivers, d # e, drivers'[d] # NoDriver
                 PROVE  drivers'[d].name # drivers'[e].name
      BY <2>6
    <3>1. drivers[slot].name = "none" BY <2>1 DEF NoDriver
    <3>2. CASE d = slot BY <2>2, <2>4, <2>6, <3>2
    <3>3. CASE e = slot BY <2>2, <2>4, <2>6, <3>3
    <3>4. CASE d # slot /\ e # slot BY <2>6, <3>4 DEF DriversInv, DriversInPlace
    <3> QED BY <3>2, <3>3, <3>4
  <2>8. \A d \in DOMAIN drivers' : /\ drivers'[d].state = "loaded" => drivers'[d].name # "none"
                                   /\ drivers'[d] # NoDriver => drivers'[d].name # "none"
    BY <1>2, <2>4, <2>6 DEF DriversInv
  <2>9. CASE works = TRUE \/ k.strict = FALSE
    <3> DEFINE m == [name |-> k.name, image |-> place]
    <3>1. images' = [images EXCEPT ![place] = k.name] /\ mods' = Append(mods, m)
      BY <1>4, <2>9 DEF LoadModule, place
    <3>2. m \in [name : KmodNames, image : Images] /\ m.image = place BY <1>1, <1>2
    <3> HIDE DEF m
    <3>3. mods' \in Seq([name : KmodNames, image : Images])
          /\ \A i : (\E x \in DOMAIN mods' : mods'[x].image = i) <=> (i = place \/ \E x \in DOMAIN mods : mods[x].image = i)
      <4>1. mods \in Seq([name : KmodNames, image : Images]) BY DEF DriversInv
      <4>2. /\ mods' \in Seq([name : KmodNames, image : Images]) /\ Len(mods') = Len(mods) + 1
            /\ \A x \in 1 .. Len(mods) : mods'[x] = mods[x]
            /\ mods'[Len(mods) + 1] = m
            /\ DOMAIN mods = 1 .. Len(mods) /\ DOMAIN mods' = 1 .. Len(mods) + 1 /\ Len(mods) \in Nat
        BY <3>1, <3>2, <4>1
      <4> QED BY <3>2, <4>2
    <3>4. /\ images' \in [Images -> KmodNames \cup {NoKmod}]
          /\ \A i \in Images : images'[i] = IF i = place THEN k.name ELSE images[i]
      BY <1>1, <1>2, <3>1 DEF DriversInv
    <3>5. \A i \in Images : (images'[i] # NoKmod) <=> \E x \in DOMAIN mods' : mods'[x].image = i
      BY <1>2, <3>3, <3>4 DEF DriversInv, DriversInPlace
    <3>6. ASSUME NEW d \in DOMAIN drivers', drivers'[d].state = "loaded"
          PROVE  images'[drivers'[d].image] = drivers'[d].name
      <4>1. CASE d = slot BY <1>1, <2>4, <2>6, <3>4, <4>1
      <4>2. CASE d # slot
        <5>1. d \in DOMAIN drivers /\ drivers'[d] = drivers[d] /\ drivers[d] \in DriverRecords
          BY <2>6, <4>2 DEF DriversInv
        <5>2. images[drivers[d].image] = drivers[d].name /\ drivers[d].name # NoKmod
          BY <3>6, <5>1 DEF DriversInv, DriversInPlace, NoKmod
        <5>3. images'[drivers[d].image] = images[drivers[d].image]
          BY <1>1, <3>1, <5>2 DEF DriversInv
        <5> QED BY <5>1, <5>2, <5>3
      <4> QED BY <4>1, <4>2
    <3> QED BY <2>6, <2>7, <2>8, <3>3, <3>4, <3>5, <3>6 DEF DriversInv, DriversInPlace
  <2>10. CASE ~(works = TRUE \/ k.strict = FALSE)
    <3>1. images' = images /\ mods' = mods /\ new.state # "loaded"
      BY <2>5, <2>10 DEF LoadModule
    <3>2. \A d \in DOMAIN drivers' : drivers'[d].state = "loaded" => images'[drivers'[d].image] = drivers'[d].name
      BY <2>6, <3>1 DEF DriversInv, DriversInPlace
    <3> QED BY <2>6, <2>7, <2>8, <3>1, <3>2 DEF DriversInv, DriversInPlace
  <2> QED BY <2>9, <2>10
<1> QED BY <1>3, <1>4
-----------------------------------------------------------------------------
LoaderInv == ProgramsInv /\ DriversInv

LEMMA LoaderInitInv == LoaderInit => LoaderInv
<1> SUFFICES ASSUME LoaderInit PROVE LoaderInv OBVIOUS
<1>1. ProgramsInv
  <2>1. files \in [Files -> BuildIds \cup {NoBuild}]
    <3>1. ASSUME NEW f \in Files
          PROVE  (IF f[3] = ".exec" THEN CHOOSE b \in BuildIds : Builds[b].name = f[2] ELSE NoBuild)
                    \in BuildIds \cup {NoBuild}
      BY LoaderAssumption DEF LoaderAssumption
    <3> QED BY <3>1 DEF LoaderInit
  <2>2. procs \in Tables BY VacantIs DEF LoaderInit, Tables
  <2>3. \A s \in ProcSlots : ~Lives(s) BY VacantIs DEF LoaderInit, Lives
  <2>4. memory \in [Pages -> BuildIds \cup {NoBuild}] /\ libs \in Seq(Libs) BY DEF LoaderInit
  <2>5. bound = [b \in BuildIds |-> bound[b]] BY DEF LoaderInit
  <2> QED BY <2>1, <2>2, <2>3, <2>4, <2>5 DEF ProgramsInv, LoaderTypeOK
<1>2. DriversInv
  <2>1. NoDriver \in DriverRecords /\ NoDriver.state # "loaded" BY DEF NoDriver, DriverRecords
  <2>2. /\ images = [i \in Images |-> NoKmod] /\ mods = << >>
        /\ drivers = [d \in 1 .. DRIVER_MAX |-> NoDriver]
    BY DEF LoaderInit
  <2> HIDE DEF NoDriver
  <2>3. DriversInPlace BY <2>1, <2>2 DEF DriversInPlace
  <2> QED BY <2>1, <2>2, <2>3 DEF DriversInv
<1> QED BY <1>1, <1>2 DEF LoaderInv

LEMMA LoaderNextInv == LoaderInv /\ [LoaderNext]_loaderVars => LoaderInv'
<1> SUFFICES ASSUME LoaderInv, [LoaderNext]_loaderVars PROVE LoaderInv' OBVIOUS
<1>1. ProgramsInv /\ DriversInv /\ procs \in Tables /\ files \in [Files -> BuildIds \cup {NoBuild}]
  BY DEF LoaderInv, ProgramsInv, LoaderTypeOK
<1>2. UNCHANGED <<images, mods, drivers>> => DriversInv'
  BY <1>1 DEF DriversInv, DriversInPlace
<1>3. ASSUME NEW c \in {0} \cup ProcSlots, NEW cmd \in Commands, SpawnSelf(c, cmd) PROVE LoaderInv'
  <2> DEFINE S == {s \in Overlaps(BuildAt(Resolve(cmd))) : s <= c}
  <2>1. procs' = EndAll(S) /\ UNCHANGED <<files, memory, bound, libs, images, mods, drivers>>
    BY <1>3 DEF SpawnSelf
  <2> HIDE DEF S
  <2>2. procs' \in Tables /\ Thinned(procs, procs') BY <1>1, <2>1, EndAllIs
  <2> QED BY <1>1, <1>2, <2>1, <2>2, ThinnedKeeps DEF LoaderInv
<1>4. ASSUME NEW c \in {0} \cup ProcSlots, NEW cmd \in Commands, NEW n \in 0 .. Cardinality(Pages),
             Spawn(c, cmd, n)
      PROVE  LoaderInv'
  <2>1. n \in Nat OBVIOUS
  <2>2. ProgramsInv' BY <1>1, <1>4, <2>1, SpawnInv
  <2>3. UNCHANGED <<images, mods, drivers>> BY <1>4 DEF Spawn
  <2> QED BY <1>2, <2>2, <2>3 DEF LoaderInv
<1>5. ASSUME NEW s \in ProcSlots, Exit(s) PROVE LoaderInv'
  <2>1. procs' = EndAll({s}) /\ UNCHANGED <<files, memory, bound, libs, images, mods, drivers>>
    BY <1>5 DEF Exit
  <2>2. procs' \in Tables /\ Thinned(procs, procs') BY <1>1, <2>1, EndAllIs
  <2> QED BY <1>1, <1>2, <2>1, <2>2, ThinnedKeeps DEF LoaderInv
<1>6. ASSUME NEW s \in ProcSlots, WaitPid(s) PROVE LoaderInv'
  <2>1. procs' = [procs EXCEPT ![s] = Vacant] /\ UNCHANGED <<files, memory, bound, libs, images, mods, drivers>>
    BY <1>6 DEF WaitPid
  <2>2. procs' \in Tables /\ Thinned(procs, procs')
    BY <1>1, <2>1, VacantIs DEF Tables, Thinned
  <2> QED BY <1>1, <1>2, <2>1, <2>2, ThinnedKeeps DEF LoaderInv
<1>7. ASSUME NEW f \in Files, NEW b \in BuildIds \cup {NoBuild}, Install(f, b) PROVE LoaderInv'
  <2>1. files' = [files EXCEPT ![f] = b] /\ UNCHANGED <<memory, bound, procs, libs, images, mods, drivers>>
    BY <1>7 DEF Install
  <2>2. files' \in [Files -> BuildIds \cup {NoBuild}] BY <1>1, <2>1
  <2>3. Thinned(procs, procs') BY <2>1 DEF Thinned
  <2> QED BY <1>1, <1>2, <2>1, <2>2, <2>3, ThinnedKeeps DEF LoaderInv
<1>8. ASSUME NEW k \in Kmods, NEW works \in BOOLEAN, LoadModule(k, works) PROVE LoaderInv'
  <2>1. UNCHANGED <<files, memory, bound, procs, libs>> BY <1>8 DEF LoadModule
  <2>2. procs' \in Tables /\ Thinned(procs, procs') BY <1>1, <2>1 DEF Thinned
  <2>3. files' \in [Files -> BuildIds \cup {NoBuild}] BY <1>1, <2>1
  <2> QED BY <1>1, <1>8, <2>1, <2>2, <2>3, ThinnedKeeps, LoadModuleInv DEF LoaderInv
<1>9. CASE UNCHANGED loaderVars
  BY <1>1, <1>2, <1>9, ThinnedKeeps DEF LoaderInv, loaderVars, Thinned
<1> QED BY <1>3, <1>4, <1>5, <1>6, <1>7, <1>8, <1>9 DEF LoaderNext

(* Code that runs is there: in the pages of every program, behind its imports *)
(* and behind the polled drivers (exec.c:281-318, dynlib.c:531-574,           *)
(* module.c:129-360, driver.c:37-123), for any programs, libraries and        *)
(* modules, and tables of any size.                                          *)
THEOREM CodeStaysInPlace == LoaderSpec => []CodeInPlace
<1>1. LoaderInv => CodeInPlace
  BY DEF LoaderInv, ProgramsInv, Intact, DriversInv, CodeInPlace, ProgramsWhole
<1> QED BY <1>1, LoaderInitInv, LoaderNextInv, PTL DEF LoaderSpec
-----------------------------------------------------------------------------
(* A window's row and the server's state have their fields, and heights are  *)
(* numbers.                                                                  *)
Pane(r) == r = [used |-> r.used, visible |-> r.visible, focused |-> r.focused,
                frame |-> r.frame, z |-> r.z, kind |-> r.kind]
Server(s) == s = [win |-> s.win, focus |-> s.focus, drag |-> s.drag, busy |-> s.busy, dmg |-> s.dmg]
Panes(f) == f = [w \in Slots |-> f[w]] /\ \A w \in Slots : Pane(f[w]) /\ f[w].z \in Nat
Whole(s) == Server(s) /\ Panes(s.win)

(* Two rows and two states that a look for the focus cannot tell apart.      *)
Alike(r, q) == q.used = r.used /\ q.visible = r.visible /\ q.focused = r.focused /\ q.kind = r.kind
Stays(s, t) ==
    /\ Whole(t) /\ t.focus = s.focus /\ t.drag = s.drag
    /\ \A w \in Slots : Alike(s.win[w], t.win[w])

Touched(s, t) == Server(t) /\ t.win = s.win /\ t.focus = s.focus /\ t.drag = s.drag

Drawn(s) == {w \in Used(s) : s.win[w].focused}
Focused(s) ==
    /\ s.drag # None => s.drag \in Used(s)
    /\ s.focus # None => s.focus \in Visible(s) /\ s.win[s.focus].kind.accept
    /\ Drawn(s) = {s.focus} \ {None}
Good(s) == Whole(s) /\ Focused(s)

LEMMA SlotsAre == Slots \subseteq Nat \ {0} /\ IsFiniteSet(Slots) /\ None \notin Slots
<1>1. WM_MAX_WINDOWS \in Nat BY ServerAssumption DEF ServerAssumption
<1>2. IsFiniteSet(1 .. WM_MAX_WINDOWS) BY <1>1, FS_Interval
<1> QED BY <1>1, <1>2 DEF Slots, None

LEMMA HasGreatest ==
    ASSUME NEW S, S \subseteq Nat, S # {}, IsFiniteSet(S)
    PROVE  \E x \in S : \A y \in S : y <= x
<1>1. PICK n \in Nat : ExistsSurjection(1 .. n, S) BY FS_NatSurjection
<1>2. PICK f \in [1 .. n -> S] : \A y \in S : \E i \in 1 .. n : f[i] = y
  BY <1>1 DEF ExistsSurjection, Surjection
<1> DEFINE K == {k \in 0 .. n : k = 0 \/ \E i \in 1 .. k : \A j \in 1 .. k : f[j] <= f[i]}
<1>3. ASSUME NEW k \in 1 .. n, k - 1 \in K PROVE k \in K
  <2>1. k \in Nat /\ 1 <= k /\ k <= n /\ 1 .. k = (1 .. k - 1) \cup {k} /\ k \in 0 .. n OBVIOUS
  <2>2. \A i \in 1 .. k : f[i] \in Nat
    <3>1. \A i \in 1 .. k : i \in 1 .. n BY <2>1
    <3> QED BY <3>1
  <2>3. CASE k - 1 = 0
    <3>1. k = 1 /\ f[k] \in Nat BY <2>1, <2>2, <2>3
    <3>2. \A j \in 1 .. k : f[j] <= f[k] BY <3>1
    <3> QED BY <2>1, <3>1, <3>2
  <2>4. CASE k - 1 # 0
    <3>1. PICK i \in 1 .. k - 1 : \A j \in 1 .. k - 1 : f[j] <= f[i] BY <1>3, <2>4
    <3>2. CASE f[k] <= f[i] BY <2>1, <2>2, <3>1, <3>2
    <3>3. CASE ~(f[k] <= f[i])
      <4>1. \A j \in 1 .. k : f[j] <= f[k] BY <2>1, <2>2, <3>1, <3>3
      <4> QED BY <2>1, <4>1
    <3> QED BY <3>2, <3>3
  <2> QED BY <2>3, <2>4
<1>4. 0 \in K OBVIOUS
<1>5. n \in K
  <2> HIDE DEF K
  <2> QED BY <1>3, <1>4, UpTo
<1>6. n # 0
  <2>1. PICK y \in S : TRUE OBVIOUS
  <2>2. PICK i \in 1 .. n : f[i] = y BY <1>2, <2>1
  <2> QED BY <2>2
<1>7. PICK i \in 1 .. n : \A j \in 1 .. n : f[j] <= f[i] BY <1>5, <1>6
<1>8. f[i] \in S /\ \A y \in S : y <= f[i] BY <1>2, <1>7
<1> QED BY <1>8

(* What is written to no more than the damage.                               *)
LEMMA TouchStays == ASSUME NEW s, NEW t, Whole(s), Touched(s, t) PROVE Stays(s, t)
BY Zenon DEF Whole, Touched, Stays, Alike, Panes

LEMMA TouchTwice == ASSUME NEW s, NEW t, NEW u, Touched(s, t), Touched(t, u) PROVE Touched(s, u)
BY Zenon DEF Touched

LEMMA TouchNone == ASSUME NEW s, Whole(s) PROVE Touched(s, s)
BY Zenon DEF Touched, Whole

LEMMA StaysTwice == ASSUME NEW s, NEW t, NEW u, Stays(s, t), Stays(t, u) PROVE Stays(s, u)
BY Zenon DEF Stays, Alike

LEMMA StaysNone == ASSUME NEW s, Whole(s) PROVE Stays(s, s)
BY Zenon DEF Stays, Alike

LEMMA StaysGood == ASSUME NEW s, NEW t, Good(s), Stays(s, t) PROVE Good(t)
<1>1. Used(t) = Used(s) /\ Visible(t) = Visible(s) /\ Drawn(t) = Drawn(s)
  BY Zenon DEF Stays, Alike, Used, Visible, Drawn
<1>2. \A w \in Visible(s) : w \in Slots BY Zenon DEF Visible, Used
<1>3. t.focus = s.focus /\ t.drag = s.drag /\ Whole(t) BY Zenon DEF Stays
<1>4. \A w \in Visible(s) : t.win[w].kind = s.win[w].kind BY Zenon, <1>2 DEF Stays, Alike
<1> QED BY Zenon, <1>1, <1>3, <1>4 DEF Good, Focused

WithDmg(s, d) == [s EXCEPT !.dmg = d]
LEMMA DmgTouches == ASSUME NEW s, NEW d, Server(s) PROVE Touched(s, WithDmg(s, d))
BY DEF Touched, Server, WithDmg

LEMMA DirtyTouches == ASSUME NEW s, Server(s) PROVE Touched(s, MarkDirty(s))
<1>1. \/ MarkDirty(s) = WithDmg(s, [s.dmg EXCEPT !.pending = TRUE, !.pendingFull = TRUE])
      \/ MarkDirty(s) = WithDmg(s, [s.dmg EXCEPT !.dirty = TRUE, !.full = TRUE])
  BY DEF MarkDirty, WithDmg, Server
<1> QED BY <1>1, DmgTouches

LEMMA PendingTouches == ASSUME NEW s, NEW r, Server(s) PROVE Touched(s, MarkPending(s, r))
<1>1. PICK d : MarkPending(s, r) = WithDmg(s, d) BY DEF MarkPending, WithDmg, Server
<1> QED BY <1>1, DmgTouches

LEMMA RectTouches == ASSUME NEW s, NEW r, Server(s) PROVE Touched(s, MarkRect(s, r))
<1>1. \A u : \E d : Damage(s, u) = WithDmg(s, d) BY DEF Damage, WithDmg, Server
<1>2. \E d : [s EXCEPT !.dmg.dirty = TRUE] = WithDmg(s, d) BY DEF WithDmg, Server
<1>3. Touched(s, s) BY DEF Touched
<1>4. Touched(s, MarkPending(s, r)) BY PendingTouches
<1>5. \A u : Touched(s, Damage(s, u)) BY <1>1, DmgTouches
<1> DEFINE m == [s EXCEPT !.dmg.dirty = TRUE]
<1>6. Touched(s, m)
  <2>1. PICK d : m = WithDmg(s, d) BY <1>2
  <2> HIDE DEF m
  <2> QED BY <2>1, DmgTouches
<1> QED BY Zenon, <1>3, <1>4, <1>5, <1>6 DEF MarkRect, If

LEMMA MoveTouches == ASSUME NEW s, NEW o, NEW n, Server(s) PROVE Touched(s, MarkMove(s, o, n))
<1>1. PICK d : MarkMove(s, o, n) = WithDmg(s, d) BY DEF MarkMove, WithDmg, Server
<1> QED BY <1>1, DmgTouches

LEMMA MergeTouches == ASSUME NEW s, Server(s) PROVE Touched(s, MergePending(s))
<1>1. \A t : Server(t) => \E d : Merged(t) = WithDmg(t, d) BY DEF Merged, WithDmg, Server
<1>2. \A t : Touched(s, t) => Touched(s, Merged(t)) BY <1>1, DmgTouches, TouchTwice DEF Touched
<1>3. Touched(s, s) BY DEF Touched
<1> QED BY <1>2, <1>3, RectTouches, DirtyTouches DEF MergePending

LEMMA MaxIs ==
    ASSUME NEW S, S \subseteq Nat, S # {}, IsFiniteSet(S)
    PROVE  Max(S) \in S /\ \A y \in S : y <= Max(S)
<1>1. PICK x \in S : \A y \in S : x >= y BY HasGreatest
<1>2. Max(S) \in S /\ \A y \in S : Max(S) >= y BY <1>1 DEF Max
<1> QED BY <1>2

LEMMA MinIs == ASSUME NEW S, S \subseteq Nat, S # {} PROVE Min(S) \in S
BY HasLeast DEF Min

LEMMA FiniteImage ==
    ASSUME NEW S, IsFiniteSet(S), NEW f \in [S -> Nat]
    PROVE  IsFiniteSet({f[x] : x \in S})
<1> DEFINE T == {f[x] : x \in S}
<1>1. f \in [S -> T] /\ \A t \in T : \E x \in S : f[x] = t OBVIOUS
<1>2. f \in Surjection(S, T) BY <1>1 DEF Surjection
<1> HIDE DEF T
<1>4. IsFiniteSet(T) BY <1>2, FS_Surjection
<1> QED BY <1>4 DEF T

Heights(s, ws) == {s.win[w].z : w \in ws}

LEMMA HeightsAre ==
    ASSUME NEW s, Whole(s), NEW ws, ws \subseteq Slots
    PROVE  Heights(s, ws) \subseteq Nat /\ IsFiniteSet(Heights(s, ws))
<1> DEFINE f == [w \in ws |-> s.win[w].z]
<1>1. \A w \in ws : s.win[w].z \in Nat BY DEF Whole, Panes
<1>2. f \in [ws -> Nat] BY <1>1
<1>3. IsFiniteSet(ws) BY SlotsAre, FS_Subset
<1>4. Heights(s, ws) = {f[w] : w \in ws} BY DEF Heights
<1> HIDE DEF f
<1>5. IsFiniteSet({f[w] : w \in ws}) BY <1>2, <1>3, FiniteImage
<1>6. Heights(s, ws) \subseteq Nat BY <1>1 DEF Heights
<1> QED BY <1>4, <1>5, <1>6

LEMMA TopIs == ASSUME NEW s, Whole(s) PROVE TopZ(s) \in Nat
<1> DEFINE Z == {0} \cup Heights(s, Used(s))
<1>1. Used(s) \subseteq Slots BY DEF Used
<1>2. Z \subseteq Nat /\ Z # {} BY <1>1, HeightsAre
<1>3. IsFiniteSet(Z)
  <2>1. IsFiniteSet({0}) BY FS_Singleton
  <2> QED BY <1>1, <2>1, HeightsAre, FS_Union
<1>4. TopZ(s) = Max(Z) BY Zenon DEF TopZ, Heights
<1> HIDE DEF Z
<1> QED BY <1>2, <1>3, <1>4, MaxIs

-----------------------------------------------------------------------------
(* A row is written.                                                         *)
WithPane(s, w, r) == [s EXCEPT !.win[w] = r]

LEMMA PaneWritten ==
    ASSUME NEW s, Whole(s), NEW w \in Slots, NEW r, Pane(r), r.z \in Nat, NEW t, t = WithPane(s, w, r)
    PROVE  /\ Whole(t) /\ t.focus = s.focus /\ t.drag = s.drag /\ t.busy = s.busy /\ t.dmg = s.dmg
           /\ t.win[w] = r /\ \A v \in Slots : v # w => t.win[v] = s.win[v]
<1>1. /\ Server(t) /\ t.focus = s.focus /\ t.drag = s.drag /\ t.busy = s.busy /\ t.dmg = s.dmg
      /\ t.win = [s.win EXCEPT ![w] = r]
  BY Zenon DEF WithPane, Whole, Server
<1>2. /\ t.win = [v \in Slots |-> t.win[v]] /\ t.win[w] = r
      /\ \A v \in Slots : v # w => t.win[v] = s.win[v]
  BY Zenon, <1>1 DEF Whole, Panes
<1>3. \A v \in Slots : Pane(t.win[v]) /\ t.win[v].z \in Nat BY Zenon, <1>2 DEF Whole, Panes
<1> QED BY Zenon, <1>1, <1>2, <1>3 DEF Whole, Panes

LEMMA HeightOnly ==
    ASSUME NEW q, Pane(q), NEW n, NEW r, r = [q EXCEPT !.z = n]
    PROVE  Pane(r) /\ r.z = n /\ Alike(q, r)
<1>1. r = [used |-> q.used, visible |-> q.visible, focused |-> q.focused,
           frame |-> q.frame, z |-> n, kind |-> q.kind]
  BY DEF Pane
<1>2. /\ r.used = q.used /\ r.visible = q.visible /\ r.focused = q.focused
      /\ r.frame = q.frame /\ r.z = n /\ r.kind = q.kind
  BY Zenon, <1>1
<1> QED BY Zenon, <1>1, <1>2 DEF Pane, Alike

LEMMA HeightWritten ==
    ASSUME NEW s, Whole(s), NEW w \in Slots, NEW n \in Nat
    PROVE  Stays(s, [s EXCEPT !.win[w].z = n])
<1> DEFINE r == [s.win[w] EXCEPT !.z = n]
<1>1. Pane(s.win[w]) BY DEF Whole, Panes
<1>2. Pane(r) /\ r.z = n /\ Alike(s.win[w], r) BY Zenon, <1>1, HeightOnly
<1>3. [s EXCEPT !.win[w].z = n] = WithPane(s, w, r)
  <2>1. w \in DOMAIN s.win /\ DOMAIN s = {"win", "focus", "drag", "busy", "dmg"} BY DEF Whole, Server, Panes
  <2> QED BY <2>1 DEF WithPane
<1> HIDE DEF r
<1> DEFINE t == WithPane(s, w, r)
<1>4. r.z \in Nat BY <1>2
<1>5. t = WithPane(s, w, r) OBVIOUS
<1> HIDE DEF t
<1>6. /\ Whole(t) /\ t.focus = s.focus /\ t.drag = s.drag
      /\ t.win[w] = r /\ \A v \in Slots : v # w => t.win[v] = s.win[v]
  BY <1>2, <1>4, <1>5, PaneWritten
<1>7. \A v \in Slots : Alike(s.win[v], t.win[v]) BY Zenon, <1>2, <1>6 DEF Alike
<1> QED BY Zenon, <1>3, <1>5, <1>6, <1>7 DEF Stays

LEMMA RaiseStays == ASSUME NEW s, Whole(s), NEW w \in Slots PROVE Stays(s, Raise(s, w))
<1>1. TopZ(s) + 1 \in Nat BY TopIs
<1> QED BY Zenon, <1>1, HeightWritten DEF Raise

LEMMA RaiseAboveStays == ASSUME NEW s, Whole(s), NEW w \in Slots PROVE Stays(s, RaiseAbove(s, w))
BY Zenon, RaiseStays, StaysNone DEF RaiseAbove, If

(* The loop over the windows: what it goes through exists, step by step.     *)
LoopStep(s, top, g, w) == IF w = 0 THEN s ELSE If(g[w - 1], w \in top, Raise(g[w - 1], w))
Loop(s, top, m, g) == g = [w \in 0 .. m |-> LoopStep(s, top, g, w)]

LEMMA LoopGoes == ASSUME NEW s, NEW top PROVE \E g : Loop(s, top, WM_MAX_WINDOWS, g)
<1> DEFINE n == WM_MAX_WINDOWS
           K == {m \in 0 .. n : \E g : Loop(s, top, m, g)}
<1>0. n \in Nat BY ServerAssumption DEF ServerAssumption
<1>1. 0 \in K
  <2> DEFINE g == [w \in 0 .. 0 |-> s]
  <2>1. 0 .. 0 = {0} OBVIOUS
  <2>2. g = [w \in 0 .. 0 |-> LoopStep(s, top, g, w)] BY <2>1 DEF LoopStep
  <2> QED BY <1>0, <2>2 DEF Loop
<1>2. ASSUME NEW m \in 1 .. n, m - 1 \in K PROVE m \in K
  <2>1. PICK f : Loop(s, top, m - 1, f) BY <1>2
  <2> DEFINE g == [w \in 0 .. m |-> IF w = m THEN LoopStep(s, top, f, m) ELSE f[w]]
  <2>2. \A w \in 0 .. m - 1 : g[w] = f[w] /\ w \in 0 .. m BY <1>0
  <2>4. g = [w \in 0 .. m |-> g[w]] OBVIOUS
  <2>6. g[m] = LoopStep(s, top, f, m) BY <1>0
  <2> HIDE DEF g
  <2>3. ASSUME NEW w \in 0 .. m PROVE LoopStep(s, top, g, w) = g[w]
    <3>1. w # 0 => w - 1 \in 0 .. m - 1 /\ g[w - 1] = f[w - 1] BY <1>0, <2>2
    <3>2. LoopStep(s, top, g, w) = LoopStep(s, top, f, w) BY Zenon, <3>1 DEF LoopStep
    <3>3. w # m => w \in 0 .. m - 1 BY <1>0
    <3>4. w # m => f[w] = LoopStep(s, top, f, w) BY Zenon, <2>1, <3>3 DEF Loop
    <3> QED BY Zenon, <2>2, <2>6, <3>2, <3>3, <3>4
  <2>5. Loop(s, top, m, g) BY Zenon, <2>3, <2>4 DEF Loop
  <2> QED BY <1>0, <2>5
<1> HIDE DEF K
<1>3. n \in K BY <1>0, <1>1, <1>2, UpTo
<1> QED BY <1>3 DEF K

LEMMA TopmostStays == ASSUME NEW s, Whole(s) PROVE Stays(s, RaiseTopmost(s))
<1> DEFINE n == WM_MAX_WINDOWS
           top == {w \in Visible(s) : s.win[w].kind.topmost}
           u == CHOOSE g : Loop(s, top, n, g)
<1>0. n \in Nat BY ServerAssumption DEF ServerAssumption
<1>1. RaiseTopmost(s) = u[n] BY Zenon DEF RaiseTopmost, Loop, LoopStep
<1> HIDE DEF top
<1>2. Loop(s, top, n, u) BY Zenon, LoopGoes
<1> HIDE DEF u
<1>3. \A w \in 0 .. n : u[w] = LoopStep(s, top, u, w) BY Zenon, <1>2 DEF Loop
<1> DEFINE K == {m \in 0 .. n : Stays(s, u[m])}
<1>4. 0 \in K
  <2>1. 0 \in 0 .. n BY <1>0
  <2>2. u[0] = s BY Zenon, <1>3, <2>1 DEF LoopStep
  <2> QED BY <2>1, <2>2, StaysNone
<1>5. ASSUME NEW m \in 1 .. n, m - 1 \in K PROVE m \in K
  <2>1. m \in 0 .. n /\ m # 0 /\ m \in Slots BY <1>0 DEF Slots
  <2>2. Stays(s, u[m - 1]) BY <1>5
  <2>3. u[m] = If(u[m - 1], m \in top, Raise(u[m - 1], m)) BY Zenon, <1>3, <2>1 DEF LoopStep
  <2>4. Whole(u[m - 1]) BY <2>2 DEF Stays
  <2>5. Stays(u[m - 1], Raise(u[m - 1], m)) BY <2>1, <2>4, RaiseStays
  <2>6. Stays(s, Raise(u[m - 1], m)) BY <2>2, <2>5, StaysTwice
  <2>7. Stays(s, u[m]) BY Zenon, <2>2, <2>3, <2>6 DEF If
  <2> QED BY <2>1, <2>7
<1> HIDE DEF K
<1>6. n \in K BY <1>0, <1>4, <1>5, UpTo
<1> QED BY <1>1, <1>6 DEF K

(* Who is there and what is dragged stays, and the focus is sound.           *)
Goes(s, t) ==
    /\ Good(t) /\ t.drag = s.drag
    /\ \A v \in Slots : t.win[v].used = s.win[v].used /\ t.win[v].kind = s.win[v].kind

LEMMA StaysGoes == ASSUME NEW s, NEW t, Good(s), Stays(s, t) PROVE Goes(s, t)
<1>1. Good(t) BY StaysGood
<1> QED BY Zenon, <1>1 DEF Goes, Stays, Alike

LEMMA GoesTwice == ASSUME NEW s, NEW t, NEW u, Goes(s, t), Goes(t, u) PROVE Goes(s, u)
BY Zenon DEF Goes

LEMMA GoesNone == ASSUME NEW s, Good(s) PROVE Goes(s, s)
BY Zenon DEF Goes

LEMMA GoesThenStays == ASSUME NEW s, NEW t, NEW u, Goes(s, t), Stays(t, u) PROVE Goes(s, u)
<1>1. Goes(t, u) BY StaysGoes DEF Goes
<1> QED BY <1>1, GoesTwice

LEMMA GoesUsed == ASSUME NEW s, NEW t, Goes(s, t) PROVE Used(t) = Used(s)
BY Zenon DEF Goes, Used

LEMMA RectStays == ASSUME NEW s, Whole(s), NEW r PROVE Stays(s, MarkRect(s, r))
BY Zenon, RectTouches, TouchStays DEF Whole

LEMMA DirtyStays == ASSUME NEW s, Whole(s) PROVE Stays(s, MarkDirty(s))
BY Zenon, DirtyTouches, TouchStays DEF Whole

LEMMA MergeStays == ASSUME NEW s, Whole(s) PROVE Stays(s, MergePending(s))
BY Zenon, MergeTouches, TouchStays DEF Whole

-----------------------------------------------------------------------------
(* One field of the server, or one row, is written.                          *)
WithFocus(s, f) == [s EXCEPT !.focus = f]
WithDrag(s, d) == [s EXCEPT !.drag = d]
WithWin(s, win) == [s EXCEPT !.win = win]

LEMMA FieldsWritten ==
    ASSUME NEW s, Server(s), NEW x
    PROVE  /\ Server(WithFocus(s, x)) /\ WithFocus(s, x).focus = x
           /\ WithFocus(s, x).win = s.win /\ WithFocus(s, x).drag = s.drag
           /\ WithFocus(s, x).busy = s.busy /\ WithFocus(s, x).dmg = s.dmg
           /\ Server(WithDrag(s, x)) /\ WithDrag(s, x).drag = x
           /\ WithDrag(s, x).win = s.win /\ WithDrag(s, x).focus = s.focus
           /\ WithDrag(s, x).busy = s.busy /\ WithDrag(s, x).dmg = s.dmg
           /\ Server(WithWin(s, x)) /\ WithWin(s, x).win = x
           /\ WithWin(s, x).focus = s.focus /\ WithWin(s, x).drag = s.drag
           /\ WithWin(s, x).busy = s.busy /\ WithWin(s, x).dmg = s.dmg
BY DEF Server, WithFocus, WithDrag, WithWin

LEMMA ShowOnly ==
    ASSUME NEW q, Pane(q), NEW d, NEW r, r = [q EXCEPT !.visible = d]
    PROVE  Pane(r) /\ r.used = q.used /\ r.visible = d /\ r.focused = q.focused /\ r.frame = q.frame /\ r.z = q.z /\ r.kind = q.kind
<1>1. r = [used |-> q.used, visible |-> d, focused |-> q.focused, frame |-> q.frame, z |-> q.z, kind |-> q.kind]
  BY DEF Pane
<1>2. r.used = q.used /\ r.visible = d /\ r.focused = q.focused /\ r.frame = q.frame /\ r.z = q.z /\ r.kind = q.kind
  BY Zenon, <1>1
<1> QED BY Zenon, <1>1, <1>2 DEF Pane

LEMMA DrawOnly ==
    ASSUME NEW q, Pane(q), NEW d, NEW r, r = [q EXCEPT !.focused = d]
    PROVE  Pane(r) /\ r.used = q.used /\ r.visible = q.visible /\ r.focused = d /\ r.frame = q.frame /\ r.z = q.z /\ r.kind = q.kind
<1>1. r = [used |-> q.used, visible |-> q.visible, focused |-> d, frame |-> q.frame, z |-> q.z, kind |-> q.kind]
  BY DEF Pane
<1>2. r.used = q.used /\ r.visible = q.visible /\ r.focused = d /\ r.frame = q.frame /\ r.z = q.z /\ r.kind = q.kind
  BY Zenon, <1>1
<1> QED BY Zenon, <1>1, <1>2 DEF Pane

LEMMA FrameOnly ==
    ASSUME NEW q, Pane(q), NEW f, NEW r, r = [q EXCEPT !.frame = f]
    PROVE  Pane(r) /\ r.used = q.used /\ r.visible = q.visible /\ r.focused = q.focused /\ r.frame = f /\ r.z = q.z /\ r.kind = q.kind
<1>1. r = [used |-> q.used, visible |-> q.visible, focused |-> q.focused, frame |-> f, z |-> q.z, kind |-> q.kind]
  BY DEF Pane
<1>2. r.used = q.used /\ r.visible = q.visible /\ r.focused = q.focused /\ r.frame = f /\ r.z = q.z /\ r.kind = q.kind
  BY Zenon, <1>1
<1> QED BY Zenon, <1>1, <1>2 DEF Pane

PlacedRow(q, f, v) == [q EXCEPT !.frame = f, !.visible = v]
LEMMA PlaceOnly ==
    ASSUME NEW q, Pane(q), NEW f, NEW v
    PROVE  LET r == PlacedRow(q, f, v)
           IN  Pane(r) /\ r.used = q.used /\ r.visible = v /\ r.focused = q.focused /\ r.frame = f /\ r.z = q.z /\ r.kind = q.kind
<1> DEFINE r1 == [q EXCEPT !.frame = f]
           r == PlacedRow(q, f, v)
<1>1. r1 = [q EXCEPT !.frame = f] OBVIOUS
<1>2. r = [r1 EXCEPT !.visible = v] BY Zenon DEF PlacedRow
<1> HIDE DEF r1, r
<1>3. Pane(r1) /\ r1.used = q.used /\ r1.visible = q.visible /\ r1.focused = q.focused /\ r1.frame = f /\ r1.z = q.z /\ r1.kind = q.kind
  BY <1>1, FrameOnly
<1>4. Pane(r) /\ r.used = r1.used /\ r.visible = v /\ r.focused = r1.focused /\ r.frame = r1.frame /\ r.z = r1.z /\ r.kind = r1.kind
  BY <1>2, <1>3, ShowOnly
<1> QED BY Zenon, <1>3, <1>4 DEF r

LEMMA PlacedIs ==
    ASSUME NEW s, Whole(s), NEW w \in Slots, NEW v, NEW f
    PROVE  LET t == Placed(s, w, v, f) IN
           /\ Whole(t) /\ t.focus = s.focus /\ t.drag = s.drag
           /\ t.busy = s.busy /\ t.dmg = s.dmg /\ t.win[w].visible = v /\ t.win[w].frame = f
           /\ \A x \in Slots : /\ t.win[x].used = s.win[x].used /\ t.win[x].kind = s.win[x].kind
                               /\ t.win[x].focused = s.win[x].focused
                               /\ t.win[x].z = s.win[x].z
                               /\ x # w => t.win[x].visible = s.win[x].visible /\ t.win[x].frame = s.win[x].frame
<1> DEFINE q == s.win[w]
           r == PlacedRow(q, f, v)
           t == Placed(s, w, v, f)
<1>1. Pane(q) /\ q.z \in Nat BY DEF Whole, Panes
<1> HIDE DEF q
<1>2. Pane(r) /\ r.z = q.z /\ r.used = q.used /\ r.kind = q.kind /\ r.focused = q.focused /\ r.visible = v /\ r.frame = f
  BY <1>1, PlaceOnly
<1>3. t = WithPane(s, w, r)
  <2>1. w \in DOMAIN s.win /\ DOMAIN s = {"win", "focus", "drag", "busy", "dmg"} BY DEF Whole, Server, Panes
  <2> QED BY <2>1 DEF WithPane, Placed, PlacedRow, q, r
<1> HIDE DEF r, t
<1>4. r.z \in Nat BY Zenon, <1>1, <1>2
<1>5. /\ Whole(t) /\ t.focus = s.focus /\ t.drag = s.drag /\ t.busy = s.busy /\ t.dmg = s.dmg
      /\ t.win[w] = r /\ \A x \in Slots : x # w => t.win[x] = s.win[x]
  BY <1>2, <1>3, <1>4, PaneWritten
<1> QED BY Zenon, <1>2, <1>5 DEF q, t

LEMMA UndrawnIs ==
    ASSUME NEW s, Whole(s), NEW w \in Slots
    PROVE  LET t == DropDrawnFocus(s, w) IN
           /\ Whole(t) /\ t.focus = s.focus /\ t.drag = s.drag
           /\ t.busy = s.busy /\ t.dmg = s.dmg /\ t.win[w].focused = FALSE
           /\ \A x \in Slots : /\ t.win[x].used = s.win[x].used /\ t.win[x].kind = s.win[x].kind
                               /\ t.win[x].visible = s.win[x].visible
                               /\ t.win[x].frame = s.win[x].frame /\ t.win[x].z = s.win[x].z
                               /\ x # w => t.win[x].focused = s.win[x].focused
<1> DEFINE q == s.win[w]
           r == [q EXCEPT !.focused = FALSE]
           t == DropDrawnFocus(s, w)
<1>1. Pane(q) /\ q.z \in Nat BY DEF Whole, Panes
<1> HIDE DEF q
<1>7. r = [q EXCEPT !.focused = FALSE] OBVIOUS
<1> HIDE DEF r
<1>2. Pane(r) /\ r.z = q.z /\ r.used = q.used /\ r.kind = q.kind /\ r.visible = q.visible /\ r.frame = q.frame /\ r.focused = FALSE
  BY <1>1, <1>7, DrawOnly
<1>3. t = WithPane(s, w, r)
  <2>1. w \in DOMAIN s.win /\ DOMAIN s = {"win", "focus", "drag", "busy", "dmg"} BY DEF Whole, Server, Panes
  <2> QED BY <2>1 DEF WithPane, DropDrawnFocus, q, r
<1> HIDE DEF t
<1>4. r.z \in Nat BY Zenon, <1>1, <1>2
<1>5. /\ Whole(t) /\ t.focus = s.focus /\ t.drag = s.drag /\ t.busy = s.busy /\ t.dmg = s.dmg
      /\ t.win[w] = r /\ \A x \in Slots : x # w => t.win[x] = s.win[x]
  BY <1>2, <1>3, <1>4, PaneWritten
<1> QED BY Zenon, <1>2, <1>5 DEF q, t

Framed(s, w, f) == [s EXCEPT !.win[w].frame = f]
LEMMA FrameStays ==
    ASSUME NEW s, Whole(s), NEW w \in Slots, NEW f, NEW t, t = Framed(s, w, f)
    PROVE  /\ Stays(s, t) /\ t.busy = s.busy /\ t.dmg = s.dmg /\ t.win[w].frame = f
           /\ \A x \in Slots : /\ t.win[x].z = s.win[x].z
                               /\ x # w => t.win[x].frame = s.win[x].frame
<1> DEFINE q == s.win[w]
           r == [q EXCEPT !.frame = f]
<1>1. Pane(q) /\ q.z \in Nat BY DEF Whole, Panes
<1> HIDE DEF q
<1>7. r = [q EXCEPT !.frame = f] OBVIOUS
<1> HIDE DEF r
<1>2. Pane(r) /\ r.z = q.z /\ r.used = q.used /\ r.kind = q.kind /\ r.visible = q.visible /\ r.focused = q.focused /\ r.frame = f
  BY <1>1, <1>7, FrameOnly
<1>3. t = WithPane(s, w, r)
  <2>1. w \in DOMAIN s.win /\ DOMAIN s = {"win", "focus", "drag", "busy", "dmg"} BY DEF Whole, Server, Panes
  <2> QED BY <2>1 DEF WithPane, Framed, q, r
<1>4. r.z \in Nat BY Zenon, <1>1, <1>2
<1>5. /\ Whole(t) /\ t.focus = s.focus /\ t.drag = s.drag /\ t.busy = s.busy /\ t.dmg = s.dmg
      /\ t.win[w] = r /\ \A x \in Slots : x # w => t.win[x] = s.win[x]
  BY <1>2, <1>3, <1>4, PaneWritten
<1>6. Stays(s, t) BY Zenon, <1>2, <1>5 DEF q, Stays, Alike
<1> QED BY Zenon, <1>2, <1>5, <1>6 DEF q

LEMMA KeepGoes ==
    ASSUME NEW s, Good(s), NEW w \in Slots, NEW v \in BOOLEAN, NEW f
    PROVE  LET t == KeepFocus(Placed(s, w, v, f), w) IN Goes(s, t) /\ t.win[w].visible = v
<1> DEFINE p == Placed(s, w, v, f)
           t == KeepFocus(p, w)
<1>1. /\ Whole(s) /\ Focused(s) BY DEF Good
<1>2. /\ Whole(p) /\ p.focus = s.focus /\ p.drag = s.drag
      /\ p.win[w].visible = v
      /\ \A x \in Slots : /\ p.win[x].used = s.win[x].used /\ p.win[x].kind = s.win[x].kind
                          /\ p.win[x].focused = s.win[x].focused
                          /\ x # w => p.win[x].visible = s.win[x].visible
  BY <1>1, PlacedIs
<1> HIDE DEF p
<1>3. Used(p) = Used(s) /\ Drawn(p) = Drawn(s) BY Zenon, <1>2 DEF Used, Drawn
<1>4. Used(s) \subseteq Slots BY DEF Used
<1>5. CASE ~(~p.win[w].kind.accept \/ ~p.win[w].visible)
  <2>1. t = p BY Zenon, <1>5 DEF KeepFocus, If
  <2>2. p.focus # None => p.focus \in Visible(p) /\ p.win[p.focus].kind.accept
    <3>1. CASE s.focus = w
      <4>1. s.focus # None => w \in Used(s) BY Zenon, <1>1, <3>1 DEF Focused, Visible
      <4> QED BY Zenon, <1>2, <1>3, <1>5, <3>1, <4>1 DEF Visible
    <3>2. CASE s.focus # w
      <4>1. s.focus # None => s.focus \in Slots /\ s.focus \in Used(s) /\ s.win[s.focus].visible /\ s.win[s.focus].kind.accept
        BY Zenon, <1>1, <1>4 DEF Focused, Visible, Used
      <4> QED BY Zenon, <1>2, <1>3, <3>2, <4>1 DEF Visible
    <3> QED BY <3>1, <3>2
  <2>3. Good(p) BY Zenon, <1>1, <1>2, <1>3, <2>2 DEF Good, Focused
  <2>4. Goes(s, p) BY Zenon, <1>2, <2>3 DEF Goes
  <2> HIDE DEF t
  <2> QED BY Zenon, <1>2, <2>1, <2>4 DEF t, p
<1>6. CASE ~p.win[w].kind.accept \/ ~p.win[w].visible
  <2> DEFINE u == DropDrawnFocus(p, w)
             y == WithFocus(u, None)
  <2>1. t = If(u, p.focus = w, y)
    BY Zenon, <1>6 DEF KeepFocus, DropFocus, DropDrawnFocus, WithFocus, If
  <2>2. /\ Whole(u) /\ u.focus = p.focus /\ u.drag = p.drag
        /\ u.busy = p.busy /\ u.dmg = p.dmg /\ u.win[w].focused = FALSE
        /\ \A x \in Slots : /\ u.win[x].used = p.win[x].used /\ u.win[x].kind = p.win[x].kind
                            /\ u.win[x].visible = p.win[x].visible
                            /\ u.win[x].frame = p.win[x].frame /\ u.win[x].z = p.win[x].z
                            /\ x # w => u.win[x].focused = p.win[x].focused
    BY <1>2, UndrawnIs
  <2> HIDE DEF u
  <2>3. Used(u) = Used(s) BY Zenon, <1>3, <2>2 DEF Used
  <2>4. Drawn(u) = Drawn(s) \ {w}
    <3>1. \A x \in Slots : x \in Drawn(u) <=> x \in Drawn(s) /\ x # w
      BY Zenon, <1>2, <2>2, <2>3 DEF Drawn
    <3>2. Drawn(u) \subseteq Slots /\ Drawn(s) \subseteq Slots BY <1>4, <2>3 DEF Drawn
    <3> QED BY <3>1, <3>2
  <2>5. Server(y) /\ y.focus = None /\ y.win = u.win /\ y.drag = u.drag
    BY <2>2, FieldsWritten DEF Whole
  <2> HIDE DEF y
  <2>6. CASE p.focus = w
    <3>1. t = y BY Zenon, <2>1, <2>6 DEF If
    <3>2. Whole(y) BY Zenon, <2>2, <2>5 DEF Whole
    <3>3. Used(y) = Used(s) /\ Drawn(y) = Drawn(u) BY Zenon, <2>3, <2>5 DEF Used, Drawn
    <3>4. Drawn(y) = {} BY <1>1, <1>2, <2>4, <2>6, <3>3 DEF Focused
    <3>5. Good(y) BY Zenon, <1>1, <1>2, <2>2, <2>5, <3>2, <3>3, <3>4 DEF Good, Focused
    <3>6. Goes(s, y) BY Zenon, <1>2, <2>2, <2>5, <3>5 DEF Goes
    <3>7. y.win[w].visible = v BY Zenon, <1>2, <2>2, <2>5
    <3> HIDE DEF t
    <3> QED BY Zenon, <3>1, <3>6, <3>7 DEF t, p
  <2>7. CASE p.focus # w
    <3>1. t = u BY Zenon, <2>1, <2>7 DEF If
    <3>2. Drawn(u) = {u.focus} \ {None} BY <1>1, <1>2, <2>2, <2>4, <2>7 DEF Focused
    <3>3. u.focus # None => u.focus \in Visible(u) /\ u.win[u.focus].kind.accept
      <4>1. s.focus # None => s.focus \in Slots /\ s.focus \in Used(s) /\ s.win[s.focus].visible /\ s.win[s.focus].kind.accept
        BY Zenon, <1>1, <1>4 DEF Focused, Visible, Used
      <4>2. u.focus = s.focus /\ s.focus # w BY Zenon, <1>2, <2>2, <2>7
      <4>3. \A x \in Slots : x # w => u.win[x].visible = s.win[x].visible /\ u.win[x].kind = s.win[x].kind
        BY Zenon, <1>2, <2>2
      <4> QED BY Zenon, <2>3, <4>1, <4>2, <4>3 DEF Visible
    <3>4. Good(u) BY Zenon, <1>1, <1>2, <2>2, <2>3, <3>2, <3>3 DEF Good, Focused
    <3>5. Goes(s, u) BY Zenon, <1>2, <2>2, <3>4 DEF Goes
    <3>6. u.win[w].visible = v BY Zenon, <1>2, <2>2
    <3> HIDE DEF t
    <3> QED BY Zenon, <3>1, <3>5, <3>6 DEF t, p
  <2> QED BY <2>6, <2>7
<1> QED BY <1>5, <1>6

(* From a state reached by Goes, a step that Stays; and the visible row.     *)
Shows(t, w, v) == t.win[w].visible = v
LEMMA StaysShows == ASSUME NEW s, NEW t, Stays(s, t), NEW w \in Slots, NEW v, Shows(s, w, v) PROVE Shows(t, w, v)
BY Zenon DEF Stays, Alike, Shows

LEMMA TopmostAfter == ASSUME NEW s, Whole(s), NEW w PROVE Stays(s, AfterTopmost(s, w))
BY Zenon, TopmostStays, StaysNone DEF AfterTopmost, If

LEMMA ApplyGoes ==
    ASSUME NEW s, Good(s), NEW w \in Slots, NEW v \in BOOLEAN, NEW f
    PROVE  Goes(s, ApplyOpts(s, w, v, f)) /\ Shows(ApplyOpts(s, w, v, f), w, v)
<1> DEFINE k == KeepFocus(Placed(s, w, v, f), w)
           d1 == MarkRect(k, Rect(s.win[w].frame))
           drawn == MarkRect(d1, Rect(f))
           a == AfterTopmost(drawn, w)
           b == RaiseAbove(a, w)
           c == RaiseTopmost(b)
           shown == MarkRect(c, Rect(f))
<1>1. Goes(s, k) /\ Shows(k, w, v) BY KeepGoes DEF Shows
<1>2. ApplyOpts(s, w, v, f) = IF v /\ ~s.win[w].visible THEN shown ELSE a BY Zenon DEF ApplyOpts
<1> HIDE DEF k
<1>3. Whole(k) BY <1>1 DEF Goes, Good
<1>4. Stays(k, d1) BY <1>3, RectStays
<1> HIDE DEF d1
<1>5. Stays(d1, drawn) BY <1>4, RectStays DEF Stays
<1> HIDE DEF drawn
<1>6. Stays(drawn, a) BY <1>5, TopmostAfter DEF Stays
<1>7. Stays(k, a) BY <1>4, <1>5, <1>6, StaysTwice
<1> HIDE DEF a
<1>8. Stays(a, b) BY <1>6, RaiseAboveStays DEF Stays
<1> HIDE DEF b
<1>9. Stays(b, c) BY <1>8, TopmostStays DEF Stays
<1> HIDE DEF c
<1>10. Stays(c, shown) BY <1>9, RectStays DEF Stays
<1> HIDE DEF shown
<1>11. Stays(k, shown) BY <1>7, <1>8, <1>9, <1>10, StaysTwice
<1>12. Goes(s, a) /\ Goes(s, shown) BY <1>1, <1>7, <1>11, GoesThenStays
<1>13. Shows(a, w, v) /\ Shows(shown, w, v) BY <1>1, <1>7, <1>11, StaysShows
<1> QED BY Zenon, <1>2, <1>12, <1>13

LEMMA DrawFocusIs ==
    ASSUME NEW s, Whole(s), NEW w
    PROVE  LET t == DrawFocus(s, w) IN
           /\ Whole(t) /\ t.focus = w /\ t.drag = s.drag /\ t.busy = s.busy /\ t.dmg = s.dmg
           /\ \A x \in Slots : /\ t.win[x].used = s.win[x].used /\ t.win[x].kind = s.win[x].kind
                               /\ t.win[x].visible = s.win[x].visible
                               /\ t.win[x].frame = s.win[x].frame /\ t.win[x].z = s.win[x].z
                               /\ t.win[x].focused = (x = w)
<1> DEFINE row(x) == [s.win[x] EXCEPT !.focused = (x = w)]
           g == [x \in Slots |-> row(x)]
           t == DrawFocus(s, w)
<1>1. \A x \in Slots : Pane(s.win[x]) /\ s.win[x].z \in Nat BY DEF Whole, Panes
<1>2. ASSUME NEW x \in Slots
      PROVE  LET r == row(x) IN
             /\ Pane(r) /\ r.used = s.win[x].used /\ r.visible = s.win[x].visible /\ r.frame = s.win[x].frame
             /\ r.focused = (x = w) /\ r.z = s.win[x].z /\ r.kind = s.win[x].kind
  <2> DEFINE q == s.win[x]
             d == (x = w)
             r == row(x)
  <2>1. Pane(q) /\ r = [q EXCEPT !.focused = d] BY <1>1
  <2> HIDE DEF q, d, row, r
  <2>2. Pane(r) /\ r.used = q.used /\ r.visible = q.visible /\ r.focused = d /\ r.frame = q.frame /\ r.z = q.z /\ r.kind = q.kind
    BY <2>1, DrawOnly
  <2> QED BY Zenon, <2>2 DEF q, d, r
<1> HIDE DEF row
<1>3. /\ Server(t) /\ t.focus = w /\ t.drag = s.drag /\ t.win = g /\ t.busy = s.busy /\ t.dmg = s.dmg
  <2>1. t = WithFocus(WithWin(s, g), w)
    <3>1. DOMAIN s = {"win", "focus", "drag", "busy", "dmg"} BY DEF Whole, Server
    <3> QED BY Zenon, <3>1 DEF DrawFocus, WithFocus, WithWin, row
  <2> DEFINE u == WithWin(s, g)
  <2> HIDE DEF g
  <2>2. Server(u) /\ u.win = g /\ u.drag = s.drag /\ u.busy = s.busy /\ u.dmg = s.dmg BY FieldsWritten DEF Whole
  <2> HIDE DEF u, t
  <2>3. t = WithFocus(u, w) BY <2>1 DEF u
  <2>4. /\ Server(WithFocus(u, w)) /\ WithFocus(u, w).focus = w
        /\ WithFocus(u, w).win = u.win /\ WithFocus(u, w).drag = u.drag
        /\ WithFocus(u, w).busy = u.busy /\ WithFocus(u, w).dmg = u.dmg
    BY <2>2, FieldsWritten
  <2> QED BY Zenon, <2>2, <2>3, <2>4
<1> HIDE DEF t
<1>4. \A x \in Slots : t.win[x] = row(x) BY Zenon, <1>3
<1>5. t.win = [x \in Slots |-> t.win[x]] BY Zenon, <1>3
<1>6. \A x \in Slots : Pane(t.win[x]) /\ t.win[x].z \in Nat BY Zenon, <1>1, <1>2, <1>4
<1>7. Whole(t) BY Zenon, <1>3, <1>5, <1>6 DEF Whole, Panes
<1>8. \A x \in Slots : /\ t.win[x].used = s.win[x].used /\ t.win[x].kind = s.win[x].kind
                       /\ t.win[x].visible = s.win[x].visible
                       /\ t.win[x].frame = s.win[x].frame /\ t.win[x].z = s.win[x].z
                       /\ t.win[x].focused = (x = w)
  BY Zenon, <1>2, <1>4
<1> QED BY Zenon, <1>3, <1>7, <1>8 DEF t

(* The keyboard's window is the one that is drawn.                           *)
LEMMA DrawnGoes ==
    ASSUME NEW s, Good(s), NEW w \in Used(s), s.win[w].visible, s.win[w].kind.accept
    PROVE  Goes(s, DrawFocus(s, w))
<1> DEFINE t == DrawFocus(s, w)
<1>1. Whole(s) /\ Focused(s) /\ w \in Slots /\ s.win[w].used BY DEF Good, Used
<1>2. /\ Whole(t) /\ t.focus = w /\ t.drag = s.drag
      /\ \A x \in Slots : /\ t.win[x].used = s.win[x].used /\ t.win[x].kind = s.win[x].kind
                          /\ t.win[x].visible = s.win[x].visible
                          /\ t.win[x].focused = (x = w)
  BY <1>1, DrawFocusIs
<1> HIDE DEF t
<1>3. Used(t) = Used(s) BY Zenon, <1>2 DEF Used
<1>4. w \in Visible(t) /\ t.win[w].kind.accept BY Zenon, <1>1, <1>2, <1>3 DEF Visible
<1>5. Drawn(t) = {w}
  <2>1. \A x \in Drawn(t) : x = w BY Zenon, <1>2 DEF Drawn, Used
  <2>2. w \in Drawn(t) BY Zenon, <1>1, <1>2, <1>3 DEF Drawn
  <2> QED BY Zenon, <2>1, <2>2
<1>6. w # None BY <1>1, SlotsAre
<1>7. Drawn(t) = {t.focus} \ {None} BY Zenon, <1>2, <1>5, <1>6
<1>8. Focused(t) BY Zenon, <1>1, <1>2, <1>3, <1>4, <1>7 DEF Focused
<1>9. Goes(s, t) BY Zenon, <1>2, <1>8 DEF Goes, Good
<1> QED BY <1>9 DEF t

LEMMA FocusGoes == ASSUME NEW s, Good(s), NEW w \in Used(s) PROVE Goes(s, FocusOn(s, w))
<1> DEFINE p == Shown(s, w)
           q == DrawFocus(p, w)
           a == RaiseAbove(q, w)
           b == RaiseTopmost(a)
           t == MarkRect(b, Rect(s.win[w].frame))
<1>1. w \in Slots BY DEF Used
<1>2. Goes(s, s) BY GoesNone
<1>3. FocusOn(s, w) = If(s, s.win[w].kind.accept, t) BY Zenon DEF FocusOn
<1>4. CASE s.win[w].kind.accept
  <2>1. Goes(s, p) /\ p.win[w].visible
    <3>1. CASE s.win[w].visible
      <4>1. p = s BY Zenon, <3>1 DEF Shown, If
      <4> HIDE DEF p
      <4> QED BY Zenon, <1>2, <3>1, <4>1
    <3>2. CASE ~s.win[w].visible
      <4> DEFINE y == ApplyOpts(s, w, TRUE, s.win[w].frame)
      <4>1. p = y BY Zenon, <3>2 DEF Shown, If
      <4>2. Goes(s, y) /\ Shows(y, w, TRUE) BY <1>1, ApplyGoes
      <4> HIDE DEF p, y
      <4> QED BY Zenon, <4>1, <4>2 DEF Shows
    <3> QED BY <3>1, <3>2
  <2> HIDE DEF p
  <2>2. Good(p) /\ w \in Used(p) /\ p.win[w].kind.accept BY Zenon, <1>1, <1>4, <2>1, GoesUsed DEF Goes
  <2>3. Goes(p, q) BY <2>1, <2>2, DrawnGoes
  <2> HIDE DEF q
  <2>4. Goes(s, q) BY <2>1, <2>3, GoesTwice
  <2>5. Whole(q) BY <2>4 DEF Goes, Good
  <2>6. Stays(q, a) BY <1>1, <2>5, RaiseAboveStays
  <2> HIDE DEF a
  <2>7. Stays(a, b) BY <2>6, TopmostStays DEF Stays
  <2> HIDE DEF b
  <2>8. Stays(b, t) BY <2>7, RectStays DEF Stays
  <2> HIDE DEF t
  <2>9. Stays(q, t) BY <2>6, <2>7, <2>8, StaysTwice
  <2>10. Goes(s, t) BY <2>4, <2>9, GoesThenStays
  <2> QED BY Zenon, <1>3, <1>4, <2>10 DEF If
<1>5. CASE ~s.win[w].kind.accept
  <2>1. FocusOn(s, w) = s BY Zenon, <1>3, <1>5 DEF If
  <2> QED BY Zenon, <1>2, <2>1
<1> QED BY <1>4, <1>5

LEMMA MoveToStays == ASSUME NEW s, Whole(s), NEW w \in Slots, NEW f PROVE Stays(s, MoveTo(s, w, f))
<1> DEFINE old == s.win[w].frame
           t == [s EXCEPT !.win[w].frame = f]
           m == MarkMove(t, Rect(old), Rect(f))
           r == MarkRect(t, Rect(old))
           y == MarkRect(r, Rect(f))
<1>1. MoveTo(s, w, f) = IF old = f THEN s ELSE IF s.drag = w THEN m ELSE y BY Zenon DEF MoveTo
<1>20. t = Framed(s, w, f) BY DEF Framed
<1> HIDE DEF t
<1>2. Stays(s, t) BY <1>20, FrameStays
<1>3. Stays(s, s) BY StaysNone
<1> HIDE DEF t
<1>4. Whole(t) BY <1>2 DEF Stays
<1>5. Stays(t, m)
  <2>1. Touched(t, m) BY <1>4, MoveTouches DEF Whole
  <2> QED BY <1>4, <2>1, TouchStays
<1>6. Stays(t, r) BY <1>4, RectStays
<1> HIDE DEF m, r
<1>7. Stays(r, y) BY <1>6, RectStays DEF Stays
<1> HIDE DEF y
<1>8. Stays(s, m) /\ Stays(s, y) BY <1>2, <1>5, <1>6, <1>7, StaysTwice
<1> QED BY Zenon, <1>1, <1>3, <1>8

(* A window is taken away: what pointed at it points at nothing.             *)
LEMMA WithdrawGood == ASSUME NEW s, Good(s), NEW w \in Slots PROVE Good(Withdraw(s, w))
<1> DEFINE p == WithPane(s, w, NoWindow)
           fc == IF s.focus = w THEN None ELSE s.focus
           dr == IF s.drag = w THEN None ELSE s.drag
           q == WithFocus(p, fc)
           t == WithDrag(q, dr)
<1>1. Whole(s) /\ Focused(s) /\ Server(s) BY DEF Good, Whole
<1>2. Withdraw(s, w) = MarkDirty(t)
  <2>1. w \in DOMAIN s.win /\ DOMAIN s = {"win", "focus", "drag", "busy", "dmg"} BY <1>1 DEF Whole, Server, Panes
  <2> QED BY <2>1 DEF Withdraw, WithPane, WithFocus, WithDrag
<1>3. Pane(NoWindow) /\ NoWindow.z \in Nat /\ NoWindow.used = FALSE BY DEF Pane, NoWindow
<1>4. p = WithPane(s, w, NoWindow) OBVIOUS
<1> HIDE DEF p
<1>5. /\ Whole(p) /\ p.focus = s.focus /\ p.drag = s.drag
      /\ p.win[w] = NoWindow /\ \A v \in Slots : v # w => p.win[v] = s.win[v]
  BY <1>1, <1>3, <1>4, PaneWritten
<1> HIDE DEF fc, dr
<1>6. Server(q) /\ q.focus = fc /\ q.win = p.win /\ q.drag = p.drag BY <1>5, FieldsWritten DEF Whole
<1> HIDE DEF q
<1>7. Server(t) /\ t.drag = dr /\ t.win = q.win /\ t.focus = q.focus BY <1>6, FieldsWritten
<1> HIDE DEF t
<1>8. Whole(t) BY Zenon, <1>5, <1>6, <1>7 DEF Whole
<1>9. /\ t.focus = fc /\ t.drag = dr /\ ~t.win[w].used
      /\ \A v \in Slots : v # w => t.win[v] = s.win[v]
  BY Zenon, <1>3, <1>5, <1>6, <1>7
<1>10. \A v \in Slots : /\ v \in Used(t) <=> v \in Used(s) /\ v # w
                        /\ v \in Visible(t) <=> v \in Visible(s) /\ v # w
                        /\ v \in Drawn(t) <=> v \in Drawn(s) /\ v # w
  BY Zenon, <1>9 DEF Used, Visible, Drawn
<1>11. /\ Used(t) \subseteq Slots /\ Visible(t) \subseteq Slots /\ Drawn(t) \subseteq Slots
       /\ Used(s) \subseteq Slots /\ Visible(s) \subseteq Slots /\ Drawn(s) \subseteq Slots
  BY DEF Used, Visible, Drawn
<1>12. Focused(t)
  <2>1. t.drag # None => t.drag \in Used(t) BY Zenon, <1>1, <1>9, <1>10, <1>11 DEF Focused, dr
  <2>2. t.focus # None => t.focus = s.focus /\ s.focus # w /\ s.focus # None BY Zenon, <1>9 DEF fc
  <2>3. t.focus # None => t.focus \in Visible(t) /\ t.win[t.focus].kind.accept
    BY Zenon, <1>1, <1>9, <1>10, <1>11, <2>2 DEF Focused
  <2>4. Drawn(t) = Drawn(s) \ {w} BY <1>10, <1>11
  <2>5. Drawn(s) = {s.focus} \ {None} BY <1>1 DEF Focused
  <2>6. Drawn(t) = {t.focus} \ {None} BY <1>9, <2>4, <2>5 DEF fc
  <2> QED BY <2>1, <2>3, <2>6 DEF Focused
<1>13. Good(t) BY <1>8, <1>12 DEF Good
<1>14. Good(MarkDirty(t)) BY <1>8, <1>13, DirtyStays, StaysGood
<1> QED BY Zenon, <1>2, <1>14

LEMMA HitIsThere == ASSUME NEW s, Whole(s), NEW c, HitTest(s, c) # None PROVE HitTest(s, c) \in Used(s)
<1> DEFINE U == Under(s, c)
           H == Highest(s, U)
           T == Takers(s, H)
<1>1. U \subseteq Used(s) /\ U \subseteq Slots BY DEF Under, Visible, Used
<1>2. U # {} /\ HitTest(s, c) = Max(T) BY Zenon DEF HitTest
<1>3. \A w \in U : s.win[w].z \in Nat BY <1>1 DEF Whole, Panes
<1> HIDE DEF U
<1>4. H # {} /\ H \subseteq U
  <2>1. Heights(s, U) \subseteq Nat /\ IsFiniteSet(Heights(s, U)) BY <1>1, HeightsAre
  <2>2. Heights(s, U) # {} BY <1>2 DEF Heights
  <2>3. PICK x \in Heights(s, U) : \A y \in Heights(s, U) : y <= x BY <2>1, <2>2, HasGreatest
  <2>4. PICK w \in U : x = s.win[w].z BY Zenon, <2>3 DEF Heights
  <2>5. \A v \in U : s.win[v].z \in Heights(s, U) BY Zenon DEF Heights
  <2>6. \A v \in U : s.win[v].z <= s.win[w].z BY Zenon, <2>3, <2>4, <2>5
  <2> QED BY Zenon, <2>6 DEF Highest
<1> HIDE DEF H
<1>5. T # {} /\ T \subseteq H
  <2>1. \A v \in H : Fg(s, v) \in {0, 1} BY DEF Fg
  <2>2. CASE \E w \in H : Fg(s, w) = 1
    <3>1. PICK w \in H : Fg(s, w) = 1 BY <2>2
    <3>2. \A v \in H : Fg(s, v) <= Fg(s, w) BY <2>1, <3>1
    <3> QED BY Zenon, <3>2 DEF Takers
  <2>3. CASE \A w \in H : Fg(s, w) # 1
    <3>1. PICK w \in H : TRUE BY <1>4
    <3>2. \A v \in H : Fg(s, v) <= Fg(s, w) BY <2>1, <2>3
    <3> QED BY Zenon, <3>1, <3>2 DEF Takers
  <2> QED BY <2>2, <2>3
<1> HIDE DEF T
<1>6. T \subseteq Slots BY <1>1, <1>4, <1>5
<1>7. T \subseteq Nat /\ IsFiniteSet(T) BY <1>6, SlotsAre, FS_Subset
<1>8. Max(T) \in T BY <1>5, <1>7, MaxIs
<1> QED BY <1>1, <1>2, <1>4, <1>5, <1>8

LEMMA DragIs ==
    ASSUME NEW s, Good(s), NEW d, d # None => d \in Used(s)
    PROVE  Good(WithDrag(s, d)) /\ WithDrag(s, d).win = s.win
<1> DEFINE t == WithDrag(s, d)
<1>1. Whole(s) /\ Focused(s) /\ Server(s) BY DEF Good, Whole
<1>2. Server(t) /\ t.drag = d /\ t.win = s.win /\ t.focus = s.focus BY <1>1, FieldsWritten
<1> HIDE DEF t
<1>3. Used(t) = Used(s) /\ Visible(t) = Visible(s) /\ Drawn(t) = Drawn(s)
  BY Zenon, <1>2 DEF Used, Visible, Drawn
<1>4. Good(t) BY Zenon, <1>1, <1>2, <1>3 DEF Good, Focused, Whole
<1> QED BY <1>2, <1>4 DEF t

LEMMA PressGood == ASSUME NEW s, Good(s), NEW c, NEW title PROVE Good(Press(s, c, title))
<1> DEFINE w == HitTest(s, c)
           f == FocusOn(s, w)
           g == WithDrag(f, w)
<1>1. \/ Press(s, c, title) = s
      \/ w # None /\ Press(s, c, title) = g
      \/ w # None /\ Press(s, c, title) = f
  BY Zenon DEF Press, PressOn, WithDrag
<1>2. w # None => w \in Used(s) BY HitIsThere DEF Good
<1> HIDE DEF w
<1>3. w # None => Goes(s, f) BY <1>2, FocusGoes
<1> HIDE DEF f
<1>4. w # None => Good(f) BY <1>3 DEF Goes
<1>5. w # None => w \in Used(f) BY <1>2, <1>3, GoesUsed
<1>6. w # None => Good(g) BY <1>4, <1>5, DragIs
<1> HIDE DEF g
<1> QED BY Zenon, <1>1, <1>4, <1>6

LEMMA LetGoGood == ASSUME NEW s, Good(s) PROVE Good(LetGo(s))
<1> DEFINE t == WithDrag(s, None)
<1>1. LetGo(s) = IF s.drag = None THEN s ELSE MarkDirty(t) BY Zenon DEF LetGo, WithDrag
<1>2. Good(t) BY DragIs
<1> HIDE DEF t
<1>3. Good(MarkDirty(t)) BY <1>2, DirtyStays, StaysGood DEF Good
<1> QED BY Zenon, <1>1, <1>3

(* What is written to the damage alone leaves the focus sound.               *)
LEMMA TouchGood == ASSUME NEW s, NEW t, Good(s), Touched(s, t) PROVE Good(t)
<1>1. Stays(s, t) BY TouchStays DEF Good
<1> QED BY <1>1, StaysGood

LEMMA EndDragGood == ASSUME NEW s, Good(s) PROVE Good(EndDrag(s))
<1> DEFINE t == WithDrag(s, None)
           u == [s EXCEPT !.drag = None, !.dmg.moved = FALSE, !.dmg.content = FALSE]
           m == MergePending(u)
           r == MarkRect(m, Rect(s.win[s.drag].frame))
<1>1. EndDrag(s) = If(s, s.drag # None, r) BY Zenon DEF EndDrag
<1>2. Good(t) BY DragIs
<1>3. u = WithDmg(t, [s.dmg EXCEPT !.moved = FALSE, !.content = FALSE])
  <2>1. Server(s) BY DEF Good, Whole
  <2> QED BY <2>1 DEF WithDmg, WithDrag, Server
<1> HIDE DEF t, u
<1>4. Server(t) BY <1>2 DEF Good, Whole
<1>5. Touched(t, u) BY <1>3, <1>4, DmgTouches
<1>6. Good(u) BY <1>2, <1>5, TouchGood
<1>7. Stays(u, m) BY <1>6, MergeStays DEF Good
<1> HIDE DEF m
<1>8. Stays(m, r) BY <1>7, RectStays DEF Stays
<1> HIDE DEF r
<1>9. Good(r) BY <1>6, <1>7, <1>8, StaysGood
<1> QED BY Zenon, <1>1, <1>9 DEF If

(* Only the order of heights is kept.                                        *)
LEMMA RankedStays == ASSUME NEW s, Whole(s) PROVE Stays(s, Ranked(s))
<1> DEFINE zs == Heights(s, Used(s)) \ {0}
           rank(z) == 2 * Cardinality({y \in zs : y <= z})
           row(x) == [s.win[x] EXCEPT !.z = rank(s.win[x].z)]
           g == [x \in Slots |-> row(x)]
           t == Ranked(s)
<1>1. t = WithWin(s, g) BY Zenon DEF Ranked, WithWin, Heights
<1>2. \A x \in Slots : Pane(s.win[x]) /\ s.win[x].z \in Nat BY DEF Whole, Panes
<1>3. \A z : rank(z) \in Nat
  <2>1. IsFiniteSet(zs)
    <3>1. Used(s) \subseteq Slots BY DEF Used
    <3> QED BY <3>1, HeightsAre, FS_Subset
  <2> HIDE DEF zs
  <2>2. \A z : IsFiniteSet({y \in zs : y <= z}) BY <2>1, FS_Subset
  <2>3. \A z : Cardinality({y \in zs : y <= z}) \in Nat BY <2>2, FS_CardinalityType
  <2>4. \A n \in Nat : 2 * n \in Nat OBVIOUS
  <2> QED BY Zenon, <2>3, <2>4
<1> HIDE DEF rank
<1>4. ASSUME NEW x \in Slots PROVE Pane(row(x)) /\ row(x).z \in Nat /\ Alike(s.win[x], row(x))
  <2> DEFINE q == s.win[x]
             n == rank(q.z)
             r == row(x)
  <2>0. Pane(s.win[x]) BY <1>2
  <2>1. Pane(q) /\ r = [q EXCEPT !.z = n] BY Zenon, <2>0
  <2>2. n \in Nat BY <1>3
  <2> HIDE DEF q, n, r, row
  <2>3. Pane(r) /\ r.z = n /\ Alike(q, r) BY <2>1, HeightOnly
  <2> QED BY Zenon, <2>2, <2>3 DEF q, r
<1> HIDE DEF row
<1>5. \A x \in Slots : g[x] = row(x) OBVIOUS
<1>6. g = [x \in Slots |-> g[x]] OBVIOUS
<1> HIDE DEF g
<1>7. Server(t) /\ t.win = g /\ t.focus = s.focus /\ t.drag = s.drag
  BY <1>1, FieldsWritten DEF Whole
<1> HIDE DEF t
<1>8. Panes(g) BY Zenon, <1>4, <1>5, <1>6 DEF Panes
<1>9. Whole(t) BY Zenon, <1>7, <1>8 DEF Whole
<1>10. Stays(s, t) BY Zenon, <1>4, <1>5, <1>7, <1>9 DEF Stays
<1> QED BY <1>10 DEF t

LEMMA RankedGood == ASSUME NEW s, Good(s) PROVE Good(Ranked(s))
BY RankedStays, StaysGood DEF Good

LEMMA KeptGood == ASSUME NEW s, Good(s), srv' = Ranked(s) PROVE Good(srv')
BY Zenon, RankedGood

LEMMA NewGood ==
    ASSUME NEW s, Good(s), NEW w \in Slots, w \notin Used(s),
           NEW r, Pane(r), r.z \in Nat, r.used = TRUE, r.focused = FALSE, NEW t, t = WithPane(s, w, r)
    PROVE  Good(t) /\ w \in Used(t)
<1>1. Whole(s) /\ Focused(s) BY DEF Good
<1>7. /\ Whole(t) /\ t.focus = s.focus /\ t.drag = s.drag
      /\ t.win[w] = r /\ \A x \in Slots : x # w => t.win[x] = s.win[x]
  BY <1>1, PaneWritten
<1>9. w \in Used(t) BY Zenon, <1>7 DEF Used
<1>10. \A x \in Slots :
          x # w => /\ (x \in Used(t) <=> x \in Used(s))
                   /\ (x \in Visible(t) <=> x \in Visible(s))
                   /\ (x \in Drawn(t) <=> x \in Drawn(s))
  BY Zenon, <1>7 DEF Used, Visible, Drawn
<1>11. Used(s) \subseteq Slots /\ Used(t) \subseteq Slots BY DEF Used
<1>12. Drawn(t) = Drawn(s)
  <2>1. w \notin Drawn(t) /\ w \notin Drawn(s) BY Zenon, <1>7 DEF Drawn
  <2>2. Drawn(t) \subseteq Slots /\ Drawn(s) \subseteq Slots BY Zenon, <1>11 DEF Drawn
  <2> QED BY <1>10, <2>1, <2>2
<1>13. s.drag # None => s.drag \in Used(t) BY Zenon, <1>1, <1>10, <1>11 DEF Focused
<1>14. s.focus # None => s.focus \in Visible(t) /\ t.win[s.focus].kind.accept
  <2>1. s.focus # None => s.focus \in Slots /\ s.focus # w BY Zenon, <1>1, <1>11 DEF Focused, Visible
  <2> QED BY Zenon, <1>1, <1>7, <1>10, <2>1 DEF Focused
<1>15. Focused(t) BY Zenon, <1>1, <1>7, <1>12, <1>13, <1>14 DEF Focused
<1> QED BY Zenon, <1>7, <1>9, <1>15 DEF Good

FilledRow(q, u, v, f, k, n) == [q EXCEPT !.used = u, !.visible = v, !.frame = f, !.kind = k, !.z = n]
LEMMA FilledIs ==
    ASSUME NEW q, Pane(q), NEW u, NEW v, NEW f, NEW k, NEW n
    PROVE  FilledRow(q, u, v, f, k, n)
           = [used |-> u, visible |-> v, focused |-> q.focused, frame |-> f, z |-> n, kind |-> k]
<1> DEFINE a == [q EXCEPT !.used = u]
           b == [a EXCEPT !.visible = v]
           c == [b EXCEPT !.frame = f]
           d == [c EXCEPT !.kind = k]
           e == [d EXCEPT !.z = n]
<1>1. FilledRow(q, u, v, f, k, n) = e BY Zenon DEF FilledRow
<1>2. a = [used |-> u, visible |-> q.visible, focused |-> q.focused, frame |-> q.frame, z |-> q.z, kind |-> q.kind]
  BY DEF Pane
<1> HIDE DEF a
<1>3. b = [used |-> u, visible |-> v, focused |-> q.focused, frame |-> q.frame, z |-> q.z, kind |-> q.kind]
  BY <1>2
<1> HIDE DEF b
<1>4. c = [used |-> u, visible |-> v, focused |-> q.focused, frame |-> f, z |-> q.z, kind |-> q.kind]
  BY <1>3
<1> HIDE DEF c
<1>5. d = [used |-> u, visible |-> v, focused |-> q.focused, frame |-> f, z |-> q.z, kind |-> k]
  BY <1>4
<1> HIDE DEF d
<1>6. e = [used |-> u, visible |-> v, focused |-> q.focused, frame |-> f, z |-> n, kind |-> k]
  BY <1>5
<1> QED BY <1>1, <1>6

NewRow(r, k, v) ==
    /\ Pane(r) /\ r.z \in Nat /\ r.used = TRUE /\ r.focused = FALSE /\ r.visible = v /\ r.kind = k
    /\ k.bottom => r.z = 0

LEMMA AddedIs ==
    ASSUME NEW w \in Slots, NEW k, NEW v, NEW f, NEW z \in Nat
    PROVE  \E r : Added(w, k, v, f, z) = WithPane(srv, w, r) /\ NewRow(r, k, v)
<1> DEFINE n == IF k.bottom THEN 0 ELSE z
           r == [NoWindow EXCEPT !.used = TRUE, !.visible = v, !.frame = f, !.kind = k, !.z = n]
           t == Added(w, k, v, f, z)
<1>2. t = WithPane(srv, w, r) BY Zenon DEF Added, WithPane
<1>3. n \in Nat /\ (k.bottom => n = 0) OBVIOUS
<1> HIDE DEF n, r
<1>4. r = [used |-> TRUE, visible |-> v, focused |-> FALSE, frame |-> f, z |-> n, kind |-> k]
  <2>1. Pane(NoWindow) /\ NoWindow.focused = FALSE BY Zenon DEF Pane, NoWindow
  <2>2. r = FilledRow(NoWindow, TRUE, v, f, k, n) BY Zenon DEF r, FilledRow
  <2>3. FilledRow(NoWindow, TRUE, v, f, k, n)
        = [used |-> TRUE, visible |-> v, focused |-> NoWindow.focused, frame |-> f, z |-> n, kind |-> k]
    <3> DEFINE u == TRUE
    <3>1. u = TRUE OBVIOUS
    <3> HIDE DEF u
    <3>2. FilledRow(NoWindow, u, v, f, k, n)
          = [used |-> u, visible |-> v, focused |-> NoWindow.focused, frame |-> f, z |-> n, kind |-> k]
      BY <2>1, FilledIs
    <3> QED BY Zenon, <3>1, <3>2
  <2> QED BY Zenon, <2>1, <2>2, <2>3
<1>5. r.used = TRUE /\ r.visible = v /\ r.focused = FALSE /\ r.frame = f /\ r.z = n /\ r.kind = k
  BY Zenon, <1>4
<1>6. Pane(r) BY Zenon, <1>4, <1>5 DEF Pane
<1> QED BY Zenon, <1>2, <1>3, <1>5, <1>6 DEF NewRow

LEMMA AddedGood ==
    ASSUME Good(srv), NEW w \in Slots, w \notin Used(srv), NEW k, NEW v, NEW f, NEW z \in Nat
    PROVE  LET t == Added(w, k, v, f, z) IN Good(t) /\ w \in Used(t)
<1> DEFINE t == Added(w, k, v, f, z)
<1>1. PICK r : t = WithPane(srv, w, r) /\ NewRow(r, k, v) BY AddedIs
<1> HIDE DEF t
<1>2. Pane(r) /\ r.z \in Nat /\ r.used = TRUE /\ r.focused = FALSE BY <1>1 DEF NewRow
<1>7. Good(t) /\ w \in Used(t) BY <1>1, <1>2, NewGood
<1> QED BY <1>7 DEF t

LEMMA EnteredGood == ASSUME NEW s, Good(s), NEW w \in Used(s), s.win[w].visible \in BOOLEAN PROVE Good(Entered(s, w))
<1> DEFINE v == s.win[w].visible
           f == s.win[w].frame
           a == ApplyOpts(s, w, v, f)
           b == AfterTopmost(a, w)
           t == FocusOn(b, w)
<1>1. Entered(s, w) = b \/ Entered(s, w) = t BY Zenon DEF Entered, FirstFocus, If
<1>2. w \in Slots /\ v \in BOOLEAN BY DEF Used
<1> HIDE DEF v, f
<1>3. Goes(s, a) BY <1>2, ApplyGoes
<1> HIDE DEF a
<1>4. Good(a) /\ Stays(a, b) BY <1>3, TopmostAfter DEF Goes, Good
<1> HIDE DEF b
<1>5. Goes(s, b) BY <1>3, <1>4, GoesThenStays
<1>6. Good(b) BY <1>5 DEF Goes
<1>7. w \in Used(b) BY <1>5, GoesUsed
<1>8. Good(t) BY <1>6, <1>7, FocusGoes DEF Goes
<1> QED BY Zenon, <1>1, <1>6, <1>8

LEMMA FoldTouches == ASSUME NEW s, Server(s) PROVE Touched(s, FoldDrag(s))
<1> DEFINE a == MarkRect(s, s.dmg.old)
           b == MarkRect(a, s.dmg.new)
           t == [b EXCEPT !.dmg.moved = FALSE]
<1>1. FoldDrag(s) = s \/ FoldDrag(s) = t BY Zenon DEF FoldDrag
<1>2. Touched(s, a) BY RectTouches
<1> HIDE DEF a
<1>3. Touched(a, b) BY <1>2, RectTouches DEF Touched
<1> HIDE DEF b
<1>4. Touched(b, t)
  <2>1. Server(b) BY <1>3 DEF Touched
  <2>2. t = WithDmg(b, [b.dmg EXCEPT !.moved = FALSE]) BY <2>1 DEF WithDmg, Server
  <2> HIDE DEF t
  <2> QED BY <2>1, <2>2, DmgTouches
<1> HIDE DEF t
<1>5. Touched(s, t) BY <1>2, <1>3, <1>4, TouchTwice
<1>6. Touched(s, s) BY DEF Touched
<1> QED BY Zenon, <1>1, <1>5, <1>6

WithBusy(s, b) == [s EXCEPT !.busy = b]
LEMMA BusyTouches == ASSUME NEW s, NEW b, Server(s) PROVE Touched(s, WithBusy(s, b))
BY DEF Touched, Server, WithBusy

-----------------------------------------------------------------------------
LEMMA CreateKeeps ==
    ASSUME Good(srv), NEW k, NEW v \in BOOLEAN, NEW f, NEW z \in Nat, Create(k, v, f, z)
    PROVE  Good(srv')
<1> DEFINE w == Min(Slots \ Used(srv))
           a == Added(w, k, v, f, z)
           e == Entered(a, w)
           t == MarkDirty(e)
<1>1. srv' = Ranked(t) /\ Slots # Used(srv) BY Zenon DEF Create, Keep, GoTo
<1>2. w \in Slots /\ w \notin Used(srv)
  <2> DEFINE F == Slots \ Used(srv)
  <2>1. F \subseteq Nat /\ F # {} BY <1>1, SlotsAre DEF Used
  <2> HIDE DEF F
  <2>2. Min(F) \in F BY <2>1, MinIs
  <2> QED BY <2>2 DEF F
<1> HIDE DEF w
<1>3. Good(a) /\ w \in Used(a) BY <1>2, AddedGood
<1>4. a.win[w].visible \in BOOLEAN
  <2>1. Whole(srv) BY DEF Good
  <2>2. w \in DOMAIN srv.win /\ DOMAIN srv = {"win", "focus", "drag", "busy", "dmg"}
    BY <1>2, <2>1 DEF Whole, Server, Panes
  <2>3. a.win[w].visible = v BY Zenon, <2>2 DEF Added, NoWindow
  <2> QED BY Zenon, <2>3
<1> HIDE DEF a
<1>5. Good(e) BY <1>3, <1>4, EnteredGood
<1> HIDE DEF e
<1>6. Good(t) BY <1>5, DirtyStays, StaysGood DEF Good
<1> HIDE DEF t
<1> QED BY <1>1, <1>6, KeptGood

LEMMA ComposeKeeps == ASSUME Good(srv), Compose PROVE Good(srv')
<1> DEFINE d == FoldDrag(srv)
           s == If(d, ~d.dmg.dirty, MergePending(d))
           t == [s EXCEPT !.busy = TRUE, !.dmg.dirty = FALSE, !.dmg.full = FALSE, !.dmg.rect = NoRect]
<1>1. srv' = t \/ srv' = s BY Zenon DEF Compose
<1>2. Server(srv) BY DEF Good, Whole
<1>3. Touched(srv, d) BY <1>2, FoldTouches
<1> HIDE DEF d
<1>4. Touched(srv, s)
  <2>1. Touched(d, MergePending(d)) BY <1>3, MergeTouches DEF Touched
  <2>2. Touched(srv, MergePending(d)) BY <1>3, <2>1, TouchTwice
  <2> QED BY Zenon, <1>3, <2>2 DEF If
<1> HIDE DEF s
<1>5. Touched(srv, t)
  <2> DEFINE b == WithBusy(s, TRUE)
  <2>1. Server(s) BY <1>4 DEF Touched
  <2>2. Touched(s, b) BY <2>1, BusyTouches
  <2>3. t = WithDmg(b, [s.dmg EXCEPT !.dirty = FALSE, !.full = FALSE, !.rect = NoRect])
    BY <2>1 DEF WithDmg, WithBusy, Server
  <2> HIDE DEF b, t
  <2>4. Touched(b, t) BY <2>2, <2>3, DmgTouches DEF Touched
  <2> QED BY <1>4, <2>2, <2>4, TouchTwice
<1> HIDE DEF t
<1> QED BY Zenon, <1>1, <1>4, <1>5, TouchGood

LEMMA SlideKeeps == ASSUME Good(srv), Slide PROVE Good(srv')
<1>1. Server(srv) BY DEF Good, Whole
<1>2. srv' = WithDmg(srv, [srv.dmg EXCEPT !.moved = FALSE, !.content = FALSE, !.pending = FALSE,
                                          !.pendingFull = FALSE, !.pendingRect = NoRect])
  BY <1>1 DEF Slide, WithDmg, Server
<1>3. Touched(srv, srv') BY Zenon, <1>1, <1>2, DmgTouches
<1> QED BY <1>3, TouchGood

LEMMA EndedKeeps == ASSUME NEW s, Good(s), NEW released, Ended(s, released) PROVE Good(srv')
<1> DEFINE e == If(s, released, EndDrag(s))
           t == MergePending(e)
<1>1. srv' = Ranked(t) BY Zenon DEF Ended, GoTo
<1>2. Good(e) BY Zenon, EndDragGood DEF If
<1> HIDE DEF e
<1>3. Good(t) BY <1>2, MergeStays, StaysGood DEF Good
<1> HIDE DEF t
<1> QED BY <1>1, <1>3, KeptGood

LEMMA FinishKeeps == ASSUME Good(srv), NEW released, FinishFrame(released) PROVE Good(srv')
<1> DEFINE b == WithBusy(srv, FALSE)
           p == Press(b, late.press[1], late.press[2])
           s == FlushPress(b)
<1>1. FlushMove(s, released) BY Zenon DEF FinishFrame, WithBusy
<1>2. Good(b) BY BusyTouches, TouchGood DEF Good, Whole
<1> HIDE DEF b
<1>3. Good(p) BY <1>2, PressGood
<1>4. s = b \/ s = p BY Zenon DEF FlushPress, If
<1> HIDE DEF p, s
<1>5. Good(s) BY Zenon, <1>2, <1>3, <1>4
<1>6. CASE s.drag # None /\ \E f \in Translations(s, s.drag) : Ended(MoveTo(s, s.drag, f), released)
  <2>1. PICK f \in Translations(s, s.drag) : Ended(MoveTo(s, s.drag, f), released) BY <1>6
  <2>2. s.drag \in Slots BY Zenon, <1>5, <1>6 DEF Good, Focused, Used
  <2> DEFINE w == s.drag
             m == MoveTo(s, w, f)
  <2>3. w \in Slots BY <2>2
  <2>5. Ended(m, released) BY <2>1
  <2> HIDE DEF w
  <2>4. Good(m) BY <1>5, <2>3, MoveToStays, StaysGood DEF Good
  <2> HIDE DEF m
  <2> QED BY <2>4, <2>5, EndedKeeps
<1>7. CASE Ended(s, released) BY <1>5, <1>7, EndedKeeps
<1> QED BY Zenon, <1>1, <1>6, <1>7 DEF FlushMove

LEMMA AskedKeeps ==
    ASSUME Good(srv), NEW w \in Used(srv),
           \/ Destroy(w) \/ Focus(w) \/ PublishWindow(w)
           \/ \E f \in Frames, v \in BOOLEAN : SetOpts(w, v, f)
           \/ \E f \in Translations(srv, w) : MoveWindow(w, f)
    PROVE  Good(srv')
<1>0. w \in Slots /\ Whole(srv) BY DEF Used, Good
<1>1. CASE Destroy(w)
  <2>1. srv' = Ranked(Withdraw(srv, w)) BY Zenon, <1>1 DEF Destroy, Keep, GoTo
  <2>2. Good(Withdraw(srv, w)) BY <1>0, WithdrawGood
  <2> QED BY <2>1, <2>2, KeptGood
<1>2. CASE Focus(w)
  <2>1. srv' = Ranked(FocusOn(srv, w)) BY Zenon, <1>2 DEF Focus, Keep, GoTo
  <2>2. Good(FocusOn(srv, w)) BY FocusGoes DEF Goes
  <2> QED BY <2>1, <2>2, KeptGood
<1>3. CASE PublishWindow(w)
  <2> DEFINE c == [srv EXCEPT !.dmg.content = TRUE]
             m == MarkRect(srv, Rect(srv.win[w].frame))
  <2>1. srv' = c \/ srv' = m BY Zenon, <1>3 DEF PublishWindow, Publish
  <2>2. Server(srv) BY <1>0 DEF Whole
  <2>3. c = WithDmg(srv, [srv.dmg EXCEPT !.content = TRUE]) BY <2>2 DEF WithDmg, Server
  <2> HIDE DEF c
  <2>4. Touched(srv, c) BY <2>2, <2>3, DmgTouches
  <2>5. Touched(srv, m) BY <2>2, RectTouches
  <2> HIDE DEF m
  <2> QED BY Zenon, <2>1, <2>4, <2>5, TouchGood
<1>4. ASSUME NEW f \in Frames, NEW v \in BOOLEAN, SetOpts(w, v, f) PROVE Good(srv')
  <2>1. srv' = Ranked(ApplyOpts(srv, w, v, f)) BY Zenon, <1>4 DEF SetOpts, Keep, GoTo
  <2>2. Good(ApplyOpts(srv, w, v, f)) BY <1>0, ApplyGoes DEF Goes
  <2> QED BY <2>1, <2>2, KeptGood
<1>5. ASSUME NEW f, MoveWindow(w, f) PROVE Good(srv')
  <2>1. srv' = Ranked(MoveTo(srv, w, f)) BY Zenon, <1>5 DEF MoveWindow, Keep, GoTo
  <2>2. Good(MoveTo(srv, w, f)) BY <1>0, MoveToStays, StaysGood
  <2> QED BY <2>1, <2>2, KeptGood
<1> QED BY Zenon, <1>1, <1>2, <1>3, <1>4, <1>5

LEMMA MouseKeeps ==
    ASSUME Good(srv), (\E c \in Cells, t \in BOOLEAN : MouseDown(c, t)) \/ MouseUp \/ MouseMove
    PROVE  Good(srv')
<1>1. ASSUME NEW c, NEW t, MouseDown(c, t) PROVE Good(srv')
  <2>1. srv' = srv \/ srv' = Ranked(Press(srv, c, t)) BY Zenon, <1>1 DEF MouseDown, Keep, GoTo
  <2>2. Good(Press(srv, c, t)) BY PressGood
  <2> QED BY Zenon, <2>1, <2>2, RankedGood
<1>2. CASE MouseUp
  <2>1. srv' = Ranked(LetGo(srv)) BY Zenon, <1>2 DEF MouseUp, GoTo
  <2>2. Good(LetGo(srv)) BY LetGoGood
  <2> QED BY <2>1, <2>2, KeptGood
<1>3. CASE MouseMove
  <2>1. srv' = srv \/ (srv.drag # None /\ \E f : srv' = Ranked(MoveTo(srv, srv.drag, f)))
    BY Zenon, <1>3 DEF MouseMove, Keep, GoTo
  <2>2. CASE srv.drag # None /\ \E f : srv' = Ranked(MoveTo(srv, srv.drag, f))
    <3>1. PICK f : srv' = Ranked(MoveTo(srv, srv.drag, f)) BY <2>2
    <3> DEFINE w == srv.drag
               m == MoveTo(srv, w, f)
    <3>2. w \in Slots /\ Whole(srv) BY Zenon, <2>2 DEF Good, Focused, Used
    <3>3. srv' = Ranked(m) BY <3>1
    <3> HIDE DEF w
    <3>4. Good(m) BY <3>2, MoveToStays, StaysGood
    <3> HIDE DEF m
    <3> QED BY <3>3, <3>4, KeptGood
  <2> QED BY Zenon, <2>1, <2>2
<1> QED BY Zenon, <1>1, <1>2, <1>3

FocusInv == Good(srv)

LEMMA FocusFirst == ASSUME ServerInit PROVE FocusInv
<1> DEFINE g == [w \in Slots |-> NoWindow]
           d == [CleanDamage EXCEPT !.dirty = TRUE, !.full = TRUE]
<1>1. srv = [win |-> g, focus |-> None, drag |-> None, busy |-> FALSE, dmg |-> d] BY Zenon DEF ServerInit
<1>2. \A w \in Slots : g[w] = NoWindow OBVIOUS
<1>3. g = [w \in Slots |-> g[w]] OBVIOUS
<1>4. Pane(NoWindow) /\ NoWindow.z \in Nat /\ ~NoWindow.used BY DEF Pane, NoWindow
<1> HIDE DEF g, d
<1>5. Server(srv) /\ srv.win = g /\ srv.focus = None /\ srv.drag = None BY Zenon, <1>1 DEF Server
<1>6. Panes(g) BY Zenon, <1>2, <1>3, <1>4 DEF Panes
<1>7. Whole(srv) BY Zenon, <1>5, <1>6 DEF Whole
<1>8. \A w \in Slots : w \notin Drawn(srv) BY Zenon, <1>2, <1>4, <1>5 DEF Drawn, Used
<1>9. Drawn(srv) = {} BY Zenon, <1>8 DEF Drawn, Used
<1>10. Focused(srv) BY Zenon, <1>5, <1>9 DEF Focused
<1> QED BY <1>7, <1>10 DEF Good, FocusInv

LEMMA FocusGoesOn == ASSUME FocusInv, [ServerNext]_serverVars PROVE FocusInv'
<1>0. Good(srv) BY DEF FocusInv
<1> SUFFICES Good(srv') BY Zenon DEF FocusInv
<1>1. ASSUME NEW k \in Kinds, NEW v \in BOOLEAN, NEW f \in Frames, NEW z \in 1 .. TopZ(srv) + 1, Create(k, v, f, z)
      PROVE  Good(srv')
  <2>1. TopZ(srv) \in Nat BY <1>0, TopIs DEF Good
  <2>2. z \in Nat BY <2>1
  <2> QED BY <1>0, <1>1, <2>2, CreateKeeps
<1>2. CASE Slide BY <1>0, <1>2, SlideKeeps
<1>3. CASE Compose BY <1>0, <1>3, ComposeKeeps
<1>4. ASSUME NEW r, FinishFrame(r) PROVE Good(srv') BY <1>0, <1>4, FinishKeeps
<1>5. CASE UNCHANGED serverVars BY Zenon, <1>0, <1>5 DEF serverVars
<1>6. Good(srv') BY Zenon, <1>0, <1>1, <1>2, <1>3, <1>4, <1>5, AskedKeeps, MouseKeeps DEF ServerNext
<1> QED BY <1>6

(* The keyboard and the mouse have the window they should.                   *)
THEOREM FocusIsSound == ServerSpec => []FocusSound
<1>1. ServerInit => FocusInv BY FocusFirst
<1>2. FocusInv /\ [ServerNext]_serverVars => FocusInv' BY FocusGoesOn
<1>3. FocusInv => FocusSound BY Zenon DEF FocusInv, Good, Focused, FocusSound, Drawn
<1> QED BY <1>1, <1>2, <1>3, PTL DEF ServerSpec

-----------------------------------------------------------------------------
(* sort_ids_by_z. The list of the windows that are shown, in the order of    *)
(* their places.                                                             *)
Collects(S, g) ==
    g = [w \in 0 .. WM_MAX_WINDOWS |->
            IF w = 0 THEN <<>> ELSE IF w \in S THEN Append(g[w - 1], w) ELSE g[w - 1]]
Listing(S, m, q) ==
    /\ q \in Seq(Slots)
    /\ \A i \in 1 .. Len(q) : q[i] \in S /\ q[i] <= m
    /\ \A v \in S : v <= m => \E i \in 1 .. Len(q) : q[i] = v
    /\ \A i, j \in 1 .. Len(q) : i < j => q[i] < q[j]

LEMMA CollectGoes == ASSUME NEW S PROVE \E g : Collects(S, g)
<1> DEFINE n == WM_MAX_WINDOWS
<1>0. n \in Nat /\ n # 0 BY ServerAssumption DEF ServerAssumption
<1> DEFINE Q == Seq(Slots)
           F == [p \in Q \X (1 .. n) |-> IF p[2] \in S THEN Append(p[1], p[2]) ELSE p[1]]
<1>1. \A x \in Q, k \in 1 .. n : Append(x, k) \in Q BY DEF Slots
<1>2. F \in Steps(Q, n)
  <2>1. \A p \in Q \X (1 .. n) : (IF p[2] \in S THEN Append(p[1], p[2]) ELSE p[1]) \in Q BY <1>1
  <2> HIDE DEF Q
  <2> QED BY <2>1 DEF Steps
<1>3. \A x \in Q, k \in 1 .. n : F[<<x, k>>] = IF k \in S THEN Append(x, k) ELSE x OBVIOUS
<1>4. <<>> \in Q OBVIOUS
<1> HIDE DEF F, Q
<1>5. PICK g : Recurs(g, Q, n, <<>>, F) BY <1>0, <1>2, <1>4, Recursion
<1>6. g \in [0 .. n -> Q] /\ g[0] = <<>> /\ \A k \in 1 .. n : g[k] = F[<<g[k - 1], k>>]
  BY <1>5 DEF Recurs
<1>7. ASSUME NEW w \in 0 .. n
      PROVE  g[w] = IF w = 0 THEN <<>> ELSE IF w \in S THEN Append(g[w - 1], w) ELSE g[w - 1]
  <2>1. w # 0 => w \in 1 .. n /\ w - 1 \in 0 .. n BY <1>0
  <2>2. w # 0 => g[w - 1] \in Q BY <1>6, <2>1
  <2> QED BY Zenon, <1>3, <1>6, <2>1, <2>2
<1>8. g = [w \in 0 .. n |-> g[w]] BY <1>6
<1>9. Collects(S, g) BY Zenon, <1>7, <1>8 DEF Collects
<1> QED BY <1>9

LEMMA AppendLists ==
    ASSUME NEW S, S \subseteq Slots, NEW m \in Slots, NEW q, Listing(S, m - 1, q)
    PROVE  /\ m \in S => Listing(S, m, Append(q, m))
           /\ m \notin S => Listing(S, m, q)
<1>0. m \in Nat /\ \A v \in S : v \in Nat BY SlotsAre
<1>1. q \in Seq(Slots) /\ Len(q) \in Nat BY DEF Listing
<1>2. \A i \in 1 .. Len(q) : q[i] \in S /\ q[i] \in Nat /\ q[i] <= m - 1 BY <1>0 DEF Listing
<1>3. CASE m \in S
  <2> DEFINE r == Append(q, m)
  <2>1. r \in Seq(Slots) /\ Len(r) = Len(q) + 1 /\ r[Len(q) + 1] = m /\ \A i \in 1 .. Len(q) : r[i] = q[i]
    BY <1>1
  <2> HIDE DEF r
  <2>2. \A i \in 1 .. Len(r) : i \in 1 .. Len(q) \/ i = Len(q) + 1 BY <1>1, <2>1
  <2>3. \A i \in 1 .. Len(r) : r[i] \in S /\ r[i] <= m BY <1>0, <1>2, <1>3, <2>1, <2>2
  <2>4. \A v \in S : v <= m => \E i \in 1 .. Len(r) : r[i] = v
    <3> TAKE v \in S
    <3>1. CASE v = m
      <4>1. Len(q) + 1 \in 1 .. Len(r) BY <1>1, <2>1
      <4> QED BY <2>1, <3>1, <4>1
    <3>2. CASE v # m /\ v <= m
      <4>1. v <= m - 1 BY <1>0, <3>2
      <4>2. PICK i \in 1 .. Len(q) : q[i] = v BY <4>1 DEF Listing
      <4>3. i \in 1 .. Len(r) /\ r[i] = v BY <1>1, <2>1, <4>2
      <4> QED BY <4>3
    <3> QED BY <3>1, <3>2
  <2>5. \A i, j \in 1 .. Len(r) : i < j => r[i] < r[j]
    <3> TAKE i, j \in 1 .. Len(r)
    <3> HAVE i < j
    <3>1. i \in 1 .. Len(q) BY <1>1, <2>1
    <3>2. CASE j \in 1 .. Len(q)
      <4>1. q[i] < q[j] BY <3>1, <3>2 DEF Listing
      <4> QED BY <2>1, <3>1, <3>2, <4>1
    <3>3. CASE j = Len(q) + 1
      <4>1. q[i] <= m - 1 /\ q[i] \in Nat BY <1>2, <3>1
      <4>2. q[i] < m BY <1>0, <4>1
      <4> QED BY <2>1, <3>1, <3>3, <4>2
    <3> QED BY <2>2, <3>2, <3>3
  <2>6. Listing(S, m, r) BY <2>1, <2>3, <2>4, <2>5 DEF Listing
  <2> QED BY <1>3, <2>6 DEF r
<1>4. CASE m \notin S
  <2>1. \A v \in S : v <= m => v <= m - 1 BY <1>0, <1>4
  <2>2. \A i \in 1 .. Len(q) : q[i] <= m BY <1>0, <1>2
  <2>3. Listing(S, m, q) BY <1>1, <1>2, <2>1, <2>2 DEF Listing
  <2> QED BY <1>4, <2>3
<1> QED BY <1>3, <1>4

LEMMA InOrderIs ==
    ASSUME NEW S, S \subseteq Slots
    PROVE  Listing(S, WM_MAX_WINDOWS, InOrder(S))
<1> DEFINE n == WM_MAX_WINDOWS
           u == CHOOSE u : Collects(S, u)
<1>0. n \in Nat /\ n # 0 /\ Slots = 1 .. n BY ServerAssumption DEF ServerAssumption, Slots
<1>1. InOrder(S) = u[n] BY Zenon DEF InOrder, Collects
<1>2. Collects(S, u) BY Zenon, CollectGoes
<1> HIDE DEF u
<1>3. \A w \in 0 .. n : u[w] = IF w = 0 THEN <<>> ELSE IF w \in S THEN Append(u[w - 1], w) ELSE u[w - 1]
  BY Zenon, <1>2 DEF Collects
<1> DEFINE K == {m \in 0 .. n : Listing(S, m, u[m])}
<1>4. 0 \in K
  <2>1. u[0] = <<>> BY <1>0, <1>3
  <2>2. \A v \in S : ~(v <= 0) BY <1>0
  <2>3. Listing(S, 0, <<>>) BY <2>2 DEF Listing
  <2> QED BY <1>0, <2>1, <2>3
<1>5. ASSUME NEW m \in 1 .. n, m - 1 \in K PROVE m \in K
  <2>1. m \in 0 .. n /\ m # 0 /\ m \in Slots BY <1>0
  <2>2. u[m] = IF m \in S THEN Append(u[m - 1], m) ELSE u[m - 1] BY Zenon, <1>3, <2>1
  <2>3. Listing(S, m - 1, u[m - 1]) BY <1>5
  <2>4. Listing(S, m, u[m]) BY Zenon, <2>1, <2>2, <2>3, AppendLists
  <2> QED BY <2>1, <2>4
<1> HIDE DEF K
<1>6. n \in K BY <1>0, <1>4, <1>5, UpTo
<1> QED BY <1>1, <1>6 DEF K

(* A list of windows, each of them once, those at the bottom in the order of *)
(* their places; h gives their heights.                                      *)
Arranged(h, S, n, q) ==
    /\ q \in [1 .. n -> Slots]
    /\ \A i \in 1 .. n : q[i] \in S
    /\ \A v \in S : \E i \in 1 .. n : q[i] = v
    /\ \A i, j \in 1 .. n : i < j => q[i] # q[j] /\ (h[q[i]] = 0 /\ h[q[j]] = 0 => q[i] < q[j])
(* The first i are no higher than those behind them; i is no higher than     *)
(* those up to j.                                                            *)
Prefix(h, n, q, i) == \A k, l \in 1 .. n : k <= i /\ k < l => h[q[k]] <= h[q[l]]
Lowest(h, q, i, j) == \A k \in i .. j : h[q[i]] <= h[q[k]]

Exchange(q, i, j) == [q EXCEPT ![i] = q[j], ![j] = q[i]]

LEMMA ExchangeIs ==
    ASSUME NEW n \in Nat, NEW q \in [1 .. n -> Slots], NEW i \in 1 .. n, NEW j \in 1 .. n, i < j
    PROVE  LET r == Exchange(q, i, j) IN
           /\ r \in [1 .. n -> Slots] /\ r[i] = q[j] /\ r[j] = q[i]
           /\ \A k \in 1 .. n : k # i /\ k # j => r[k] = q[k]
BY DEF Exchange

LEMMA ExchangeKeeps ==
    ASSUME NEW h \in [Slots -> Nat], NEW S, NEW n \in Nat, NEW q, Arranged(h, S, n, q),
           NEW i \in 1 .. n, NEW j \in 1 .. n, i < j, Prefix(h, n, q, i - 1), Lowest(h, q, i, j - 1), h[q[j]] < h[q[i]]
    PROVE  LET r == Exchange(q, i, j) IN
           Arranged(h, S, n, r) /\ Prefix(h, n, r, i - 1) /\ Lowest(h, r, i, j)
<1> DEFINE r == Exchange(q, i, j)
<1>1. q \in [1 .. n -> Slots] BY DEF Arranged
<1>2. /\ r \in [1 .. n -> Slots] /\ r[i] = q[j] /\ r[j] = q[i]
      /\ \A k \in 1 .. n : k # i /\ k # j => r[k] = q[k]
  BY <1>1, ExchangeIs
<1> HIDE DEF r
<1>3. \A k \in 1 .. n : q[k] \in Slots /\ h[q[k]] \in Nat BY <1>1
<1>4. \A k \in i .. j - 1 : k \in 1 .. n /\ h[q[i]] <= h[q[k]] BY DEF Lowest
<1>5. \A k \in i .. j - 1 : h[q[k]] # 0 BY <1>3, <1>4
<1>6. \A k \in 1 .. n : r[k] \in S
  BY <1>2 DEF Arranged
<1>7. \A v \in S : \E k \in 1 .. n : r[k] = v
  <2> TAKE v \in S
  <2>1. PICK k \in 1 .. n : q[k] = v BY DEF Arranged
  <2>2. CASE k = i BY <1>2, <2>1, <2>2
  <2>3. CASE k = j BY <1>2, <2>1, <2>3
  <2>4. CASE k # i /\ k # j BY <1>2, <2>1, <2>4
  <2> QED BY <2>2, <2>3, <2>4
<1>8. \A k, l \in 1 .. n : k # l => q[k] # q[l]
  <2>1. \A k, l \in 1 .. n : k < l => q[k] # q[l] BY DEF Arranged
  <2>2. \A k, l \in 1 .. n : k # l => k < l \/ l < k OBVIOUS
  <2> QED BY <2>1, <2>2
<1>9. \A k, l \in 1 .. n : k < l => r[k] # r[l]
  BY <1>2, <1>8
<1>10. \A k, l \in 1 .. n : k < l /\ h[q[k]] = 0 /\ h[q[l]] = 0 => q[k] < q[l] BY DEF Arranged
<1>11. ASSUME NEW k \in 1 .. n, NEW l \in 1 .. n, k < l, h[r[k]] = 0, h[r[l]] = 0 PROVE r[k] < r[l]
  <2>1. h[r[j]] # 0
    <3>1. i \in i .. j - 1 OBVIOUS
    <3> QED BY <1>2, <1>5, <3>1
  <2>2. k # j /\ l # j BY <1>11, <2>1
  <2>3. CASE k = i
    <3>1. j < l
      <4>1. l \in i .. j - 1 => l # i /\ r[l] = q[l] /\ h[q[l]] # 0 BY <1>2, <1>5, <1>11, <2>2, <2>3
      <4> QED BY <1>11, <2>2, <2>3, <4>1
    <3>2. r[k] = q[j] /\ r[l] = q[l] BY <1>2, <2>3, <3>1
    <3> QED BY <1>10, <1>11, <3>1, <3>2
  <2>4. CASE l = i
    <3>1. r[l] = q[j] /\ r[k] = q[k] /\ k < j BY <1>2, <1>11, <2>2, <2>4
    <3> QED BY <1>10, <1>11, <3>1
  <2>5. CASE k # i /\ l # i
    <3>1. r[l] = q[l] /\ r[k] = q[k] BY <1>2, <2>2, <2>5
    <3> QED BY <1>10, <1>11, <3>1
  <2> QED BY <2>3, <2>4, <2>5
<1>12. Arranged(h, S, n, r) BY <1>2, <1>6, <1>7, <1>9, <1>11 DEF Arranged
<1>13. Prefix(h, n, r, i - 1)
  <2>1. ASSUME NEW k \in 1 .. n, NEW l \in 1 .. n, k <= i - 1, k < l PROVE h[r[k]] <= h[r[l]]
    <3>1. r[k] = q[k] BY <1>2, <2>1
    <3>2. PICK m \in 1 .. n : k < m /\ r[l] = q[m]
      <4>1. CASE l = i BY <1>2, <2>1, <4>1
      <4>2. CASE l = j BY <1>2, <2>1, <4>2
      <4>3. CASE l # i /\ l # j BY <1>2, <2>1, <4>3
      <4> QED BY <4>1, <4>2, <4>3
    <3> QED BY <2>1, <3>1, <3>2 DEF Prefix
  <2> QED BY <2>1 DEF Prefix
<1>14. Lowest(h, r, i, j)
  <2>1. ASSUME NEW k \in i .. j PROVE h[r[i]] <= h[r[k]]
    <3>1. CASE k = i BY <1>2, <1>3, <3>1
    <3>2. CASE k = j BY <1>2, <1>3, <3>2
    <3>3. CASE k # i /\ k # j
      <4>1. k \in i .. j - 1 /\ k \in 1 .. n BY <3>3
      <4>2. r[k] = q[k] /\ h[q[i]] <= h[q[k]] BY <1>2, <1>4, <3>3, <4>1
      <4> QED BY <1>2, <1>3, <4>1, <4>2
    <3> QED BY <3>1, <3>2, <3>3
  <2> QED BY <2>1 DEF Lowest
<1> QED BY <1>12, <1>13, <1>14 DEF r

HeightOf(s) == [w \in Slots |-> s.win[w].z]
Lists(n) == [1 .. n -> Slots]

LEMMA HeightIs == ASSUME NEW s, Whole(s) PROVE HeightOf(s) \in [Slots -> Nat]
BY DEF HeightOf, Whole, Panes

LEMMA SwapIs ==
    ASSUME NEW s, NEW n \in Nat, NEW q \in Lists(n), NEW i \in 1 .. n, NEW j \in 1 .. n
    PROVE  /\ SwapIfLess(s, q, i, j) = IF HeightOf(s)[q[j]] < HeightOf(s)[q[i]] THEN Exchange(q, i, j) ELSE q
           /\ i < j => SwapIfLess(s, q, i, j) \in Lists(n)
<1>1. q[i] \in Slots /\ q[j] \in Slots BY DEF Lists
<1>2. HeightOf(s)[q[i]] = s.win[q[i]].z /\ HeightOf(s)[q[j]] = s.win[q[j]].z BY <1>1 DEF HeightOf
<1>3. SwapIfLess(s, q, i, j) = IF HeightOf(s)[q[j]] < HeightOf(s)[q[i]] THEN Exchange(q, i, j) ELSE q
  BY Zenon, <1>2 DEF SwapIfLess, Exchange
<1>4. i < j => Exchange(q, i, j) \in Lists(n) BY ExchangeIs DEF Lists
<1> QED BY Zenon, <1>3, <1>4

LEMMA ListIs == ASSUME NEW n \in Nat, NEW q \in Lists(n) PROVE q \in Seq(Slots) /\ Len(q) = n
BY DEF Lists

(* A pass: place i is compared with all later ones.                          *)
Passes(s, q, i, n, g) == g = [j \in 0 .. n |-> IF j <= i THEN q ELSE SwapIfLess(s, g[j - 1], i, j)]

LEMMA PassGoes ==
    ASSUME NEW s, NEW n \in Nat, NEW q \in Lists(n), NEW i \in 1 .. n
    PROVE  \E g : Passes(s, q, i, n, g)
<1> DEFINE Q == Lists(n)
           row(p) == IF p[2] <= i THEN q ELSE SwapIfLess(s, p[1], i, p[2])
           F == [p \in Q \X (1 .. n) |-> row(p)]
<1>1. \A x \in Q, k \in 1 .. n : F[<<x, k>>] = IF k <= i THEN q ELSE SwapIfLess(s, x, i, k) OBVIOUS
<1>2. ASSUME NEW p \in Q \X (1 .. n) PROVE row(p) \in Q
  <2>1. p[1] \in Q /\ p[2] \in 1 .. n OBVIOUS
  <2>2. ~(p[2] <= i) => i < p[2] BY <2>1
  <2> QED BY Zenon, <2>1, <2>2, SwapIs
<1>3. F \in Steps(Q, n)
  <2> HIDE DEF Q, row
  <2> QED BY <1>2 DEF Steps
<1> HIDE DEF F, Q
<1>4. q \in Q BY DEF Q
<1>5. PICK g : Recurs(g, Q, n, q, F) BY <1>3, <1>4, Recursion
<1>6. g \in [0 .. n -> Q] /\ g[0] = q /\ \A k \in 1 .. n : g[k] = F[<<g[k - 1], k>>]
  BY <1>5 DEF Recurs
<1>7. ASSUME NEW j \in 0 .. n PROVE g[j] = IF j <= i THEN q ELSE SwapIfLess(s, g[j - 1], i, j)
  <2>1. CASE j = 0 BY <1>6, <2>1
  <2>2. CASE j # 0
    <3>1. j \in 1 .. n /\ j - 1 \in 0 .. n BY <2>2
    <3>2. g[j - 1] \in Q BY <1>6, <3>1
    <3> QED BY Zenon, <1>1, <1>6, <3>1, <3>2
  <2> QED BY <2>1, <2>2
<1>8. g = [j \in 0 .. n |-> g[j]] BY <1>6
<1>9. Passes(s, q, i, n, g) BY Zenon, <1>7, <1>8 DEF Passes
<1> QED BY <1>9

LEMMA PassIs ==
    ASSUME NEW s, Whole(s), NEW S, NEW n \in Nat, NEW q, NEW i \in 1 .. n,
           Arranged(HeightOf(s), S, n, q), Prefix(HeightOf(s), n, q, i - 1)
    PROVE  Arranged(HeightOf(s), S, n, Pass(s, q, i)) /\ Prefix(HeightOf(s), n, Pass(s, q, i), i)
<1> DEFINE h == HeightOf(s)
           u == CHOOSE u : Passes(s, q, i, n, u)
           Sound(r, j) == Arranged(h, S, n, r) /\ Prefix(h, n, r, i - 1) /\ Lowest(h, r, i, j)
<1>0. q \in Lists(n) /\ Len(q) = n
  <2>1. q \in Lists(n) BY DEF Arranged, Lists
  <2> QED BY <2>1, ListIs
<1>1. Pass(s, q, i) = u[n] BY Zenon, <1>0 DEF Pass, Passes
<1>2. Passes(s, q, i, n, u) BY Zenon, <1>0, PassGoes
<1> HIDE DEF u
<1>3. \A j \in 0 .. n : u[j] = IF j <= i THEN q ELSE SwapIfLess(s, u[j - 1], i, j) BY Zenon, <1>2 DEF Passes
<1>4. h \in [Slots -> Nat] BY HeightIs
<1> DEFINE K == {j \in 0 .. n : i <= j => Sound(u[j], j)}
<1>5. 0 \in K BY <1>3
<1>6. ASSUME NEW j \in 1 .. n, j - 1 \in K PROVE j \in K
  <2>1. j \in 0 .. n OBVIOUS
  <2>2. CASE j < i BY <2>1, <2>2
  <2>3. CASE j = i
    <3>1. u[j] = q BY <1>3, <2>1, <2>3
    <3>2. q[i] \in Slots BY <1>0 DEF Lists
    <3>3. h[q[i]] <= h[q[i]] BY <1>4, <3>2
    <3>4. Lowest(h, q, i, j) BY <2>3, <3>3 DEF Lowest
    <3> QED BY <2>1, <3>1, <3>4
  <2>4. CASE i < j
    <3> DEFINE p == u[j - 1]
    <3>1. i <= j - 1 BY <2>4
    <3>2. Sound(p, j - 1) BY <1>6, <3>1
    <3>3. u[j] = SwapIfLess(s, p, i, j) BY <1>3, <2>1, <2>4
    <3> HIDE DEF p
    <3>4. p \in Lists(n) BY <3>2 DEF Arranged, Lists
    <3>5. u[j] = IF h[p[j]] < h[p[i]] THEN Exchange(p, i, j) ELSE p BY <3>3, <3>4, SwapIs
    <3> HIDE DEF h
    <3>6. CASE h[p[j]] < h[p[i]]
      <4>1. Sound(Exchange(p, i, j), j) BY <1>4, <2>4, <3>2, <3>6, ExchangeKeeps
      <4> QED BY <2>1, <3>5, <3>6, <4>1
    <3>7. CASE ~(h[p[j]] < h[p[i]])
      <4>1. p[i] \in Slots /\ p[j] \in Slots BY <3>4 DEF Lists
      <4>2. h[p[i]] <= h[p[j]] BY <1>4, <3>7, <4>1
      <4>3. i .. j = (i .. j - 1) \cup {j} BY <2>4
      <4>4. Lowest(h, p, i, j) BY <3>2, <4>2, <4>3 DEF Lowest
      <4> QED BY <2>1, <3>2, <3>5, <3>7, <4>4
    <3> QED BY <3>6, <3>7
  <2> QED BY <2>2, <2>3, <2>4
<1> HIDE DEF K
<1>7. n \in K BY <1>5, <1>6, UpTo
<1>8. Sound(u[n], n) BY <1>7 DEF K
<1>9. Prefix(h, n, u[n], i)
  <2> DEFINE r == u[n]
  <2> HIDE DEF r, h
  <2>1. Prefix(h, n, r, i - 1) /\ Lowest(h, r, i, n) BY <1>8 DEF r
  <2>2. ASSUME NEW k \in 1 .. n, NEW l \in 1 .. n, k <= i, k < l PROVE h[r[k]] <= h[r[l]]
    <3>1. CASE k = i
      <4>1. l \in i .. n BY <2>2, <3>1
      <4> QED BY <2>1, <3>1, <4>1 DEF Lowest
    <3>2. CASE k # i
      <4>1. k <= i - 1 BY <2>2, <3>2
      <4> QED BY <2>1, <2>2, <4>1 DEF Prefix
    <3> QED BY <3>1, <3>2
  <2> QED BY <2>2 DEF Prefix, r
<1> QED BY <1>1, <1>8, <1>9

(* The passes, of each place in turn.                                        *)
Sorts(s, q, n, g) == g = [i \in 0 .. n |-> IF i = 0 THEN q ELSE Pass(s, g[i - 1], i)]
Passed(s, S, n, r, i) == Arranged(HeightOf(s), S, n, r) /\ Prefix(HeightOf(s), n, r, i)

LEMMA SortGoes == ASSUME NEW s, NEW n \in Nat, NEW q PROVE \E g : Sorts(s, q, n, g)
<1> DEFINE K == {m \in 0 .. n : \E g : Sorts(s, q, m, g)}
<1>1. 0 \in K
  <2> DEFINE g == [i \in 0 .. 0 |-> q]
  <2>1. 0 .. 0 = {0} OBVIOUS
  <2>2. g = [i \in 0 .. 0 |-> IF i = 0 THEN q ELSE Pass(s, g[i - 1], i)] BY <2>1
  <2> HIDE DEF g
  <2>3. Sorts(s, q, 0, g) BY Zenon, <2>2 DEF Sorts
  <2> QED BY <2>3
<1>2. ASSUME NEW m \in 1 .. n, m - 1 \in K PROVE m \in K
  <2>1. PICK f : Sorts(s, q, m - 1, f) BY <1>2
  <2> DEFINE step(g, i) == IF i = 0 THEN q ELSE Pass(s, g[i - 1], i)
             g == [i \in 0 .. m |-> IF i = m THEN step(f, m) ELSE f[i]]
  <2>2. \A i \in 0 .. m - 1 : g[i] = f[i] /\ i \in 0 .. m OBVIOUS
  <2>4. g = [i \in 0 .. m |-> g[i]] OBVIOUS
  <2>6. g[m] = step(f, m) OBVIOUS
  <2> HIDE DEF g
  <2>3. ASSUME NEW i \in 0 .. m PROVE step(g, i) = g[i]
    <3>1. i # 0 => i - 1 \in 0 .. m - 1 /\ g[i - 1] = f[i - 1] BY <2>2
    <3>2. step(g, i) = step(f, i) BY Zenon, <3>1
    <3>3. i # m => i \in 0 .. m - 1 OBVIOUS
    <3>4. i # m => f[i] = step(f, i) BY Zenon, <2>1, <3>3 DEF Sorts
    <3> QED BY Zenon, <2>2, <2>6, <3>2, <3>3, <3>4
  <2>5. Sorts(s, q, m, g) BY Zenon, <2>3, <2>4 DEF Sorts
  <2> QED BY <2>5
<1> HIDE DEF K
<1>3. n \in K BY <1>1, <1>2, UpTo
<1> QED BY <1>3 DEF K

LEMMA ExchangedIs ==
    ASSUME NEW s, Whole(s), NEW S, NEW n \in Nat, NEW q, Arranged(HeightOf(s), S, n, q)
    PROVE  Passed(s, S, n, Exchanged(s, q), n)
<1> DEFINE u == CHOOSE u : Sorts(s, q, n, u)
<1>0. Len(q) = n
  <2>1. q \in Lists(n) BY DEF Arranged, Lists
  <2> QED BY <2>1, ListIs
<1>1. Exchanged(s, q) = u[n] BY Zenon, <1>0 DEF Exchanged, Sorts
<1>2. Sorts(s, q, n, u) BY Zenon, SortGoes
<1> HIDE DEF u
<1>3. \A i \in 0 .. n : u[i] = IF i = 0 THEN q ELSE Pass(s, u[i - 1], i) BY Zenon, <1>2 DEF Sorts
<1> DEFINE K == {i \in 0 .. n : Passed(s, S, n, u[i], i)}
<1>4. 0 \in K
  <2>1. u[0] = q BY <1>3
  <2>2. Prefix(HeightOf(s), n, q, 0) BY DEF Prefix
  <2> QED BY <2>1, <2>2 DEF Passed
<1>5. ASSUME NEW i \in 1 .. n, i - 1 \in K PROVE i \in K
  <2>1. i \in 0 .. n /\ i # 0 OBVIOUS
  <2>2. u[i] = Pass(s, u[i - 1], i) BY Zenon, <1>3, <2>1
  <2>3. Passed(s, S, n, u[i - 1], i - 1) BY <1>5
  <2>4. Passed(s, S, n, Pass(s, u[i - 1], i), i) BY <2>3, PassIs DEF Passed
  <2> QED BY <2>1, <2>2, <2>4
<1> HIDE DEF K
<1>6. n \in K BY <1>4, <1>5, UpTo
<1> QED BY <1>1, <1>6 DEF K

(* What is painted before what, where heights tie only at the bottom.        *)
Sooner(s, v, w) == s.win[v].z < s.win[w].z \/ (s.win[v].z = s.win[w].z /\ v < w)
Ranged(s, S) == \A v, w \in S : v # w /\ s.win[v].z = s.win[w].z => s.win[v].z = 0
Paints(s, S, n, r) ==
    /\ r \in [1 .. n -> S]
    /\ \A v \in S : \E i \in 1 .. n : r[i] = v
    /\ \A i, j \in 1 .. n : i <= j <=> r[i] = r[j] \/ Sooner(s, r[i], r[j])

LEMMA PaintedIs ==
    ASSUME NEW s, Whole(s), Ranged(s, Visible(s))
    PROVE  \E n \in Nat : Paints(s, Visible(s), n, Painted(s))
<1> DEFINE S == Visible(s)
           q == InOrder(S)
           n == Len(q)
           r == Painted(s)
           h == HeightOf(s)
<1>0. S \subseteq Slots BY DEF Visible, Used
<1>00. r = Exchanged(s, q) BY Zenon DEF Painted
<1> HIDE DEF S, r
<1>1. Listing(S, WM_MAX_WINDOWS, q) BY <1>0, InOrderIs
<1> HIDE DEF q
<1>2. q \in Seq(Slots) /\ n \in Nat /\ q \in [1 .. n -> Slots] BY <1>1 DEF Listing
<1>3. WM_MAX_WINDOWS \in Nat /\ \A v \in S : v <= WM_MAX_WINDOWS
  BY <1>0, ServerAssumption DEF ServerAssumption, Slots
<1> HIDE DEF n
<1>4. \A i \in 1 .. n : q[i] \in S BY <1>1 DEF Listing, n
<1>5. \A v \in S : \E i \in 1 .. n : q[i] = v BY <1>1, <1>3 DEF Listing, n
<1>6. \A i, j \in 1 .. n : i < j => q[i] < q[j] BY <1>1 DEF Listing, n
<1>7. \A i \in 1 .. n : q[i] \in Nat BY <1>0, <1>4, SlotsAre
<1>8. \A i, j \in 1 .. n : i < j => q[i] # q[j] BY <1>6, <1>7
<1>9. Arranged(h, S, n, q) BY <1>2, <1>4, <1>5, <1>6, <1>8 DEF Arranged
<1>10. Arranged(h, S, n, r) /\ Prefix(h, n, r, n) BY <1>00, <1>2, <1>9, ExchangedIs DEF Passed
<1>11. r \in [1 .. n -> S] /\ \A v \in S : \E i \in 1 .. n : r[i] = v BY <1>10 DEF Arranged
<1>12. \A v \in S : h[v] = s.win[v].z /\ h[v] \in Nat /\ v \in Nat
  <2>1. h \in [Slots -> Nat] BY HeightIs
  <2>2. \A v \in Slots : h[v] = s.win[v].z BY DEF HeightOf
  <2> QED BY <1>0, <2>1, <2>2, SlotsAre
<1> HIDE DEF h
<1>13. ASSUME NEW i \in 1 .. n, NEW j \in 1 .. n, i < j PROVE Sooner(s, r[i], r[j]) /\ r[i] # r[j]
  <2>1. r[i] \in S /\ r[j] \in S /\ r[i] # r[j] BY <1>10, <1>11, <1>13 DEF Arranged
  <2>2. h[r[i]] <= h[r[j]] BY <1>13, <1>10 DEF Prefix
  <2>3. CASE h[r[i]] = h[r[j]]
    <3>1. s.win[r[i]].z = s.win[r[j]].z BY Zenon, <1>12, <2>1, <2>3
    <3>2. s.win[r[i]].z = 0 BY Zenon, <2>1, <3>1 DEF Ranged, S
    <3>3. h[r[i]] = 0 /\ h[r[j]] = 0 BY Zenon, <1>12, <2>1, <2>3, <3>2
    <3>4. r[i] < r[j] BY <1>10, <1>13, <3>3 DEF Arranged
    <3> QED BY <2>1, <3>1, <3>4 DEF Sooner
  <2>4. CASE h[r[i]] # h[r[j]]
    <3>1. h[r[i]] < h[r[j]] BY <1>12, <2>1, <2>2, <2>4
    <3>2. s.win[r[i]].z < s.win[r[j]].z BY Zenon, <1>12, <2>1, <3>1
    <3> QED BY <2>1, <3>2 DEF Sooner
  <2> QED BY <2>3, <2>4
<1>14. ASSUME NEW v \in S, NEW w \in S, Sooner(s, v, w), Sooner(s, w, v) PROVE FALSE
  <2>1. s.win[v].z \in Nat /\ s.win[w].z \in Nat /\ v \in Nat /\ w \in Nat BY <1>12
  <2> QED BY <1>14, <2>1 DEF Sooner
<1>15. ASSUME NEW i \in 1 .. n, NEW j \in 1 .. n PROVE i <= j <=> r[i] = r[j] \/ Sooner(s, r[i], r[j])
  <2>0. r[i] \in S /\ r[j] \in S BY <1>11
  <2>1. CASE i < j BY <1>13, <2>1
  <2>2. CASE i = j BY <2>2
  <2>3. CASE j < i
    <3>1. Sooner(s, r[j], r[i]) /\ r[j] # r[i] BY <1>13, <2>3
    <3>2. ~Sooner(s, r[i], r[j]) BY <1>14, <2>0, <3>1
    <3> QED BY <2>3, <3>1, <3>2
  <2> QED BY <2>1, <2>2, <2>3
<1>16. Paints(s, S, n, r) BY <1>11, <1>15 DEF Paints
<1> QED BY <1>2, <1>16 DEF S, r

(* What a cell shows, told by the windows over it and which is before which. *)
Part(s, w, c) == <<w, c - s.win[w].frame[1]>>
InTurn(s, U) == {p \in U \X U : p[1] = p[2] \/ Sooner(s, p[1], p[2])}
Seen(s, c) == {<<Part(s, p[1], c), Part(s, p[2], c)>> : p \in InTurn(s, Under(s, c))}

LEMMA SceneIs ==
    ASSUME NEW s, Whole(s), Ranged(s, Visible(s)), NEW c
    PROVE  Scene(s, Painted(s), c) = Seen(s, c)
<1> DEFINE V == Visible(s)
           r == Painted(s)
           U == Under(s, c)
           over == {i \in DOMAIN r : c \in Rect(s.win[r[i]].frame)}
           T == {q \in over \X over : q[1] <= q[2]}
           I == InTurn(s, U)
           b(p) == <<Part(s, r[p[1]], c), Part(s, r[p[2]], c)>>
           a(p) == <<Part(s, p[1], c), Part(s, p[2], c)>>
<1>1. PICK n \in Nat : Paints(s, V, n, r) BY PaintedIs
<1>2. Scene(s, r, c) = {b(p) : p \in T} BY Zenon DEF Scene, Part
<1>3. Seen(s, c) = {a(p) : p \in I} BY Zenon DEF Seen
<1>4. U = {w \in V : c \in Rect(s.win[w].frame)} BY Zenon DEF Under
<1>5. DOMAIN r = 1 .. n /\ \A i \in 1 .. n : r[i] \in V BY <1>1 DEF Paints
<1>6. \A i \in over : i \in 1 .. n /\ r[i] \in U BY Zenon, <1>4, <1>5
<1>7. \A w \in U : \E i \in over : r[i] = w
  <2> TAKE w \in U
  <2>1. w \in V /\ c \in Rect(s.win[w].frame) BY Zenon, <1>4
  <2>2. PICK i \in 1 .. n : r[i] = w BY Zenon, <1>1, <2>1 DEF Paints
  <2>3. i \in over BY Zenon, <1>5, <2>1, <2>2
  <2> QED BY <2>2, <2>3
<1>8. \A i, j \in 1 .. n : i <= j <=> r[i] = r[j] \/ Sooner(s, r[i], r[j]) BY Zenon, <1>1 DEF Paints
<1> HIDE DEF V, r, U, over, I
<1>9. \A p \in T : \E q \in I : b(p) = a(q)
  <2> TAKE p \in T
  <2>1. p[1] \in over /\ p[2] \in over /\ p[1] <= p[2] OBVIOUS
  <2> DEFINE q == <<r[p[1]], r[p[2]]>>
  <2>2. q[1] = r[p[1]] /\ q[2] = r[p[2]] OBVIOUS
  <2>3. q \in U \X U /\ (q[1] = q[2] \/ Sooner(s, q[1], q[2])) BY <1>6, <1>8, <2>1
  <2>4. q \in I BY <2>3 DEF I, InTurn
  <2>5. b(p) = a(q) BY <2>2
  <2> HIDE DEF a, b, q
  <2> QED BY <2>4, <2>5
<1>10. \A q \in I : \E p \in T : b(p) = a(q)
  <2> TAKE q \in I
  <2>1. q[1] \in U /\ q[2] \in U /\ (q[1] = q[2] \/ Sooner(s, q[1], q[2])) BY DEF I, InTurn
  <2>2. PICK i \in over : r[i] = q[1] BY <1>7, <2>1
  <2>3. PICK j \in over : r[j] = q[2] BY <1>7, <2>1
  <2> DEFINE p == <<i, j>>
  <2>4. i <= j BY <1>6, <1>8, <2>1, <2>2, <2>3
  <2>5. p \in T BY <2>2, <2>3, <2>4
  <2>6. p[1] = i /\ p[2] = j OBVIOUS
  <2>7. b(p) = a(q) BY <2>2, <2>3, <2>6
  <2> HIDE DEF a, b, p
  <2> QED BY <2>5, <2>7
<1> HIDE DEF a, b, T
<1>11. {b(p) : p \in T} = {a(p) : p \in I} BY Zenon, <1>9, <1>10
<1> QED BY Zenon, <1>2, <1>3, <1>11 DEF r

(* Two states in which a cell shows the same.                                *)
AgreeOn(s, t, W) ==
    \A v \in W : t.win[v].frame = s.win[v].frame /\ \A w \in W : Sooner(s, v, w) <=> Sooner(t, v, w)

LEMMA SceneStays ==
    ASSUME NEW s, Whole(s), Ranged(s, Visible(s)), NEW t, Whole(t), Ranged(t, Visible(t)), NEW c,
           Under(t, c) = Under(s, c), AgreeOn(s, t, Under(s, c))
    PROVE  Scene(t, Painted(t), c) = Scene(s, Painted(s), c)
<1> DEFINE U == Under(s, c)
           as(p) == <<Part(s, p[1], c), Part(s, p[2], c)>>
           at(p) == <<Part(t, p[1], c), Part(t, p[2], c)>>
<1>1. Seen(s, c) = {as(p) : p \in InTurn(s, U)} /\ Seen(t, c) = {at(p) : p \in InTurn(t, U)} BY Zenon DEF Seen
<1>2. AgreeOn(s, t, U) OBVIOUS
<1> HIDE DEF U
<1>3. \A p \in U \X U : p[1] \in U /\ p[2] \in U OBVIOUS
<1>4. InTurn(s, U) = InTurn(t, U) BY Zenon, <1>2, <1>3 DEF InTurn, AgreeOn
<1>5. \A p \in InTurn(t, U) : as(p) = at(p) BY Zenon, <1>2, <1>3 DEF InTurn, AgreeOn, Part
<1> HIDE DEF as, at
<1>6. Seen(s, c) = Seen(t, c) BY Zenon, <1>1, <1>4, <1>5
<1> QED BY Zenon, <1>6, SceneIs

-----------------------------------------------------------------------------
(* Heights. T are the windows kept on top, in the order of their places.     *)
Precedes(h, v, w) == h[v] < h[w] \/ (h[v] = h[w] /\ v < w)
Settled(h, T, W) ==
    /\ \A v, w \in W : v # w /\ h[v] = h[w] => h[v] = 0
    /\ \A v \in W : v \in T => 0 < h[v] /\ \A w \in W : (w \in T => w < v) => h[w] < h[v]
SameOrder(h, g, W) == \A v, w \in W : Precedes(h, v, w) <=> Precedes(g, v, w)

(* The windows of T up to place m have been raised above those of U.         *)
Lifted(h, g, U, T, m) ==
    /\ g \in [Slots -> Nat]
    /\ \A v \in Slots :
          IF v \in T /\ v <= m
          THEN 0 < g[v] /\ (\A u \in U : h[u] < g[v]) /\ \A u \in T : u < v => g[u] < g[v]
          ELSE g[v] = h[v]

LEMMA LiftedNone ==
    ASSUME NEW h \in [Slots -> Nat], NEW U, NEW T
    PROVE  Lifted(h, h, U, T, 0)
<1>1. \A v \in Slots : ~(v <= 0) BY ServerAssumption DEF ServerAssumption, Slots
<1> QED BY <1>1 DEF Lifted

LEMMA LiftedNext ==
    ASSUME NEW h \in [Slots -> Nat], NEW U, U \subseteq Slots, NEW T, T \subseteq U, NEW m \in Slots,
           NEW g, Lifted(h, g, U, T, m - 1)
    PROVE  /\ m \notin T => Lifted(h, g, U, T, m)
           /\ \A n \in Nat : m \in T /\ (\A u \in U : g[u] < n) => Lifted(h, [g EXCEPT ![m] = n], U, T, m)
<1>0. Slots \subseteq Nat /\ g \in [Slots -> Nat] BY SlotsAre DEF Lifted
<1>1. \A v \in Slots : (v \in T /\ v <= m - 1) \/ (g[v] = h[v] /\ ~(v \in T /\ v <= m - 1)) BY DEF Lifted
<1>2. \A v \in Slots : v <= m <=> v <= m - 1 \/ v = m BY <1>0
<1>3. ASSUME m \notin T PROVE Lifted(h, g, U, T, m)
  <2>1. \A v \in Slots : (v \in T /\ v <= m) <=> (v \in T /\ v <= m - 1) BY <1>2, <1>3
  <2> QED BY Zenon, <2>1 DEF Lifted
<1>4. ASSUME NEW n \in Nat, m \in T, \A u \in U : g[u] < n PROVE Lifted(h, [g EXCEPT ![m] = n], U, T, m)
  <2> DEFINE k == [g EXCEPT ![m] = n]
  <2>1. k \in [Slots -> Nat] /\ k[m] = n /\ \A v \in Slots : v # m => k[v] = g[v] BY <1>0
  <2> HIDE DEF k
  <2>2. \A u \in U : h[u] < n
    <3> TAKE u \in U
    <3>1. g[u] < n /\ u \in Slots /\ g[u] \in Nat /\ h[u] \in Nat BY <1>0, <1>4
    <3>2. CASE u \in T /\ u <= m - 1
      <4>1. h[u] < g[u] BY <3>1, <3>2 DEF Lifted
      <4> QED BY <1>4, <3>1, <4>1
    <3>3. CASE g[u] = h[u] BY <3>1, <3>3
    <3> QED BY <1>1, <3>1, <3>2, <3>3
  <2>3. ASSUME NEW v \in Slots, v \in T, v <= m
        PROVE  0 < k[v] /\ (\A u \in U : h[u] < k[v]) /\ \A u \in T : u < v => k[u] < k[v]
    <3>1. CASE v = m
      <4>1. \A u \in T : u < v => k[u] = g[u] /\ g[u] < n BY <1>0, <1>4, <2>1, <3>1
      <4>2. 0 < n
        <5>1. h[m] < n /\ h[m] \in Nat BY <1>4, <2>2
        <5> QED BY <5>1
      <4> QED BY <2>1, <2>2, <3>1, <4>1, <4>2
    <3>2. CASE v # m
      <4>1. v <= m - 1 BY <1>2, <2>3, <3>2
      <4>2. 0 < g[v] /\ (\A u \in U : h[u] < g[v]) /\ \A u \in T : u < v => g[u] < g[v] BY <2>3, <4>1 DEF Lifted
      <4>3. \A u \in T : u < v => u # m /\ u \in Slots BY <1>0, <4>1
      <4> QED BY <2>1, <3>2, <4>2, <4>3
    <3> QED BY <3>1, <3>2
  <2>4. ASSUME NEW v \in Slots, ~(v \in T /\ v <= m) PROVE k[v] = h[v]
    <3>1. v # m /\ ~(v \in T /\ v <= m - 1) BY <1>0, <1>2, <1>4, <2>4
    <3> QED BY <1>1, <2>1, <3>1
  <2>5. Lifted(h, k, U, T, m) BY <2>1, <2>3, <2>4 DEF Lifted
  <2> QED BY <2>5 DEF k
<1> QED BY <1>3, <1>4

LEMMA LiftedSettles ==
    ASSUME NEW h \in [Slots -> Nat], NEW U, U \subseteq Slots, NEW T, NEW V, V \subseteq U,
           NEW g, Lifted(h, g, U, T \cap V, WM_MAX_WINDOWS), NEW W, W \subseteq V, Settled(h, T, W)
    PROVE  Settled(g, T, W) /\ SameOrder(h, g, W)
<1>0. \A v \in Slots : v \in Nat /\ v <= WM_MAX_WINDOWS /\ h[v] \in Nat /\ g[v] \in Nat
  BY ServerAssumption DEF ServerAssumption, Slots, Lifted
<1>1. \A v \in W : v \in Slots /\ v \in U /\ v \in V OBVIOUS
<1>2. \A v \in W : v \notin T => g[v] = h[v] BY <1>1 DEF Lifted
<1>3. \A v \in W : v \in T => 0 < g[v] /\ \A u \in W : h[u] < g[v] BY <1>0, <1>1 DEF Lifted
<1>4. \A v, u \in W : v \in T /\ u \in T /\ u < v => g[u] < g[v] BY <1>0, <1>1 DEF Lifted
<1>5. \A v, u \in W : v \in T /\ u \notin T => g[u] < g[v] BY <1>2, <1>3
<1>6. \A v, u \in W : v \in T /\ u \notin T => h[u] < h[v] BY DEF Settled
<1>7. \A v, u \in W : v \in T /\ u \in T /\ u < v => h[u] < h[v] BY DEF Settled
<1>8. \A v, u \in W : v < u \/ u < v \/ u = v BY <1>0, <1>1
<1>9. \A v, w \in W : v # w /\ g[v] = g[w] => g[v] = 0
  <2> TAKE v, w \in W
  <2> HAVE v # w /\ g[v] = g[w]
  <2>0. g[v] \in Nat /\ g[w] \in Nat BY <1>0, <1>1
  <2>1. CASE v \in T \/ w \in T BY <1>4, <1>5, <1>8, <2>0, <2>1
  <2>2. CASE v \notin T /\ w \notin T BY <1>2, <2>2 DEF Settled
  <2> QED BY <2>1, <2>2
<1>10. Settled(g, T, W)
  <2>1. \A v \in W : v \in T => 0 < g[v] /\ \A w \in W : (w \in T => w < v) => g[w] < g[v] BY <1>3, <1>4, <1>5
  <2> QED BY <1>9, <2>1 DEF Settled
<1>11. ASSUME NEW v \in W, NEW w \in W PROVE Precedes(h, v, w) <=> Precedes(g, v, w)
  <2>0. v \in Nat /\ w \in Nat /\ h[v] \in Nat /\ h[w] \in Nat /\ g[v] \in Nat /\ g[w] \in Nat BY <1>0, <1>1
  <2>1. CASE v = w BY <2>0, <2>1 DEF Precedes
  <2>2. CASE v \notin T /\ w \notin T BY <1>2, <2>2 DEF Precedes
  <2>3. CASE v \in T /\ w \notin T
    <3>1. h[w] < h[v] /\ g[w] < g[v] BY <1>5, <1>6, <2>3
    <3> QED BY <2>0, <3>1 DEF Precedes
  <2>4. CASE v \notin T /\ w \in T
    <3>1. h[v] < h[w] /\ g[v] < g[w] BY <1>5, <1>6, <2>4
    <3> QED BY <2>0, <3>1 DEF Precedes
  <2>5. CASE v \in T /\ w \in T /\ v < w
    <3>1. h[v] < h[w] /\ g[v] < g[w] BY <1>4, <1>7, <2>5
    <3> QED BY <2>0, <3>1 DEF Precedes
  <2>6. CASE v \in T /\ w \in T /\ w < v
    <3>1. h[w] < h[v] /\ g[w] < g[v] BY <1>4, <1>7, <2>6
    <3> QED BY <2>0, <3>1 DEF Precedes
  <2> QED BY <1>8, <2>1, <2>2, <2>3, <2>4, <2>5, <2>6
<1> QED BY <1>10, <1>11 DEF SameOrder

(* One window more: kept on top, at the bottom, or raised.                   *)
LEMMA LiftedSettlesAll ==
    ASSUME NEW h \in [Slots -> Nat], NEW U, U \subseteq Slots, NEW T, NEW V, V \subseteq U,
           NEW g, Lifted(h, g, U, T \cap V, WM_MAX_WINDOWS), NEW w, Settled(h, T, V \ {w}),
           w \in T \/ h[w] = 0 \/ \A u \in U : u # w => h[u] < h[w]
    PROVE  Settled(g, T, V)
<1>0. \A v \in Slots : v \in Nat /\ v <= WM_MAX_WINDOWS /\ h[v] \in Nat /\ g[v] \in Nat
  BY ServerAssumption DEF ServerAssumption, Slots, Lifted
<1>1. \A v \in V : v \in Slots /\ v \in U OBVIOUS
<1>2. \A v \in V : v \notin T => g[v] = h[v] BY <1>1 DEF Lifted
<1>3. \A v \in V : v \in T => 0 < g[v] /\ \A u \in V : h[u] < g[v] BY <1>0, <1>1 DEF Lifted
<1>4. \A v, u \in V : v \in T /\ u \in T /\ u < v => g[u] < g[v] BY <1>0, <1>1 DEF Lifted
<1>5. \A v, u \in V : v \in T /\ u \notin T => g[u] < g[v] BY <1>2, <1>3
<1>8. \A v, u \in V : v < u \/ u < v \/ u = v BY <1>0, <1>1
<1>9. ASSUME NEW v \in V, NEW u \in V, v # u, g[v] = g[u] PROVE g[v] = 0
  <2>0. g[v] \in Nat /\ g[u] \in Nat /\ h[v] \in Nat /\ h[u] \in Nat BY <1>0, <1>1
  <2>1. CASE v \in T \/ u \in T BY <1>4, <1>5, <1>8, <1>9, <2>0, <2>1
  <2>2. CASE v \notin T /\ u \notin T
    <3>1. h[v] = h[u] /\ g[v] = h[v] BY <1>2, <1>9, <2>2
    <3>2. CASE v # w /\ u # w
      <4>1. v \in V \ {w} /\ u \in V \ {w} BY <3>2
      <4> QED BY <1>9, <3>1, <4>1 DEF Settled
    <3>3. CASE v = w \/ u = w
      <4>1. CASE h[w] = 0 BY <3>1, <3>3, <4>1
      <4>2. CASE \A x \in U : x # w => h[x] < h[w] BY <1>1, <1>9, <2>0, <3>1, <3>3, <4>2
      <4> QED BY <2>2, <3>3, <4>1, <4>2
    <3> QED BY <3>2, <3>3
  <2> QED BY <2>1, <2>2
<1>10. \A v \in V : v \in T => 0 < g[v] /\ \A u \in V : (u \in T => u < v) => g[u] < g[v] BY <1>3, <1>4, <1>5
<1> QED BY <1>9, <1>10 DEF Settled

(* States that differ in heights alone.                                      *)
OnTop(s) == {w \in Slots : s.win[w].kind.topmost}
Lifts(s, t) ==
    /\ Stays(s, t) /\ t.busy = s.busy /\ t.dmg = s.dmg
    /\ \A v \in Slots : t.win[v].frame = s.win[v].frame

LEMMA LiftsTwice == ASSUME NEW s, NEW t, NEW u, Lifts(s, t), Lifts(t, u) PROVE Lifts(s, u)
<1>1. Stays(s, u) BY StaysTwice DEF Lifts
<1>2. \A v \in Slots : u.win[v].frame = s.win[v].frame BY Zenon DEF Lifts
<1> QED BY Zenon, <1>1, <1>2 DEF Lifts

LEMMA LiftsNone == ASSUME NEW s, Whole(s) PROVE Lifts(s, s)
BY StaysNone DEF Lifts

LEMMA LiftsSets ==
    ASSUME NEW s, NEW t, Lifts(s, t)
    PROVE  Used(t) = Used(s) /\ Visible(t) = Visible(s) /\ OnTop(t) = OnTop(s)
<1>1. \A v \in Slots : Alike(s.win[v], t.win[v]) BY DEF Lifts, Stays
<1> QED BY Zenon, <1>1 DEF Used, Visible, OnTop, Alike

LEMMA TopAbove ==
    ASSUME NEW s, Whole(s)
    PROVE  TopZ(s) \in Nat /\ \A u \in Used(s) : HeightOf(s)[u] <= TopZ(s)
<1> DEFINE Z == {0} \cup Heights(s, Used(s))
<1>1. Used(s) \subseteq Slots BY DEF Used
<1>2. Z \subseteq Nat /\ Z # {} BY <1>1, HeightsAre
<1>3. IsFiniteSet(Z)
  <2>1. IsFiniteSet({0}) BY FS_Singleton
  <2> QED BY <1>1, <2>1, HeightsAre, FS_Union
<1>4. TopZ(s) = Max(Z) BY Zenon DEF TopZ, Heights
<1>5. \A u \in Used(s) : HeightOf(s)[u] \in Z
  <2>1. \A u \in Used(s) : HeightOf(s)[u] = s.win[u].z BY <1>1 DEF HeightOf
  <2>2. \A u \in Used(s) : s.win[u].z \in Z BY DEF Heights
  <2> QED BY Zenon, <2>1, <2>2
<1> HIDE DEF Z
<1>6. Max(Z) \in Z /\ \A y \in Z : y <= Max(Z) BY <1>2, <1>3, MaxIs
<1> QED BY <1>2, <1>4, <1>5, <1>6

LEMMA HeightLifts ==
    ASSUME NEW s, Whole(s), NEW w \in Slots, NEW n \in Nat
    PROVE  LET t == [s EXCEPT !.win[w].z = n]
           IN  Lifts(s, t) /\ HeightOf(t) = [HeightOf(s) EXCEPT ![w] = n]
<1> DEFINE t == [s EXCEPT !.win[w].z = n]
           r == [s.win[w] EXCEPT !.z = n]
<1>1. Stays(s, t) BY HeightWritten
<1>2. Pane(s.win[w]) BY DEF Whole, Panes
<1>3. Pane(r) /\ r.z = n /\ r.frame = s.win[w].frame
  <2>1. r = [used |-> s.win[w].used, visible |-> s.win[w].visible, focused |-> s.win[w].focused,
             frame |-> s.win[w].frame, z |-> n, kind |-> s.win[w].kind]
    BY <1>2 DEF Pane
  <2>2. r.frame = s.win[w].frame BY Zenon, <2>1
  <2> QED BY Zenon, <1>2, <2>2, HeightOnly
<1>4. t = WithPane(s, w, r)
  <2>1. w \in DOMAIN s.win /\ DOMAIN s = {"win", "focus", "drag", "busy", "dmg"} BY DEF Whole, Server, Panes
  <2> QED BY <2>1 DEF WithPane
<1> HIDE DEF r, t
<1>5. r.z \in Nat BY <1>3
<1>6. /\ t.busy = s.busy /\ t.dmg = s.dmg
      /\ t.win[w] = r /\ \A v \in Slots : v # w => t.win[v] = s.win[v]
  BY <1>3, <1>4, <1>5, PaneWritten
<1>7. \A v \in Slots : t.win[v].frame = s.win[v].frame BY Zenon, <1>3, <1>6
<1>8. \A v \in Slots : t.win[v].z = IF v = w THEN n ELSE s.win[v].z BY Zenon, <1>3, <1>6
<1>9. HeightOf(t) = [HeightOf(s) EXCEPT ![w] = n]
  <2>1. HeightOf(t) = [v \in Slots |-> IF v = w THEN n ELSE s.win[v].z] BY Zenon, <1>8 DEF HeightOf
  <2> QED BY <2>1 DEF HeightOf
<1>10. Lifts(s, t) BY Zenon, <1>1, <1>6, <1>7 DEF Lifts
<1> QED BY <1>9, <1>10 DEF t

LEMMA RaiseLifts ==
    ASSUME NEW s, Whole(s), NEW w \in Slots
    PROVE  /\ Lifts(s, Raise(s, w))
           /\ \E n \in Nat : /\ HeightOf(Raise(s, w)) = [HeightOf(s) EXCEPT ![w] = n]
                             /\ \A u \in Used(s) : HeightOf(s)[u] < n
<1> DEFINE n == TopZ(s) + 1
<1>1. n \in Nat /\ \A u \in Used(s) : HeightOf(s)[u] < n
  <2>1. TopZ(s) \in Nat /\ \A u \in Used(s) : HeightOf(s)[u] <= TopZ(s) BY TopAbove
  <2>2. \A u \in Used(s) : HeightOf(s)[u] \in Nat BY HeightIs DEF Used
  <2> QED BY <2>1, <2>2
<1> DEFINE t == [s EXCEPT !.win[w].z = n]
<1>2. Raise(s, w) = t BY DEF Raise
<1> HIDE DEF n
<1>3. Lifts(s, t) /\ HeightOf(t) = [HeightOf(s) EXCEPT ![w] = n] BY <1>1, HeightLifts
<1> HIDE DEF t
<1>4. \E k \in Nat : HeightOf(t) = [HeightOf(s) EXCEPT ![w] = k] /\ \A u \in Used(s) : HeightOf(s)[u] < k
  BY Zenon, <1>1, <1>3
<1> QED BY Zenon, <1>2, <1>3, <1>4

LEMMA TopmostLifts ==
    ASSUME NEW s, Whole(s)
    PROVE  /\ Lifts(s, RaiseTopmost(s))
           /\ Lifted(HeightOf(s), HeightOf(RaiseTopmost(s)), Used(s), OnTop(s) \cap Visible(s), WM_MAX_WINDOWS)
<1> DEFINE n == WM_MAX_WINDOWS
           top == {w \in Visible(s) : s.win[w].kind.topmost}
           u == CHOOSE g : Loop(s, top, n, g)
           h == HeightOf(s)
           U == Used(s)
<1>0. n \in Nat BY ServerAssumption DEF ServerAssumption
<1>1. RaiseTopmost(s) = u[n] BY Zenon DEF RaiseTopmost, Loop, LoopStep
<1>11. top = OnTop(s) \cap Visible(s) /\ top \subseteq U /\ U \subseteq Slots BY DEF OnTop, Visible, Used
<1> HIDE DEF top
<1>2. Loop(s, top, n, u) BY Zenon, LoopGoes
<1> HIDE DEF u, U
<1>3. \A w \in 0 .. n : u[w] = LoopStep(s, top, u, w) BY Zenon, <1>2 DEF Loop
<1>12. h \in [Slots -> Nat] BY HeightIs
<1> HIDE DEF h
<1> DEFINE K == {m \in 0 .. n : Lifts(s, u[m]) /\ Lifted(h, HeightOf(u[m]), U, top, m)}
<1>4. 0 \in K
  <2>1. 0 \in 0 .. n BY <1>0
  <2>2. u[0] = s BY Zenon, <1>3, <2>1 DEF LoopStep
  <2>3. Lifted(h, h, U, top, 0) BY <1>12, LiftedNone
  <2> QED BY <2>1, <2>2, <2>3, LiftsNone DEF h
<1>5. ASSUME NEW m \in 1 .. n, m - 1 \in K PROVE m \in K
  <2> DEFINE c == u[m - 1]
             g == HeightOf(c)
  <2>1. m \in 0 .. n /\ m # 0 /\ m \in Slots BY <1>0 DEF Slots
  <2>2. Lifts(s, c) /\ Lifted(h, g, U, top, m - 1) BY <1>5
  <2>3. u[m] = If(c, m \in top, Raise(c, m)) BY Zenon, <1>3, <2>1 DEF LoopStep
  <2> HIDE DEF c
  <2>4. Whole(c) /\ Used(c) = U BY <2>2, LiftsSets DEF Lifts, Stays, U
  <2>5. CASE m \in top
    <3>1. u[m] = Raise(c, m) BY <2>3, <2>5 DEF If
    <3>2. Lifts(c, u[m]) BY <2>1, <2>4, <3>1, RaiseLifts
    <3>3. PICK k \in Nat : HeightOf(u[m]) = [g EXCEPT ![m] = k] /\ \A v \in U : g[v] < k
      BY <2>1, <2>4, <3>1, RaiseLifts
    <3> HIDE DEF g
    <3>4. Lifted(h, [g EXCEPT ![m] = k], U, top, m) BY <1>11, <1>12, <2>1, <2>2, <2>5, <3>3, LiftedNext
    <3>5. Lifts(s, u[m]) BY <2>2, <3>2, LiftsTwice
    <3> QED BY <2>1, <3>3, <3>4, <3>5
  <2>6. CASE m \notin top
    <3>1. u[m] = c BY <2>3, <2>6 DEF If
    <3>2. Lifted(h, g, U, top, m) BY <1>11, <1>12, <2>1, <2>2, <2>6, LiftedNext
    <3> QED BY <2>1, <2>2, <3>1, <3>2
  <2> QED BY <2>5, <2>6
<1> HIDE DEF K
<1>6. n \in K BY <1>0, <1>4, <1>5, UpTo
<1> QED BY <1>1, <1>6, <1>11 DEF K, h, U

-----------------------------------------------------------------------------
(* Damage. It has its fields, and its rectangles are on the screen.          *)
Fields(d) ==
    d = [dirty |-> d.dirty, full |-> d.full, rect |-> d.rect, pending |-> d.pending,
         pendingFull |-> d.pendingFull, pendingRect |-> d.pendingRect, moved |-> d.moved, old |-> d.old, new |-> d.new,
         content |-> d.content]
Harm(d) == Fields(d) /\ d.rect \subseteq Cells /\ d.pendingRect \subseteq Cells /\ d.old \subseteq Cells /\ d.new \subseteq Cells

(* What is to be painted, what waits, and what a drag has moved.             *)
Painting(d, e) == e.dirty = d.dirty /\ e.full = d.full /\ e.rect = d.rect
Waiting(d, e) == e.pending = d.pending /\ e.pendingFull = d.pendingFull /\ e.pendingRect = d.pendingRect
Moving(d, e) == e.moved = d.moved /\ e.old = d.old /\ e.new = d.new

LEMMA DirtyField ==
    ASSUME NEW d, Fields(d), NEW x, NEW e, e = [d EXCEPT !.dirty = x]
    PROVE  Fields(e) /\ e.dirty = x /\ e.full = d.full /\ e.rect = d.rect /\ Waiting(d, e) /\ Moving(d, e)
<1>1. e = [dirty |-> x, full |-> d.full, rect |-> d.rect, pending |-> d.pending,
          pendingFull |-> d.pendingFull, pendingRect |-> d.pendingRect, moved |-> d.moved, old |-> d.old, new |-> d.new,
          content |-> d.content]
  BY DEF Fields
<1>2. e.dirty = x /\ e.full = d.full /\ e.rect = d.rect /\ e.pending = d.pending
      /\ e.pendingFull = d.pendingFull /\ e.pendingRect = d.pendingRect /\ e.moved = d.moved /\ e.old = d.old /\ e.new = d.new
      /\ e.content = d.content
  BY Zenon, <1>1
<1> QED BY Zenon, <1>1, <1>2 DEF Fields, Painting, Waiting, Moving

LEMMA FullField ==
    ASSUME NEW d, Fields(d), NEW x, NEW e, e = [d EXCEPT !.full = x]
    PROVE  Fields(e) /\ e.full = x /\ e.dirty = d.dirty /\ e.rect = d.rect /\ Waiting(d, e) /\ Moving(d, e)
<1>1. e = [dirty |-> d.dirty, full |-> x, rect |-> d.rect, pending |-> d.pending,
          pendingFull |-> d.pendingFull, pendingRect |-> d.pendingRect, moved |-> d.moved, old |-> d.old, new |-> d.new,
          content |-> d.content]
  BY DEF Fields
<1>2. e.dirty = d.dirty /\ e.full = x /\ e.rect = d.rect /\ e.pending = d.pending
      /\ e.pendingFull = d.pendingFull /\ e.pendingRect = d.pendingRect /\ e.moved = d.moved /\ e.old = d.old /\ e.new = d.new
      /\ e.content = d.content
  BY Zenon, <1>1
<1> QED BY Zenon, <1>1, <1>2 DEF Fields, Painting, Waiting, Moving

LEMMA RectField ==
    ASSUME NEW d, Fields(d), NEW x, NEW e, e = [d EXCEPT !.rect = x]
    PROVE  Fields(e) /\ e.rect = x /\ e.dirty = d.dirty /\ e.full = d.full /\ Waiting(d, e) /\ Moving(d, e)
<1>1. e = [dirty |-> d.dirty, full |-> d.full, rect |-> x, pending |-> d.pending,
          pendingFull |-> d.pendingFull, pendingRect |-> d.pendingRect, moved |-> d.moved, old |-> d.old, new |-> d.new,
          content |-> d.content]
  BY DEF Fields
<1>2. e.dirty = d.dirty /\ e.full = d.full /\ e.rect = x /\ e.pending = d.pending
      /\ e.pendingFull = d.pendingFull /\ e.pendingRect = d.pendingRect /\ e.moved = d.moved /\ e.old = d.old /\ e.new = d.new
      /\ e.content = d.content
  BY Zenon, <1>1
<1> QED BY Zenon, <1>1, <1>2 DEF Fields, Painting, Waiting, Moving

LEMMA PendingField ==
    ASSUME NEW d, Fields(d), NEW x, NEW e, e = [d EXCEPT !.pending = x]
    PROVE  Fields(e) /\ e.pending = x /\ Painting(d, e) /\ e.pendingFull = d.pendingFull /\ e.pendingRect = d.pendingRect /\ Moving(d, e)
<1>1. e = [dirty |-> d.dirty, full |-> d.full, rect |-> d.rect, pending |-> x, pendingFull |-> d.pendingFull,
          pendingRect |-> d.pendingRect, moved |-> d.moved, old |-> d.old, new |-> d.new, content |->
          d.content]
  BY DEF Fields
<1>2. e.dirty = d.dirty /\ e.full = d.full /\ e.rect = d.rect /\ e.pending = x
      /\ e.pendingFull = d.pendingFull /\ e.pendingRect = d.pendingRect /\ e.moved = d.moved /\ e.old = d.old /\ e.new = d.new
      /\ e.content = d.content
  BY Zenon, <1>1
<1> QED BY Zenon, <1>1, <1>2 DEF Fields, Painting, Waiting, Moving

LEMMA PendingFullField ==
    ASSUME NEW d, Fields(d), NEW x, NEW e, e = [d EXCEPT !.pendingFull = x]
    PROVE  Fields(e) /\ e.pendingFull = x /\ Painting(d, e) /\ e.pending = d.pending /\ e.pendingRect = d.pendingRect /\ Moving(d, e)
<1>1. e = [dirty |-> d.dirty, full |-> d.full, rect |-> d.rect, pending |-> d.pending, pendingFull |-> x,
          pendingRect |-> d.pendingRect, moved |-> d.moved, old |-> d.old, new |-> d.new, content |->
          d.content]
  BY DEF Fields
<1>2. e.dirty = d.dirty /\ e.full = d.full /\ e.rect = d.rect /\ e.pending = d.pending /\ e.pendingFull = x
      /\ e.pendingRect = d.pendingRect /\ e.moved = d.moved /\ e.old = d.old /\ e.new = d.new /\ e.content =
      d.content
  BY Zenon, <1>1
<1> QED BY Zenon, <1>1, <1>2 DEF Fields, Painting, Waiting, Moving

LEMMA PendingRectField ==
    ASSUME NEW d, Fields(d), NEW x, NEW e, e = [d EXCEPT !.pendingRect = x]
    PROVE  Fields(e) /\ e.pendingRect = x /\ Painting(d, e) /\ e.pending = d.pending /\ e.pendingFull = d.pendingFull /\ Moving(d, e)
<1>1. e = [dirty |-> d.dirty, full |-> d.full, rect |-> d.rect, pending |-> d.pending,
          pendingFull |-> d.pendingFull, pendingRect |-> x, moved |-> d.moved, old |-> d.old, new |-> d.new, content |->
          d.content]
  BY DEF Fields
<1>2. e.dirty = d.dirty /\ e.full = d.full /\ e.rect = d.rect /\ e.pending = d.pending
      /\ e.pendingFull = d.pendingFull /\ e.pendingRect = x /\ e.moved = d.moved /\ e.old = d.old /\ e.new = d.new /\ e.content =
      d.content
  BY Zenon, <1>1
<1> QED BY Zenon, <1>1, <1>2 DEF Fields, Painting, Waiting, Moving

LEMMA MovedField ==
    ASSUME NEW d, Fields(d), NEW x, NEW e, e = [d EXCEPT !.moved = x]
    PROVE  Fields(e) /\ e.moved = x /\ Painting(d, e) /\ Waiting(d, e) /\ e.old = d.old /\ e.new = d.new
<1>1. e = [dirty |-> d.dirty, full |-> d.full, rect |-> d.rect, pending |-> d.pending,
          pendingFull |-> d.pendingFull, pendingRect |-> d.pendingRect, moved |-> x, old |-> d.old, new |-> d.new, content |->
          d.content]
  BY DEF Fields
<1>2. e.dirty = d.dirty /\ e.full = d.full /\ e.rect = d.rect /\ e.pending = d.pending
      /\ e.pendingFull = d.pendingFull /\ e.pendingRect = d.pendingRect /\ e.moved = x /\ e.old = d.old /\ e.new = d.new
      /\ e.content = d.content
  BY Zenon, <1>1
<1> QED BY Zenon, <1>1, <1>2 DEF Fields, Painting, Waiting, Moving

LEMMA OldField ==
    ASSUME NEW d, Fields(d), NEW x, NEW e, e = [d EXCEPT !.old = x]
    PROVE  Fields(e) /\ e.old = x /\ Painting(d, e) /\ Waiting(d, e) /\ e.moved = d.moved /\ e.new = d.new
<1>1. e = [dirty |-> d.dirty, full |-> d.full, rect |-> d.rect, pending |-> d.pending,
          pendingFull |-> d.pendingFull, pendingRect |-> d.pendingRect, moved |-> d.moved, old |-> x, new |-> d.new, content
          |-> d.content]
  BY DEF Fields
<1>2. e.dirty = d.dirty /\ e.full = d.full /\ e.rect = d.rect /\ e.pending = d.pending
      /\ e.pendingFull = d.pendingFull /\ e.pendingRect = d.pendingRect /\ e.moved = d.moved /\ e.old = x /\ e.new = d.new
      /\ e.content = d.content
  BY Zenon, <1>1
<1> QED BY Zenon, <1>1, <1>2 DEF Fields, Painting, Waiting, Moving

LEMMA NewField ==
    ASSUME NEW d, Fields(d), NEW x, NEW e, e = [d EXCEPT !.new = x]
    PROVE  Fields(e) /\ e.new = x /\ Painting(d, e) /\ Waiting(d, e) /\ e.moved = d.moved /\ e.old = d.old
<1>1. e = [dirty |-> d.dirty, full |-> d.full, rect |-> d.rect, pending |-> d.pending,
          pendingFull |-> d.pendingFull, pendingRect |-> d.pendingRect, moved |-> d.moved, old |-> d.old, new |-> x, content
          |-> d.content]
  BY DEF Fields
<1>2. e.dirty = d.dirty /\ e.full = d.full /\ e.rect = d.rect /\ e.pending = d.pending
      /\ e.pendingFull = d.pendingFull /\ e.pendingRect = d.pendingRect /\ e.moved = d.moved /\ e.old = d.old /\ e.new = x
      /\ e.content = d.content
  BY Zenon, <1>1
<1> QED BY Zenon, <1>1, <1>2 DEF Fields, Painting, Waiting, Moving

LEMMA ContentField ==
    ASSUME NEW d, Fields(d), NEW x, NEW e, e = [d EXCEPT !.content = x]
    PROVE  Fields(e) /\ Painting(d, e) /\ Waiting(d, e) /\ Moving(d, e)
<1>1. e = [dirty |-> d.dirty, full |-> d.full, rect |-> d.rect, pending |-> d.pending,
          pendingFull |-> d.pendingFull, pendingRect |-> d.pendingRect, moved |-> d.moved, old |-> d.old, new |-> d.new,
          content |-> x]
  BY DEF Fields
<1>2. e.dirty = d.dirty /\ e.full = d.full /\ e.rect = d.rect /\ e.pending = d.pending
      /\ e.pendingFull = d.pendingFull /\ e.pendingRect = d.pendingRect /\ e.moved = d.moved /\ e.old = d.old /\ e.new = d.new
      /\ e.content = x
  BY Zenon, <1>1
<1> QED BY Zenon, <1>1, <1>2 DEF Fields, Painting, Waiting, Moving

LEMMA CellsAre == Cells \subseteq Nat /\ \A r \in SUBSET Cells : IsFiniteSet(r)
<1>1. Width \in Nat BY ServerAssumption DEF ServerAssumption
<1>2. IsFiniteSet(0 .. Width - 1) BY <1>1, FS_Interval
<1>3. Cells \subseteq Nat /\ IsFiniteSet(Cells) BY <1>1, <1>2 DEF Cells
<1> QED BY <1>3, FS_Subset

LEMMA MinBelow == ASSUME NEW S, S \subseteq Nat, S # {} PROVE Min(S) \in S /\ \A y \in S : Min(S) <= y
BY HasLeast DEF Min

LEMMA UnionIs ==
    ASSUME NEW r \in SUBSET Cells, NEW q \in SUBSET Cells
    PROVE  r \cup q \subseteq Union(r, q) /\ Union(r, q) \subseteq Cells
<1> DEFINE S == r \cup q
<1>1. S \subseteq Nat /\ S \in SUBSET Cells /\ IsFiniteSet(S) BY CellsAre
<1>2. Union(r, q) = IF S = {} THEN {} ELSE Min(S) .. Max(S) BY Zenon DEF Union
<1>3. CASE S = {} BY <1>2, <1>3
<1>4. CASE S # {}
  <2> HIDE DEF S
  <2>1. Min(S) \in S /\ \A y \in S : Min(S) <= y BY <1>1, <1>4, MinBelow
  <2>2. Max(S) \in S /\ \A y \in S : y <= Max(S) BY <1>1, <1>4, MaxIs
  <2>3. S \subseteq Min(S) .. Max(S) BY <1>1, <2>1, <2>2
  <2>4. Min(S) \in Cells /\ Max(S) \in Cells /\ Width \in Nat BY <1>1, <2>1, <2>2, ServerAssumption DEF ServerAssumption
  <2>5. Min(S) .. Max(S) \subseteq Cells BY <2>4 DEF Cells
  <2> QED BY <1>2, <1>4, <2>3, <2>5 DEF S
<1> QED BY <1>3, <1>4

LEMMA RectOn == ASSUME NEW f PROVE Rect(f) \in SUBSET Cells
BY DEF Rect

(* What an update writes.                                                    *)
LEMMA WithDmgIs == ASSUME NEW s, Server(s), NEW d PROVE Touched(s, WithDmg(s, d)) /\ WithDmg(s, d).busy = s.busy /\ WithDmg(s, d).dmg = d
BY DEF Touched, Server, WithDmg

(* The cells that are due to be painted, and those that wait.                *)
Due(d) == IF ~d.dirty THEN {} ELSE IF d.full THEN Cells ELSE d.rect
Postponed(d) == IF ~d.pending THEN {} ELSE IF d.pendingFull THEN Cells ELSE d.pendingRect
Still(d) == Due(d) \cup Postponed(d)
Trail(d) == IF d.moved THEN d.old \cup d.new ELSE {}
Free(s) == s.drag = None /\ ~s.busy

(* The cells of A are told of, and none is forgotten; at once, if nothing is *)
(* dragged or composed.                                                      *)
Retold(s, t) == Touched(s, t) /\ t.busy = s.busy /\ Harm(t.dmg)
Marked(s, t, X) ==
    /\ Retold(s, t) /\ Moving(s.dmg, t.dmg)
    /\ Still(s.dmg) \cup X \subseteq Still(t.dmg)
    /\ Free(s) => Due(s.dmg) \cup X \subseteq Due(t.dmg) /\ Waiting(s.dmg, t.dmg)

LEMMA HarmIs == ASSUME NEW d, Harm(d) PROVE Due(d) \subseteq Cells /\ Postponed(d) \subseteq Cells /\ Trail(d) \subseteq Cells
BY DEF Harm, Due, Postponed, Trail

LEMMA WaitsSame == ASSUME NEW d, NEW e, Waiting(d, e) PROVE Postponed(e) = Postponed(d)
BY Zenon DEF Waiting, Postponed

LEMMA DueSame == ASSUME NEW d, NEW e, Painting(d, e) PROVE Due(e) = Due(d)
BY Zenon DEF Painting, Due

LEMMA MarkedTwice ==
    ASSUME NEW s, NEW t, NEW u, NEW X, NEW B, Marked(s, t, X), Marked(t, u, B)
    PROVE  Marked(s, u, X \cup B)
<1>1. Retold(s, u) BY TouchTwice DEF Marked, Retold
<1>2. Moving(s.dmg, u.dmg) BY Zenon DEF Marked, Moving
<1>3. Still(s.dmg) \cup (X \cup B) \subseteq Still(u.dmg) BY DEF Marked
<1>4. ASSUME Free(s) PROVE Due(s.dmg) \cup (X \cup B) \subseteq Due(u.dmg) /\ Waiting(s.dmg, u.dmg)
  <2>1. Free(t) BY Zenon, <1>4 DEF Free, Marked, Retold, Touched
  <2>2. Waiting(s.dmg, u.dmg) BY Zenon, <1>4, <2>1 DEF Marked, Waiting
  <2> QED BY <1>4, <2>1, <2>2 DEF Marked
<1> QED BY <1>1, <1>2, <1>3, <1>4 DEF Marked

LEMMA WithDmgMarks ==
    ASSUME NEW s, Server(s), NEW e, Harm(e), NEW X, Moving(s.dmg, e),
           Still(s.dmg) \cup X \subseteq Still(e),
           Free(s) => Due(s.dmg) \cup X \subseteq Due(e) /\ Waiting(s.dmg, e),
           NEW t, t = WithDmg(s, e)
    PROVE  Marked(s, t, X)
<1>1. Touched(s, t) /\ t.busy = s.busy /\ t.dmg = e BY WithDmgIs
<1> QED BY Zenon, <1>1 DEF Marked, Retold

LEMMA MarkedNone == ASSUME NEW s, Server(s), Harm(s.dmg) PROVE Marked(s, s, {})
BY DEF Marked, Retold, Touched, Moving, Waiting

LEMMA PendingMarks ==
    ASSUME NEW s, Server(s), Harm(s.dmg), ~Free(s), NEW r \in SUBSET Cells
    PROVE  Marked(s, MarkPending(s, r), r)
<1> DEFINE d == s.dmg
           q == IF d.pending THEN d.pendingRect ELSE {}
           p == IF d.pendingFull THEN d.pendingRect ELSE Union(q, r)
           a == [d EXCEPT !.pending = TRUE]
           e == [a EXCEPT !.pendingRect = p]
<1>1. MarkPending(s, r) = WithDmg(s, e) BY DEF MarkPending, WithDmg, Server
<1>2. Fields(d) /\ d.pendingRect \subseteq Cells /\ d.rect \subseteq Cells /\ d.old \subseteq Cells /\ d.new \subseteq Cells
  BY DEF Harm
<1> HIDE DEF d
<1>3. q \in SUBSET Cells BY <1>2
<1>4. q \cup r \subseteq Union(q, r) /\ Union(q, r) \subseteq Cells
  <2> HIDE DEF q
  <2> QED BY <1>3, UnionIs
<1>5. p \subseteq Cells BY <1>2, <1>4
<1>6. ~d.pendingFull => q \cup r \subseteq p BY <1>4
<1>7. Postponed(d) \subseteq Cells /\ (~d.pendingFull => Postponed(d) \subseteq q) BY <1>2 DEF Postponed
<1> HIDE DEF q, p
<1>8. Fields(a) /\ a.pending = TRUE /\ a.pendingFull = d.pendingFull /\ Painting(d, a) /\ Moving(d, a)
  BY <1>2, PendingField
<1> HIDE DEF a
<1>9. /\ Fields(e) /\ e.pendingRect = p /\ e.pending = a.pending /\ e.pendingFull = a.pendingFull
      /\ Painting(a, e) /\ Moving(a, e)
  BY <1>8, PendingRectField
<1> HIDE DEF e
<1>10. e.pending = TRUE /\ e.pendingFull = d.pendingFull /\ Painting(d, e) /\ Moving(d, e)
  BY Zenon, <1>8, <1>9 DEF Painting, Moving
<1>11. Harm(e)
  <2>1. e.rect = d.rect /\ e.old = d.old /\ e.new = d.new BY Zenon, <1>10 DEF Painting, Moving
  <2> QED BY <1>2, <1>5, <1>9, <2>1 DEF Harm
<1>12. Due(e) = Due(d) BY <1>10, DueSame
<1>13. Postponed(e) = IF d.pendingFull THEN Cells ELSE p BY Zenon, <1>9, <1>10 DEF Postponed
<1>14. Postponed(d) \cup r \subseteq Postponed(e) BY <1>6, <1>7, <1>13
<1>15. Still(d) \cup r \subseteq Still(e) BY <1>12, <1>14 DEF Still
<1> QED BY Zenon, <1>1, <1>10, <1>11, <1>15, WithDmgMarks DEF d

LEMMA DamageMarks ==
    ASSUME NEW s, Server(s), Harm(s.dmg), ~s.dmg.full, NEW u \in SUBSET Cells, NEW r,
           (IF s.dmg.dirty THEN s.dmg.rect ELSE {}) \cup r \subseteq u
    PROVE  Marked(s, Damage(s, u), r)
<1> DEFINE d == s.dmg
           x == Cardinality(u) * 5 >= Width * 3
           a == [d EXCEPT !.dirty = TRUE]
           b == [a EXCEPT !.rect = u]
           e == [b EXCEPT !.full = x]
<1>1. Damage(s, u) = WithDmg(s, e) BY DEF Damage, WithDmg, Server
<1>2. Fields(d) /\ d.pendingRect \subseteq Cells /\ d.old \subseteq Cells /\ d.new \subseteq Cells
  BY DEF Harm
<1>3. Due(d) \cup r \subseteq u BY DEF Due
<1> HIDE DEF d, x
<1>4. Fields(a) /\ a.dirty = TRUE /\ Waiting(d, a) /\ Moving(d, a) BY <1>2, DirtyField
<1> HIDE DEF a
<1>5. Fields(b) /\ b.rect = u /\ b.dirty = a.dirty /\ Waiting(a, b) /\ Moving(a, b) BY <1>4, RectField
<1> HIDE DEF b
<1>6. Fields(e) /\ e.rect = b.rect /\ e.dirty = b.dirty /\ Waiting(b, e) /\ Moving(b, e) BY <1>5, FullField
<1> HIDE DEF e
<1>7. e.rect = u /\ e.dirty = TRUE /\ Waiting(d, e) /\ Moving(d, e)
  BY Zenon, <1>4, <1>5, <1>6 DEF Waiting, Moving
<1>8. Harm(e)
  <2>1. e.pendingRect = d.pendingRect /\ e.old = d.old /\ e.new = d.new BY Zenon, <1>7 DEF Waiting, Moving
  <2> QED BY <1>2, <1>6, <1>7, <2>1 DEF Harm
<1>9. Due(d) \cup r \subseteq Due(e)
  <2>1. Due(e) = Cells \/ Due(e) = u BY Zenon, <1>7 DEF Due
  <2> QED BY <1>3, <2>1
<1>10. Postponed(e) = Postponed(d) BY <1>7, WaitsSame
<1>11. Still(d) \cup r \subseteq Still(e) BY <1>9, <1>10 DEF Still
<1> QED BY Zenon, <1>1, <1>7, <1>8, <1>9, <1>11, WithDmgMarks DEF d

LEMMA AgainMarks ==
    ASSUME NEW s, Server(s), Harm(s.dmg), s.dmg.full, NEW r \in SUBSET Cells
    PROVE  Marked(s, [s EXCEPT !.dmg.dirty = TRUE], r)
<1> DEFINE d == s.dmg
           e == [d EXCEPT !.dirty = TRUE]
           t == [s EXCEPT !.dmg.dirty = TRUE]
<1>1. t = WithDmg(s, e) BY DEF WithDmg, Server
<1>2. Fields(d) /\ d.rect \subseteq Cells /\ d.pendingRect \subseteq Cells /\ d.old \subseteq Cells /\ d.new \subseteq Cells /\ Due(d) \subseteq Cells
  BY HarmIs DEF Harm
<1>20. d.full OBVIOUS
<1> HIDE DEF d
<1>3. Fields(e) /\ e.dirty = TRUE /\ e.full = d.full /\ e.rect = d.rect /\ Waiting(d, e) /\ Moving(d, e) BY <1>2, DirtyField
<1> HIDE DEF e
<1>8. Harm(e)
  <2>1. e.pendingRect = d.pendingRect /\ e.old = d.old /\ e.new = d.new BY Zenon, <1>3 DEF Waiting, Moving
  <2> QED BY <1>2, <1>3, <2>1 DEF Harm
<1>9. Due(e) = Cells BY Zenon, <1>3, <1>20 DEF Due
<1>10. Postponed(e) = Postponed(d) BY <1>3, WaitsSame
<1>11. Due(d) \cup r \subseteq Due(e) /\ Still(d) \cup r \subseteq Still(e) BY <1>2, <1>9, <1>10 DEF Still
<1> HIDE DEF t
<1>12. Marked(s, t, r) BY Zenon, <1>1, <1>3, <1>8, <1>11, WithDmgMarks DEF d
<1> QED BY <1>12 DEF t

(* A rectangle is told of.                                                   *)
LEMMA RectMarks ==
    ASSUME NEW s, Server(s), Harm(s.dmg), NEW r \in SUBSET Cells
    PROVE  Marked(s, MarkRect(s, r), r)
<1> DEFINE u == Union(IF s.dmg.dirty THEN s.dmg.rect ELSE {}, r)
<1>1. Marked(s, s, {}) BY MarkedNone
<1>2. CASE ~Free(s)
  <2>1. Marked(s, MarkPending(s, r), r) BY <1>2, PendingMarks
  <2>2. MarkRect(s, r) = If(s, s.dmg.pendingFull \/ r # {}, MarkPending(s, r)) BY Zenon, <1>2 DEF MarkRect, Free
  <2>3. MarkRect(s, r) = MarkPending(s, r) \/ (MarkRect(s, r) = s /\ r = {}) BY Zenon, <2>2 DEF If
  <2> QED BY Zenon, <1>1, <2>1, <2>3
<1>3. CASE Free(s) /\ s.dmg.full
  <2>1. MarkRect(s, r) = [s EXCEPT !.dmg.dirty = TRUE] BY Zenon, <1>3 DEF MarkRect, Free
  <2>2. Marked(s, [s EXCEPT !.dmg.dirty = TRUE], r) BY <1>3, AgainMarks
  <2> QED BY Zenon, <2>1, <2>2
<1>4. CASE Free(s) /\ ~s.dmg.full
  <2>1. MarkRect(s, r) = If(s, r # {}, Damage(s, u)) BY Zenon, <1>4 DEF MarkRect, Free
  <2> DEFINE q == IF s.dmg.dirty THEN s.dmg.rect ELSE {}
  <2>2. q \in SUBSET Cells BY DEF Harm
  <2>3. q \cup r \subseteq u /\ u \in SUBSET Cells
    <3> HIDE DEF q
    <3>1. q \cup r \subseteq Union(q, r) /\ Union(q, r) \subseteq Cells BY <2>2, UnionIs
    <3> QED BY <3>1 DEF q
  <2> HIDE DEF u
  <2>4. Marked(s, Damage(s, u), r) BY <1>4, <2>3, DamageMarks
  <2>5. MarkRect(s, r) = Damage(s, u) \/ (MarkRect(s, r) = s /\ r = {}) BY Zenon, <2>1 DEF If
  <2> QED BY Zenon, <1>1, <2>4, <2>5
<1> QED BY <1>2, <1>3, <1>4

(* The whole screen is told of.                                              *)
LEMMA DirtyMarks == ASSUME NEW s, Server(s), Harm(s.dmg) PROVE Marked(s, MarkDirty(s), Cells)
<1> DEFINE d == s.dmg
<1>2. Fields(d) /\ d.rect \subseteq Cells /\ d.pendingRect \subseteq Cells /\ d.old \subseteq Cells /\ d.new \subseteq Cells
      /\ Due(d) \subseteq Cells /\ Postponed(d) \subseteq Cells
  BY HarmIs DEF Harm
<1>3. CASE ~Free(s)
  <2> DEFINE a == [d EXCEPT !.pending = TRUE]
             e == [a EXCEPT !.pendingFull = TRUE]
  <2>1. MarkDirty(s) = WithDmg(s, e) BY <1>3 DEF MarkDirty, WithDmg, Server, Free
  <2> HIDE DEF d
  <2>2. Fields(a) /\ a.pending = TRUE /\ a.pendingRect = d.pendingRect /\ Painting(d, a) /\ Moving(d, a)
    BY <1>2, PendingField
  <2> HIDE DEF a
  <2>3. Fields(e) /\ e.pendingFull = TRUE /\ e.pending = a.pending /\ e.pendingRect = a.pendingRect /\ Painting(a, e) /\ Moving(a, e)
    BY <2>2, PendingFullField
  <2> HIDE DEF e
  <2>4. e.pending = TRUE /\ e.pendingRect = d.pendingRect /\ Painting(d, e) /\ Moving(d, e)
    BY Zenon, <2>2, <2>3 DEF Painting, Moving
  <2>5. Harm(e)
    <3>1. e.rect = d.rect /\ e.old = d.old /\ e.new = d.new BY Zenon, <2>4 DEF Painting, Moving
    <3> QED BY <1>2, <2>3, <2>4, <3>1 DEF Harm
  <2>6. Due(e) = Due(d) BY <2>4, DueSame
  <2>7. Postponed(e) = Cells BY Zenon, <2>3, <2>4 DEF Postponed
  <2>8. Still(d) \cup Cells \subseteq Still(e) BY <1>2, <2>6, <2>7 DEF Still
  <2> QED BY Zenon, <1>3, <2>1, <2>4, <2>5, <2>8, WithDmgMarks DEF d
<1>4. CASE Free(s)
  <2> DEFINE a == [d EXCEPT !.dirty = TRUE]
             e == [a EXCEPT !.full = TRUE]
  <2>1. MarkDirty(s) = WithDmg(s, e) BY <1>4 DEF MarkDirty, WithDmg, Server, Free
  <2> HIDE DEF d
  <2>2. Fields(a) /\ a.dirty = TRUE /\ a.rect = d.rect /\ Waiting(d, a) /\ Moving(d, a) BY <1>2, DirtyField
  <2> HIDE DEF a
  <2>3. Fields(e) /\ e.full = TRUE /\ e.dirty = a.dirty /\ e.rect = a.rect /\ Waiting(a, e) /\ Moving(a, e)
    BY <2>2, FullField
  <2> HIDE DEF e
  <2>4. e.dirty = TRUE /\ e.rect = d.rect /\ Waiting(d, e) /\ Moving(d, e)
    BY Zenon, <2>2, <2>3 DEF Waiting, Moving
  <2>5. Harm(e)
    <3>1. e.pendingRect = d.pendingRect /\ e.old = d.old /\ e.new = d.new BY Zenon, <2>4 DEF Waiting, Moving
    <3> QED BY <1>2, <2>3, <2>4, <3>1 DEF Harm
  <2>6. Due(e) = Cells BY Zenon, <2>3, <2>4 DEF Due
  <2>7. Postponed(e) = Postponed(d) BY <2>4, WaitsSame
  <2>8. Due(d) \cup Cells \subseteq Due(e) /\ Still(d) \cup Cells \subseteq Still(e) BY <1>2, <2>6, <2>7 DEF Still
  <2> QED BY Zenon, <2>1, <2>4, <2>5, <2>8, WithDmgMarks DEF d
<1> QED BY <1>3, <1>4

(* What waits becomes due.                                                   *)
LEMMA MergedIs ==
    ASSUME NEW s, Server(s), Harm(s.dmg)
    PROVE  Retold(s, Merged(s)) /\ Painting(s.dmg, Merged(s).dmg) /\ Moving(s.dmg, Merged(s).dmg)
<1> DEFINE d == s.dmg
           a == [d EXCEPT !.pending = FALSE]
           b == [a EXCEPT !.pendingFull = FALSE]
           e == [b EXCEPT !.pendingRect = NoRect]
           t == Merged(s)
<1>1. t = WithDmg(s, e) BY DEF Merged, WithDmg, Server
<1>2. Fields(d) /\ d.rect \subseteq Cells /\ d.old \subseteq Cells /\ d.new \subseteq Cells
  BY DEF Harm
<1> HIDE DEF d
<1>3. Fields(a) /\ Painting(d, a) /\ Moving(d, a) BY <1>2, PendingField
<1> HIDE DEF a
<1>4. Fields(b) /\ Painting(a, b) /\ Moving(a, b) BY <1>3, PendingFullField
<1> HIDE DEF b
<1>5. Fields(e) /\ e.pendingRect = NoRect /\ Painting(b, e) /\ Moving(b, e) BY <1>4, PendingRectField
<1> HIDE DEF e
<1>6. Painting(d, e) /\ Moving(d, e) BY Zenon, <1>3, <1>4, <1>5 DEF Painting, Moving
<1>7. Harm(e)
  <2>1. e.rect = d.rect /\ e.old = d.old /\ e.new = d.new BY Zenon, <1>6 DEF Painting, Moving
  <2> QED BY <1>2, <1>5, <2>1 DEF Harm, NoRect
<1> HIDE DEF t
<1>8. Touched(s, t) /\ t.busy = s.busy /\ t.dmg = e BY <1>1, WithDmgIs
<1>9. Retold(s, t) /\ Painting(s.dmg, t.dmg) /\ Moving(s.dmg, t.dmg) BY Zenon, <1>6, <1>7, <1>8 DEF Retold, d
<1> QED BY <1>9 DEF t

LEMMA MergeIs ==
    ASSUME NEW s, Server(s), Harm(s.dmg)
    PROVE  LET t == MergePending(s) IN
           Retold(s, t) /\ Moving(s.dmg, t.dmg) /\ (Free(s) => Still(s.dmg) \subseteq Due(t.dmg))
<1> DEFINE t == MergePending(s)
           m == IF s.dmg.pendingFull THEN MarkDirty(s) ELSE MarkRect(s, s.dmg.pendingRect)
<1>1. CASE ~s.dmg.pending
  <2>1. t = s BY <1>1 DEF MergePending
  <2>2. Retold(s, s) /\ Moving(s.dmg, s.dmg) BY DEF Retold, Touched, Moving
  <2>3. Postponed(s.dmg) = {} BY Zenon, <1>1 DEF Postponed
  <2>4. Still(s.dmg) \subseteq Due(s.dmg) BY <2>3 DEF Still
  <2> QED BY Zenon, <2>1, <2>2, <2>4
<1>2. CASE s.dmg.pending
  <2>1. t = Merged(m) BY Zenon, <1>2 DEF MergePending
  <2>2. Marked(s, m, Postponed(s.dmg))
    <3>1. CASE s.dmg.pendingFull
      <4>1. m = MarkDirty(s) /\ Postponed(s.dmg) = Cells BY Zenon, <1>2, <3>1 DEF Postponed
      <4>2. Marked(s, MarkDirty(s), Cells) BY DirtyMarks
      <4> QED BY Zenon, <4>1, <4>2
    <3>2. CASE ~s.dmg.pendingFull
      <4> DEFINE r == s.dmg.pendingRect
      <4>1. m = MarkRect(s, r) /\ Postponed(s.dmg) = r BY Zenon, <1>2, <3>2 DEF Postponed
      <4>2. r \in SUBSET Cells BY DEF Harm
      <4> HIDE DEF r
      <4>3. Marked(s, MarkRect(s, r), r) BY <4>2, RectMarks
      <4> QED BY Zenon, <4>1, <4>3
    <3> QED BY <3>1, <3>2
  <2> HIDE DEF m
  <2>3. Server(m) /\ Harm(m.dmg) /\ Retold(s, m) BY Zenon, <2>2 DEF Marked, Retold, Touched
  <2>4. Retold(m, t) /\ Painting(m.dmg, t.dmg) /\ Moving(m.dmg, t.dmg) BY <2>1, <2>3, MergedIs
  <2> HIDE DEF t
  <2>5. Retold(s, t) BY <2>3, <2>4, TouchTwice DEF Retold
  <2>6. Moving(s.dmg, t.dmg) BY Zenon, <2>2, <2>4 DEF Marked, Moving
  <2>7. Due(t.dmg) = Due(m.dmg) BY <2>4, DueSame
  <2>8. Free(s) => Due(s.dmg) \cup Postponed(s.dmg) \subseteq Due(m.dmg) BY <2>2 DEF Marked
  <2>9. Free(s) => Still(s.dmg) \subseteq Due(t.dmg) BY <2>7, <2>8 DEF Still
  <2> QED BY <2>5, <2>6, <2>9 DEF t
<1> QED BY <1>1, <1>2

(* A window is dragged on; nothing has been moved.                           *)
Unmoved(s) == [s EXCEPT !.dmg.moved = FALSE]
LEMMA UnmovedIs ==
    ASSUME NEW s, Server(s), Harm(s.dmg)
    PROVE  LET t == Unmoved(s) IN
           Retold(s, t) /\ t.dmg.moved = FALSE /\ Painting(s.dmg, t.dmg) /\ Waiting(s.dmg, t.dmg)
<1> DEFINE d == s.dmg
           e == [d EXCEPT !.moved = FALSE]
           t == Unmoved(s)
<1>1. t = WithDmg(s, e) BY DEF Unmoved, WithDmg, Server
<1>2. Fields(d) /\ d.rect \subseteq Cells /\ d.pendingRect \subseteq Cells /\ d.old \subseteq Cells /\ d.new \subseteq Cells
  BY DEF Harm
<1> HIDE DEF d
<1>3. Fields(e) /\ e.moved = FALSE /\ e.old = d.old /\ e.new = d.new /\ Painting(d, e) /\ Waiting(d, e) BY <1>2, MovedField
<1> HIDE DEF e
<1>7. Harm(e)
  <2>1. e.rect = d.rect /\ e.pendingRect = d.pendingRect BY Zenon, <1>3 DEF Painting, Waiting
  <2> QED BY <1>2, <1>3, <2>1 DEF Harm
<1> HIDE DEF t
<1>8. Touched(s, t) /\ t.busy = s.busy /\ t.dmg = e BY <1>1, WithDmgIs
<1>9. Retold(s, t) /\ t.dmg.moved = FALSE /\ Painting(s.dmg, t.dmg) /\ Waiting(s.dmg, t.dmg)
  BY Zenon, <1>3, <1>7, <1>8 DEF Retold, d
<1> QED BY <1>9 DEF t

LEMMA FoldIs ==
    ASSUME NEW s, Server(s), Harm(s.dmg), Free(s)
    PROVE  LET t == FoldDrag(s) IN
           /\ Retold(s, t) /\ ~t.dmg.moved /\ Waiting(s.dmg, t.dmg)
           /\ Due(s.dmg) \cup Trail(s.dmg) \subseteq Due(t.dmg)
<1> DEFINE t == FoldDrag(s)
           o == s.dmg.old
           n == s.dmg.new
           a == MarkRect(s, o)
           b == MarkRect(a, n)
<1>1. CASE ~s.dmg.moved
  <2>1. t = s BY Zenon, <1>1 DEF FoldDrag
  <2>2. Retold(s, s) /\ Waiting(s.dmg, s.dmg) BY DEF Retold, Touched, Waiting
  <2>3. Trail(s.dmg) = {} BY Zenon, <1>1 DEF Trail
  <2>4. Due(s.dmg) \cup Trail(s.dmg) \subseteq Due(s.dmg) BY <2>3
  <2> QED BY Zenon, <1>1, <2>1, <2>2, <2>4
<1>2. CASE s.dmg.moved
  <2>1. t = Unmoved(b) BY Zenon, <1>2 DEF FoldDrag, Unmoved
  <2>2. o \in SUBSET Cells /\ n \in SUBSET Cells BY DEF Harm
  <2>3. Trail(s.dmg) = o \cup n BY Zenon, <1>2 DEF Trail
  <2> HIDE DEF o, n
  <2>4. Marked(s, a, o) BY <2>2, RectMarks
  <2> HIDE DEF a
  <2>5. Server(a) /\ Harm(a.dmg) BY Zenon, <2>4 DEF Marked, Retold, Touched
  <2>6. Marked(a, b, n) BY <2>2, <2>5, RectMarks
  <2> HIDE DEF b
  <2>7. Marked(s, b, o \cup n) BY <2>4, <2>6, MarkedTwice
  <2>8. Server(b) /\ Harm(b.dmg) /\ Retold(s, b) BY Zenon, <2>7 DEF Marked, Retold, Touched
  <2>9. Retold(b, t) /\ t.dmg.moved = FALSE /\ Painting(b.dmg, t.dmg) /\ Waiting(b.dmg, t.dmg)
    BY <2>1, <2>8, UnmovedIs
  <2> HIDE DEF t
  <2>10. Retold(s, t) BY <2>8, <2>9, TouchTwice DEF Retold
  <2>11. Waiting(s.dmg, t.dmg) BY Zenon, <2>7, <2>9 DEF Marked, Waiting
  <2>12. Due(t.dmg) = Due(b.dmg) BY <2>9, DueSame
  <2>13. Due(s.dmg) \cup (o \cup n) \subseteq Due(b.dmg) BY <2>7 DEF Marked
  <2> QED BY <2>3, <2>9, <2>10, <2>11, <2>12, <2>13 DEF t
<1> QED BY <1>1, <1>2

(* A dragged window is at a new place.                                       *)
LEMMA MoveIs ==
    ASSUME NEW s, Server(s), Harm(s.dmg), NEW o \in SUBSET Cells, NEW n \in SUBSET Cells
    PROVE  LET t == MarkMove(s, o, n) IN Retold(s, t) /\ Still(s.dmg) \subseteq Still(t.dmg)
<1> DEFINE d == s.dmg
           p == IF d.moved THEN d.old ELSE o
           a == [d EXCEPT !.old = p]
           b == [a EXCEPT !.new = n]
           c == [b EXCEPT !.moved = TRUE]
           e == [c EXCEPT !.dirty = TRUE]
           t == MarkMove(s, o, n)
<1>1. t = WithDmg(s, e) BY DEF MarkMove, WithDmg, Server
<1>2. Fields(d) /\ d.rect \subseteq Cells /\ d.pendingRect \subseteq Cells /\ d.old \subseteq Cells /\ d.new \subseteq Cells
  BY DEF Harm
<1>20. p \subseteq Cells BY <1>2
<1> HIDE DEF d, p
<1>3. Fields(a) /\ a.old = p /\ Painting(d, a) /\ Waiting(d, a) BY <1>2, OldField
<1> HIDE DEF a
<1>4. Fields(b) /\ b.new = n /\ b.old = a.old /\ Painting(a, b) /\ Waiting(a, b) BY <1>3, NewField
<1> HIDE DEF b
<1>5. Fields(c) /\ c.new = b.new /\ c.old = b.old /\ Painting(b, c) /\ Waiting(b, c) BY <1>4, MovedField
<1> HIDE DEF c
<1>6. Fields(e) /\ e.dirty = TRUE /\ e.full = c.full /\ e.rect = c.rect /\ Waiting(c, e) /\ Moving(c, e) BY <1>5, DirtyField
<1> HIDE DEF e
<1>7. e.dirty = TRUE /\ e.full = d.full /\ e.rect = d.rect /\ Waiting(d, e) /\ e.old = p /\ e.new = n
  BY Zenon, <1>3, <1>4, <1>5, <1>6 DEF Painting, Waiting, Moving
<1>8. Harm(e)
  <2>1. e.pendingRect = d.pendingRect BY Zenon, <1>7 DEF Waiting
  <2> QED BY <1>2, <1>20, <1>6, <1>7, <2>1 DEF Harm
<1> HIDE DEF t
<1>9. Touched(s, t) /\ t.busy = s.busy /\ t.dmg = e BY <1>1, WithDmgIs
<1>10. Due(d) \subseteq Due(e) BY <1>7 DEF Due
<1>11. Postponed(e) = Postponed(d) BY <1>7, WaitsSame
<1>12. Still(d) \subseteq Still(e) BY <1>10, <1>11 DEF Still
<1>13. Retold(s, t) /\ Still(s.dmg) \subseteq Still(t.dmg) BY Zenon, <1>8, <1>9, <1>12 DEF Retold, d
<1> QED BY <1>13 DEF t

-----------------------------------------------------------------------------
(* Window w is worked on. The others keep their places, those kept on top    *)
(* stay above the rest, and what is at the bottom stays there.               *)
Others(s, w) == Visible(s) \ {w}
Low(s) == \A v \in Used(s) : s.win[v].kind.bottom /\ ~s.win[v].kind.topmost => s.win[v].z = 0
Ready(s, w) == Whole(s) /\ Harm(s.dmg) /\ Low(s) /\ Settled(HeightOf(s), OnTop(s), Others(s, w))
Shifts(s, t, w) ==
    /\ \A v \in Slots : /\ t.win[v].used = s.win[v].used /\ t.win[v].kind = s.win[v].kind
                        /\ v # w => t.win[v].visible = s.win[v].visible /\ t.win[v].frame = s.win[v].frame
    /\ SameOrder(HeightOf(s), HeightOf(t), Others(s, w))
Grows(s, t) == t.busy = s.busy /\ Still(s.dmg) \subseteq Still(t.dmg)
Reach(s, t, w) == Ready(t, w) /\ Shifts(s, t, w) /\ Grows(s, t) /\ Moving(s.dmg, t.dmg) /\ t.drag = s.drag

LEMMA ShiftsSets ==
    ASSUME NEW s, NEW t, NEW w, Shifts(s, t, w)
    PROVE  Used(t) = Used(s) /\ Others(t, w) = Others(s, w) /\ OnTop(t) = OnTop(s)
<1>1. \A v \in Slots : (v \in Used(t) <=> v \in Used(s)) /\ (v \in OnTop(t) <=> v \in OnTop(s))
  BY Zenon DEF Shifts, Used, OnTop
<1>2. \A v \in Slots : v # w => (v \in Visible(t) <=> v \in Visible(s)) BY Zenon DEF Shifts, Visible, Used
<1>3. \A r : Used(r) \subseteq Slots /\ OnTop(r) \subseteq Slots /\ Visible(r) \subseteq Slots BY DEF Used, OnTop, Visible
<1> QED BY <1>1, <1>2, <1>3 DEF Others

LEMMA OrderTwice ==
    ASSUME NEW h, NEW g, NEW k, NEW W, SameOrder(h, g, W), SameOrder(g, k, W)
    PROVE  SameOrder(h, k, W)
BY Zenon DEF SameOrder

LEMMA ShiftsTwice ==
    ASSUME NEW s, NEW t, NEW u, NEW w, Shifts(s, t, w), Shifts(t, u, w)
    PROVE  Shifts(s, u, w)
<1>1. Others(t, w) = Others(s, w) BY ShiftsSets
<1>2. SameOrder(HeightOf(s), HeightOf(u), Others(s, w)) BY <1>1, OrderTwice DEF Shifts
<1>3. \A v \in Slots : /\ u.win[v].used = s.win[v].used /\ u.win[v].kind = s.win[v].kind
                       /\ v # w => u.win[v].visible = s.win[v].visible /\ u.win[v].frame = s.win[v].frame
  BY Zenon DEF Shifts
<1> QED BY Zenon, <1>2, <1>3 DEF Shifts

LEMMA ReachTwice ==
    ASSUME NEW s, NEW t, NEW u, NEW w, Reach(s, t, w), Reach(t, u, w)
    PROVE  Reach(s, u, w)
<1>1. Shifts(s, u, w) BY ShiftsTwice DEF Reach
<1>2. Grows(s, u) BY DEF Reach, Grows
<1>3. Moving(s.dmg, u.dmg) BY Zenon DEF Reach, Moving
<1> QED BY Zenon, <1>1, <1>2, <1>3 DEF Reach

LEMMA OrderSame == ASSUME NEW h, NEW W PROVE SameOrder(h, h, W)
BY Zenon DEF SameOrder

(* Where a window is and whether it is shown is written, or who has the      *)
(* focus; no height is.                                                      *)
LEMMA SetReaches ==
    ASSUME NEW s, NEW w, Ready(s, w), NEW t, Whole(t), t.drag = s.drag, t.busy = s.busy, t.dmg = s.dmg,
           \A v \in Slots : /\ t.win[v].used = s.win[v].used /\ t.win[v].kind = s.win[v].kind
                            /\ t.win[v].z = s.win[v].z
                            /\ v # w => t.win[v].visible = s.win[v].visible /\ t.win[v].frame = s.win[v].frame
    PROVE  Reach(s, t, w) /\ HeightOf(t) = HeightOf(s)
<1>1. HeightOf(t) = HeightOf(s) BY Zenon DEF HeightOf
<1>2. Shifts(s, t, w) BY Zenon, <1>1, OrderSame DEF Shifts
<1>3. Used(t) = Used(s) /\ Others(t, w) = Others(s, w) /\ OnTop(t) = OnTop(s) BY <1>2, ShiftsSets
<1>4. Low(t)
  <2>1. Used(s) \subseteq Slots BY DEF Used
  <2>2. Low(s) BY DEF Ready
  <2> QED BY Zenon, <1>3, <2>1, <2>2 DEF Low
<1>5. Ready(t, w) BY Zenon, <1>1, <1>3, <1>4 DEF Ready
<1>6. Grows(s, t) /\ Moving(s.dmg, t.dmg) BY DEF Grows, Moving
<1> QED BY Zenon, <1>1, <1>2, <1>5, <1>6 DEF Reach

LEMMA NoneReaches == ASSUME NEW s, NEW w, Ready(s, w) PROVE Reach(s, s, w)
BY SetReaches DEF Ready

(* Only the damage is written.                                               *)
LEMMA SameReaches ==
    ASSUME NEW s, NEW w, Ready(s, w), NEW t, Retold(s, t)
    PROVE  Ready(t, w) /\ Shifts(s, t, w) /\ t.drag = s.drag /\ HeightOf(t) = HeightOf(s) /\ t.win = s.win
<1>1. t.win = s.win /\ t.drag = s.drag /\ Whole(t) /\ Harm(t.dmg) BY DEF Retold, Touched, Ready, Whole
<1>2. HeightOf(t) = HeightOf(s) BY Zenon, <1>1 DEF HeightOf
<1>3. Shifts(s, t, w) BY Zenon, <1>1, <1>2, OrderSame DEF Shifts
<1>4. Used(t) = Used(s) /\ Others(t, w) = Others(s, w) /\ OnTop(t) = OnTop(s) BY <1>3, ShiftsSets
<1>5. Low(t) BY Zenon, <1>1, <1>4 DEF Low, Ready
<1> QED BY Zenon, <1>1, <1>2, <1>3, <1>4, <1>5 DEF Ready

LEMMA MarkReaches ==
    ASSUME NEW s, NEW w, Ready(s, w), NEW t, NEW X, Marked(s, t, X)
    PROVE  Reach(s, t, w) /\ HeightOf(t) = HeightOf(s) /\ t.win = s.win /\ X \subseteq Still(t.dmg)
<1>1. Retold(s, t) /\ Moving(s.dmg, t.dmg) BY DEF Marked
<1>2. Ready(t, w) /\ Shifts(s, t, w) /\ t.drag = s.drag /\ HeightOf(t) = HeightOf(s) /\ t.win = s.win BY <1>1, SameReaches
<1>3. Grows(s, t) /\ X \subseteq Still(t.dmg) BY DEF Grows, Marked, Retold
<1> QED BY Zenon, <1>1, <1>2, <1>3 DEF Reach

(* Heights are written.                                                      *)
LEMMA LiftShifts ==
    ASSUME NEW s, NEW t, Lifts(s, t), NEW w, SameOrder(HeightOf(s), HeightOf(t), Others(s, w))
    PROVE  Shifts(s, t, w) /\ Grows(s, t) /\ Moving(s.dmg, t.dmg) /\ t.drag = s.drag /\ Whole(t) /\ t.dmg = s.dmg
<1>1. \A v \in Slots : Alike(s.win[v], t.win[v]) /\ t.win[v].frame = s.win[v].frame BY DEF Lifts, Stays
<1>2. Shifts(s, t, w) BY Zenon, <1>1 DEF Shifts, Alike
<1>3. t.dmg = s.dmg /\ t.busy = s.busy /\ Whole(t) /\ t.drag = s.drag BY DEF Lifts, Stays
<1> QED BY <1>2, <1>3 DEF Grows, Moving

LEMMA TopmostReaches ==
    ASSUME NEW s, NEW w, Ready(s, w)
    PROVE  LET t == RaiseTopmost(s) IN
           /\ Reach(s, t, w) /\ Lifts(s, t)
           /\ \A W \in SUBSET Visible(s) : Settled(HeightOf(s), OnTop(s), W) => Settled(HeightOf(t), OnTop(t), W)
           /\ (w \in OnTop(s) \/ HeightOf(s)[w] = 0 \/ \A u \in Used(s) : u # w => HeightOf(s)[u] < HeightOf(s)[w])
              => Settled(HeightOf(t), OnTop(t), Visible(t))
<1> DEFINE t == RaiseTopmost(s)
           h == HeightOf(s)
           g == HeightOf(t)
           T == OnTop(s)
           U == Used(s)
           V == Visible(s)
<1>1. Whole(s) BY DEF Ready
<1>2. Lifts(s, t) /\ Lifted(h, g, U, T \cap V, WM_MAX_WINDOWS) BY <1>1, TopmostLifts
<1>3. Used(t) = U /\ Visible(t) = V /\ OnTop(t) = T BY <1>2, LiftsSets
<1>4. h \in [Slots -> Nat] BY <1>1, HeightIs
<1>5. U \subseteq Slots /\ V \subseteq U /\ Others(s, w) = V \ {w} /\ T \subseteq Slots BY DEF Used, Visible, Others, OnTop
<1>6. Settled(h, T, V \ {w}) /\ Low(s) /\ Harm(s.dmg) BY <1>5 DEF Ready
<1>7. \A v \in Slots : h[v] = s.win[v].z /\ g[v] = t.win[v].z BY DEF HeightOf
<1>8. \A v \in Slots : t.win[v].kind = s.win[v].kind BY Zenon, <1>2 DEF Lifts, Stays, Alike
<1>80. \A v \in Slots : v \in T <=> s.win[v].kind.topmost BY DEF OnTop
<1> HIDE DEF t, h, g, T, U, V
<1>9. \A W \in SUBSET V : Settled(h, T, W) => Settled(g, T, W) BY <1>2, <1>4, <1>5, LiftedSettles
<1>10. SameOrder(h, g, Others(s, w)) /\ Settled(g, T, Others(t, w))
  <2>1. V \ {w} \subseteq V OBVIOUS
  <2>2. SameOrder(h, g, V \ {w}) /\ Settled(g, T, V \ {w}) BY <1>2, <1>4, <1>5, <1>6, <2>1, LiftedSettles
  <2>3. Others(t, w) = V \ {w} BY <1>3 DEF Others
  <2> QED BY <1>5, <2>2, <2>3
<1>11. Low(t)
  <2> SUFFICES ASSUME NEW v \in Used(t), t.win[v].kind.bottom, ~t.win[v].kind.topmost PROVE t.win[v].z = 0
    BY DEF Low
  <2>1. v \in Slots /\ v \in U BY <1>3, <1>5
  <2>2. s.win[v].kind.bottom /\ ~s.win[v].kind.topmost BY Zenon, <1>8, <2>1
  <2>3. s.win[v].z = 0 BY Zenon, <1>6, <2>1, <2>2 DEF Low, U
  <2>4. v \notin T BY Zenon, <1>80, <2>1, <2>2
  <2>5. g[v] = h[v] BY <1>2, <2>1, <2>4 DEF Lifted
  <2> QED BY Zenon, <1>7, <2>1, <2>3, <2>5
<1>12. Shifts(s, t, w) /\ Grows(s, t) /\ Moving(s.dmg, t.dmg) /\ t.drag = s.drag /\ Whole(t) /\ t.dmg = s.dmg
  BY <1>2, <1>10, LiftShifts DEF h, g
<1>13. Ready(t, w) BY Zenon, <1>3, <1>6, <1>10, <1>11, <1>12 DEF Ready, g
<1>14. (w \in T \/ h[w] = 0 \/ \A u \in U : u # w => h[u] < h[w]) => Settled(g, T, V)
  BY <1>2, <1>4, <1>5, <1>6, LiftedSettlesAll
<1>15. Reach(s, t, w) BY Zenon, <1>12, <1>13 DEF Reach
<1> QED BY Zenon, <1>2, <1>3, <1>9, <1>14, <1>15 DEF t, h, g, T, U, V

(* A window is raised above all; one at the bottom is not.                   *)
LEMMA AboveReaches ==
    ASSUME NEW s, NEW w \in Used(s), Ready(s, w)
    PROVE  LET t == RaiseAbove(s, w) IN
           /\ Reach(s, t, w) /\ Lifts(s, t)
           /\ w \in OnTop(t) \/ HeightOf(t)[w] = 0 \/ \A u \in Used(t) : u # w => HeightOf(t)[u] < HeightOf(t)[w]
<1> DEFINE t == RaiseAbove(s, w)
           h == HeightOf(s)
           g == HeightOf(t)
<1>0. w \in Slots /\ Whole(s) /\ Low(s) /\ Harm(s.dmg) BY DEF Ready, Used
<1>1. CASE s.win[w].kind.bottom
  <2>1. t = s BY Zenon, <1>1 DEF RaiseAbove, If
  <2>2. Reach(s, s, w) /\ Lifts(s, s) BY <1>0, NoneReaches, LiftsNone
  <2>3. w \in OnTop(s) \/ HeightOf(s)[w] = 0
    <3>1. HeightOf(s)[w] = s.win[w].z BY <1>0 DEF HeightOf
    <3> QED BY Zenon, <1>0, <1>1, <3>1 DEF Low, OnTop
  <2> QED BY Zenon, <2>1, <2>2, <2>3
<1>2. CASE ~s.win[w].kind.bottom
  <2>1. t = Raise(s, w) BY Zenon, <1>2 DEF RaiseAbove, If
  <2>2. Lifts(s, t) BY <1>0, <2>1, RaiseLifts
  <2>3. PICK n \in Nat : g = [h EXCEPT ![w] = n] /\ \A u \in Used(s) : h[u] < n BY <1>0, <2>1, RaiseLifts
  <2>4. h \in [Slots -> Nat] BY <1>0, HeightIs
  <2>5. Used(t) = Used(s) /\ Visible(t) = Visible(s) /\ OnTop(t) = OnTop(s) BY <2>2, LiftsSets
  <2>6. \A v \in Slots : h[v] = s.win[v].z /\ g[v] = t.win[v].z BY DEF HeightOf
  <2>7. \A v \in Slots : t.win[v].kind = s.win[v].kind BY Zenon, <2>2 DEF Lifts, Stays, Alike
  <2>8. Settled(h, OnTop(s), Others(s, w)) BY DEF Ready
  <2>9. Used(s) \subseteq Slots /\ Others(s, w) \subseteq Used(s) \ {w} BY DEF Used, Others, Visible
  <2> HIDE DEF t, h, g
  <2>10. g[w] = n /\ \A v \in Slots : v # w => g[v] = h[v] BY <1>0, <2>3, <2>4
  <2>11. \A v \in Others(s, w) : g[v] = h[v] BY <2>9, <2>10
  <2>12. SameOrder(h, g, Others(s, w)) BY Zenon, <2>11 DEF SameOrder, Precedes
  <2>13. Settled(g, OnTop(t), Others(t, w))
    <3>1. Others(t, w) = Others(s, w) BY <2>5 DEF Others
    <3>2. Settled(g, OnTop(s), Others(s, w)) BY Zenon, <2>8, <2>11 DEF Settled
    <3> QED BY <2>5, <3>1, <3>2
  <2>14. Low(t)
    <3> SUFFICES ASSUME NEW v \in Used(t), t.win[v].kind.bottom, ~t.win[v].kind.topmost PROVE t.win[v].z = 0
      BY DEF Low
    <3>1. v \in Slots /\ v \in Used(s) BY <2>5, <2>9
    <3>2. s.win[v].kind.bottom /\ ~s.win[v].kind.topmost BY Zenon, <2>7, <3>1
    <3>3. v # w BY <1>2, <3>2
    <3> QED BY Zenon, <1>0, <2>6, <2>10, <3>1, <3>2, <3>3 DEF Low
  <2>15. Shifts(s, t, w) /\ Grows(s, t) /\ Moving(s.dmg, t.dmg) /\ t.drag = s.drag /\ Whole(t) /\ t.dmg = s.dmg
    BY <2>2, <2>12, LiftShifts DEF h, g
  <2>16. Ready(t, w) BY Zenon, <1>0, <2>13, <2>14, <2>15 DEF Ready, g
  <2>17. Reach(s, t, w) BY Zenon, <2>15, <2>16 DEF Reach
  <2>18. \A u \in Used(t) : u # w => g[u] < g[w] BY <2>3, <2>5, <2>9, <2>10
  <2> QED BY Zenon, <2>2, <2>17, <2>18 DEF t, g
<1> QED BY <1>1, <1>2

-----------------------------------------------------------------------------
(* The routines. All windows that are shown are in their order.              *)
Fit(s) == Settled(HeightOf(s), OnTop(s), Visible(s))
Sets(t, w, v, f) == t.win[w].visible = v /\ t.win[w].frame = f

LEMMA WinSame ==
    ASSUME NEW s, NEW t, t.win = s.win
    PROVE  /\ HeightOf(t) = HeightOf(s) /\ OnTop(t) = OnTop(s) /\ Visible(t) = Visible(s) /\ Used(t) = Used(s)
           /\ Fit(s) => Fit(t)
<1>1. HeightOf(t) = HeightOf(s) /\ OnTop(t) = OnTop(s) /\ Used(t) = Used(s) BY Zenon DEF HeightOf, OnTop, Used
<1>2. Visible(t) = Visible(s) BY Zenon, <1>1 DEF Visible
<1> QED BY Zenon, <1>1, <1>2 DEF Fit

LEMMA LiftsSet ==
    ASSUME NEW s, NEW t, Lifts(s, t), NEW w \in Slots, NEW v, NEW f, Sets(s, w, v, f)
    PROVE  Sets(t, w, v, f)
<1>1. Alike(s.win[w], t.win[w]) /\ t.win[w].frame = s.win[w].frame BY DEF Lifts, Stays
<1> QED BY Zenon, <1>1 DEF Sets, Alike

LEMMA HiddenFits == ASSUME NEW s, NEW w, Ready(s, w), w \notin Visible(s) PROVE Fit(s)
<1>1. Others(s, w) = Visible(s) BY DEF Others
<1> QED BY <1>1 DEF Ready, Fit

LEMMA FitReady ==
    ASSUME NEW s, NEW w, Whole(s), Harm(s.dmg), Low(s), Fit(s)
    PROVE  Ready(s, w)
<1>1. Others(s, w) \subseteq Visible(s) BY DEF Others
<1>2. Settled(HeightOf(s), OnTop(s), Others(s, w)) BY Zenon, <1>1 DEF Fit, Settled
<1> QED BY <1>2 DEF Ready

LEMMA PlaceReaches ==
    ASSUME NEW s, NEW w \in Slots, Ready(s, w), NEW v, NEW f
    PROVE  LET t == KeepFocus(Placed(s, w, v, f), w) IN
           Reach(s, t, w) /\ HeightOf(t) = HeightOf(s) /\ Sets(t, w, v, f)
<1> DEFINE p == Placed(s, w, v, f)
           u == DropDrawnFocus(p, w)
           n == WithFocus(u, None)
           t == KeepFocus(p, w)
<1>1. t = p \/ t = u \/ t = n BY Zenon DEF KeepFocus, DropFocus, DropDrawnFocus, WithFocus, If
<1>2. Whole(s) BY DEF Ready
<1>3. /\ Whole(p) /\ p.drag = s.drag
      /\ p.busy = s.busy /\ p.dmg = s.dmg /\ p.win[w].visible = v /\ p.win[w].frame = f
      /\ \A x \in Slots : /\ p.win[x].used = s.win[x].used /\ p.win[x].kind = s.win[x].kind
                          /\ p.win[x].z = s.win[x].z
                          /\ x # w => p.win[x].visible = s.win[x].visible /\ p.win[x].frame = s.win[x].frame
  BY <1>2, PlacedIs
<1> HIDE DEF p
<1>4. /\ Whole(u) /\ u.focus = p.focus /\ u.drag = p.drag
      /\ u.busy = p.busy /\ u.dmg = p.dmg /\ u.win[w].focused = FALSE
      /\ \A x \in Slots : /\ u.win[x].used = p.win[x].used /\ u.win[x].kind = p.win[x].kind
                          /\ u.win[x].visible = p.win[x].visible
                          /\ u.win[x].frame = p.win[x].frame /\ u.win[x].z = p.win[x].z
                          /\ x # w => u.win[x].focused = p.win[x].focused
  BY <1>3, UndrawnIs
<1> HIDE DEF u
<1>5. Whole(n) /\ n.win = u.win /\ n.drag = u.drag /\ n.busy = u.busy /\ n.dmg = u.dmg BY <1>4, FieldsWritten DEF Whole
<1> HIDE DEF n
<1>6. /\ Whole(t) /\ t.drag = s.drag /\ t.busy = s.busy /\ t.dmg = s.dmg
      /\ \A x \in Slots : /\ t.win[x].used = p.win[x].used /\ t.win[x].kind = p.win[x].kind
                          /\ t.win[x].visible = p.win[x].visible
                          /\ t.win[x].frame = p.win[x].frame /\ t.win[x].z = p.win[x].z
  <2> HIDE DEF t
  <2>1. CASE t = p BY Zenon, <1>3, <2>1
  <2>2. CASE t = u BY Zenon, <1>3, <1>4, <2>2
  <2>3. CASE t = n
    <3>1. t.win = u.win BY Zenon, <1>5, <2>3
    <3>2. Whole(t) /\ t.drag = s.drag /\ t.busy = s.busy /\ t.dmg = s.dmg BY Zenon, <1>3, <1>4, <1>5, <2>3
    <3> QED BY Zenon, <1>4, <3>1, <3>2
  <2> QED BY Zenon, <1>1, <2>1, <2>2, <2>3
<1> HIDE DEF t
<1>7. /\ \A x \in Slots : /\ t.win[x].used = s.win[x].used /\ t.win[x].kind = s.win[x].kind
                          /\ t.win[x].z = s.win[x].z
                          /\ x # w => t.win[x].visible = s.win[x].visible /\ t.win[x].frame = s.win[x].frame
      /\ t.win[w].visible = v /\ t.win[w].frame = f
  BY Zenon, <1>3, <1>6
<1>8. Reach(s, t, w) /\ HeightOf(t) = HeightOf(s) BY <1>6, <1>7, SetReaches
<1> QED BY <1>7, <1>8 DEF t, p, Sets

LEMMA AfterReaches ==
    ASSUME NEW s, NEW w \in Slots, Ready(s, w)
    PROVE  LET t == AfterTopmost(s, w) IN
           Reach(s, t, w) /\ Lifts(s, t) /\ (Fit(s) \/ w \in OnTop(s) => Fit(t))
<1> DEFINE t == AfterTopmost(s, w)
           r == RaiseTopmost(s)
<1>1. t = IF s.win[w].kind.topmost THEN r ELSE s BY Zenon DEF AfterTopmost, If
<1>2. /\ Reach(s, r, w) /\ Lifts(s, r)
      /\ \A W \in SUBSET Visible(s) : Settled(HeightOf(s), OnTop(s), W) => Settled(HeightOf(r), OnTop(r), W)
      /\ w \in OnTop(s) => Settled(HeightOf(r), OnTop(r), Visible(r))
  BY TopmostReaches
<1> HIDE DEF r
<1>3. Visible(r) = Visible(s) BY <1>2, LiftsSets
<1>4. Fit(s) => Fit(r)
  <2>1. Visible(s) \in SUBSET Visible(s) OBVIOUS
  <2> QED BY Zenon, <1>2, <1>3, <2>1 DEF Fit
<1>5. w \in OnTop(s) => Fit(r) BY <1>2 DEF Fit
<1>6. Reach(s, s, w) /\ Lifts(s, s) BY NoneReaches, LiftsNone DEF Ready
<1>7. w \in OnTop(s) <=> s.win[w].kind.topmost BY DEF OnTop
<1> HIDE DEF t
<1>8. CASE s.win[w].kind.topmost
  <2>1. t = r BY Zenon, <1>1, <1>8
  <2>2. Reach(s, t, w) /\ Lifts(s, t) /\ (Fit(s) \/ w \in OnTop(s) => Fit(t)) BY Zenon, <1>2, <1>4, <1>5, <2>1
  <2> QED BY <2>2 DEF t
<1>9. CASE ~s.win[w].kind.topmost
  <2>1. t = s BY Zenon, <1>1, <1>9
  <2>2. Reach(s, t, w) /\ Lifts(s, t) /\ (Fit(s) \/ w \in OnTop(s) => Fit(t)) BY Zenon, <1>6, <1>7, <1>9, <2>1
  <2> QED BY <2>2 DEF t
<1> QED BY <1>8, <1>9

LEMMA ShowReaches ==
    ASSUME NEW s, NEW w \in Used(s), Ready(s, w)
    PROVE  LET t == RaiseTopmost(RaiseAbove(s, w)) IN Reach(s, t, w) /\ Lifts(s, t) /\ Fit(t)
<1> DEFINE a == RaiseAbove(s, w)
           t == RaiseTopmost(a)
<1>1. /\ Reach(s, a, w) /\ Lifts(s, a)
      /\ w \in OnTop(a) \/ HeightOf(a)[w] = 0 \/ \A u \in Used(a) : u # w => HeightOf(a)[u] < HeightOf(a)[w]
  BY AboveReaches
<1> HIDE DEF a
<1>2. Ready(a, w) BY <1>1 DEF Reach
<1>3. Reach(a, t, w) /\ Lifts(a, t) /\ Settled(HeightOf(t), OnTop(t), Visible(t)) BY <1>1, <1>2, TopmostReaches
<1> HIDE DEF t
<1>4. Reach(s, t, w) /\ Lifts(s, t) BY <1>1, <1>3, ReachTwice, LiftsTwice
<1> QED BY <1>3, <1>4 DEF Fit, t, a

LEMMA StillGoesOn ==
    ASSUME NEW s, NEW t, NEW w, Reach(s, t, w), NEW X, X \subseteq Still(s.dmg)
    PROVE  X \subseteq Still(t.dmg)
BY DEF Reach, Grows

(* A rectangle is told of while w is worked on.                              *)
LEMMA RectReaches ==
    ASSUME NEW s, NEW w, Ready(s, w), NEW r \in SUBSET Cells
    PROVE  LET t == MarkRect(s, r) IN
           Reach(s, t, w) /\ HeightOf(t) = HeightOf(s) /\ t.win = s.win /\ r \subseteq Still(t.dmg)
<1>1. Server(s) /\ Harm(s.dmg) BY DEF Ready, Whole
<1>2. Marked(s, MarkRect(s, r), r) BY <1>1, RectMarks
<1> QED BY <1>2, MarkReaches

LEMMA ApplyReaches ==
    ASSUME NEW s, NEW w \in Used(s), Ready(s, w), NEW v, NEW f
    PROVE  LET t == ApplyOpts(s, w, v, f) IN
           /\ Reach(s, t, w) /\ Sets(t, w, v, f)
           /\ Rect(s.win[w].frame) \cup Rect(f) \subseteq Still(t.dmg)
           /\ (Fit(s) => Fit(t))
<1> DEFINE o == Rect(s.win[w].frame)
           n == Rect(f)
           k == KeepFocus(Placed(s, w, v, f), w)
           b == MarkRect(k, o)
           d == MarkRect(b, n)
           a == AfterTopmost(d, w)
           r == RaiseTopmost(RaiseAbove(a, w))
           q == MarkRect(r, n)
           t == ApplyOpts(s, w, v, f)
<1>0. o \in SUBSET Cells /\ n \in SUBSET Cells /\ w \in Slots BY RectOn DEF Used
<1>1. t = IF v /\ ~s.win[w].visible THEN q ELSE a BY Zenon DEF ApplyOpts
<1>2. Reach(s, k, w) /\ HeightOf(k) = HeightOf(s) /\ Sets(k, w, v, f) BY <1>0, PlaceReaches
<1> HIDE DEF k, o, n
<1>3. Ready(k, w) BY <1>2 DEF Reach
<1>4. Reach(k, b, w) /\ HeightOf(b) = HeightOf(k) /\ b.win = k.win /\ o \subseteq Still(b.dmg)
  BY <1>0, <1>3, RectReaches
<1> HIDE DEF b
<1>5. Ready(b, w) BY <1>4 DEF Reach
<1>6. Reach(b, d, w) /\ HeightOf(d) = HeightOf(b) /\ d.win = b.win /\ n \subseteq Still(d.dmg)
  BY <1>0, <1>5, RectReaches
<1> HIDE DEF d
<1>7. Ready(d, w) /\ o \cup n \subseteq Still(d.dmg) BY <1>4, <1>6, StillGoesOn DEF Reach
<1>8. Reach(d, a, w) /\ Lifts(d, a) /\ (Fit(d) => Fit(a)) BY <1>0, <1>7, AfterReaches
<1> HIDE DEF a
<1>9. Reach(s, d, w) BY <1>2, <1>4, <1>6, ReachTwice
<1>10. Reach(s, a, w) BY <1>8, <1>9, ReachTwice
<1>11. Sets(d, w, v, f) BY Zenon, <1>2, <1>4, <1>6 DEF Sets
<1>12. Sets(a, w, v, f) /\ o \cup n \subseteq Still(a.dmg) BY <1>0, <1>7, <1>8, <1>11, LiftsSet, StillGoesOn
<1>13. Ready(a, w) /\ w \in Used(a)
  <2>1. Shifts(s, a, w) BY <1>10 DEF Reach
  <2>2. Used(a) = Used(s) BY <2>1, ShiftsSets
  <2> QED BY <1>10, <2>2 DEF Reach
<1>14. CASE v /\ ~s.win[w].visible
  <2>1. t = q BY Zenon, <1>1, <1>14
  <2>2. Reach(a, r, w) /\ Lifts(a, r) /\ Fit(r) BY <1>13, ShowReaches
  <2> HIDE DEF r
  <2>3. Ready(r, w) BY <2>2 DEF Reach
  <2>4. Reach(r, q, w) /\ q.win = r.win BY <1>0, <2>3, RectReaches
  <2> HIDE DEF q
  <2>5. Fit(q) BY Zenon, <2>2, <2>4, WinSame
  <2>6. Sets(r, w, v, f) BY <1>0, <1>12, <2>2, LiftsSet
  <2>7. Sets(q, w, v, f) BY Zenon, <2>4, <2>6 DEF Sets
  <2>8. o \cup n \subseteq Still(q.dmg) BY <1>12, <2>2, <2>4, StillGoesOn
  <2>9. Reach(s, q, w) BY <1>10, <2>2, <2>4, ReachTwice
  <2> QED BY Zenon, <2>1, <2>5, <2>7, <2>8, <2>9 DEF o, n
<1>15. CASE ~(v /\ ~s.win[w].visible)
  <2>1. t = a BY Zenon, <1>1, <1>15
  <2>2. ASSUME Fit(s) PROVE Fit(d)
    <3>1. CASE w \notin Visible(d) BY <1>7, <3>1, HiddenFits
    <3>2. CASE w \in Visible(d)
      <4>1. Shifts(s, d, w) BY <1>9 DEF Reach
      <4>2. Used(d) = Used(s) /\ Others(d, w) = Others(s, w) /\ OnTop(d) = OnTop(s) BY <4>1, ShiftsSets
      <4>3. v BY Zenon, <1>11, <3>2 DEF Visible, Sets
      <4>4. w \in Visible(s) BY Zenon, <1>15, <4>3 DEF Visible
      <4>5. Visible(d) = Visible(s) BY <3>2, <4>2, <4>4 DEF Others
      <4> QED BY Zenon, <1>2, <1>4, <1>6, <2>2, <4>2, <4>5 DEF Fit
    <3> QED BY <3>1, <3>2
  <2> QED BY Zenon, <1>8, <1>10, <1>12, <2>1, <2>2 DEF o, n
<1> QED BY <1>14, <1>15

LEMMA FocusReaches ==
    ASSUME NEW s, NEW w \in Used(s), Ready(s, w), s.win[w].kind.accept
    PROVE  LET t == FocusOn(s, w) IN
           Reach(s, t, w) /\ t.win[w].frame = s.win[w].frame /\ Rect(s.win[w].frame) \subseteq Still(t.dmg) /\ Fit(t)
<1> DEFINE f == s.win[w].frame
           n == Rect(f)
           a == ApplyOpts(s, w, TRUE, f)
           h == Shown(s, w)
           d == DrawFocus(h, w)
           r == RaiseTopmost(RaiseAbove(d, w))
           t == FocusOn(s, w)
<1>0. n \in SUBSET Cells /\ w \in Slots BY RectOn DEF Used
<1>1. t = MarkRect(r, n) BY Zenon DEF FocusOn, If
<1>2. h = s \/ h = a BY Zenon DEF Shown, If
<1> HIDE DEF f
<1>3. Reach(s, a, w) /\ Sets(a, w, TRUE, f) BY ApplyReaches
<1> HIDE DEF a, n
<1>4. Reach(s, h, w) /\ h.win[w].frame = f
  <2>1. Reach(s, s, w) BY NoneReaches
  <2> HIDE DEF h
  <2> QED BY Zenon, <1>2, <1>3, <2>1 DEF Sets, f
<1> HIDE DEF h
<1>5. Ready(h, w) /\ Whole(h) BY <1>4 DEF Reach, Ready
<1>6. /\ Whole(d) /\ d.drag = h.drag /\ d.busy = h.busy /\ d.dmg = h.dmg
      /\ \A x \in Slots : /\ d.win[x].used = h.win[x].used /\ d.win[x].kind = h.win[x].kind
                          /\ d.win[x].visible = h.win[x].visible
                          /\ d.win[x].frame = h.win[x].frame /\ d.win[x].z = h.win[x].z
  BY <1>5, DrawFocusIs
<1> HIDE DEF d
<1>7. Reach(h, d, w) BY <1>5, <1>6, SetReaches
<1>8. Reach(s, d, w) /\ d.win[w].frame = f BY <1>0, <1>4, <1>6, <1>7, ReachTwice
<1>9. Ready(d, w) /\ w \in Used(d)
  <2>1. Shifts(s, d, w) BY <1>8 DEF Reach
  <2>2. Used(d) = Used(s) BY <2>1, ShiftsSets
  <2> QED BY <1>8, <2>2 DEF Reach
<1>10. Reach(d, r, w) /\ Lifts(d, r) /\ Fit(r) BY <1>9, ShowReaches
<1> HIDE DEF r
<1>11. r.win[w].frame = f BY <1>0, <1>8, <1>10 DEF Lifts
<1>12. Ready(r, w) BY <1>10 DEF Reach
<1>13. Reach(r, t, w) /\ t.win = r.win /\ n \subseteq Still(t.dmg) BY <1>0, <1>1, <1>12, RectReaches
<1> HIDE DEF t
<1>14. Fit(t) BY Zenon, <1>10, <1>13, WinSame
<1>15. Reach(s, t, w) BY <1>8, <1>10, <1>13, ReachTwice
<1> QED BY Zenon, <1>11, <1>13, <1>14, <1>15 DEF f, n, t

(* A window is moved; one that is dragged is told of otherwise.              *)
LEMMA MoveReaches ==
    ASSUME NEW s, NEW w \in Slots, Ready(s, w), NEW f, s.win[w].frame # f
    PROVE  LET t == MoveTo(s, w, f) IN
           /\ Ready(t, w) /\ Shifts(s, t, w) /\ Grows(s, t) /\ t.drag = s.drag
           /\ t.win[w].frame = f /\ (Fit(s) => Fit(t))
           /\ s.drag # w => Rect(s.win[w].frame) \cup Rect(f) \subseteq Still(t.dmg)
<1> DEFINE o == Rect(s.win[w].frame)
           n == Rect(f)
           x == [s EXCEPT !.win[w].frame = f]
           b == MarkRect(x, o)
           t == MoveTo(s, w, f)
<1>0. o \in SUBSET Cells /\ n \in SUBSET Cells /\ Whole(s) BY RectOn DEF Ready
<1>1. t = IF s.drag = w THEN MarkMove(x, o, n) ELSE MarkRect(b, n) BY Zenon DEF MoveTo
<1>20. x = Framed(s, w, f) BY DEF Framed
<1> HIDE DEF x
<1>2. /\ Stays(s, x) /\ x.busy = s.busy /\ x.dmg = s.dmg /\ x.win[w].frame = f
      /\ \A v \in Slots : /\ x.win[v].z = s.win[v].z
                          /\ v # w => x.win[v].frame = s.win[v].frame
  BY <1>0, <1>20, FrameStays
<1> HIDE DEF o, n
<1>3. Whole(x) /\ x.drag = s.drag /\ \A v \in Slots : Alike(s.win[v], x.win[v]) BY <1>2 DEF Stays
<1>4. \A v \in Slots : /\ x.win[v].used = s.win[v].used /\ x.win[v].kind = s.win[v].kind
                       /\ x.win[v].visible = s.win[v].visible
  BY Zenon, <1>3 DEF Alike
<1>50. \A v \in Slots : /\ x.win[v].used = s.win[v].used /\ x.win[v].kind = s.win[v].kind
                        /\ x.win[v].z = s.win[v].z
                        /\ v # w => x.win[v].visible = s.win[v].visible /\ x.win[v].frame = s.win[v].frame
  BY Zenon, <1>2, <1>4
<1>5. Reach(s, x, w) /\ HeightOf(x) = HeightOf(s) BY <1>2, <1>3, <1>50, SetReaches
<1>6. Fit(s) => Fit(x)
  <2>1. Used(x) = Used(s) /\ OnTop(x) = OnTop(s) BY Zenon, <1>4 DEF Used, OnTop
  <2>2. Visible(x) = Visible(s)
    <3>1. Used(s) \subseteq Slots BY DEF Used
    <3> QED BY Zenon, <1>4, <2>1, <3>1 DEF Visible
  <2> QED BY Zenon, <1>5, <2>1, <2>2 DEF Fit
<1>7. Ready(x, w) /\ Server(x) /\ Harm(x.dmg) BY <1>5 DEF Reach, Ready, Whole
<1>8. CASE s.drag = w
  <2>1. t = MarkMove(x, o, n) BY Zenon, <1>1, <1>8
  <2>2. Retold(x, t) /\ Still(x.dmg) \subseteq Still(t.dmg) BY <1>0, <1>7, <2>1, MoveIs
  <2> HIDE DEF t
  <2>3. Ready(t, w) /\ Shifts(x, t, w) /\ t.drag = x.drag /\ t.win = x.win BY <1>7, <2>2, SameReaches
  <2>4. Shifts(s, t, w) BY <1>5, <2>3, ShiftsTwice DEF Reach
  <2>5. Fit(s) => Fit(t) BY Zenon, <1>6, <2>3, WinSame
  <2>6. Grows(s, t) BY <1>2, <2>2 DEF Grows, Retold
  <2> QED BY Zenon, <1>2, <1>3, <1>8, <2>3, <2>4, <2>5, <2>6 DEF t
<1>9. CASE s.drag # w
  <2>1. t = MarkRect(b, n) BY Zenon, <1>1, <1>9
  <2>2. Reach(x, b, w) /\ b.win = x.win /\ o \subseteq Still(b.dmg) BY <1>0, <1>7, RectReaches
  <2> HIDE DEF b
  <2>3. Ready(b, w) BY <2>2 DEF Reach
  <2>4. Reach(b, t, w) /\ t.win = b.win /\ n \subseteq Still(t.dmg) BY <1>0, <2>1, <2>3, RectReaches
  <2> HIDE DEF t
  <2>5. Reach(s, t, w) BY <1>5, <2>2, <2>4, ReachTwice
  <2>6. Fit(s) => Fit(t) BY Zenon, <1>6, <2>2, <2>4, WinSame
  <2>7. o \cup n \subseteq Still(t.dmg) BY <2>2, <2>4, StillGoesOn
  <2>8. t.win[w].frame = f BY Zenon, <1>2, <2>2, <2>4
  <2>9. Ready(t, w) /\ Shifts(s, t, w) /\ Grows(s, t) /\ t.drag = s.drag BY <2>5 DEF Reach
  <2> QED BY Zenon, <2>6, <2>7, <2>8, <2>9 DEF o, n, t
<1> QED BY <1>8, <1>9

-----------------------------------------------------------------------------
(* What a cell shows changes only where the window that was worked on is, or *)
(* was.                                                                      *)
Sound(s) == Whole(s) /\ Harm(s.dmg) /\ Low(s) /\ Fit(s)
Changed(s, t) == {c \in Cells : Scene(t, Painted(t), c) # Scene(s, Painted(s), c)}

LEMMA SoundReady == ASSUME NEW s, Sound(s), NEW w PROVE Ready(s, w)
BY FitReady DEF Sound

LEMMA ReadySound == ASSUME NEW s, NEW w, Ready(s, w), Fit(s) PROVE Sound(s)
BY DEF Sound, Ready

LEMMA FitApart == ASSUME NEW s, Fit(s) PROVE Ranged(s, Visible(s))
<1>1. \A v \in Visible(s) : HeightOf(s)[v] = s.win[v].z BY DEF HeightOf, Visible, Used
<1> QED BY Zenon, <1>1 DEF Fit, Settled, Ranged

LEMMA KeptScene ==
    ASSUME NEW s, Sound(s), NEW t, Sound(t), NEW w, Shifts(s, t, w),
           NEW c, c \notin Rect(s.win[w].frame), c \notin Rect(t.win[w].frame)
    PROVE  Scene(t, Painted(t), c) = Scene(s, Painted(s), c)
<1>1. Ranged(s, Visible(s)) /\ Ranged(t, Visible(t)) /\ Whole(s) /\ Whole(t) BY FitApart DEF Sound
<1>2. Used(t) = Used(s) /\ Others(t, w) = Others(s, w) BY ShiftsSets
<1>3. Under(s, c) \subseteq Others(s, w) /\ Under(t, c) \subseteq Others(s, w)
  <2>1. w \notin Under(s, c) /\ w \notin Under(t, c) BY DEF Under
  <2>2. Under(s, c) \subseteq Visible(s) /\ Under(t, c) \subseteq Visible(t) BY DEF Under
  <2> QED BY <1>2, <2>1, <2>2 DEF Others
<1>4. \A v \in Others(s, w) : /\ v \in Slots /\ v # w /\ v \in Visible(s) /\ v \in Visible(t)
                              /\ t.win[v].frame = s.win[v].frame
  <2>1. \A v \in Others(s, w) : v \in Slots /\ v # w /\ v \in Visible(s) /\ v \in Visible(t)
    BY <1>2 DEF Others, Visible, Used
  <2> QED BY Zenon, <2>1 DEF Shifts
<1>5. Under(t, c) = Under(s, c)
  <2>1. \A v \in Others(s, w) : v \in Under(t, c) <=> v \in Under(s, c) BY Zenon, <1>4 DEF Under
  <2> QED BY <1>3, <2>1
<1>6. AgreeOn(s, t, Under(s, c))
  <2> SUFFICES ASSUME NEW v \in Under(s, c)
               PROVE  t.win[v].frame = s.win[v].frame /\ \A x \in Under(s, c) : Sooner(s, v, x) <=> Sooner(t, v, x)
    BY Zenon DEF AgreeOn
  <2>1. v \in Others(s, w) BY <1>3
  <2>2. ASSUME NEW x \in Under(s, c) PROVE Sooner(s, v, x) <=> Sooner(t, v, x)
    <3>1. x \in Others(s, w) BY <1>3
    <3>2. Precedes(HeightOf(s), v, x) <=> Precedes(HeightOf(t), v, x) BY Zenon, <2>1, <3>1 DEF Shifts, SameOrder
    <3>3. v \in Slots /\ x \in Slots BY Zenon, <1>4, <2>1, <3>1
    <3>4. /\ HeightOf(s)[v] = s.win[v].z /\ HeightOf(s)[x] = s.win[x].z
          /\ HeightOf(t)[v] = t.win[v].z /\ HeightOf(t)[x] = t.win[x].z
      BY <3>3 DEF HeightOf
    <3> QED BY Zenon, <3>2, <3>4 DEF Precedes, Sooner
  <2> QED BY Zenon, <1>4, <2>1, <2>2
<1> QED BY <1>1, <1>5, <1>6, SceneStays

LEMMA ChangedIn ==
    ASSUME NEW s, Sound(s), NEW t, Sound(t), NEW w, Shifts(s, t, w)
    PROVE  Changed(s, t) \subseteq Rect(s.win[w].frame) \cup Rect(t.win[w].frame)
<1>1. \A c : c \notin Rect(s.win[w].frame) /\ c \notin Rect(t.win[w].frame)
             => Scene(t, Painted(t), c) = Scene(s, Painted(s), c)
  BY KeptScene
<1> QED BY Zenon, <1>1 DEF Changed

LEMMA SceneSame ==
    ASSUME NEW s, Sound(s), NEW t, Sound(t), t.win = s.win, NEW c
    PROVE  Scene(t, Painted(t), c) = Scene(s, Painted(s), c)
<1>1. Ranged(s, Visible(s)) /\ Ranged(t, Visible(t)) /\ Whole(s) /\ Whole(t) BY FitApart DEF Sound
<1>2. Visible(t) = Visible(s) BY WinSame
<1>3. Under(t, c) = Under(s, c) BY Zenon, <1>2 DEF Under
<1>4. AgreeOn(s, t, Under(s, c)) BY Zenon DEF AgreeOn, Sooner
<1> QED BY <1>1, <1>3, <1>4, SceneStays

LEMMA ChangedSame ==
    ASSUME NEW s, Sound(s), NEW b, Sound(b), b.win = s.win, NEW t
    PROVE  Changed(b, t) = Changed(s, t)
<1>1. \A c : Scene(b, Painted(b), c) = Scene(s, Painted(s), c) BY SceneSame
<1> QED BY Zenon, <1>1 DEF Changed

LEMMA ChangedNone == ASSUME NEW s PROVE Changed(s, s) = {}
BY Zenon DEF Changed

(* Only the order of heights is kept.                                        *)
LEMMA RankGrows ==
    ASSUME NEW zs, zs \subseteq Nat \ {0}, IsFiniteSet(zs), NEW y \in Nat, NEW z \in zs, y < z
    PROVE  Cardinality({x \in zs : x <= y}) < Cardinality({x \in zs : x <= z})
<1> DEFINE X == {x \in zs : x <= y}
           B == {x \in zs : x <= z}
<1>0. z \in Nat /\ \A x \in zs : x \in Nat OBVIOUS
<1>1. X \subseteq B /\ z \in B /\ z \notin X
  <2>1. \A x \in Nat : x <= y => x <= z OBVIOUS
  <2>2. z <= z /\ ~(z <= y) BY <1>0
  <2> QED BY Zenon, <1>0, <2>1, <2>2
<1>2. IsFiniteSet(B) /\ IsFiniteSet(X) BY FS_Subset
<1>3. X # B BY <1>1
<1>4. Cardinality(X) \in Nat /\ Cardinality(B) \in Nat BY <1>2, FS_CardinalityType
<1> HIDE DEF X, B
<1>5. Cardinality(X) <= Cardinality(B) /\ (Cardinality(X) = Cardinality(B) => X = B) BY <1>1, <1>2, FS_Subset
<1> QED BY <1>3, <1>4, <1>5 DEF X, B

RankOf(s, z) == 2 * Cardinality({y \in Heights(s, Used(s)) \ {0} : y <= z})

LEMMA RanksAre ==
    ASSUME NEW s, Whole(s)
    PROVE  /\ \A z \in Nat : RankOf(s, z) \in Nat
           /\ RankOf(s, 0) = 0
           /\ \A v, w \in Used(s) : s.win[v].z < s.win[w].z => RankOf(s, s.win[v].z) < RankOf(s, s.win[w].z)
           /\ \A w \in Used(s) : 0 < s.win[w].z => 0 < RankOf(s, s.win[w].z)
<1> DEFINE zs == Heights(s, Used(s)) \ {0}
           K(z) == Cardinality({y \in zs : y <= z})
<1>1. Used(s) \subseteq Slots BY DEF Used
<1>2. zs \subseteq Nat \ {0} /\ IsFiniteSet(zs) BY <1>1, HeightsAre, FS_Subset
<1>3. \A w \in Used(s) : s.win[w].z \in Nat /\ (0 < s.win[w].z => s.win[w].z \in zs)
  <2>1. \A w \in Used(s) : s.win[w].z \in Heights(s, Used(s)) BY DEF Heights
  <2>2. \A w \in Used(s) : s.win[w].z \in Nat BY <1>1 DEF Whole, Panes
  <2>3. \A n \in Nat : 0 < n => n # 0 OBVIOUS
  <2> QED BY Zenon, <2>1, <2>2, <2>3
<1> HIDE DEF zs
<1>4. \A z : K(z) \in Nat
  <2>1. \A z : IsFiniteSet({y \in zs : y <= z}) BY <1>2, FS_Subset
  <2> QED BY <2>1, FS_CardinalityType
<1>5. K(0) = 0
  <2>0. \A y \in zs : ~(y <= 0)
    <3> SUFFICES ASSUME NEW y \in zs PROVE ~(y <= 0) OBVIOUS
    <3>1. y \in Nat /\ y # 0 BY <1>2
    <3> QED BY <3>1
  <2>1. {y \in zs : y <= 0} = {} BY Zenon, <2>0
  <2> QED BY Zenon, <2>1, FS_EmptySet
<1>6. \A y \in Nat : \A z \in zs : y < z => K(y) < K(z) BY <1>2, RankGrows
<1>7. \A z : RankOf(s, z) = 2 * K(z) BY Zenon DEF RankOf, zs
<1> HIDE DEF K
<1>8. \A z : RankOf(s, z) \in Nat BY <1>4, <1>7
<1>9. RankOf(s, 0) = 0 BY <1>5, <1>7
<1>10. \A y \in Nat : \A z \in zs : y < z => RankOf(s, y) < RankOf(s, z) BY <1>4, <1>6, <1>7
<1>11. \A v, w \in Used(s) : s.win[v].z < s.win[w].z => RankOf(s, s.win[v].z) < RankOf(s, s.win[w].z)
  <2> SUFFICES ASSUME NEW v \in Used(s), NEW w \in Used(s), s.win[v].z < s.win[w].z
               PROVE  RankOf(s, s.win[v].z) < RankOf(s, s.win[w].z)
    OBVIOUS
  <2> DEFINE a == s.win[v].z
             b == s.win[w].z
  <2>1. a \in Nat /\ b \in Nat /\ a < b /\ (0 < b => b \in zs) BY <1>3
  <2> HIDE DEF a, b
  <2>2. b \in zs BY <2>1
  <2>3. RankOf(s, a) < RankOf(s, b) BY <1>10, <2>1, <2>2
  <2> QED BY <2>3 DEF a, b
<1>12. \A w \in Used(s) : 0 < s.win[w].z => 0 < RankOf(s, s.win[w].z)
  <2>1. \A z \in zs : 0 < z => RankOf(s, 0) < RankOf(s, z) BY <1>10
  <2> QED BY Zenon, <1>3, <1>9, <2>1
<1> QED BY Zenon, <1>8, <1>9, <1>11, <1>12

LEMMA RankedSound ==
    ASSUME NEW s, Sound(s)
    PROVE  LET t == Ranked(s) IN Sound(t) /\ t.dmg = s.dmg /\ t.busy = s.busy /\ t.drag = s.drag
<1> DEFINE g == [w \in Slots |-> [s.win[w] EXCEPT !.z = RankOf(s, s.win[w].z)]]
           t == Ranked(s)
           h == HeightOf(s)
           k == HeightOf(t)
<1>0. Whole(s) /\ Low(s) /\ Fit(s) /\ Harm(s.dmg) BY DEF Sound
<1>1. t = WithWin(s, g) BY Zenon DEF Ranked, WithWin, Heights, RankOf
<1>2. Whole(t) /\ t.drag = s.drag /\ \A w \in Slots : Alike(s.win[w], t.win[w])
  BY <1>0, RankedStays DEF Stays
<1>3. Used(t) = Used(s) /\ Visible(t) = Visible(s) /\ OnTop(t) = OnTop(s) BY Zenon, <1>2 DEF Used, Visible, OnTop, Alike
<1>4. \A w \in Slots : g[w].z = RankOf(s, s.win[w].z)
  <2> SUFFICES ASSUME NEW w \in Slots PROVE g[w].z = RankOf(s, s.win[w].z) OBVIOUS
  <2> DEFINE q == s.win[w]
             n == RankOf(s, s.win[w].z)
             r == [q EXCEPT !.z = n]
  <2>1. Pane(q) BY <1>0 DEF Whole, Panes
  <2>2. g[w] = r OBVIOUS
  <2> HIDE DEF q, n, g
  <2>3. r.z = n BY <2>1, HeightOnly
  <2> QED BY Zenon, <2>2, <2>3 DEF n
<1> HIDE DEF g, t
<1>5. t.win = g /\ t.dmg = s.dmg /\ t.busy = s.busy BY <1>0, <1>1, FieldsWritten DEF Whole
<1>6. \A w \in Slots : h[w] = s.win[w].z /\ k[w] = RankOf(s, s.win[w].z)
  <2>1. \A w \in Slots : h[w] = s.win[w].z /\ k[w] = t.win[w].z BY DEF HeightOf
  <2> QED BY Zenon, <1>4, <1>5, <2>1
<1>7. \A w \in Slots : h[w] \in Nat /\ k[w] \in Nat
  <2>1. h \in [Slots -> Nat] /\ k \in [Slots -> Nat] BY <1>0, <1>2, HeightIs
  <2> QED BY <2>1
<1>70. Used(s) \subseteq Slots /\ Visible(s) \subseteq Used(s) BY DEF Used, Visible
<1> HIDE DEF h, k
<1>8. /\ \A v, w \in Used(s) : h[v] < h[w] => k[v] < k[w]
      /\ \A w \in Used(s) : (0 < h[w] => 0 < k[w]) /\ (h[w] = 0 => k[w] = 0)
  <2>1. /\ RankOf(s, 0) = 0
        /\ \A v, w \in Used(s) : s.win[v].z < s.win[w].z => RankOf(s, s.win[v].z) < RankOf(s, s.win[w].z)
        /\ \A w \in Used(s) : 0 < s.win[w].z => 0 < RankOf(s, s.win[w].z)
    BY <1>0, RanksAre
  <2>2. \A w \in Used(s) : h[w] = s.win[w].z /\ k[w] = RankOf(s, s.win[w].z) BY Zenon, <1>6, <1>70
  <2>3. \A v, w \in Used(s) : h[v] < h[w] => k[v] < k[w] BY Zenon, <2>1, <2>2
  <2>4. \A w \in Used(s) : 0 < h[w] => 0 < k[w] BY Zenon, <2>1, <2>2
  <2>5. \A w \in Used(s) : h[w] = 0 => k[w] = 0 BY Zenon, <2>1, <2>2
  <2> QED BY Zenon, <2>3, <2>4, <2>5
<1>9. Settled(h, OnTop(s), Visible(s)) BY <1>0 DEF Fit, h
<1>10. Settled(k, OnTop(s), Visible(s))
  <2>1. \A v, w \in Visible(s) : v # w /\ k[v] = k[w] => k[v] = 0
    <3> SUFFICES ASSUME NEW v \in Visible(s), NEW w \in Visible(s), v # w, k[v] = k[w] PROVE k[v] = 0
      OBVIOUS
    <3>1. h[v] \in Nat /\ h[w] \in Nat /\ k[v] \in Nat /\ k[w] \in Nat BY <1>7, <1>70
    <3>2. ~(h[v] < h[w]) /\ ~(h[w] < h[v])
      <4>1. ~(k[v] < k[w]) /\ ~(k[w] < k[v]) BY <3>1
      <4> QED BY <1>8, <1>70, <4>1
    <3>3. h[v] = h[w] BY <3>1, <3>2
    <3>4. h[v] = 0 BY Zenon, <1>9, <3>3 DEF Settled
    <3> QED BY Zenon, <1>8, <1>70, <3>4
  <2>2. \A v \in Visible(s) : v \in OnTop(s) => 0 < k[v] /\ \A w \in Visible(s) : (w \in OnTop(s) => w < v) => k[w] < k[v]
    BY Zenon, <1>8, <1>9, <1>70 DEF Settled
  <2> QED BY Zenon, <2>1, <2>2 DEF Settled
<1>11. Fit(t) BY <1>3, <1>10 DEF Fit, k
<1>12. Low(t)
  <2> SUFFICES ASSUME NEW w \in Used(t), t.win[w].kind.bottom, ~t.win[w].kind.topmost PROVE t.win[w].z = 0
    BY DEF Low
  <2>1. w \in Used(s) /\ w \in Slots BY <1>3, <1>70
  <2>2. t.win[w].kind = s.win[w].kind BY Zenon, <1>2, <2>1 DEF Alike
  <2>3. s.win[w].z = 0 BY Zenon, <1>0, <2>1, <2>2 DEF Low
  <2>4. RankOf(s, 0) = 0 BY <1>0, RanksAre
  <2> QED BY Zenon, <1>4, <1>5, <2>1, <2>3, <2>4
<1> QED BY <1>0, <1>2, <1>5, <1>11, <1>12 DEF Sound, t

-----------------------------------------------------------------------------
(* What is stale is told of, unless a window is dragged: its frames restore  *)
(* what it leaves, and its end tells of all.                                 *)
Mended == srv.drag = None => stale \subseteq Still(srv.dmg) \cup Trail(srv.dmg)
SceneInv ==
    /\ Sound(srv) /\ stale \subseteq Cells
    /\ srv.busy => srv.drag = None /\ ~srv.dmg.moved
    /\ Mended

LEMMA GoKeeps ==
    ASSUME SceneInv, NEW t, Sound(t), GoTo(t), t.busy => t.drag = None /\ ~t.dmg.moved,
           t.drag = None => stale \cup Changed(srv, t) \subseteq Still(t.dmg) \cup Trail(t.dmg)
    PROVE  SceneInv'
<1>1. srv' = Ranked(t) /\ stale' = stale \cup Changed(srv, t) BY Zenon DEF GoTo, Changed
<1>2. Sound(srv') /\ srv'.dmg = t.dmg /\ srv'.busy = t.busy /\ srv'.drag = t.drag BY <1>1, RankedSound
<1>3. stale' \subseteq Cells BY <1>1 DEF SceneInv, Changed
<1>4. srv'.busy => srv'.drag = None /\ ~srv'.dmg.moved BY Zenon, <1>2
<1>5. srv'.drag = None => stale' \subseteq Still(srv'.dmg) \cup Trail(srv'.dmg) BY Zenon, <1>1, <1>2
<1> QED BY Zenon, <1>2, <1>3, <1>4, <1>5 DEF SceneInv, Mended

LEMMA StayKeeps == ASSUME SceneInv, GoTo(srv) PROVE SceneInv'
<1>1. Changed(srv, srv) = {} BY ChangedNone
<1>2. stale \cup Changed(srv, srv) = stale BY <1>1
<1>3. /\ Sound(srv) /\ (srv.busy => srv.drag = None /\ ~srv.dmg.moved)
      /\ srv.drag = None => stale \cup Changed(srv, srv) \subseteq Still(srv.dmg) \cup Trail(srv.dmg)
  BY Zenon, <1>2 DEF SceneInv, Mended
<1> QED BY <1>3, GoKeeps

LEMMA DraggedKeeps == ASSUME SceneInv, NEW t, Sound(t), GoTo(t), ~t.busy, t.drag # None PROVE SceneInv'
BY GoKeeps

LEMMA ToldKeeps ==
    ASSUME SceneInv, NEW t, Sound(t), GoTo(t), ~t.busy,
           stale \cup Changed(srv, t) \subseteq Still(t.dmg) \cup Trail(t.dmg)
    PROVE  SceneInv'
BY GoKeeps

LEMMA AllTold == ASSUME SceneInv, NEW t, Sound(t), GoTo(t), ~t.busy, Cells \subseteq Still(t.dmg) PROVE SceneInv'
<1>1. stale \cup Changed(srv, t) \subseteq Still(t.dmg) \cup Trail(t.dmg) BY DEF SceneInv, Changed
<1> QED BY <1>1, ToldKeeps

(* A window is worked on, and where it was and is has been told of.          *)
LEMMA ReachKeeps ==
    ASSUME SceneInv, ~srv.busy, NEW t, NEW w, Reach(srv, t, w), Fit(t), GoTo(t),
           Rect(srv.win[w].frame) \cup Rect(t.win[w].frame) \subseteq Still(t.dmg)
    PROVE  SceneInv'
<1>1. Sound(srv) /\ Sound(t) /\ Shifts(srv, t, w) BY ReadySound DEF SceneInv, Reach
<1>2. Changed(srv, t) \subseteq Still(t.dmg) BY <1>1, ChangedIn
<1>3. ~t.busy /\ t.drag = srv.drag /\ Still(srv.dmg) \subseteq Still(t.dmg) BY DEF Reach, Grows
<1>4. Trail(t.dmg) = Trail(srv.dmg) BY Zenon DEF Reach, Moving, Trail
<1>5. t.drag = None => stale \cup Changed(srv, t) \subseteq Still(t.dmg) \cup Trail(t.dmg)
  BY <1>2, <1>3, <1>4 DEF SceneInv, Mended
<1> QED BY <1>1, <1>3, <1>5, GoKeeps

LEMMA OptsKeeps == ASSUME SceneInv, NEW w \in Used(srv), NEW v, NEW f, SetOpts(w, v, f) PROVE SceneInv'
<1> DEFINE t == ApplyOpts(srv, w, v, f)
<1>1. ~srv.busy /\ GoTo(t) BY Zenon DEF SetOpts, Keep
<1>2. Ready(srv, w) /\ Fit(srv) BY SoundReady DEF SceneInv, Sound
<1>3. /\ Reach(srv, t, w) /\ Sets(t, w, v, f)
      /\ Rect(srv.win[w].frame) \cup Rect(f) \subseteq Still(t.dmg)
      /\ (Fit(srv) => Fit(t))
  BY <1>2, ApplyReaches
<1> HIDE DEF t
<1>4. t.win[w].frame = f BY <1>3 DEF Sets
<1>5. Rect(srv.win[w].frame) \cup Rect(t.win[w].frame) \subseteq Still(t.dmg) BY Zenon, <1>3, <1>4
<1> QED BY <1>1, <1>2, <1>3, <1>5, ReachKeeps

LEMMA FocusIs ==
    ASSUME NEW s, Sound(s), NEW w \in Used(s)
    PROVE  LET t == FocusOn(s, w) IN
           \/ ~s.win[w].kind.accept /\ t = s
           \/ /\ Reach(s, t, w) /\ Fit(t) /\ t.win[w].frame = s.win[w].frame
              /\ Rect(s.win[w].frame) \cup Rect(t.win[w].frame) \subseteq Still(t.dmg)
<1> DEFINE t == FocusOn(s, w)
<1>1. CASE ~s.win[w].kind.accept
  <2>1. t = s BY Zenon, <1>1 DEF FocusOn, If
  <2> QED BY <1>1, <2>1
<1>2. CASE s.win[w].kind.accept
  <2>1. Ready(s, w) BY SoundReady
  <2>2. Reach(s, t, w) /\ t.win[w].frame = s.win[w].frame /\ Rect(s.win[w].frame) \subseteq Still(t.dmg) /\ Fit(t)
    BY <1>2, <2>1, FocusReaches
  <2> HIDE DEF t
  <2>3. Rect(s.win[w].frame) \cup Rect(t.win[w].frame) \subseteq Still(t.dmg) BY <2>2
  <2> QED BY <2>2, <2>3 DEF t
<1> QED BY <1>1, <1>2

LEMMA FocusKeeps == ASSUME SceneInv, ~srv.busy, NEW w \in Used(srv), GoTo(FocusOn(srv, w)) PROVE SceneInv'
<1> DEFINE t == FocusOn(srv, w)
<1>1. \/ ~srv.win[w].kind.accept /\ t = srv
      \/ /\ Reach(srv, t, w) /\ Fit(t) /\ t.win[w].frame = srv.win[w].frame
         /\ Rect(srv.win[w].frame) \cup Rect(t.win[w].frame) \subseteq Still(t.dmg)
  BY FocusIs DEF SceneInv
<1>2. GoTo(t) OBVIOUS
<1> HIDE DEF t
<1>3. CASE t = srv
  <2>1. GoTo(srv) BY Zenon, <1>2, <1>3
  <2> QED BY <2>1, StayKeeps
<1> QED BY <1>1, <1>2, <1>3, ReachKeeps

LEMMA MoveKeeps == ASSUME SceneInv, ~srv.busy, NEW w \in Slots, NEW f, GoTo(MoveTo(srv, w, f)) PROVE SceneInv'
<1> DEFINE t == MoveTo(srv, w, f)
<1>1. CASE srv.win[w].frame = f
  <2>1. t = srv BY Zenon, <1>1 DEF MoveTo
  <2>2. GoTo(srv) BY Zenon, <2>1
  <2> QED BY <2>2, StayKeeps
<1>2. CASE srv.win[w].frame # f
  <2>0. GoTo(t) OBVIOUS
  <2>1. Ready(srv, w) /\ Fit(srv) BY SoundReady DEF SceneInv, Sound
  <2>2. /\ Ready(t, w) /\ Shifts(srv, t, w) /\ Grows(srv, t) /\ t.drag = srv.drag
        /\ t.win[w].frame = f /\ (Fit(srv) => Fit(t))
        /\ srv.drag # w => Rect(srv.win[w].frame) \cup Rect(f) \subseteq Still(t.dmg)
    BY <1>2, <2>1, MoveReaches
  <2>7. srv.drag # w => Moving(srv.dmg, t.dmg)
    <3> DEFINE x == [srv EXCEPT !.win[w].frame = f]
               b == MarkRect(x, Rect(srv.win[w].frame))
    <3>1. srv.drag # w => t = MarkRect(b, Rect(f)) BY Zenon, <1>2 DEF MoveTo
    <3>2. x = Framed(srv, w, f) BY DEF Framed
    <3> HIDE DEF t, x
    <3>3. Whole(srv) /\ Harm(srv.dmg) BY <2>1 DEF Ready
    <3>4. Stays(srv, x) /\ x.dmg = srv.dmg BY <3>2, <3>3, FrameStays
    <3>5. Server(x) /\ Harm(x.dmg) BY <3>3, <3>4 DEF Stays, Whole
    <3>6. Rect(srv.win[w].frame) \in SUBSET Cells /\ Rect(f) \in SUBSET Cells BY RectOn
    <3>7. Marked(x, b, Rect(srv.win[w].frame)) BY <3>5, <3>6, RectMarks
    <3> HIDE DEF b
    <3>8. Server(b) /\ Harm(b.dmg) /\ Moving(x.dmg, b.dmg) BY Zenon, <3>7 DEF Marked, Retold, Touched
    <3>9. Marked(b, MarkRect(b, Rect(f)), Rect(f)) BY <3>6, <3>8, RectMarks
    <3> QED BY Zenon, <3>1, <3>4, <3>8, <3>9 DEF Marked, Moving
  <2> HIDE DEF t
  <2>3. Sound(t) BY <2>1, <2>2, ReadySound
  <2>4. CASE srv.drag = w
    <3>1. ~t.busy /\ t.drag # None BY <2>2, <2>4, SlotsAre DEF Grows
    <3> QED BY <2>0, <2>3, <3>1, DraggedKeeps
  <2>5. CASE srv.drag # w
    <3>1. Reach(srv, t, w) BY Zenon, <2>2, <2>5, <2>7 DEF Reach
    <3>2. Rect(srv.win[w].frame) \cup Rect(t.win[w].frame) \subseteq Still(t.dmg) BY Zenon, <2>2, <2>5
    <3> QED BY <2>0, <2>1, <2>2, <3>1, <3>2, ReachKeeps
  <2> QED BY <2>4, <2>5
<1> QED BY <1>1, <1>2

(* Who is dragged is written.                                                *)
LEMMA DragReady ==
    ASSUME NEW s, NEW w, Ready(s, w), NEW x
    PROVE  LET t == WithDrag(s, x) IN
           /\ Ready(t, w) /\ Shifts(s, t, w) /\ (Fit(s) => Fit(t))
           /\ t.drag = x /\ t.win = s.win /\ t.dmg = s.dmg /\ t.busy = s.busy
<1> DEFINE t == WithDrag(s, x)
<1>1. Server(s) /\ Panes(s.win) BY DEF Ready, Whole
<1>2. Server(t) /\ t.win = s.win /\ t.drag = x /\ t.busy = s.busy /\ t.dmg = s.dmg BY <1>1, FieldsWritten
<1> HIDE DEF t
<1>3. Whole(t) BY Zenon, <1>1, <1>2 DEF Whole
<1>4. HeightOf(t) = HeightOf(s) /\ OnTop(t) = OnTop(s) /\ Visible(t) = Visible(s) /\ Used(t) = Used(s) /\ (Fit(s) => Fit(t))
  BY <1>2, WinSame
<1>5. Others(t, w) = Others(s, w) BY Zenon, <1>4 DEF Others
<1>6. Low(t) BY Zenon, <1>2, <1>4 DEF Low, Ready
<1>7. Ready(t, w) BY Zenon, <1>2, <1>3, <1>4, <1>5, <1>6 DEF Ready
<1>8. Shifts(s, t, w) BY Zenon, <1>2, <1>4, OrderSame DEF Shifts
<1> QED BY Zenon, <1>2, <1>4, <1>7, <1>8 DEF t

LEMMA PressIs ==
    ASSUME NEW s, Good(s), NEW c, NEW title
    PROVE  LET p == Press(s, c, title) IN
           p = s \/ \E w \in Used(s) : s.win[w].kind.accept /\ (p = FocusOn(s, w) \/ p = WithDrag(FocusOn(s, w), w))
<1> DEFINE w == HitTest(s, c)
<1>1. Press(s, c, title) = PressOn(s, w, title) BY Zenon DEF Press
<1>2. w # None => w \in Used(s) BY HitIsThere DEF Good
<1> HIDE DEF w
<1> QED BY Zenon, <1>1, <1>2 DEF PressOn, WithDrag

LEMMA DownKeeps == ASSUME Good(srv), SceneInv, NEW c, NEW title, MouseDown(c, title) PROVE SceneInv'
<1>1. CASE srv' = srv /\ stale' = stale BY Zenon, <1>1 DEF SceneInv, Mended
<1>2. CASE ~srv.busy /\ GoTo(Press(srv, c, title))
  <2>1. CASE Press(srv, c, title) = srv
    <3>1. GoTo(srv) BY Zenon, <1>2, <2>1
    <3> QED BY <3>1, StayKeeps
  <2>2. ASSUME NEW w \in Used(srv), Press(srv, c, title) = FocusOn(srv, w) PROVE SceneInv'
    <3>1. GoTo(FocusOn(srv, w)) BY Zenon, <1>2, <2>2
    <3> QED BY <1>2, <3>1, FocusKeeps
  <2>3. ASSUME NEW w \in Used(srv), Press(srv, c, title) = WithDrag(FocusOn(srv, w), w) PROVE SceneInv'
    <3> DEFINE f == FocusOn(srv, w)
               t == WithDrag(f, w)
    <3>1. GoTo(t) BY Zenon, <1>2, <2>3
    <3>2. Sound(srv) BY DEF SceneInv
    <3>3. f = srv \/ (Reach(srv, f, w) /\ Fit(f)) BY <3>2, FocusIs
    <3>4. Ready(srv, w) /\ Fit(srv) BY <3>2, SoundReady DEF Sound
    <3>5. Ready(f, w) /\ Fit(f) /\ f.busy = srv.busy
      <4> HIDE DEF f
      <4> QED BY Zenon, <3>3, <3>4 DEF Reach, Grows
    <3> HIDE DEF f
    <3>6. Ready(t, w) /\ Fit(t) /\ t.drag = w /\ t.busy = f.busy BY <3>5, DragReady
    <3> HIDE DEF t
    <3>7. Sound(t) BY <3>6, ReadySound
    <3>8. t.drag # None /\ ~t.busy BY <1>2, <3>5, <3>6, SlotsAre DEF Used
    <3> QED BY <3>1, <3>7, <3>8, DraggedKeeps
  <2> QED BY Zenon, <2>1, <2>2, <2>3, PressIs
<1> QED BY Zenon, <1>1, <1>2 DEF MouseDown, Keep

LEMMA UpKeeps == ASSUME SceneInv, MouseUp PROVE SceneInv'
<1>1. CASE srv.drag = None
  <2>1. GoTo(srv) BY Zenon, <1>1 DEF MouseUp, LetGo
  <2> QED BY <2>1, StayKeeps
<1>2. CASE srv.drag # None
  <2> DEFINE w == srv.drag
             u == WithDrag(srv, None)
             t == MarkDirty(u)
  <2>1. GoTo(t) BY Zenon, <1>2 DEF MouseUp, LetGo, WithDrag
  <2>2. Ready(srv, w) /\ Fit(srv) /\ ~srv.busy BY <1>2, SoundReady DEF SceneInv, Sound
  <2> HIDE DEF w
  <2>3. Ready(u, w) /\ Fit(u) /\ u.busy = srv.busy BY <2>2, DragReady
  <2> HIDE DEF u
  <2>4. Server(u) /\ Harm(u.dmg) BY <2>3 DEF Ready, Whole
  <2>5. Marked(u, t, Cells) BY <2>4, DirtyMarks
  <2> HIDE DEF t
  <2>6. Reach(u, t, w) /\ t.win = u.win /\ Cells \subseteq Still(t.dmg) BY <2>3, <2>5, MarkReaches
  <2>7. Fit(t) BY Zenon, <2>3, <2>6, WinSame
  <2>8. Sound(t) /\ ~t.busy BY <2>2, <2>3, <2>6, <2>7, ReadySound DEF Reach, Grows
  <2> QED BY <2>1, <2>6, <2>8, AllTold
<1> QED BY <1>1, <1>2

LEMMA MouseMoveKeeps == ASSUME Good(srv), SceneInv, MouseMove PROVE SceneInv'
<1>1. CASE srv' = srv /\ stale' = stale BY Zenon, <1>1 DEF SceneInv, Mended
<1>2. ASSUME ~srv.busy, srv.drag # None, NEW f, GoTo(MoveTo(srv, srv.drag, f)) PROVE SceneInv'
  <2> DEFINE w == srv.drag
  <2>1. w \in Slots BY Zenon, <1>2 DEF Good, Focused, Used
  <2>2. GoTo(MoveTo(srv, w, f)) BY <1>2
  <2> HIDE DEF w
  <2> QED BY <1>2, <2>1, <2>2, MoveKeeps
<1> QED BY Zenon, <1>1, <1>2 DEF MouseMove, Keep

(* A row is written anew.                                                    *)
LEMMA PaneReady ==
    ASSUME NEW s, Sound(s), NEW w \in Slots, NEW r, Pane(r), r.z \in Nat,
           r.used /\ r.kind.bottom /\ ~r.kind.topmost => r.z = 0, NEW t, t = WithPane(s, w, r)
    PROVE  Ready(t, w) /\ t.busy = s.busy /\ t.win[w] = r
<1>1. Whole(s) /\ Harm(s.dmg) /\ Low(s) /\ Ready(s, w) BY SoundReady DEF Sound
<1>2. /\ Whole(t) /\ t.focus = s.focus /\ t.drag = s.drag /\ t.busy = s.busy /\ t.dmg = s.dmg
      /\ t.win[w] = r /\ \A v \in Slots : v # w => t.win[v] = s.win[v]
  BY <1>1, PaneWritten
<1>3. \A v \in Slots : v # w => /\ HeightOf(t)[v] = HeightOf(s)[v]
                                /\ (v \in OnTop(t) <=> v \in OnTop(s))
                                /\ (v \in Used(t) <=> v \in Used(s))
                                /\ (v \in Visible(t) <=> v \in Visible(s))
  <2>1. \A v \in Slots : HeightOf(t)[v] = t.win[v].z /\ HeightOf(s)[v] = s.win[v].z BY DEF HeightOf
  <2> QED BY Zenon, <1>2, <2>1 DEF OnTop, Used, Visible
<1>4. Used(t) \subseteq Slots /\ \A x : Visible(x) \subseteq Slots BY DEF Used, Visible
<1>5. Others(t, w) = Others(s, w) BY <1>3, <1>4 DEF Others
<1>6. \A v \in Others(s, w) : /\ HeightOf(t)[v] = HeightOf(s)[v]
                              /\ (v \in OnTop(t) <=> v \in OnTop(s))
  BY <1>3, <1>4 DEF Others
<1>7. Settled(HeightOf(s), OnTop(s), Others(s, w)) BY <1>1 DEF Ready
<1>8. Settled(HeightOf(t), OnTop(t), Others(s, w)) BY Zenon, <1>6, <1>7 DEF Settled
<1>9. Low(t)
  <2> SUFFICES ASSUME NEW v \in Used(t), t.win[v].kind.bottom, ~t.win[v].kind.topmost PROVE t.win[v].z = 0
    BY DEF Low
  <2>1. v \in Slots /\ t.win[v].used BY DEF Used
  <2>2. CASE v = w BY Zenon, <1>2, <2>1, <2>2
  <2>3. CASE v # w
    <3>1. v \in Used(s) /\ t.win[v] = s.win[v] BY Zenon, <1>2, <1>3, <2>1, <2>3
    <3> QED BY Zenon, <1>1, <3>1 DEF Low
  <2> QED BY <2>2, <2>3
<1> QED BY Zenon, <1>1, <1>2, <1>5, <1>8, <1>9 DEF Ready

LEMMA AllMarked ==
    ASSUME NEW s, NEW w, Ready(s, w), Fit(s)
    PROVE  LET t == MarkDirty(s) IN Sound(t) /\ Cells \subseteq Still(t.dmg) /\ t.busy = s.busy
<1> DEFINE t == MarkDirty(s)
<1>1. Server(s) /\ Harm(s.dmg) BY DEF Ready, Whole
<1>2. Marked(s, t, Cells) BY <1>1, DirtyMarks
<1> HIDE DEF t
<1>3. Reach(s, t, w) /\ t.win = s.win /\ Cells \subseteq Still(t.dmg) BY <1>2, MarkReaches
<1>4. Fit(t) BY Zenon, <1>3, WinSame
<1>5. Sound(t) /\ t.busy = s.busy BY <1>3, <1>4, ReadySound DEF Reach, Grows
<1> QED BY <1>3, <1>5 DEF t

LEMMA DestroyKeeps == ASSUME SceneInv, NEW w \in Slots, Destroy(w) PROVE SceneInv'
<1> DEFINE p == WithPane(srv, w, NoWindow)
           q == WithFocus(p, IF srv.focus = w THEN None ELSE srv.focus)
           u == WithDrag(q, IF srv.drag = w THEN None ELSE srv.drag)
           t == MarkDirty(u)
<1>1. Sound(srv) /\ Whole(srv) /\ Server(srv) BY DEF SceneInv, Sound, Whole
<1>2. Withdraw(srv, w) = t
  <2>1. w \in DOMAIN srv.win /\ DOMAIN srv = {"win", "focus", "drag", "busy", "dmg"} BY <1>1 DEF Whole, Server, Panes
  <2> QED BY <2>1 DEF Withdraw, WithPane, WithFocus, WithDrag
<1>3. ~srv.busy /\ GoTo(t) BY Zenon, <1>2 DEF Destroy, Keep
<1>4. Pane(NoWindow) /\ NoWindow.z \in Nat /\ NoWindow.z = 0 /\ NoWindow.used = FALSE BY DEF Pane, NoWindow
<1>5. p = WithPane(srv, w, NoWindow) OBVIOUS
<1> HIDE DEF p
<1>6. Ready(p, w) /\ p.busy = srv.busy /\ p.win[w] = NoWindow BY <1>1, <1>4, <1>5, PaneReady
<1>7. Server(p) /\ Harm(p.dmg) BY <1>6 DEF Ready, Whole
<1>8. Server(q) /\ q.win = p.win /\ q.drag = p.drag /\ q.busy = p.busy /\ q.dmg = p.dmg BY <1>7, FieldsWritten
<1> HIDE DEF q
<1>9. Server(u) /\ u.win = q.win /\ u.busy = q.busy /\ u.dmg = q.dmg BY <1>8, FieldsWritten
<1> HIDE DEF u
<1>10. u.win = p.win /\ u.busy = p.busy /\ u.dmg = p.dmg /\ Server(u) BY Zenon, <1>8, <1>9
<1>11. Whole(u) BY Zenon, <1>6, <1>10 DEF Ready, Whole
<1>12. HeightOf(u) = HeightOf(p) /\ OnTop(u) = OnTop(p) /\ Visible(u) = Visible(p) /\ Used(u) = Used(p) BY <1>10, WinSame
<1>13. Ready(u, w)
  <2>1. Others(u, w) = Others(p, w) BY Zenon, <1>12 DEF Others
  <2>2. Low(u) BY Zenon, <1>6, <1>10, <1>12 DEF Ready, Low
  <2> QED BY Zenon, <1>6, <1>10, <1>11, <1>12, <2>1, <2>2 DEF Ready
<1>14. w \notin Visible(u) BY Zenon, <1>4, <1>6, <1>10 DEF Visible, Used
<1>15. Fit(u) BY <1>13, <1>14, HiddenFits
<1>16. Sound(t) /\ Cells \subseteq Still(t.dmg) /\ t.busy = u.busy BY <1>13, <1>15, AllMarked
<1> HIDE DEF t
<1>17. ~t.busy BY Zenon, <1>3, <1>6, <1>10, <1>16
<1> QED BY <1>3, <1>16, <1>17, AllTold

LEMMA ZeroFits == ASSUME NEW s, NEW w, Ready(s, w), w \in Slots, HeightOf(s)[w] = 0, w \notin OnTop(s) PROVE Fit(s)
<1> DEFINE h == HeightOf(s)
           T == OnTop(s)
           V == Visible(s)
<1>1. Settled(h, T, V \ {w}) /\ w \notin T /\ h[w] = 0 BY DEF Ready, Others
<1> HIDE DEF h, T, V
<1>2. \A v, x \in V : v # x /\ h[v] = h[x] => h[v] = 0
  <2> SUFFICES ASSUME NEW v \in V, NEW x \in V, v # x, h[v] = h[x] PROVE h[v] = 0 OBVIOUS
  <2>1. CASE v = w \/ x = w BY Zenon, <1>1, <2>1
  <2>2. CASE v # w /\ x # w
    <3>1. v \in V \ {w} /\ x \in V \ {w} BY <2>2
    <3> QED BY Zenon, <1>1, <3>1 DEF Settled
  <2> QED BY <2>1, <2>2
<1>3. \A v \in V : v \in T => 0 < h[v] /\ \A x \in V : (x \in T => x < v) => h[x] < h[v]
  <2> SUFFICES ASSUME NEW v \in V, v \in T PROVE 0 < h[v] /\ \A x \in V : (x \in T => x < v) => h[x] < h[v] OBVIOUS
  <2>1. v \in V \ {w} BY <1>1
  <2>2. 0 < h[v] /\ \A x \in V \ {w} : (x \in T => x < v) => h[x] < h[v] BY Zenon, <1>1, <2>1 DEF Settled
  <2>3. h[w] < h[v] BY Zenon, <1>1, <2>2
  <2>4. \A x \in V : x = w \/ x \in V \ {w} OBVIOUS
  <2> QED BY Zenon, <2>2, <2>3, <2>4
<1>4. Settled(h, T, V) BY Zenon, <1>2, <1>3 DEF Settled
<1> QED BY <1>4 DEF Fit, h, T, V

KindsRaised == \A k \in Kinds : k.accept \/ k.topmost \/ k.bottom

LEMMA EnteredFits ==
    ASSUME NEW s, NEW w \in Used(s), Ready(s, w),
           s.win[w].kind.accept \/ s.win[w].kind.topmost \/ s.win[w].kind.bottom
    PROVE  LET t == Entered(s, w) IN Ready(t, w) /\ Fit(t) /\ t.busy = s.busy
<1> DEFINE v == s.win[w].visible
           f == s.win[w].frame
           a == ApplyOpts(s, w, v, f)
           b == AfterTopmost(a, w)
           g == FocusOn(b, w)
           t == Entered(s, w)
<1>1. t = If(b, b.win[w].visible /\ b.win[w].kind.accept, g) BY Zenon DEF Entered, FirstFocus
<1>2. w \in Slots BY DEF Used
<1> HIDE DEF v, f
<1>3. Reach(s, a, w) BY ApplyReaches
<1> HIDE DEF a
<1>4. Ready(a, w) BY <1>3 DEF Reach
<1>5. Reach(a, b, w) /\ (w \in OnTop(a) => Fit(b)) BY <1>2, <1>4, AfterReaches
<1> HIDE DEF b
<1>6. Reach(s, b, w) BY <1>3, <1>5, ReachTwice
<1>7. Ready(b, w) /\ b.busy = s.busy /\ Shifts(s, b, w) /\ Shifts(s, a, w) BY <1>3, <1>6 DEF Reach, Grows
<1>8. w \in Used(b) BY <1>7, ShiftsSets
<1>9. b.win[w].kind = s.win[w].kind /\ a.win[w].kind = s.win[w].kind BY Zenon, <1>2, <1>7 DEF Shifts
<1>10. CASE b.win[w].visible /\ b.win[w].kind.accept
  <2>1. t = g BY Zenon, <1>1, <1>10 DEF If
  <2>2. Reach(b, g, w) /\ Fit(g) BY <1>7, <1>8, <1>10, FocusReaches
  <2> HIDE DEF g
  <2>3. Ready(g, w) /\ g.busy = s.busy BY Zenon, <1>7, <2>2 DEF Reach, Grows
  <2> QED BY Zenon, <2>1, <2>2, <2>3
<1>11. CASE ~(b.win[w].visible /\ b.win[w].kind.accept)
  <2>1. t = b BY Zenon, <1>1, <1>11 DEF If
  <2>2. CASE ~b.win[w].visible
    <3>1. w \notin Visible(b) BY <2>2 DEF Visible
    <3> QED BY Zenon, <1>7, <2>1, <3>1, HiddenFits
  <2>3. CASE b.win[w].visible
    <3>1. s.win[w].kind.topmost \/ s.win[w].kind.bottom BY Zenon, <1>9, <1>11, <2>3
    <3>2. CASE s.win[w].kind.topmost
      <4>1. w \in OnTop(a) BY Zenon, <1>2, <1>9, <3>2 DEF OnTop
      <4> QED BY Zenon, <1>5, <1>7, <2>1, <4>1
    <3>3. CASE s.win[w].kind.bottom /\ ~s.win[w].kind.topmost
      <4>1. b.win[w].z = 0 BY Zenon, <1>7, <1>8, <1>9, <3>3 DEF Ready, Low
      <4>2. HeightOf(b)[w] = 0 BY <1>2, <4>1 DEF HeightOf
      <4>3. w \notin OnTop(b) BY Zenon, <1>9, <3>3 DEF OnTop
      <4>4. Fit(b) BY <1>2, <1>7, <4>2, <4>3, ZeroFits
      <4> QED BY Zenon, <1>7, <2>1, <4>4
    <3> QED BY Zenon, <3>1, <3>2, <3>3
  <2> QED BY <2>2, <2>3
<1> QED BY <1>10, <1>11

LEMMA CreateMends ==
    ASSUME KindsRaised, SceneInv, NEW k \in Kinds, NEW v, NEW f, NEW z \in Nat, Create(k, v, f, z)
    PROVE  SceneInv'
<1> DEFINE w == Min(Slots \ Used(srv))
           a == Added(w, k, v, f, z)
           e == Entered(a, w)
           t == MarkDirty(e)
<1>1. GoTo(t) /\ Slots # Used(srv) /\ ~srv.busy BY Zenon DEF Create, Keep
<1>2. w \in Slots /\ w \notin Used(srv)
  <2> DEFINE F == Slots \ Used(srv)
  <2>1. F \subseteq Nat /\ F # {} BY <1>1, SlotsAre DEF Used
  <2> HIDE DEF F
  <2>2. Min(F) \in F BY <2>1, MinIs
  <2> QED BY <2>2 DEF F
<1> HIDE DEF w
<1>3. PICK r : a = WithPane(srv, w, r) /\ NewRow(r, k, v) BY <1>2, AddedIs
<1> HIDE DEF a
<1>4. Pane(r) /\ r.z \in Nat /\ r.used = TRUE /\ r.kind = k /\ (r.used /\ r.kind.bottom /\ ~r.kind.topmost => r.z = 0)
  BY Zenon, <1>3 DEF NewRow
<1>5. Sound(srv) BY DEF SceneInv
<1>6. Ready(a, w) /\ a.busy = srv.busy /\ a.win[w] = r BY <1>2, <1>3, <1>4, <1>5, PaneReady
<1>7. w \in Used(a) BY Zenon, <1>2, <1>4, <1>6 DEF Used
<1>8. a.win[w].kind.accept \/ a.win[w].kind.topmost \/ a.win[w].kind.bottom BY Zenon, <1>4, <1>6 DEF KindsRaised
<1>9. Ready(e, w) /\ Fit(e) /\ e.busy = a.busy BY <1>6, <1>7, <1>8, EnteredFits
<1> HIDE DEF e
<1>10. Sound(t) /\ Cells \subseteq Still(t.dmg) /\ t.busy = e.busy BY <1>9, AllMarked
<1> HIDE DEF t
<1>11. ~t.busy BY Zenon, <1>1, <1>6, <1>9, <1>10
<1> QED BY <1>1, <1>10, <1>11, AllTold

(* Only the damage is written, and no height.                                *)
LEMMA SameSound == ASSUME NEW s, Sound(s), NEW t, Retold(s, t) PROVE Sound(t) /\ t.drag = s.drag /\ t.win = s.win
<1>1. Ready(s, 0) BY SoundReady
<1>2. Ready(t, 0) /\ t.drag = s.drag /\ t.win = s.win BY <1>1, SameReaches
<1>3. Fit(t) BY Zenon, <1>2, WinSame DEF Sound
<1> QED BY <1>2, <1>3, ReadySound

LEMMA PublishMends == ASSUME SceneInv, NEW w \in Slots, PublishWindow(w) PROVE SceneInv'
<1> DEFINE C == {c \in Cells : w \in Under(srv, c)}
           r == Rect(srv.win[w].frame)
<1>1. srv' = Publish(srv, w) /\ stale' = stale \cup C /\ ~srv.busy BY Zenon DEF PublishWindow
<1>2. Sound(srv) /\ Server(srv) /\ Harm(srv.dmg) BY DEF SceneInv, Sound, Whole
<1>3. C \subseteq r /\ r \in SUBSET Cells BY RectOn DEF Under
<1> HIDE DEF C, r
<1>4. stale' \subseteq Cells BY <1>1, <1>3 DEF SceneInv
<1>5. CASE srv.drag = w
  <2> DEFINE d == srv.dmg
             e == [d EXCEPT !.content = TRUE]
  <2>1. srv' = [srv EXCEPT !.dmg.content = TRUE] BY Zenon, <1>1, <1>5 DEF Publish
  <2>2. srv' = WithDmg(srv, e) BY <1>2, <2>1 DEF WithDmg, Server
  <2>3. Fields(d) /\ d.rect \subseteq Cells /\ d.pendingRect \subseteq Cells /\ d.old \subseteq Cells /\ d.new \subseteq Cells
    BY <1>2 DEF Harm
  <2>4. e = [d EXCEPT !.content = TRUE] OBVIOUS
  <2> HIDE DEF d, e
  <2>5. Fields(e) /\ Painting(d, e) /\ Waiting(d, e) /\ Moving(d, e) BY <2>3, <2>4, ContentField
  <2>6. Harm(e)
    <3>1. e.rect = d.rect /\ e.pendingRect = d.pendingRect /\ e.old = d.old /\ e.new = d.new
      BY Zenon, <2>5 DEF Painting, Waiting, Moving
    <3> QED BY <2>3, <2>5, <3>1 DEF Harm
  <2>7. Touched(srv, srv') /\ srv'.busy = srv.busy /\ srv'.dmg = e BY Zenon, <1>2, <2>2, WithDmgIs
  <2>8. Retold(srv, srv') BY Zenon, <2>6, <2>7 DEF Retold
  <2>9. Sound(srv') /\ srv'.drag = srv.drag BY <1>2, <2>8, SameSound
  <2>10. w # None BY SlotsAre DEF None
  <2> QED BY Zenon, <1>1, <1>4, <1>5, <2>7, <2>9, <2>10 DEF SceneInv, Mended
<1>6. CASE srv.drag # w
  <2>1. srv' = MarkRect(srv, r) BY Zenon, <1>1, <1>6 DEF Publish, r
  <2>2. Marked(srv, MarkRect(srv, r), r) BY <1>2, <1>3, RectMarks
  <2>3. Marked(srv, srv', r) BY Zenon, <2>1, <2>2
  <2>4. Retold(srv, srv') /\ Moving(srv.dmg, srv'.dmg) /\ Still(srv.dmg) \cup r \subseteq Still(srv'.dmg) BY <2>3 DEF Marked
  <2>5. Sound(srv') /\ srv'.drag = srv.drag BY <1>2, <2>4, SameSound
  <2>6. Trail(srv'.dmg) = Trail(srv.dmg) BY Zenon, <2>4 DEF Moving, Trail
  <2>7. Mended' BY <1>1, <1>3, <2>4, <2>5, <2>6 DEF SceneInv, Mended
  <2>8. ~srv'.busy BY Zenon, <1>1, <2>4 DEF Retold
  <2> QED BY Zenon, <1>4, <2>5, <2>7, <2>8 DEF SceneInv
<1> QED BY <1>5, <1>6

-----------------------------------------------------------------------------
(* Frames. Due is what a frame paints.                                       *)
LEMMA SameTwice == ASSUME NEW s, NEW t, NEW u, Retold(s, t), Retold(t, u) PROVE Retold(s, u)
<1>1. Touched(s, u) BY TouchTwice DEF Retold
<1> QED BY Zenon, <1>1 DEF Retold

LEMMA RegionIs == ASSUME NEW s, s.dmg.dirty PROVE Due(s.dmg) \subseteq Region(s)
BY DEF Due, Region

LEMMA SlideMends == ASSUME SceneInv, Slide PROVE SceneInv'
<1> DEFINE d == srv.dmg
           at == IF d.moved THEN d.old \cup d.new ELSE Rect(srv.win[srv.drag].frame)
           seed == IF ~d.pending THEN {} ELSE IF d.pendingFull THEN Cells ELSE d.pendingRect
           a == [d EXCEPT !.moved = FALSE]
           b == [a EXCEPT !.content = FALSE]
           c == [b EXCEPT !.pending = FALSE]
           g == [c EXCEPT !.pendingFull = FALSE]
           e == [g EXCEPT !.pendingRect = NoRect]
<1>1. Sound(srv) /\ Server(srv) /\ Harm(d) BY DEF SceneInv, Sound, Whole
<1>2. ~srv.busy /\ srv.drag # None /\ stale' = stale \cup Union(at, seed) BY Zenon DEF Slide
<1>3. srv' = WithDmg(srv, e) BY <1>1 DEF Slide, WithDmg, Server
<1>4. Fields(d) /\ d.rect \subseteq Cells /\ d.pendingRect \subseteq Cells /\ d.old \subseteq Cells /\ d.new \subseteq Cells
  BY <1>1 DEF Harm
<1>5. at \in SUBSET Cells /\ seed \in SUBSET Cells BY <1>4, RectOn
<1>6. stale' \subseteq Cells
  <2> HIDE DEF at, seed
  <2>1. Union(at, seed) \subseteq Cells BY <1>5, UnionIs
  <2> QED BY <1>2, <2>1 DEF SceneInv
<1> HIDE DEF d, at, seed
<1>7. Fields(a) /\ Painting(d, a) /\ a.old = d.old /\ a.new = d.new BY <1>4, MovedField
<1> HIDE DEF a
<1>8. Fields(b) /\ Painting(a, b) /\ Moving(a, b) BY <1>7, ContentField
<1> HIDE DEF b
<1>9. Fields(c) /\ Painting(b, c) /\ Moving(b, c) BY <1>8, PendingField
<1> HIDE DEF c
<1>10. Fields(g) /\ Painting(c, g) /\ Moving(c, g) BY <1>9, PendingFullField
<1> HIDE DEF g
<1>11. Fields(e) /\ e.pendingRect = NoRect /\ Painting(g, e) /\ Moving(g, e) BY <1>10, PendingRectField
<1> HIDE DEF e
<1>12. e.rect = d.rect /\ e.old = d.old /\ e.new = d.new
  BY Zenon, <1>7, <1>8, <1>9, <1>10, <1>11 DEF Painting, Moving
<1>13. Harm(e) BY <1>4, <1>11, <1>12 DEF Harm, NoRect
<1>14. Touched(srv, srv') /\ srv'.busy = srv.busy /\ srv'.dmg = e BY <1>1, <1>3, WithDmgIs
<1>15. Retold(srv, srv') BY Zenon, <1>13, <1>14 DEF Retold
<1>16. Sound(srv') /\ srv'.drag = srv.drag BY <1>1, <1>15, SameSound
<1> QED BY Zenon, <1>2, <1>6, <1>14, <1>16 DEF SceneInv, Mended

(* A frame begins; what waits goes on waiting.                               *)
BusyIs(s, t) == t.win = s.win /\ t.drag = s.drag /\ t.dmg = s.dmg
LEMMA BusySound ==
    ASSUME NEW s, Sound(s), NEW x, NEW t, t = WithBusy(s, x)
    PROVE  Sound(t) /\ BusyIs(s, t) /\ t.busy = x
<1>1. Server(s) /\ Panes(s.win) BY DEF Sound, Whole
<1>2. Server(t) /\ BusyIs(s, t) /\ t.busy = x BY <1>1 DEF Server, WithBusy, BusyIs
<1>3. Whole(t) /\ Harm(t.dmg) BY Zenon, <1>1, <1>2 DEF Whole, Sound, BusyIs
<1>4. Used(t) = Used(s) /\ Fit(t) BY <1>2, WinSame DEF Sound, BusyIs
<1>5. Low(t) BY Zenon, <1>2, <1>4 DEF Low, Sound, BusyIs
<1> QED BY Zenon, <1>2, <1>3, <1>4, <1>5 DEF Sound

Composing(s) == [s EXCEPT !.busy = TRUE, !.dmg.dirty = FALSE, !.dmg.full = FALSE, !.dmg.rect = NoRect]
LEMMA ComposingIs ==
    ASSUME NEW s, Sound(s), NEW t, t = Composing(s)
    PROVE  Sound(t) /\ t.drag = s.drag /\ t.busy = TRUE /\ Still(t.dmg) = Postponed(s.dmg) /\ Moving(s.dmg, t.dmg)
<1> DEFINE d == s.dmg
           a == [d EXCEPT !.dirty = FALSE]
           b == [a EXCEPT !.full = FALSE]
           e == [b EXCEPT !.rect = NoRect]
           u == WithDmg(s, e)
<1>1. Server(s) /\ Harm(d) BY DEF Sound, Whole
<1>2. t = WithBusy(u, TRUE) BY <1>1 DEF Composing, WithDmg, WithBusy, Server
<1>4. Fields(d) /\ d.rect \subseteq Cells /\ d.pendingRect \subseteq Cells /\ d.old \subseteq Cells /\ d.new \subseteq Cells
  BY <1>1 DEF Harm
<1>3. u = WithDmg(s, e) OBVIOUS
<1> HIDE DEF d, u
<1>5. Fields(a) /\ a.dirty = FALSE /\ a.full = d.full /\ a.rect = d.rect /\ Waiting(d, a) /\ Moving(d, a) BY <1>4, DirtyField
<1> HIDE DEF a
<1>6. Fields(b) /\ b.dirty = a.dirty /\ b.rect = a.rect /\ Waiting(a, b) /\ Moving(a, b) BY <1>5, FullField
<1> HIDE DEF b
<1>7. Fields(e) /\ e.rect = NoRect /\ e.dirty = b.dirty /\ Waiting(b, e) /\ Moving(b, e) BY <1>6, RectField
<1> HIDE DEF e
<1>8. e.dirty = FALSE /\ Waiting(d, e) /\ Moving(d, e) BY Zenon, <1>5, <1>6, <1>7 DEF Waiting, Moving
<1>9. Harm(e) BY <1>4, <1>7, <1>8 DEF Harm, NoRect, Waiting, Moving
<1>10. Touched(s, u) /\ u.busy = s.busy /\ u.dmg = e BY <1>1, <1>3, WithDmgIs
<1>11. Retold(s, u) BY Zenon, <1>9, <1>10 DEF Retold
<1>12. Sound(u) /\ u.drag = s.drag BY <1>11, SameSound
<1>13. Sound(t) /\ BusyIs(u, t) /\ t.busy = TRUE BY <1>2, <1>12, BusySound
<1>14. t.dmg = e /\ t.drag = s.drag BY Zenon, <1>10, <1>12, <1>13 DEF BusyIs
<1>15. Due(e) = {} BY <1>8 DEF Due
<1>16. Postponed(e) = Postponed(d) BY <1>8, WaitsSame
<1>17. Still(e) = Postponed(d) BY <1>15, <1>16 DEF Still
<1> QED BY Zenon, <1>8, <1>13, <1>14, <1>17 DEF d

LEMMA ComposeMends == ASSUME SceneInv, Compose PROVE SceneInv'
<1> DEFINE d == FoldDrag(srv)
           s == If(d, ~d.dmg.dirty, MergePending(d))
<1>0. \/ s.dmg.dirty /\ stale' = stale \ Region(s) /\ srv' = Composing(s)
      \/ ~s.dmg.dirty /\ srv' = s /\ stale' = stale
  BY Zenon DEF Compose, Composing
<1>1. Sound(srv) /\ Server(srv) /\ Harm(srv.dmg) /\ stale \subseteq Cells BY DEF SceneInv, Sound, Whole
<1>2. Free(srv) BY Zenon DEF Compose, Free
<1>3. /\ Retold(srv, d) /\ ~d.dmg.moved /\ Waiting(srv.dmg, d.dmg)
      /\ Due(srv.dmg) \cup Trail(srv.dmg) \subseteq Due(d.dmg)
  BY <1>1, <1>2, FoldIs
<1> HIDE DEF d
<1>4. stale \subseteq Still(d.dmg)
  <2>1. Postponed(d.dmg) = Postponed(srv.dmg) BY <1>3, WaitsSame
  <2> QED BY <1>2, <1>3, <2>1 DEF SceneInv, Mended, Still, Free
<1>5. Sound(d) /\ Server(d) /\ Harm(d.dmg) /\ Free(d)
  <2>1. Sound(d) /\ d.drag = srv.drag BY <1>1, <1>3, SameSound
  <2>2. d.busy = srv.busy BY <1>3 DEF Retold
  <2> QED BY Zenon, <1>2, <2>1, <2>2 DEF Sound, Whole, Free
<1>6. Sound(s) /\ Free(s) /\ ~s.dmg.moved /\ stale \subseteq Still(s.dmg)
  <2>1. CASE d.dmg.dirty
    <3>1. s = d BY Zenon, <2>1 DEF If
    <3> HIDE DEF s
    <3> QED BY Zenon, <1>3, <1>4, <1>5, <3>1
  <2>2. CASE ~d.dmg.dirty
    <3> DEFINE m == MergePending(d)
    <3>1. s = m BY Zenon, <2>2 DEF If
    <3> HIDE DEF s
    <3>2. Retold(d, m) /\ Moving(d.dmg, m.dmg) /\ (Free(d) => Still(d.dmg) \subseteq Due(m.dmg)) BY <1>5, MergeIs
    <3> HIDE DEF m
    <3>3. Sound(m) /\ m.drag = d.drag BY <1>5, <3>2, SameSound
    <3>4. Free(m) BY Zenon, <1>5, <3>2, <3>3 DEF Retold, Free
    <3>5. stale \subseteq Still(m.dmg) BY <1>4, <1>5, <3>2 DEF Still
    <3>6. ~m.dmg.moved BY Zenon, <1>3, <3>2 DEF Moving
    <3> QED BY Zenon, <3>1, <3>3, <3>4, <3>5, <3>6
  <2> QED BY <2>1, <2>2
<1> HIDE DEF s
<1>7. CASE s.dmg.dirty /\ stale' = stale \ Region(s) /\ srv' = Composing(s)
  <2>1. /\ Sound(srv') /\ srv'.drag = s.drag /\ srv'.busy = TRUE /\ Still(srv'.dmg) = Postponed(s.dmg)
        /\ Moving(s.dmg, srv'.dmg)
    BY <1>6, <1>7, ComposingIs
  <2>2. Due(s.dmg) \subseteq Region(s) BY <1>7, RegionIs
  <2>3. stale' \subseteq Still(srv'.dmg) /\ stale' \subseteq Cells BY <1>1, <1>6, <1>7, <2>1, <2>2 DEF Still
  <2>4. srv'.drag = None /\ ~srv'.dmg.moved BY Zenon, <1>6, <2>1 DEF Free, Moving
  <2>5. Mended' BY <2>3 DEF Mended
  <2> QED BY Zenon, <2>1, <2>3, <2>4, <2>5 DEF SceneInv
<1>8. CASE ~s.dmg.dirty /\ srv' = s /\ stale' = stale
  <2>1. stale' \subseteq Still(srv'.dmg) BY Zenon, <1>6, <1>8
  <2>2. Mended' BY <2>1 DEF Mended
  <2>3. Sound(srv') /\ stale' \subseteq Cells /\ ~srv'.busy BY Zenon, <1>1, <1>6, <1>8 DEF Free
  <2> QED BY Zenon, <2>2, <2>3 DEF SceneInv
<1> QED BY <1>0, <1>7, <1>8

-----------------------------------------------------------------------------
(* The end of a frame. Where the window that was worked on was is told of,   *)
(* and so is where it is, unless it is dragged.                              *)
Informed(s, w) ==
    /\ Ready(s, w) /\ Fit(s) /\ ~s.busy /\ Shifts(srv, s, w)
    /\ stale \cup Rect(srv.win[w].frame) \subseteq Still(s.dmg)

Dropped(s) == [s EXCEPT !.drag = None, !.dmg.moved = FALSE, !.dmg.content = FALSE]
LEMMA DroppedIs ==
    ASSUME NEW s, NEW w, Ready(s, w), Fit(s), NEW t, t = Dropped(s)
    PROVE  /\ Ready(t, w) /\ Fit(t) /\ Shifts(s, t, w) /\ t.win = s.win /\ t.drag = None /\ t.busy = s.busy
           /\ Still(t.dmg) = Still(s.dmg)
<1> DEFINE u == WithDrag(s, None)
           d == s.dmg
           a == [d EXCEPT !.moved = FALSE]
           e == [a EXCEPT !.content = FALSE]
<1>1. Server(s) /\ Harm(d) BY DEF Ready, Whole
<1>2. t = WithDmg(u, e) BY <1>1 DEF Dropped, WithDmg, WithDrag, Server
<1>3. Ready(u, w) /\ Shifts(s, u, w) /\ Fit(u) /\ u.drag = None /\ u.win = s.win /\ u.dmg = d /\ u.busy = s.busy
  BY DragReady
<1>4. Fields(d) /\ d.rect \subseteq Cells /\ d.pendingRect \subseteq Cells /\ d.old \subseteq Cells /\ d.new \subseteq Cells
  BY <1>1 DEF Harm
<1> HIDE DEF u, d
<1>5. Fields(a) /\ Painting(d, a) /\ Waiting(d, a) /\ a.old = d.old /\ a.new = d.new BY <1>4, MovedField
<1> HIDE DEF a
<1>6. Fields(e) /\ Painting(a, e) /\ Waiting(a, e) /\ Moving(a, e) BY <1>5, ContentField
<1> HIDE DEF e
<1>7. Painting(d, e) /\ Waiting(d, e) /\ e.old = d.old /\ e.new = d.new
  BY Zenon, <1>5, <1>6 DEF Painting, Waiting, Moving
<1>8. Harm(e) BY <1>4, <1>6, <1>7 DEF Harm, Painting, Waiting
<1>9. Server(u) BY <1>3 DEF Ready, Whole
<1>10. Touched(u, t) /\ t.busy = u.busy /\ t.dmg = e BY <1>2, <1>9, WithDmgIs
<1>11. Retold(u, t) BY Zenon, <1>8, <1>10 DEF Retold
<1>12. Ready(t, w) /\ Shifts(u, t, w) /\ t.drag = u.drag /\ HeightOf(t) = HeightOf(u) /\ t.win = u.win
  BY <1>3, <1>11, SameReaches
<1>13. Shifts(s, t, w) BY <1>3, <1>12, ShiftsTwice
<1>14. Fit(t) BY <1>3, <1>12, WinSame
<1>15. Still(e) = Still(d) BY <1>7, DueSame, WaitsSame DEF Still
<1> QED BY Zenon, <1>3, <1>10, <1>12, <1>13, <1>14, <1>15 DEF d

(* The damage put off is taken up.                                           *)
LEMMA MergeReaches ==
    ASSUME NEW s, NEW w, Ready(s, w), Fit(s)
    PROVE  LET t == MergePending(s) IN
           /\ Ready(t, w) /\ Fit(t) /\ Shifts(s, t, w) /\ t.win = s.win /\ t.drag = s.drag /\ t.busy = s.busy
           /\ Free(s) => Still(s.dmg) \subseteq Still(t.dmg)
<1> DEFINE t == MergePending(s)
<1>1. Server(s) /\ Harm(s.dmg) BY DEF Ready, Whole
<1>2. Retold(s, t) /\ Moving(s.dmg, t.dmg) /\ (Free(s) => Still(s.dmg) \subseteq Due(t.dmg)) BY <1>1, MergeIs
<1> HIDE DEF t
<1>3. Ready(t, w) /\ Shifts(s, t, w) /\ t.drag = s.drag /\ HeightOf(t) = HeightOf(s) /\ t.win = s.win
  BY <1>2, SameReaches
<1>4. Fit(t) BY <1>3, WinSame
<1>5. t.busy = s.busy BY <1>2 DEF Retold
<1>6. Free(s) => Still(s.dmg) \subseteq Still(t.dmg) BY <1>2 DEF Still
<1> QED BY Zenon, <1>3, <1>4, <1>5, <1>6 DEF t

LEMMA EndIs ==
    ASSUME NEW s, NEW w \in Slots, Ready(s, w), Fit(s), ~s.busy, s.drag = w
    PROVE  LET t == EndDrag(s) IN
           /\ Ready(t, w) /\ Fit(t) /\ Shifts(s, t, w) /\ t.win = s.win /\ t.drag = None /\ ~t.busy
           /\ Still(s.dmg) \cup Rect(s.win[w].frame) \subseteq Still(t.dmg)
<1> DEFINE r == Rect(s.win[w].frame)
           u == Dropped(s)
           m == MergePending(u)
           t == MarkRect(m, r)
<1>1. EndDrag(s) = t
  <2>1. s.drag # None BY SlotsAre
  <2> QED BY Zenon, <2>1 DEF EndDrag, If, Dropped
<1>2. r \in SUBSET Cells BY RectOn
<1>3. /\ Ready(u, w) /\ Fit(u) /\ Shifts(s, u, w) /\ u.win = s.win /\ u.drag = None /\ u.busy = s.busy
      /\ Still(u.dmg) = Still(s.dmg)
  BY DroppedIs
<1> HIDE DEF r, u
<1>4. Free(u) BY Zenon, <1>3 DEF Free
<1>5. /\ Ready(m, w) /\ Fit(m) /\ Shifts(u, m, w) /\ m.win = u.win /\ m.drag = u.drag /\ m.busy = u.busy
      /\ Free(u) => Still(u.dmg) \subseteq Still(m.dmg)
  BY <1>3, MergeReaches
<1> HIDE DEF m
<1>6. Reach(m, t, w) /\ HeightOf(t) = HeightOf(m) /\ t.win = m.win /\ r \subseteq Still(t.dmg)
  BY <1>2, <1>5, RectReaches
<1> HIDE DEF t
<1>7. Ready(t, w) /\ Shifts(m, t, w) /\ t.drag = m.drag /\ t.busy = m.busy /\ Still(m.dmg) \subseteq Still(t.dmg)
  BY <1>6 DEF Reach, Grows
<1>8. Fit(t) BY <1>5, <1>6, WinSame
<1>9. Shifts(s, m, w) BY <1>3, <1>5, ShiftsTwice
<1>10. Shifts(s, t, w) BY <1>7, <1>9, ShiftsTwice
<1>11. Still(s.dmg) \cup r \subseteq Still(t.dmg) BY <1>3, <1>4, <1>5, <1>6, <1>7
<1> QED BY Zenon, <1>1, <1>3, <1>5, <1>6, <1>7, <1>8, <1>10, <1>11 DEF r

LEMMA TellEnds ==
    ASSUME SceneInv, NEW s, NEW w, Informed(s, w), s.drag = None, Rect(s.win[w].frame) \subseteq Still(s.dmg),
           GoTo(MergePending(s))
    PROVE  SceneInv'
<1> DEFINE t == MergePending(s)
<1>0. GoTo(t) OBVIOUS
<1>1. Free(s) BY Zenon DEF Informed, Free
<1>2. /\ Ready(t, w) /\ Fit(t) /\ Shifts(s, t, w) /\ t.win = s.win /\ t.drag = s.drag /\ t.busy = s.busy
      /\ Free(s) => Still(s.dmg) \subseteq Still(t.dmg)
  BY MergeReaches DEF Informed
<1> HIDE DEF t
<1>3. Sound(srv) /\ Sound(t) BY <1>2, ReadySound DEF SceneInv
<1>4. Shifts(srv, t, w) BY <1>2, ShiftsTwice DEF Informed
<1>5. Changed(srv, t) \subseteq Rect(srv.win[w].frame) \cup Rect(t.win[w].frame) BY <1>3, <1>4, ChangedIn
<1>6. t.win[w].frame = s.win[w].frame BY <1>2
<1>7. stale \cup Changed(srv, t) \subseteq Still(t.dmg) \cup Trail(t.dmg) BY <1>1, <1>2, <1>5, <1>6 DEF Informed
<1>8. ~t.busy BY <1>2 DEF Informed
<1> QED BY <1>0, <1>3, <1>7, <1>8, ToldKeeps

LEMMA EndedMends ==
    ASSUME SceneInv, NEW s, NEW w \in Slots, Informed(s, w), NEW released, Ended(s, released),
           s.drag = w \/ (s.drag = None /\ Rect(s.win[w].frame) \subseteq Still(s.dmg))
    PROVE  SceneInv'
<1>0. w # None BY SlotsAre
<1>1. CASE s.drag = None
  <2>1. EndDrag(s) = s BY Zenon, <1>1 DEF EndDrag, If
  <2>2. GoTo(MergePending(s)) BY Zenon, <2>1 DEF Ended, If
  <2> QED BY <1>0, <1>1, <2>2, TellEnds
<1>2. CASE s.drag = w /\ ~released
  <2> DEFINE t == MergePending(s)
  <2>1. GoTo(t) BY Zenon, <1>2 DEF Ended, If
  <2>2. /\ Ready(t, w) /\ Fit(t) /\ Shifts(s, t, w) /\ t.win = s.win /\ t.drag = s.drag /\ t.busy = s.busy
        /\ Free(s) => Still(s.dmg) \subseteq Still(t.dmg)
    BY MergeReaches DEF Informed
  <2> HIDE DEF t
  <2>3. Sound(t) /\ ~t.busy /\ t.drag # None BY <1>0, <1>2, <2>2, ReadySound DEF Informed
  <2> QED BY <2>1, <2>3, DraggedKeeps
<1>3. CASE s.drag = w /\ released
  <2> DEFINE e == EndDrag(s)
  <2>1. GoTo(MergePending(e)) BY Zenon, <1>3 DEF Ended, If
  <2>2. /\ Ready(e, w) /\ Fit(e) /\ Shifts(s, e, w) /\ e.win = s.win /\ e.drag = None /\ ~e.busy
        /\ Still(s.dmg) \cup Rect(s.win[w].frame) \subseteq Still(e.dmg)
    BY <1>3, EndIs DEF Informed
  <2> HIDE DEF e
  <2>3. Shifts(srv, e, w) BY <2>2, ShiftsTwice DEF Informed
  <2>4. Informed(e, w) BY <2>2, <2>3 DEF Informed
  <2>5. Rect(e.win[w].frame) \subseteq Still(e.dmg) BY <2>2
  <2> QED BY <2>1, <2>2, <2>4, <2>5, TellEnds
<1> QED BY <1>1, <1>2, <1>3

LEMMA MoveTold ==
    ASSUME NEW s, NEW w \in Slots, Informed(s, w), s.drag = w, NEW f
    PROVE  LET t == MoveTo(s, w, f) IN Informed(t, w) /\ t.drag = w
<1> DEFINE t == MoveTo(s, w, f)
<1>1. CASE s.win[w].frame = f
  <2>1. t = s BY Zenon, <1>1 DEF MoveTo
  <2> HIDE DEF t
  <2>2. Informed(t, w) /\ t.drag = w BY Zenon, <2>1
  <2> QED BY <2>2 DEF t
<1>2. CASE s.win[w].frame # f
  <2>1. /\ Ready(t, w) /\ Shifts(s, t, w) /\ Grows(s, t) /\ t.drag = s.drag
        /\ t.win[w].frame = f /\ (Fit(s) => Fit(t))
        /\ s.drag # w => Rect(s.win[w].frame) \cup Rect(f) \subseteq Still(t.dmg)
    BY <1>2, MoveReaches DEF Informed
  <2> HIDE DEF t
  <2>2. Shifts(srv, t, w) BY <2>1, ShiftsTwice DEF Informed
  <2>3. Informed(t, w) /\ t.drag = w BY <2>1, <2>2 DEF Informed, Grows
  <2> QED BY <2>3 DEF t
<1> QED BY <1>1, <1>2

(* A press that was put off.                                                 *)
LEMMA PressTold ==
    ASSUME SceneInv, srv.busy, NEW b, b = WithBusy(srv, FALSE),
           NEW w \in Used(b), b.win[w].kind.accept, NEW s, s = FocusOn(b, w) \/ s = WithDrag(FocusOn(b, w), w)
    PROVE  Informed(s, w) /\ (s.drag = w \/ (s.drag = None /\ Rect(s.win[w].frame) \subseteq Still(s.dmg)))
<1> DEFINE f == FocusOn(b, w)
           u == WithDrag(f, w)
<1>1. Sound(b) /\ BusyIs(srv, b) /\ b.busy = FALSE BY BusySound DEF SceneInv
<1>2. Ready(b, w) BY <1>1, SoundReady
<1>3. Reach(b, f, w) /\ f.win[w].frame = b.win[w].frame /\ Rect(b.win[w].frame) \subseteq Still(f.dmg) /\ Fit(f)
  BY <1>2, FocusReaches
<1> HIDE DEF f
<1>4. stale \subseteq Still(b.dmg) /\ b.drag = None
  <2>1. srv.drag = None /\ Trail(srv.dmg) = {} BY DEF SceneInv, Trail
  <2> QED BY <1>1, <2>1 DEF SceneInv, Mended, BusyIs
<1>5. Shifts(srv, f, w)
  <2>1. b.win = srv.win /\ HeightOf(b) = HeightOf(srv) /\ Visible(b) = Visible(srv) BY <1>1, WinSame DEF BusyIs
  <2>2. Shifts(b, f, w) BY <1>3 DEF Reach
  <2> QED BY Zenon, <2>1, <2>2 DEF Shifts, Others
<1>6. Informed(f, w) BY <1>1, <1>3, <1>4, <1>5 DEF Informed, Reach, Grows, BusyIs
<1>7. f.drag = None /\ Rect(f.win[w].frame) \subseteq Still(f.dmg) BY <1>3, <1>4 DEF Reach
<1>8. /\ Ready(u, w) /\ Shifts(f, u, w) /\ (Fit(f) => Fit(u))
      /\ u.drag = w /\ u.win = f.win /\ u.dmg = f.dmg /\ u.busy = f.busy
  BY <1>6, DragReady DEF Informed
<1>9. s = f \/ s = u BY DEF f
<1> HIDE DEF u
<1>10. Shifts(srv, u, w) BY <1>6, <1>8, ShiftsTwice DEF Informed
<1>11. Informed(u, w) BY Zenon, <1>6, <1>8, <1>10 DEF Informed
<1> QED BY Zenon, <1>6, <1>7, <1>8, <1>9, <1>11

LEMMA FinishMends == ASSUME Good(srv), SceneInv, NEW released, FinishFrame(released) PROVE SceneInv'
<1> DEFINE b == WithBusy(srv, FALSE)
           p == Press(b, late.press[1], late.press[2])
           s == FlushPress(b)
<1>1. FlushMove(s, released) /\ srv.busy BY Zenon DEF FinishFrame, WithBusy
<1>2. Good(b) BY BusyTouches, TouchGood DEF Good, Whole
<1>3. b = WithBusy(srv, FALSE) OBVIOUS
<1> HIDE DEF b
<1>4. \/ p = b
      \/ \E w \in Used(b) : b.win[w].kind.accept /\ (p = FocusOn(b, w) \/ p = WithDrag(FocusOn(b, w), w))
  BY <1>2, PressIs
<1>5. s = b \/ s = p BY Zenon DEF FlushPress, If
<1> HIDE DEF p, s
<1>6. Sound(b) /\ BusyIs(srv, b) /\ b.busy = FALSE BY <1>3, BusySound DEF SceneInv
<1>7. CASE s = b
  <2> DEFINE t == MergePending(b)
  <2>1. b.drag = None /\ srv.drag = None /\ ~srv.dmg.moved BY Zenon, <1>1, <1>6 DEF SceneInv, BusyIs
  <2>2. EndDrag(b) = b BY Zenon, <2>1 DEF EndDrag, If
  <2>3. GoTo(t) BY Zenon, <1>1, <1>7, <2>1, <2>2 DEF FlushMove, Ended, If
  <2>4. Ready(b, 0) /\ Fit(b) /\ Free(b) BY <1>6, <2>1, SoundReady DEF Sound, Free
  <2>5. /\ Ready(t, 0) /\ Fit(t) /\ Shifts(b, t, 0) /\ t.win = b.win /\ t.drag = b.drag /\ t.busy = b.busy
        /\ Free(b) => Still(b.dmg) \subseteq Still(t.dmg)
    BY <2>4, MergeReaches
  <2> HIDE DEF t
  <2>6. Sound(t) /\ Sound(srv) /\ t.win = srv.win /\ ~t.busy BY <1>6, <2>5, ReadySound DEF BusyIs, SceneInv
  <2>7. \A c \in Cells : Scene(t, Painted(t), c) = Scene(srv, Painted(srv), c) BY <2>6, SceneSame
  <2>8. Changed(srv, t) = {} BY <2>7 DEF Changed
  <2>9. stale \subseteq Still(b.dmg)
    <3>1. Trail(srv.dmg) = {} BY <2>1 DEF Trail
    <3> QED BY <1>6, <2>1, <3>1 DEF SceneInv, Mended, BusyIs
  <2>10. stale \cup Changed(srv, t) \subseteq Still(t.dmg) \cup Trail(t.dmg) BY <2>4, <2>5, <2>8, <2>9
  <2> QED BY <2>3, <2>6, <2>10, ToldKeeps
<1>8. ASSUME NEW w \in Used(b), b.win[w].kind.accept, s = FocusOn(b, w) \/ s = WithDrag(FocusOn(b, w), w)
      PROVE  SceneInv'
  <2>1. Informed(s, w) /\ (s.drag = w \/ (s.drag = None /\ Rect(s.win[w].frame) \subseteq Still(s.dmg)))
    BY <1>1, <1>3, <1>8, PressTold
  <2>2. w \in Slots /\ w # None BY SlotsAre DEF Used
  <2>3. CASE Ended(s, released) BY <2>1, <2>2, <2>3, EndedMends
  <2>4. ASSUME s.drag # None, NEW f, Ended(MoveTo(s, s.drag, f), released) PROVE SceneInv'
    <3> DEFINE m == MoveTo(s, w, f)
    <3>1. s.drag = w BY <2>1, <2>4
    <3>2. Ended(m, released) BY Zenon, <2>4, <3>1
    <3>3. Informed(m, w) /\ m.drag = w BY <2>1, <2>2, <3>1, MoveTold
    <3> HIDE DEF m
    <3> QED BY <2>2, <3>2, <3>3, EndedMends
  <2> QED BY Zenon, <1>1, <2>3, <2>4 DEF FlushMove
<1> QED BY Zenon, <1>4, <1>5, <1>7, <1>8

LEMMA SceneFirst == ASSUME ServerInit PROVE SceneInv
<1> DEFINE k == CleanDamage
           a == [k EXCEPT !.dirty = TRUE]
           d == [a EXCEPT !.full = TRUE]
<1>1. Whole(srv) /\ srv.win = [w \in Slots |-> NoWindow] /\ srv.drag = None /\ srv.busy = FALSE /\ srv.dmg = d
  <2>1. Whole(srv) BY FocusFirst DEF FocusInv, Good
  <2>2. [CleanDamage EXCEPT !.dirty = TRUE, !.full = TRUE] = d BY DEF CleanDamage
  <2> QED BY <2>1, <2>2 DEF ServerInit
<1>2. /\ Fields(k) /\ k.rect = {} /\ k.pendingRect = {} /\ k.moved = FALSE /\ k.old = {} /\ k.new = {}
  <2>1. k = [dirty |-> FALSE, full |-> FALSE, rect |-> {}, pending |-> FALSE, pendingFull |-> FALSE,
             pendingRect |-> {}, moved |-> FALSE, old |-> {}, new |-> {}, content |-> FALSE]
    BY Zenon DEF CleanDamage, NoRect
  <2>2. /\ k.dirty = FALSE /\ k.full = FALSE /\ k.rect = {} /\ k.pending = FALSE /\ k.pendingFull = FALSE
        /\ k.pendingRect = {} /\ k.moved = FALSE /\ k.old = {} /\ k.new = {} /\ k.content = FALSE
    BY Zenon, <2>1
  <2> HIDE DEF k
  <2> QED BY Zenon, <2>1, <2>2 DEF Fields
<1> HIDE DEF k
<1>20. Fields(a) /\ a.dirty = TRUE /\ a.rect = k.rect /\ Waiting(k, a) /\ Moving(k, a) BY <1>2, DirtyField
<1> HIDE DEF a
<1>21. Fields(d) /\ d.full = TRUE /\ d.dirty = a.dirty /\ d.rect = a.rect /\ Waiting(a, d) /\ Moving(a, d)
  BY <1>20, FullField
<1> HIDE DEF d
<1>3. Harm(d) BY <1>2, <1>20, <1>21 DEF Harm, Waiting, Moving
<1>4. Used(srv) = {}
  <2>1. \A w \in Slots : ~srv.win[w].used BY <1>1 DEF NoWindow
  <2> QED BY <2>1 DEF Used
<1>5. Visible(srv) = {} BY <1>4 DEF Visible
<1>6. Low(srv) BY <1>4 DEF Low
<1>7. Fit(srv) BY Zenon, <1>5 DEF Fit, Settled
<1>8. Sound(srv) BY <1>1, <1>3, <1>6, <1>7 DEF Sound
<1>9. Still(d) = Cells BY <1>20, <1>21, <1>3, HarmIs DEF Still, Due
<1>10. stale = Cells BY DEF ServerInit
<1>11. Mended BY <1>1, <1>9, <1>10 DEF Mended
<1> QED BY <1>1, <1>8, <1>10, <1>11 DEF SceneInv

LEMMA SceneStep == ASSUME KindsRaised, FocusInv, SceneInv, [ServerNext]_serverVars PROVE SceneInv'
<1>0. Good(srv) BY DEF FocusInv
<1>1. ASSUME NEW k \in Kinds, NEW v \in BOOLEAN, NEW f \in Frames, NEW z \in 1 .. TopZ(srv) + 1, Create(k, v, f, z)
      PROVE  SceneInv'
  <2>1. TopZ(srv) \in Nat BY <1>0, TopIs DEF Good
  <2>2. z \in Nat BY <2>1
  <2> QED BY <1>1, <2>2, CreateMends
<1>2. ASSUME NEW w \in Used(srv),
             \/ Destroy(w) \/ Focus(w) \/ PublishWindow(w)
             \/ \E f \in Frames, v \in BOOLEAN : SetOpts(w, v, f)
             \/ \E f \in Translations(srv, w) : MoveWindow(w, f)
      PROVE  SceneInv'
  <2>0. w \in Slots BY DEF Used
  <2>1. CASE Destroy(w) BY <2>0, <2>1, DestroyKeeps
  <2>2. CASE Focus(w)
    <3>1. ~srv.busy /\ GoTo(FocusOn(srv, w)) BY Zenon, <2>2 DEF Focus, Keep
    <3> QED BY <3>1, FocusKeeps
  <2>3. CASE PublishWindow(w) BY <2>0, <2>3, PublishMends
  <2>4. ASSUME NEW f \in Frames, NEW v \in BOOLEAN, SetOpts(w, v, f) PROVE SceneInv' BY <2>4, OptsKeeps
  <2>5. ASSUME NEW f, MoveWindow(w, f) PROVE SceneInv'
    <3>1. ~srv.busy /\ GoTo(MoveTo(srv, w, f)) BY Zenon, <2>5 DEF MoveWindow, Keep
    <3> QED BY <2>0, <3>1, MoveKeeps
  <2> QED BY Zenon, <1>2, <2>1, <2>2, <2>3, <2>4, <2>5
<1>3. ASSUME NEW c, NEW t, MouseDown(c, t) PROVE SceneInv' BY <1>0, <1>3, DownKeeps
<1>4. CASE MouseUp BY <1>4, UpKeeps
<1>5. CASE MouseMove BY <1>0, <1>5, MouseMoveKeeps
<1>6. CASE Slide BY <1>6, SlideMends
<1>7. CASE Compose BY <1>7, ComposeMends
<1>8. ASSUME NEW r, FinishFrame(r) PROVE SceneInv' BY <1>0, <1>8, FinishMends
<1>9. CASE UNCHANGED serverVars BY Zenon, <1>9 DEF serverVars, SceneInv, Mended
<1> QED BY Zenon, <1>1, <1>2, <1>3, <1>4, <1>5, <1>6, <1>7, <1>8, <1>9 DEF ServerNext

LEMMA MendedIsDamaged == ASSUME SceneInv PROVE Damaged
<1> SUFFICES ASSUME srv.drag = None PROVE stale \subseteq Owed(srv) BY DEF Damaged
<1>1. stale \subseteq Still(srv.dmg) \cup Trail(srv.dmg) BY DEF SceneInv, Mended
<1>2. srv.dmg.dirty => Due(srv.dmg) \subseteq Region(srv) BY RegionIs
<1>3. Still(srv.dmg) \cup Trail(srv.dmg) \subseteq Owed(srv)
  BY <1>2 DEF Still, Due, Postponed, Trail, Owed
<1> QED BY <1>1, <1>3

(* What the back buffer does not show as the windows now are is known to be  *)
(* damaged (server.c:300-415, compositor.c:41-57), and the keyboard is with  *)
(* a window that can take it, for any number of windows, any screen and any  *)
(* kinds of windows that take keys, are kept on top or are at the bottom.    *)
THEOREM ScreenIsMended == KindsRaised => (ServerSpec => []WindowsSound)
<1>1. ServerInit => FocusInv BY FocusFirst
<1>2. FocusInv /\ [ServerNext]_serverVars => FocusInv' BY FocusGoesOn
<1>3. ServerInit => SceneInv BY SceneFirst
<1>4. KindsRaised /\ FocusInv /\ SceneInv /\ [ServerNext]_serverVars => SceneInv' BY SceneStep
<1>5. FocusInv /\ SceneInv => WindowsSound
  <2>1. FocusInv => FocusSound BY Zenon DEF FocusInv, Good, Focused, FocusSound, Drawn
  <2>2. SceneInv => Damaged BY MendedIsDamaged
  <2> QED BY <2>1, <2>2 DEF WindowsSound
<1>6. KindsRaised => KindsRaised' BY DEF KindsRaised
<1> SUFFICES ASSUME KindsRaised PROVE ServerSpec => []WindowsSound OBVIOUS
<1>7. FocusInv /\ SceneInv /\ [ServerNext]_serverVars => SceneInv' BY <1>4
<1> QED BY <1>1, <1>2, <1>3, <1>5, <1>7, PTL DEF ServerSpec
=============================================================================
