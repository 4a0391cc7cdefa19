---------------------------- MODULE NumberLemmas ----------------------------
(* Facts about numbers that the proofs of several components rest on.        *)
EXTENDS Integers, WellFoundedInduction, TLAPS

(* A non-empty set of numbers has a least element.                           *)
LEMMA NotLess == \A x, y \in Nat : ~(y < x) => x <= y
OBVIOUS

LEMMA HasLeast ==
    ASSUME NEW S, S \subseteq Nat, S # {}
    PROVE  \E x \in S : \A y \in S : x <= y
<1>1. PICK x \in S : \A y \in S : ~(<<y, x>> \in OpToRel(<, Nat))
  BY NatLessThanWellFounded, WFMin
<1>2. \A y \in S : <<y, x>> \in Nat \X Nat
  OBVIOUS
<1>3. \A y \in S : ~(y < x)
  BY <1>1, <1>2, Zenon DEF OpToRel
<1>4. \A y \in S : x <= y
  <2> HIDE <1>1
  <2> QED BY <1>3, NotLess, Zenon
<1> QED BY <1>4, Zenon

(* What is left of a number that a ring of R places is passed once at most by. *)
LEMMA WithinRing == ASSUME NEW R \in Nat \ {0}, NEW y \in Nat, y < R PROVE y % R = y
OBVIOUS

LEMMA OnceRound == ASSUME NEW R \in Nat \ {0}, NEW y \in Nat, R <= y, y < R + R PROVE y % R = y - R
OBVIOUS

Turn(x, R) == x % R

LEMMA TurnIs ==
    ASSUME NEW R \in Nat \ {0}, NEW x \in Nat, x < R + R
    PROVE  Turn(x, R) = IF x < R THEN x ELSE x - R
<1>1. x < R => Turn(x, R) = x BY WithinRing DEF Turn
<1>2. R <= x => Turn(x, R) = x - R BY OnceRound DEF Turn
<1> QED BY <1>1, <1>2

(* Of a ring of R places n are taken from r on: the next to be taken, w, is   *)
(* none of them, and without the first d the others are where they were.     *)
Pushing(R, r, n, w) ==
    /\ w \in 0 .. R - 1 /\ Turn(w + 1, R) \in 0 .. R - 1
    /\ Turn(w + 1, R) = Turn(r + (n + 1), R) /\ Turn(r + (n + 1) - 1, R) = w
    /\ \A i \in 1 .. n : Turn(r + i - 1, R) \in 0 .. R - 1 /\ Turn(r + i - 1, R) # w

Popping(R, r, n, d, v) ==
    /\ v \in 0 .. R - 1 /\ Turn(v + (n - d), R) = Turn(r + n, R) /\ Turn(r, R) = r
    /\ \A i \in 1 .. n - d : /\ Turn(v + i - 1, R) = Turn(r + (i + d) - 1, R)
                            /\ Turn(v + i - 1, R) \in 0 .. R - 1 /\ (d > 0 => Turn(v + i - 1, R) # r)

LEMMA RingPush ==
    ASSUME NEW R \in Nat \ {0}, NEW r \in 0 .. R - 1, NEW n \in 0 .. R - 1, NEW w, w = Turn(r + n, R)
    PROVE  Pushing(R, r, n, w)
<1>1. r \in Nat /\ n \in Nat /\ r + n \in Nat /\ r + n < R + R OBVIOUS
<1>2. w = IF r + n < R THEN r + n ELSE r + n - R BY <1>1, TurnIs
<1>3. Turn(r + (n + 1), R) = IF r + (n + 1) < R THEN r + (n + 1) ELSE r + (n + 1) - R BY <1>1, TurnIs
<1>4. r + (n + 1) - 1 = r + n BY <1>1
<1>5. Turn(r + (n + 1) - 1, R) = w BY <1>4
<1>6. w \in 0 .. R - 1 BY <1>1, <1>2
<1>7. Turn(w + 1, R) = IF w + 1 < R THEN w + 1 ELSE w + 1 - R BY <1>6, TurnIs
<1>8. ASSUME NEW i \in 1 .. n PROVE Turn(r + i - 1, R) \in 0 .. R - 1 /\ Turn(r + i - 1, R) # w
  <2> DEFINE k == r + i - 1
  <2>1. k \in Nat /\ k < r + n /\ r <= k BY <1>1
  <2> HIDE DEF k
  <2>2. Turn(k, R) = IF k < R THEN k ELSE k - R BY <1>1, <2>1, TurnIs
  <2>3. Turn(k, R) \in 0 .. R - 1 /\ Turn(k, R) # w BY <1>1, <1>2, <2>1, <2>2
  <2> QED BY <2>3 DEF k
<1>9. Turn(w + 1, R) \in 0 .. R - 1 /\ Turn(w + 1, R) = Turn(r + (n + 1), R) BY <1>1, <1>2, <1>3, <1>6, <1>7
<1> QED BY <1>5, <1>6, <1>8, <1>9 DEF Pushing

LEMMA RingPop ==
    ASSUME NEW R \in Nat \ {0}, NEW r \in 0 .. R - 1, NEW n \in 0 .. R, NEW d \in 0 .. n, NEW v, v = Turn(r + d, R)
    PROVE  Popping(R, r, n, d, v)
<1>1. r \in Nat /\ n \in Nat /\ d \in Nat /\ d <= n /\ n <= R /\ r < R OBVIOUS
<1>2. v = IF r + d < R THEN r + d ELSE r + d - R BY <1>1, TurnIs
<1>3. Turn(r + n, R) = IF r + n < R THEN r + n ELSE r + n - R BY <1>1, TurnIs
<1>4. Turn(r, R) = r BY <1>1, TurnIs
<1>5. v \in 0 .. R - 1 /\ v \in Nat BY <1>1, <1>2
<1>6. Turn(v + (n - d), R) = IF v + (n - d) < R THEN v + (n - d) ELSE v + (n - d) - R BY <1>1, <1>5, TurnIs
<1>7. Turn(v + (n - d), R) = Turn(r + n, R) BY <1>1, <1>2, <1>3, <1>6
<1>8. ASSUME NEW i \in 1 .. n - d
      PROVE  /\ Turn(v + i - 1, R) = Turn(r + (i + d) - 1, R)
             /\ Turn(v + i - 1, R) \in 0 .. R - 1 /\ (d > 0 => Turn(v + i - 1, R) # r)
  <2> DEFINE k == v + i - 1
             j == r + (i + d) - 1
  <2>1. k \in Nat /\ k < R + R /\ k = v + i - 1 /\ j \in Nat /\ j < R + R /\ j = r + d + i - 1
    BY <1>1, <1>5
  <2> HIDE DEF k, j
  <2>2. Turn(k, R) = IF k < R THEN k ELSE k - R BY <1>1, <2>1, TurnIs
  <2>3. Turn(j, R) = IF j < R THEN j ELSE j - R BY <1>1, <2>1, TurnIs
  <2>4. Turn(k, R) = Turn(j, R) /\ Turn(k, R) \in 0 .. R - 1 /\ (d > 0 => Turn(k, R) # r)
    BY <1>1, <1>2, <1>5, <2>1, <2>2, <2>3
  <2> QED BY <2>4 DEF k, j
<1> QED BY <1>4, <1>5, <1>7, <1>8 DEF Popping

(* Induction up to n over a set of numbers, and the function that a recursion *)
(* defines: its step is given as a function, so that both may be cited.       *)
LEMMA UpTo ==
    ASSUME NEW n \in Nat, NEW S, 0 \in S, \A k \in 1 .. n : k - 1 \in S => k \in S
    PROVE  \A k \in 0 .. n : k \in S
<1> DEFINE B == {k \in 0 .. n : k \notin S}
<1> SUFFICES ASSUME B # {} PROVE FALSE OBVIOUS
<1>1. B \subseteq Nat OBVIOUS
<1>2. PICK x \in B : \A y \in B : x <= y BY <1>1, HasLeast
<1>3. x \in 0 .. n /\ x \notin S /\ x # 0 OBVIOUS
<1>4. x - 1 \in 0 .. n /\ x - 1 \notin B BY <1>2, <1>3
<1> QED BY <1>3, <1>4

Steps(S, n) == [S \X (1 .. n) -> S]

Recurs(g, S, n, a, F) ==
    g \in [0 .. n -> S] /\ g[0] = a /\ \A k \in 1 .. n : g[k] = F[<<g[k - 1], k>>]

LEMMA Recursion ==
    ASSUME NEW n \in Nat, NEW S, NEW a \in S, NEW F \in Steps(S, n)
    PROVE  \E g : Recurs(g, S, n, a, F)
<1>0. F \in [S \X (1 .. n) -> S] BY DEF Steps
<1> DEFINE Sol(m, g) == g \in [0 .. m -> S] /\ g[0] = a /\ \A k \in 1 .. m : g[k] = F[<<g[k - 1], k>>]
           T == {m \in 0 .. n : \E g \in [0 .. m -> S] : Sol(m, g)}
<1>1. 0 \in T
  <2> DEFINE g == [k \in 0 .. 0 |-> a]
  <2>1. g \in [0 .. 0 -> S] /\ g[0] = a OBVIOUS
  <2>2. Sol(0, g) BY <2>1
  <2> HIDE DEF g
  <2>3. \E f \in [0 .. 0 -> S] : Sol(0, f) BY <2>1, <2>2
  <2> QED BY <2>3
<1>2. ASSUME NEW m \in 1 .. n, m - 1 \in T PROVE m \in T
  <2>1. PICK g \in [0 .. m - 1 -> S] : Sol(m - 1, g) BY <1>2
  <2> DEFINE h == [k \in 0 .. m |-> IF k = m THEN F[<<g[m - 1], m>>] ELSE g[k]]
  <2>2. g[m - 1] \in S /\ F[<<g[m - 1], m>>] \in S BY <1>0, <2>1
  <2>3. h \in [0 .. m -> S]
    <3>1. \A k \in 0 .. m : k # m => k \in 0 .. m - 1 /\ g[k] \in S BY <2>1
    <3>2. \A k \in 0 .. m : (IF k = m THEN F[<<g[m - 1], m>>] ELSE g[k]) \in S BY <2>2, <3>1
    <3> QED BY <3>2
  <2>4. h[0] = a BY <2>1
  <2>5. ASSUME NEW k \in 1 .. m PROVE h[k] = F[<<h[k - 1], k>>]
    <3>1. CASE k = m
      <4>1. h[k - 1] = g[m - 1] /\ h[k] = F[<<g[m - 1], m>>] BY <3>1
      <4> HIDE DEF h
      <4> QED BY <3>1, <4>1
    <3>2. CASE k # m
      <4>1. k \in 1 .. m - 1 /\ k - 1 \in 0 .. m /\ k - 1 # m BY <3>2
      <4>2. h[k] = g[k] /\ h[k - 1] = g[k - 1] BY <3>2, <4>1
      <4> QED BY <2>1, <4>1, <4>2
    <3> QED BY <3>1, <3>2
  <2> HIDE DEF h
  <2> QED BY <2>3, <2>4, <2>5
<1> HIDE DEF T
<1>3. n \in T BY <1>1, <1>2, UpTo
<1>4. PICK g \in [0 .. n -> S] : Sol(n, g) BY <1>3 DEF T
<1> QED BY <1>4 DEF Recurs
=============================================================================
