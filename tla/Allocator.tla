----------------------------- MODULE Allocator -----------------------------
(***************************************************************************)
(* What include/kernel/heap.h promises: kmalloc returns nothing or an       *)
(* aligned range of memory of its own, which is the caller's until kfree.   *)
(* Memory is counted in 16-byte units.                                      *)
(***************************************************************************)
EXTENDS Integers

CONSTANTS Base, End,       \* the heap is [Base, End)
          Sizes, Aligns    \* what may be asked for

VARIABLE live              \* the allocations: [at, size, align]

Disjoint(r, s) == r.at + r.size <= s.at \/ s.at + s.size <= r.at

Init == live = {}

Malloc(size, align) ==
    \/ \E at \in Base .. End - size :
          LET r == [at |-> at, size |-> size, align |-> align]
          IN  /\ at % align = 0
              /\ \A s \in live : Disjoint(r, s)
              /\ live' = live \cup {r}
    \/ UNCHANGED live                  \* NULL

Free(r) == r \in live /\ live' = live \ {r}

Next == \/ \E size \in Sizes, align \in Aligns : Malloc(size, align)
        \/ \E r \in live : Free(r)

Spec == Init /\ [][Next]_live
=============================================================================
