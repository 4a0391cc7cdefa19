---------------------------- MODULE MCScheduler ----------------------------
(* Two CPUs: their idle threads in slots 0 and 3, user threads in 1 and 2,   *)
(* the kernel shell, which no CPU is reserved for, in 4.                     *)
EXTENDS Scheduler

MCIdleCpu == [t \in Slots |-> CASE t = 0 -> 0 [] t = 3 -> 1 [] OTHER -> -1]
MCPinned == {1, 2}
=============================================================================
