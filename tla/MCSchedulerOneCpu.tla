------------------------- MODULE MCSchedulerOneCpu -------------------------
(* One CPU: its idle thread in slot 0 and user threads in the other slots.   *)
EXTENDS Scheduler

MCIdleCpu == [t \in Slots |-> IF t = 0 THEN 0 ELSE -1]
MCPinned == Slots \ {0}
=============================================================================
