------------------------------ MODULE MCKEvent ------------------------------
(* Three threads in two processes (t1 with its worker t2, and t3).         *)
EXTENDS KEvent, TLC

CONSTANTS t1, t2, t3

MCThreads == {t1, t2, t3}
MCLeader == t1 :> t1 @@ t2 :> t1 @@ t3 :> t3
MCTimeouts == {-2, 0, 1, 3}
=============================================================================
