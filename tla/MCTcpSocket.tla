---------------------------- MODULE MCTcpSocket ----------------------------
(* The ephemeral ports are 2 alone; the threads of the program are alike.    *)
EXTENDS TcpSocket, TLC

MCEphemeral == {2}
Alike == Permutations(Threads)
=============================================================================
