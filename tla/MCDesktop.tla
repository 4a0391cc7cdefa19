----------------------------- MODULE MCDesktop -----------------------------
(***************************************************************************)
(* What a desktop program stands on besides files: the SDK's locks, the    *)
(* window server, the way of a key to a program, the page of processes,    *)
(* the heap and the loader, each on its own and explored in one run: part  *)
(* says which one the behaviour is of.                                     *)
(***************************************************************************)
EXTENDS SdkSync, WindowServer, Heap, Input, ProcSnapshot, Loader, MCProcessLifecycle

CONSTANTS t1, t2, t3, pa, pb, wa

VARIABLE part

MCThreads == {t1, t2, t3}
MCFrames  == {<<0, 1>>, <<1, 1>>, <<0, 2>>}
MCApp     == [accept |-> TRUE, topmost |-> FALSE, bottom |-> FALSE]
MCBar     == [accept |-> FALSE, topmost |-> TRUE, bottom |-> FALSE]
MCKinds   == {MCApp, MCBar}
MCSizes   == {1, 2, 4}
MCAligns  == {1, 2, 4}
MCHome    == [w \in Apps |-> w]
MCPrograms == {pa, pb}
MCWatchers == {wa}
MCBuild(n, lo, hi, img, entry, needs, imports) ==
    [name |-> n, lo |-> lo, hi |-> hi, image |-> img, entry |-> entry, needs |-> needs, imports |-> imports]
MCBuilds  == <<MCBuild("a", 0, 2, 1, 0, <<"l1">>, {"x"}), MCBuild("a", 0, 3, 2, 1, <<"l1", "l2">>, {"x", "y"}),
               MCBuild("c", 3, 4, 1, 3, <<"l2">>, {"y"})>>
MCLibs    == {[name |-> "l1", syms |-> {"x"}, undef |-> {}], [name |-> "l2", syms |-> {"y"}, undef |-> {"x"}]}
MCKmods   == {[name |-> "k1", strict |-> TRUE], [name |-> "k2", strict |-> FALSE]}
MCSearch  == <<"bin", "apps">>
MCFiles   == {<<"bin", "a", ".exec">>, <<"apps", "a", "">>, <<"apps", "c", ".exec">>}

DesktopInit ==
    /\ part \in {"sdk", "windows", "heap", "input", "snapshot", "loader", "lifecycle"}
    /\ Init /\ ServerInit /\ HeapInit /\ InputInit /\ SnapshotInit /\ LoaderInit /\ LifecycleInit
    /\ part # "sdk" => ~preemptive
    /\ part # "input" => mouse.at = Desk

DesktopNext ==
    /\ UNCHANGED part
    /\ \/ part = "sdk" /\ Next
          /\ UNCHANGED <<serverVars, heapVars, inputVars, snapshotVars, loaderVars, lifecycleVars>>
       \/ part = "windows" /\ ServerNext
          /\ UNCHANGED <<vars, heapVars, inputVars, snapshotVars, loaderVars, lifecycleVars>>
       \/ part = "heap" /\ HeapNext
          /\ UNCHANGED <<vars, serverVars, inputVars, snapshotVars, loaderVars, lifecycleVars>>
       \/ part = "input" /\ InputNext
          /\ UNCHANGED <<vars, serverVars, heapVars, snapshotVars, loaderVars, lifecycleVars>>
       \/ part = "snapshot" /\ SnapshotNext
          /\ UNCHANGED <<vars, serverVars, heapVars, inputVars, loaderVars, lifecycleVars>>
       \/ part = "loader" /\ LoaderNext
          /\ UNCHANGED <<vars, serverVars, heapVars, inputVars, snapshotVars, lifecycleVars>>
       \/ part = "lifecycle" /\ LifecycleNext
          /\ UNCHANGED <<vars, serverVars, heapVars, inputVars, snapshotVars, loaderVars>>

DesktopSpec == DesktopInit /\ [][DesktopNext]_<<part, vars, serverVars, heapVars, inputVars, snapshotVars, loaderVars, lifecycleVars>>
=============================================================================
