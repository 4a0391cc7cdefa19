----------------------------- MODULE MCNetwork -----------------------------
(***************************************************************************)
(* The network's parts that run without each other in the models: a        *)
(* listener and its children, datagram sockets, the DHCP client, and the   *)
(* card's two rings.  Each is explored on its own in one run; part says    *)
(* which one the behaviour is of.                                          *)
(***************************************************************************)
EXTENDS TcpSocket, Datagrams, Dhcp, VirtioNet, TLC

CONSTANTS srv1, srv2, hostA, hostB, d1, d2

VARIABLE part

MCEphemeral == {2}
MCServers   == {srv1, srv2}
MCHosts     == {hostA, hostB}
MCRemotes   == {<<hostA, 1>>, <<hostA, 2>>}
MCCallers   == {d1, d2}
MCFriends   == {<<hostA, 1>>}
Alike       == Permutations(MCCallers)

NetworkInit ==
    /\ part \in {"tcp", "datagrams", "dhcp", "network driver"}
    /\ Init /\ DatagramInit /\ DhcpInit /\ NetInit

NetworkNext ==
    /\ UNCHANGED part
    /\ \/ part = "tcp" /\ Next
          /\ UNCHANGED <<datagramVars, dhcpVars, nicVars>>
       \/ part = "datagrams" /\ DatagramNext
          /\ UNCHANGED <<vars, dhcpVars, nicVars>>
       \/ part = "dhcp" /\ DhcpNext
          /\ UNCHANGED <<vars, datagramVars, nicVars>>
       \/ part = "network driver" /\ NetNext
          /\ UNCHANGED <<vars, datagramVars, dhcpVars>>

NetworkSpec == NetworkInit /\ [][NetworkNext]_<<part, vars, datagramVars, dhcpVars, nicVars>>
=============================================================================
