------------------------------ MODULE Datagrams ------------------------------
(***************************************************************************)
(* Datagram and ICMP sockets (kernel/socket.c): one table of sockets, port *)
(* numbers that are given out or asked for, and a ring of packets for each *)
(* socket that interrupts fill and recvfrom() empties.  A packet that finds*)
(* the ring full is dropped, as UDP may.                                   *)
(*                                                                         *)
(* System calls run with interrupts off, so a packet comes in only between *)
(* them, in the net_poll() of a call that waits, and while a call waits for*)
(* the next hop's address; the last is the first of a call that fails.     *)
(***************************************************************************)
EXTENDS Naturals, Sequences, FiniteSets

CONSTANTS
    DSOCK_MAX, RX_SLOTS,    \* SOCK_MAX and SOCK_RX_SLOTS
    Callers,                \* threads of programs
    NoCaller,
    Wanted,                 \* ports programs ask for by number
    LowPort, HighPort,      \* the ephemeral ports
    Remotes, Friends,       \* <<address, port>>: who sends here, and whom programs send to
    MaxPackets, MaxCalls    \* bounds on the packets that come in and on the calls but recvfrom()

ASSUME DatagramAssumption ==
    /\ DSOCK_MAX \in Nat \ {0} /\ RX_SLOTS \in Nat \ {0}
    /\ MaxPackets \in Nat /\ MaxCalls \in Nat
    /\ Wanted \subseteq Nat \ {0} /\ LowPort \in Nat \ {0}
    /\ HighPort \in Nat /\ HighPort >= LowPort + DSOCK_MAX
    /\ NoCaller \notin Callers /\ Friends \subseteq Remotes

VARIABLES
    dsocks,     \* g_socks
    nextPort,   \* g_ephemeral
    recv,       \* recv[t]: the socket t waits for in recvfrom() and where it is
    packets,    \* packets that came in
    calls,      \* calls made, for MaxCalls
    due,        \* due[s]: packets for s that found room and were not read
    spoken      \* spoken[s]: remote ends s has sent to from the port it has

datagramVars == <<dsocks, nextPort, recv, packets, calls, due, spoken>>

DSlots    == 0..DSOCK_MAX - 1
RxSlots   == 0..RX_SLOTS - 1
Anywhere  == "any"
Own       == "own"          \* the interface's address
Broadcast == "broadcast"
NoRemote  == <<"none", 0>>
FarHosts     == {r[1] : r \in Remotes}
NoPacket  == 0                \* a packet is its number
NotWaiting == [s |-> 0, at |-> "running"]
\* lport 0 is an unbound socket, a peer's port 0 any port.
Blank == [type |-> "none", lport |-> 0, laddr |-> Anywhere, peer |-> NoRemote,
          rx |-> [i \in RxSlots |-> NoPacket], r |-> 0, w |-> 0, n |-> 0, waiter |-> NoCaller]

DatagramInit ==
    /\ dsocks = [s \in DSlots |-> Blank]
    /\ nextPort = LowPort
    /\ recv = [t \in Callers |-> NotWaiting]
    /\ packets = 0 /\ calls = 0
    /\ due = [s \in DSlots |-> <<>>]
    /\ spoken = [s \in DSlots |-> {}]

Used    == {s \in DSlots : dsocks[s].type # "none"}
InKernel == \E t \in Callers : recv[t].at = "polling"
Calling(t) == ~InKernel /\ recv[t].at = "running"
Counted    == calls < MaxCalls /\ calls' = calls + 1

\* ---------------------------------------------------------------- ports

\* Any address is not taken for every one: a plausible slip.
PortInUseExactly(type, port, addr) ==
    \E s \in Used : dsocks[s].type = type /\ dsocks[s].lport = port /\ dsocks[s].laddr = addr

PortInUseBy(type, port, addr) ==
    \E s \in Used : /\ dsocks[s].type = type /\ dsocks[s].lport = port
                    /\ dsocks[s].laddr = Anywhere \/ addr = Anywhere \/ dsocks[s].laddr = addr

After(p) == IF p = HighPort THEN LowPort ELSE p + 1
\* How far p is from the next port to try.
Away(p)  == IF p >= nextPort THEN p - nextPort ELSE p + (HighPort + 1 - LowPort) - nextPort

EphemeralFor(type) ==
    LET free == {p \in LowPort..HighPort : ~PortInUseBy(type, p, Anywhere)}
    IN  CHOOSE p \in free : \A q \in free : Away(p) <= Away(q)

\* Socket s with the port it has, or one of its own now.
Bound(s) ==
    IF dsocks[s].lport # 0 THEN dsocks[s]
    ELSE [dsocks[s] EXCEPT !.lport = EphemeralFor(dsocks[s].type)]
PortAfter(s) == IF dsocks[s].lport # 0 THEN nextPort ELSE After(EphemeralFor(dsocks[s].type))

CreateSocket(t, type) ==
    /\ Calling(t) /\ Counted /\ Used # DSlots
    /\ LET s == CHOOSE x \in DSlots \ Used : \A y \in DSlots \ Used : x <= y
       IN  dsocks' = [dsocks EXCEPT ![s] = [Blank EXCEPT !.type = type]]
    /\ UNCHANGED <<nextPort, recv, packets, due, spoken>>

\* bind(), again too: port 0 is one of the kernel's choice.
BindSocket(t, s, port, addr) ==
    /\ Calling(t) /\ Counted
    /\ port # 0 => ~PortInUseBy(dsocks[s].type, port, addr)
    /\ LET p == IF port = 0 THEN EphemeralFor(dsocks[s].type) ELSE port
       IN  dsocks' = [dsocks EXCEPT ![s].lport = p, ![s].laddr = addr]
    /\ nextPort' = IF port = 0 THEN After(EphemeralFor(dsocks[s].type)) ELSE nextPort
    /\ spoken' = [spoken EXCEPT ![s] = {}]
    /\ UNCHANGED <<recv, packets, due>>

ConnectSocket(t, s, to) ==
    /\ Calling(t) /\ Counted
    /\ dsocks' = [dsocks EXCEPT ![s] = [Bound(s) EXCEPT !.peer = to]]
    /\ nextPort' = PortAfter(s)
    /\ UNCHANGED <<recv, packets, due, spoken>>

\* sendto(): the socket has a port from then on, whether the next hop answers or not.
SendDatagram(t, s, to) ==
    /\ Calling(t) /\ Counted
    /\ dsocks' = [dsocks EXCEPT ![s] = Bound(s)]
    /\ nextPort' = PortAfter(s)
    /\ \/ spoken' = [spoken EXCEPT ![s] = @ \cup {to}]
       \/ UNCHANGED spoken
    /\ UNCHANGED <<recv, packets, due>>

\* sock_close(): threads that wait for the socket keep its address.
CloseSocket(t, s) ==
    /\ Calling(t) /\ Counted
    /\ dsocks' = [dsocks EXCEPT ![s] = Blank]
    /\ due' = [due EXCEPT ![s] = <<>>]
    /\ spoken' = [spoken EXCEPT ![s] = {}]
    /\ UNCHANGED <<nextPort, recv, packets>>

\* -------------------------------------------------------------- packets

\* rx_push, for a packet p; wakes whoever the socket knows to wait.
RxPush(so, p) ==
    IF so.n = RX_SLOTS THEN so
    ELSE [so EXCEPT !.rx[so.w] = p, !.w = (@ + 1) % RX_SLOTS, !.n = @ + 1, !.waiter = NoCaller]

\* What is left in the slot is not read again.
RxPop(so) == [so EXCEPT !.rx[so.r] = NoPacket, !.r = (@ + 1) % RX_SLOTS, !.n = @ - 1]

\* The socket is one for a datagram from a remote end to a port and an address.
Named(s, from, addr, port) ==
    /\ dsocks[s].type = "dgram" /\ dsocks[s].lport = port
    /\ dsocks[s].laddr \in {Anywhere, addr}
    /\ \/ dsocks[s].peer = NoRemote
       \/ dsocks[s].peer[1] = from[1] /\ dsocks[s].peer[2] \in {0, from[2]}

\* sock_input_udp: the first of them.
Receivers(from, addr, port) ==
    {s \in Used : Named(s, from, addr, port) /\ \A u \in Used : u < s => ~Named(u, from, addr, port)}

Listening(from) ==
    {s \in Used : dsocks[s].type = "raw" /\ (dsocks[s].peer = NoRemote \/ dsocks[s].peer[1] = from[1])}

\* What came in goes to the sockets of to; those that wait for them are woken.
Deliver(to, meant) ==
    LET p == packets + 1
    IN  /\ packets < MaxPackets
        /\ packets' = p
        /\ dsocks' = [s \in DSlots |-> IF s \in to THEN RxPush(dsocks[s], p) ELSE dsocks[s]]
        /\ recv' = [t \in Callers |->
                        IF recv[t].at = "asleep"
                           /\ \E s \in to : dsocks[s].waiter = t /\ dsocks[s].n < RX_SLOTS
                        THEN [recv[t] EXCEPT !.at = "woken"] ELSE recv[t]]
        /\ due' = [s \in DSlots |-> IF s \in meant /\ Len(due[s]) < RX_SLOTS
                                    THEN Append(due[s], p) ELSE due[s]]
        /\ UNCHANGED <<nextPort, calls, spoken>>

\* A packet for nobody changes nothing and is left out.
Datagram(from, addr, port) ==
    LET named == {s \in Used : Named(s, from, addr, port)}
    IN  named # {} /\ Deliver(Receivers(from, addr, port), named)

\* Every raw socket has its own copy, of the requests the kernel answers too.
Icmp(from) == Listening(from) # {} /\ Deliver(Listening(from), Listening(from))

\* -------------------------------------------------------------- recvfrom

\* The loop's head, for socket so that has its port: a packet, or once more net_poll().
RecvLoop(t, s, so) ==
    IF so.n > 0
    THEN /\ dsocks' = [dsocks EXCEPT ![s] = RxPop(so)]
         /\ due' = [due EXCEPT ![s] = IF @ # <<>> /\ Head(@) = so.rx[so.r] THEN Tail(@) ELSE @]
         /\ recv' = [recv EXCEPT ![t] = NotWaiting]
    ELSE /\ dsocks' = [dsocks EXCEPT ![s] = so]
         /\ recv' = [recv EXCEPT ![t] = [s |-> s, at |-> "polling"]]
         /\ UNCHANGED due

RecvFrom(t, s) ==
    /\ Calling(t)
    /\ RecvLoop(t, s, Bound(s))
    /\ nextPort' = PortAfter(s)
    /\ UNCHANGED <<packets, calls, spoken>>

\* MSG_DONTWAIT and an empty ring.
RecvNothing(t, s) ==
    /\ Calling(t) /\ dsocks[s].n = 0
    /\ dsocks' = [dsocks EXCEPT ![s] = Bound(s)]
    /\ nextPort' = PortAfter(s)
    /\ UNCHANGED <<recv, packets, calls, due, spoken>>

\* sock_block_wait: whoever waited for the socket before is forgotten.
BlockWait(t) ==
    /\ recv[t].at = "polling"
    /\ recv' = [recv EXCEPT ![t].at = "asleep"]
    /\ dsocks' = [dsocks EXCEPT ![recv[t].s].waiter = t]
    /\ UNCHANGED <<nextPort, packets, calls, due, spoken>>

\* Two ticks later.
TimedOut(t) ==
    /\ recv[t].at = "asleep"
    /\ recv' = [recv EXCEPT ![t].at = "woken"]
    /\ UNCHANGED <<dsocks, nextPort, packets, calls, due, spoken>>

RecvAgain(t) ==
    /\ ~InKernel /\ recv[t].at = "woken"
    /\ RecvLoop(t, recv[t].s, dsocks[recv[t].s])
    /\ UNCHANGED <<nextPort, packets, calls, spoken>>

DatagramNext ==
    \/ \E t \in Callers :
          \/ \E type \in {"dgram", "raw"} : CreateSocket(t, type)
          \/ \E s \in Used :
                \/ \E port \in Wanted \cup {0}, addr \in {Anywhere, Own, Broadcast} : BindSocket(t, s, port, addr)
                \/ \E to \in Friends \cup (FarHosts \X {0}) : ConnectSocket(t, s, to)
                \/ \E to \in Friends : SendDatagram(t, s, to)
                \/ CloseSocket(t, s)
                \/ RecvFrom(t, s)
                \/ RecvNothing(t, s)
          \/ BlockWait(t) \/ TimedOut(t) \/ RecvAgain(t)
    \/ \E from \in Remotes :
          \/ \E addr \in {Own, Broadcast}, port \in Wanted \cup LowPort..HighPort : Datagram(from, addr, port)
    \/ \E h \in FarHosts : Icmp(<<h, 0>>)

DatagramSpec == DatagramInit /\ [][DatagramNext]_datagramVars

\* ------------------------------------------------------------ properties

InRing(s) == [i \in 1..dsocks[s].n |-> dsocks[s].rx[(dsocks[s].r + i - 1) % RX_SLOTS]]

(* What a socket's ring holds is what came in for that socket and found room,*)
(* in the order it came, nothing lost, doubled or taken by another socket    *)
(* that claims the same port.                                                *)
RingsTell == \A s \in Used : InRing(s) = due[s]

(* A program that has sent a datagram from a socket hears the answer on that *)
(* socket: no other one stands before it on the port the datagram left from. *)
AnswersReturn ==
    \A s \in Used : \A to \in spoken[s] :
        /\ dsocks[s].type = "dgram" /\ dsocks[s].laddr \in {Anywhere, Own}
        /\ dsocks[s].peer \in {NoRemote, to}
        => Receivers(to, Own, dsocks[s].lport) = {s}

(* The rings, and the way of an answer.                                      *)
DatagramsSound == RingsTell /\ AnswersReturn
=============================================================================
