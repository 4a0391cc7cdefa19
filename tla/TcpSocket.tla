----------------------------- MODULE TcpSocket -----------------------------
(***************************************************************************)
(* The stream sockets of src/kernel/socket.c: one kernel, the threads of a  *)
(* program on it, honest remote TCP endpoints, and a network that loses,    *)
(* repeats and reorders.                                                    *)
(*                                                                         *)
(* System calls run with interrupts off on CPU 0, so one is atomic up to    *)
(* the net_poll() before it blocks.  A byte is its sequence number.  The    *)
(* kernel's pure acknowledgements are left out: the network keeps every     *)
(* segment, so a remote endpoint needs none to send again.                  *)
(***************************************************************************)
EXTENDS Integers, Sequences, FiniteSets

CONSTANTS SOCK_MAX,        \* sockets
          ACCEPT_SLOTS,    \* SOCK_ACCEPT_SLOTS
          STREAM_BYTES,    \* SOCK_STREAM_RX_BYTES
          TRIES,           \* rounds of tcp_wait_connected and tcp_wait_ack
          FD_MAX,          \* descriptors of the program
          Threads,         \* its threads
          Clients,         \* remote endpoints that connect to Port
          Servers,         \* remote endpoints the program connects to
          Port,            \* the port it serves
          Ephemeral,       \* the ephemeral ports, an interval of numbers
          NULL,
          MaxSockets,      \* bound: sockets the program creates
          MaxIss,          \* bound: initial sequence numbers handed out
          DataIn,          \* bound: bytes a remote endpoint sends
          DataOut          \* bound: bytes sent on one connection

Sids == 0 .. SOCK_MAX - 1
ISS == 10                  \* tcp_next_iss() steps by more than a connection sends
Conns == {<<p, r>> : p \in {Port} \cup Ephemeral, r \in Clients \cup Servers}

ASSUME TcpAssumption ==
    /\ SOCK_MAX \in Nat \ {0} /\ ACCEPT_SLOTS \in Nat \ {0} /\ STREAM_BYTES \in Nat \ {0}
    /\ TRIES \in Nat \ {0} /\ FD_MAX \in Nat \ {0}
    /\ Ephemeral \subseteq Nat \ {0} /\ Ephemeral # {}
    /\ Port \in Nat \ ({0} \cup Ephemeral)
    /\ DataIn \in Nat /\ DataOut \in 0 .. ISS - 3
    /\ Clients \cap Servers = {} /\ NULL \notin Sids \cup Threads \cup Clients \cup Servers

VARIABLES socks,           \* g_socks
          open,            \* the sockets the program has descriptors of
          created,         \* how many it has created, for MaxSockets
          call,            \* call[t]: the blocking call thread t is in
          g_ephemeral, g_tcp_iss,
          peer,            \* peer[c]: the remote end of connection c
          toPeer           \* every segment sent to the remote ends

vars == <<socks, open, created, call, g_ephemeral, g_tcp_iss, peer, toPeer>>

(* iss and irs are never read again.  Three fields the code has not: read is *)
(* the byte the program reads next, told the last it was told was sent.     *)
Fresh == [used |-> TRUE, bound |-> FALSE, connected |-> FALSE, state |-> "CLOSED",
          backlog |-> FALSE, parent |-> NULL, shut_rd |-> FALSE, shut_wr |-> FALSE,
          error |-> FALSE, lport |-> 0, remote |-> NULL, una |-> 0, nxt |-> 0, rcv |-> 0,
          rx |-> <<>>, aq |-> <<>>, waiter |-> NULL, read |-> 0, told |-> 0]
Unused == [Fresh EXCEPT !.used = FALSE]                      \* sock_reset

(* "poll": in net_poll(), "sleep": blocked, "loop": woken.                   *)
Idle == [op |-> "none", s |-> 0, want |-> 0, tries |-> 0, at |-> "loop"]

Init == /\ socks = [s \in Sids |-> Unused]
        /\ open = {} /\ created = 0
        /\ call = [t \in Threads |-> Idle]
        /\ g_ephemeral = CHOOSE p \in Ephemeral : \A q \in Ephemeral : p <= q
        /\ g_tcp_iss = 0
        /\ peer = [c \in Conns |-> [st |-> "closed", nxt |-> 0, rcv |-> 0, fin |-> FALSE]]
        /\ toPeer = {}

netVars == <<peer, toPeer>>
Seg(c, flags, seq, ack, len) == [c |-> c, flags |-> flags, seq |-> seq, ack |-> ack, len |-> len]
Conn(s) == <<socks[s].lport, socks[s].remote>>
-----------------------------------------------------------------------------
(* sock_wake_waiter for the sockets of S, after socks has become sk.         *)
WakeWaiters(S, sk) ==
    LET woken == {sk[s].waiter : s \in S}
    IN  /\ socks' = [s \in Sids |-> IF s \in S THEN [sk[s] EXCEPT !.waiter = NULL] ELSE sk[s]]
        /\ call' = [t \in Threads |-> IF t \in woken /\ call[t].at = "sleep"
                                      THEN [call[t] EXCEPT !.at = "loop"] ELSE call[t]]

(* tcp_mark_error                                                           *)
Failed(r, err) == [r EXCEPT !.error = err, !.state = "CLOSED",
                            !.connected = r.connected /\ r.state # "SYN_SENT"]

FirstFree(s) == ~socks[s].used /\ \A u \in Sids : u < s => socks[u].used

PortInUse(p) == \E s \in Sids : socks[s].used /\ socks[s].bound /\ socks[s].lport = p

(* The port after p, around the interval.                                   *)
NextPort(p) == IF p + 1 \in Ephemeral THEN p + 1
               ELSE CHOOSE q \in Ephemeral : \A o \in Ephemeral : q <= o
(* alloc_ephemeral returns p.                                               *)
AllocEphemeral(p) ==
    /\ p \in Ephemeral /\ ~PortInUse(p)
    /\ \A q \in Ephemeral : ~PortInUse(q) =>
          \/ g_ephemeral <= p /\ (q < g_ephemeral \/ p <= q)
          \/ p <= q /\ q < g_ephemeral

Busy == \E t \in Threads : call[t].at = "poll"
MayCall(t) == call[t].op = "none" /\ ~Busy
InCall(s) == \E t \in Threads : call[t].op # "none" /\ call[t].s = s
Begin(t, op, s, want) ==
    call' = [call EXCEPT ![t] = [op |-> op, s |-> s, want |-> want, tries |-> 0, at |-> "poll"]]
-----------------------------------------------------------------------------
(* SYS_SOCKET: sock_create, and the descriptor.                              *)
Create(t, s) ==
    /\ MayCall(t)
    /\ created < MaxSockets /\ created' = created + 1
    /\ FirstFree(s) /\ Cardinality(open) < FD_MAX
    /\ socks' = [socks EXCEPT ![s] = Fresh]
    /\ open' = open \cup {s}
    /\ UNCHANGED <<call, g_ephemeral, g_tcp_iss, netVars>>

(* sock_bind; programs bind a socket once.                                  *)
Bind(t, s) ==
    /\ MayCall(t)
    /\ s \in open /\ ~socks[s].bound
    /\ ~PortInUse(Port)
    /\ socks' = [socks EXCEPT ![s].bound = TRUE, ![s].lport = Port]
    /\ UNCHANGED <<created, open, call, g_ephemeral, g_tcp_iss, netVars>>

(* sock_listen, once.                                                       *)
Listen(t, s, backlog) ==
    /\ MayCall(t)
    /\ s \in open /\ socks[s].bound /\ socks[s].state = "CLOSED" /\ ~socks[s].connected
    /\ socks' = [socks EXCEPT ![s].backlog = backlog, ![s].state = "LISTEN"]
    /\ UNCHANGED <<created, open, call, g_ephemeral, g_tcp_iss, netVars>>

(* sock_connect up to its first wait; programs do not connect a listener, nor *)
(* a socket that has been connected.                                        *)
Connect(t, s, r) ==
    /\ MayCall(t)
    /\ s \in open /\ socks[s].state # "LISTEN" /\ ~socks[s].connected /\ ~InCall(s)
    /\ g_tcp_iss < MaxIss * ISS
    /\ g_tcp_iss' = g_tcp_iss + ISS
    /\ \E p \in {Port} \cup Ephemeral :
          /\ \/ socks[s].bound /\ p = socks[s].lport /\ UNCHANGED g_ephemeral
             \/ ~socks[s].bound /\ AllocEphemeral(p) /\ g_ephemeral' = NextPort(p)
          /\ LET r0 == [socks[s] EXCEPT !.bound = TRUE, !.lport = p, !.remote = r,
                          !.connected = TRUE, !.error = FALSE, !.state = "SYN_SENT",
                          !.una = g_tcp_iss', !.nxt = g_tcp_iss', !.rcv = 0, !.read = 0, !.told = 0]
             IN  \/ /\ socks' = [socks EXCEPT ![s] = [r0 EXCEPT !.nxt = g_tcp_iss' + 1]]
                    /\ toPeer' = toPeer \cup {Seg(<<p, r>>, {"SYN"}, g_tcp_iss', 0, 0)}
                    /\ Begin(t, "connect", s, 0)
                 \/ /\ WakeWaiters({s}, [socks EXCEPT ![s] = Failed(r0, TRUE)])
                    /\ UNCHANGED toPeer
    /\ UNCHANGED <<created, open, peer>>

(* sock_send of one byte up to its first wait; a longer one repeats this.    *)
Send(t, s) ==
    /\ MayCall(t)
    /\ s \in open /\ socks[s].connected /\ ~socks[s].shut_wr
    /\ socks[s].state \in {"ESTABLISHED", "CLOSE_WAIT"}
    /\ socks[s].nxt % ISS <= DataOut
    /\ socks' = [socks EXCEPT ![s].nxt = @ + 1]
    /\ toPeer' = toPeer \cup {Seg(Conn(s), {"ACK"}, socks[s].nxt, 0, 1)}
    /\ Begin(t, "send", s, socks[s].nxt + 1)
    /\ UNCHANGED <<created, open, g_ephemeral, g_tcp_iss, peer>>

(* sock_shutdown of a connection, for reading, writing or both; the FIN may  *)
(* not get out.                                                             *)
Shutdown(t, s, how) ==
    LET r == socks[s]
        r1 == IF "RD" \in how THEN [r EXCEPT !.shut_rd = TRUE, !.rx = <<>>] ELSE r
        ends == "WR" \in how /\ ~r.shut_wr /\ r.state \in {"ESTABLISHED", "CLOSE_WAIT"}
    IN  /\ MayCall(t)
        /\ s \in open /\ r.connected
        /\ \/ /\ ends
              /\ socks' = [socks EXCEPT ![s] = [r1 EXCEPT !.shut_wr = TRUE, !.nxt = r.nxt + 1,
                    !.state = IF r.state = "ESTABLISHED" THEN "FIN_WAIT1" ELSE "LAST_ACK"]]
              /\ toPeer' = toPeer \cup {Seg(Conn(s), {"ACK", "FIN"}, r.nxt, 0, 0)}
           \/ /\ socks' = [socks EXCEPT ![s] = IF ends THEN [r1 EXCEPT !.shut_wr = TRUE] ELSE r1]
              /\ UNCHANGED toPeer
        /\ UNCHANGED <<created, open, call, g_ephemeral, g_tcp_iss, peer>>

ResetAlone(S) == [s \in Sids |-> IF s \in S THEN Unused ELSE socks[s]]
(* sock_close of the sockets of S: their pending children go with them.      *)
Reset(S) == [s \in Sids |-> IF s \in S \/ (socks[s].used /\ socks[s].parent \in S)
                            THEN Unused ELSE socks[s]]

(* SYS_CLOSE; programs do not close a socket one of their threads waits on.  *)
Close(t, s) ==
    /\ MayCall(t)
    /\ s \in open /\ ~InCall(s)
    /\ socks' = Reset({s})
    /\ open' = open \ {s}
    /\ UNCHANGED <<created, call, g_ephemeral, g_tcp_iss, netVars>>

(* The program ends and another one starts.                                 *)
Exit ==
    /\ ~Busy
    /\ socks' = Reset(open)
    /\ open' = {}
    /\ call' = [t \in Threads |-> Idle]
    /\ UNCHANGED <<created, g_ephemeral, g_tcp_iss, netVars>>
-----------------------------------------------------------------------------
Return(t) == call' = [call EXCEPT ![t] = Idle]

(* sock_accept and do_accept with a connection in the queue.  One that ended *)
(* in the queue is neither returned nor closed.                             *)
TakeChild(t, s) ==
    LET child == Head(socks[s].aq)
        popped == [socks EXCEPT ![s].aq = Tail(@)]
    IN  /\ socks[s].aq # <<>>
        /\ \/ /\ socks[child].state # "ESTABLISHED"
              /\ socks' = popped
              /\ UNCHANGED <<created, open>>
           \/ /\ socks[child].state = "ESTABLISHED" /\ Cardinality(open) < FD_MAX
              /\ socks' = popped
              /\ open' = open \cup {child} /\ UNCHANGED created
           \/ /\ socks[child].state = "ESTABLISHED" /\ Cardinality(open) = FD_MAX
              /\ socks' = [popped EXCEPT ![child] = Unused]
              /\ UNCHANGED <<created, open>>
        /\ Return(t)

(* sock_recv of one byte: it is there, or there will be none.                *)
TakeByte(t, s) ==
    /\ \/ /\ socks[s].rx # <<>>
          /\ socks' = [socks EXCEPT ![s].rx = Tail(@), ![s].read = @ + 1]
       \/ /\ socks[s].rx = <<>>
          /\ socks[s].state \in {"CLOSE_WAIT", "CLOSED"} \/ socks[s].error
          /\ UNCHANGED socks
    /\ Return(t)
    /\ UNCHANGED <<created, open>>

Accept(t, s) ==
    /\ MayCall(t)
    /\ s \in open /\ socks[s].state = "LISTEN"
    /\ \/ TakeChild(t, s)
       \/ socks[s].aq = <<>> /\ Begin(t, "accept", s, 0) /\ UNCHANGED <<socks, created, open>>
    /\ UNCHANGED <<g_ephemeral, g_tcp_iss, netVars>>

NoByteYet(s) == /\ socks[s].rx = <<>> /\ ~socks[s].error
                /\ socks[s].state \notin {"CLOSE_WAIT", "CLOSED"}

Recv(t, s) ==
    /\ MayCall(t)
    /\ s \in open
    /\ \/ TakeByte(t, s)
       \/ NoByteYet(s) /\ Begin(t, "recv", s, 0) /\ UNCHANGED <<socks, created, open>>
    /\ UNCHANGED <<g_ephemeral, g_tcp_iss, netVars>>

(* sock_block_wait after net_poll(): what came meanwhile woke nobody.        *)
Block(t) ==
    /\ call[t].at = "poll"
    /\ socks' = [socks EXCEPT ![call[t].s].waiter = t]
    /\ call' = [call EXCEPT ![t].at = "sleep"]
    /\ UNCHANGED <<created, open, g_ephemeral, g_tcp_iss, netVars>>

(* The two ticks that sock_block_wait sleeps at most are over.               *)
Tick(t) ==
    /\ call[t].at = "sleep"
    /\ call' = [call EXCEPT ![t].at = "loop"]
    /\ UNCHANGED <<socks, created, open, g_ephemeral, g_tcp_iss, netVars>>

Again(t) == /\ call' = [call EXCEPT ![t].at = "poll", ![t].tries = @ + 1]
            /\ UNCHANGED socks
AgainForEver(t) == /\ call' = [call EXCEPT ![t].at = "poll"]
                   /\ UNCHANGED socks
LastTry(t) == call[t].tries + 1 = TRIES

(* The end of sock_connect with an error: tcp_mark_error wakes, too.          *)
ConnectFails(t, s) ==
    /\ socks' = [socks EXCEPT ![s] = [Failed(socks[s], TRUE) EXCEPT !.waiter = NULL]]
    /\ call' = [u \in Threads |->
                   CASE u = t -> Idle
                     [] u # t /\ u = socks[s].waiter /\ call[u].at = "sleep" ->
                           [call[u] EXCEPT !.at = "loop"]
                     [] OTHER -> call[u]]

(* tcp_wait_connected: the last sleep is not followed by another look.       *)
ResumeConnect(t, s) ==
    LET done == ~LastTry(t) /\ socks[s].state = "ESTABLISHED"
        over == LastTry(t) \/ (~done /\ (socks[s].error \/ socks[s].state = "CLOSED"))
    IN  \/ done /\ Return(t) /\ UNCHANGED socks
        \/ over /\ ConnectFails(t, s)
        \/ ~done /\ ~over /\ Again(t)

(* The byte has been acknowledged, and one byte short of that.               *)
BegunAcked(t, s) == socks[s].una + 1 >= call[t].want
AllAcked(t, s) == socks[s].una >= call[t].want

(* tcp_wait_ack and the end of sock_send.                                   *)
ResumeSend(t, s) ==
    LET done == ~LastTry(t) /\ AllAcked(t, s)
        over == LastTry(t) \/ (~done /\ (socks[s].error \/ socks[s].state = "CLOSED"))
    IN  \/ done /\ socks' = [socks EXCEPT ![s].told = call[t].want] /\ Return(t)
        \/ over /\ Return(t) /\ UNCHANGED socks
        \/ ~done /\ ~over /\ Again(t)

(* A woken thread goes round the loop of the call it is in.                  *)
Resume(t) ==
    LET s == call[t].s
    IN  /\ call[t].op # "none" /\ call[t].at = "loop" /\ ~Busy
        /\ \/ call[t].op = "connect" /\ ResumeConnect(t, s) /\ UNCHANGED <<created, open>>
           \/ call[t].op = "send" /\ ResumeSend(t, s) /\ UNCHANGED <<created, open>>
           \/ /\ call[t].op = "accept"
              /\ TakeChild(t, s) \/ (socks[s].aq = <<>> /\ AgainForEver(t) /\ UNCHANGED <<created, open>>)
           \/ /\ call[t].op = "recv"
              /\ TakeByte(t, s) \/ (NoByteYet(s) /\ AgainForEver(t) /\ UNCHANGED <<created, open>>)
        /\ UNCHANGED <<g_ephemeral, g_tcp_iss, netVars>>
-----------------------------------------------------------------------------
(* tcp_find_conn                                                            *)
MatchesOpen(s, c) == socks[s].used /\ socks[s].state = "ESTABLISHED" /\ Conn(s) = c
Matches(s, c) == /\ socks[s].used /\ socks[s].bound /\ socks[s].state # "LISTEN"
                 /\ Conn(s) = c
FindConn(s, c) == Matches(s, c) /\ \A u \in Sids : u < s => ~Matches(u, c)
NoConn(c) == \A s \in Sids : ~Matches(s, c)

(* tcp_find_listener                                                        *)
IsListener(s, p) == socks[s].used /\ socks[s].state = "LISTEN" /\ socks[s].lport = p
FindListener(s, p) == IsListener(s, p) /\ \A u \in Sids : u < s => ~IsListener(u, p)

(* sock_input_tcp of a SYN nobody is connected to: the child.                *)
InputSyn(m) ==
    /\ m.flags = {"SYN"} /\ NoConn(m.c)
    /\ g_tcp_iss < MaxIss * ISS
    /\ \E s, child \in Sids :
          /\ FindListener(s, m.c[1]) /\ socks[s].backlog /\ FirstFree(child)
          /\ g_tcp_iss' = g_tcp_iss + ISS
          /\ \/ /\ socks' = [socks EXCEPT ![child] =
                      [Fresh EXCEPT !.bound = TRUE, !.connected = TRUE, !.lport = m.c[1],
                         !.remote = m.c[2], !.state = "SYN_RECV", !.parent = s,
                         !.una = g_tcp_iss', !.nxt = g_tcp_iss' + 1,
                         !.rcv = m.seq + 1, !.read = m.seq + 1]]
                /\ toPeer' = toPeer \cup {Seg(m.c, {"SYN", "ACK"}, g_tcp_iss', m.seq + 1, 0)}
             \/ UNCHANGED <<socks, toPeer>>
    /\ UNCHANGED <<created, open, call, g_ephemeral, peer>>

(* tcp_update_ack_state, on one socket.                                     *)
Acked(r, ack) ==
    LET una == IF ack > r.una /\ ack <= r.nxt THEN ack ELSE r.una
        all == una = r.nxt
        r1 == [r EXCEPT !.una = una]
    IN  CASE all /\ r.state = "SYN_RECV" -> [r1 EXCEPT !.state = "ESTABLISHED"]
          [] all /\ r.state = "FIN_WAIT1" -> [r1 EXCEPT !.state = "FIN_WAIT2"]
          [] all /\ r.state = "LAST_ACK" -> Failed(r1, FALSE)
          [] OTHER -> r1

(* tcp_try_queue_child: there is a listener, and room in its queue.          *)
CanQueue(s) == /\ socks[s].parent # NULL
               /\ socks[socks[s].parent].used /\ socks[socks[s].parent].state = "LISTEN"
               /\ Len(socks[socks[s].parent].aq) < ACCEPT_SLOTS

(* The payload, accepted in order and if there is room; late or early data    *)
(* is dropped.                                                              *)
PushAny(r, m) == IF m.len > 0 /\ m.seq >= r.rcv /\ ~r.shut_rd /\ Len(r.rx) < STREAM_BYTES
                 THEN [r EXCEPT !.rx = Append(r.rx, m.seq), !.rcv = m.seq + 1] ELSE r
Pushed(r, m) == IF m.len > 0 /\ m.seq = r.rcv /\ ~r.shut_rd /\ Len(r.rx) < STREAM_BYTES
                THEN [r EXCEPT !.rx = Append(r.rx, m.seq), !.rcv = r.rcv + 1] ELSE r

(* The FIN: counted when in order, believed at any time.                     *)
Finned(r, m) ==
    LET r1 == IF m.seq = r.rcv \/ m.seq + m.len = r.rcv THEN [r EXCEPT !.rcv = r.rcv + 1] ELSE r
    IN  CASE r.state = "ESTABLISHED" -> [r1 EXCEPT !.state = "CLOSE_WAIT"]
          [] r.state \in {"FIN_WAIT1", "FIN_WAIT2"} -> Failed(r1, FALSE)
          [] OTHER -> r1

(* sock_input_tcp of a segment for connection s.                            *)
InputConn(m, s) ==
    LET r == socks[s]
        acked == IF "ACK" \in m.flags THEN Acked(r, m.ack) ELSE r
        queued == acked.state = "ESTABLISHED" /\ r.state = "SYN_RECV" /\ CanQueue(s)
        r1 == IF queued THEN [acked EXCEPT !.parent = NULL] ELSE acked
        early == m.len > 0 /\ m.seq # r1.rcv
        r2 == Pushed(r1, m)
        r3 == IF "FIN" \in m.flags /\ ~early THEN Finned(r2, m) ELSE r2
        sk == [socks EXCEPT ![s] = r3]
    IN  /\ FindConn(s, m.c)
        /\ \/ /\ "RST" \in m.flags
              /\ WakeWaiters({s}, [socks EXCEPT ![s] = Failed(r, TRUE)])
           \/ /\ "RST" \notin m.flags /\ r.state = "SYN_SENT"
              /\ {"SYN", "ACK"} \subseteq m.flags /\ m.ack = r.nxt
              /\ WakeWaiters({s}, [socks EXCEPT ![s] =
                    [r EXCEPT !.rcv = m.seq + 1, !.read = m.seq + 1, !.una = m.ack,
                              !.state = "ESTABLISHED"]])
           \/ /\ "RST" \notin m.flags /\ r.state # "SYN_SENT"
              /\ IF queued
                 THEN WakeWaiters({s, r.parent}, [sk EXCEPT ![r.parent].aq = Append(@, s)])
                 ELSE WakeWaiters(IF "ACK" \in m.flags THEN {s} ELSE {}, sk)
        /\ UNCHANGED <<created, open, g_ephemeral, g_tcp_iss, netVars>>

(* What the remote end of c has sent and the network may deliver, any time    *)
(* and any number of times: its bytes, and a FIN with the last one or alone,  *)
(* each with any acknowledgement it has given.                              *)
Sent(c) ==
    LET p == peer[c]
        acks == IF p.rcv = 0 THEN {} ELSE (p.rcv \div ISS) * ISS + 1 .. p.rcv
        end == IF p.fin THEN {<<{"ACK", "FIN"}, p.nxt, 0>>, <<{"ACK", "FIN"}, p.nxt - 1, 1>>} ELSE {}
        body == {<<{"ACK"}, i, 1>> : i \in 1 .. p.nxt - 1} \cup {<<{"ACK"}, p.nxt, 0>>} \cup end
    IN  {Seg(c, b[1], b[2], a, b[3]) : b \in {x \in body : x[2] > 0}, a \in acks}
        \cup (IF p.st = "closed" THEN {}
              ELSE IF c[2] \in Clients THEN {Seg(c, {"SYN"}, 0, 0, 0)}
              ELSE {Seg(c, {"SYN", "ACK"}, 0, a, 0) : a \in {x \in acks : x % ISS = 1}})
        \cup (IF p.st = "reset" THEN {Seg(c, {"RST"}, 0, 0, 0)} ELSE {})

(* A segment comes out of the network, in a net_poll() or a drivers_poll().   *)
Input == \E c \in Conns : \E m \in Sent(c) : InputSyn(m) \/ \E s \in Sids : InputConn(m, s)
-----------------------------------------------------------------------------
(* The remote endpoints, as other systems implement TCP.                     *)
kernelVars == <<socks, created, open, call, g_ephemeral, g_tcp_iss>>

(* It connects to the port, or sends, ends or resets what is open.          *)
PeerStep(c) ==
    /\ \/ /\ c[1] = Port /\ c[2] \in Clients /\ peer[c].st = "closed"
          /\ peer' = [peer EXCEPT ![c].st = "syn_sent", ![c].nxt = 1]
       \/ /\ peer[c].st = "open" /\ ~peer[c].fin /\ peer[c].nxt <= DataIn
          /\ peer' = [peer EXCEPT ![c].nxt = @ + 1]
       \/ /\ peer[c].st = "open" /\ ~peer[c].fin
          /\ peer' = [peer EXCEPT ![c].fin = TRUE]
       \/ /\ peer[c].st = "open"
          /\ peer' = [peer EXCEPT ![c].st = "reset"]
    /\ UNCHANGED <<kernelVars, toPeer>>

PeerInput(m) ==
    LET c == m.c
        p == peer[c]
        rcv == m.seq + m.len + (IF m.flags \cap {"SYN", "FIN"} # {} THEN 1 ELSE 0)
    IN  /\ \/ /\ m.flags = {"SYN"} /\ c[2] \in Servers /\ p.st = "closed"
              /\ peer' = [peer EXCEPT ![c] = [p EXCEPT !.st = "open", !.nxt = 1, !.rcv = rcv]]
           \/ /\ m.flags = {"SYN", "ACK"} /\ p.st = "syn_sent"
              /\ peer' = [peer EXCEPT ![c] = [p EXCEPT !.st = "open", !.rcv = rcv]]
           \/ /\ "SYN" \notin m.flags /\ p.st = "open" /\ m.seq = p.rcv
              /\ peer' = [peer EXCEPT ![c].rcv = rcv]
        /\ UNCHANGED <<kernelVars, toPeer>>

Peers == \/ \E c \in Conns : PeerStep(c)
         \/ \E m \in toPeer : PeerInput(m)
-----------------------------------------------------------------------------
Calls(t) ==
    \/ \E s \in Sids :
          \/ Create(t, s) \/ Bind(t, s) \/ Close(t, s)
          \/ Accept(t, s) \/ Recv(t, s) \/ Send(t, s)
          \/ \E backlog \in BOOLEAN : Listen(t, s, backlog)
          \/ \E r \in Servers : Connect(t, s, r)
          \/ \E how \in SUBSET {"RD", "WR"} \ {{}} : Shutdown(t, s, how)
    \/ Block(t) \/ Tick(t) \/ Resume(t)

Next == (\E t \in Threads : Calls(t)) \/ Exit \/ Input \/ Peers

Spec == Init /\ [][Next]_vars
-----------------------------------------------------------------------------
States == {"CLOSED", "LISTEN", "SYN_SENT", "SYN_RECV", "ESTABLISHED", "FIN_WAIT1",
           "FIN_WAIT2", "CLOSE_WAIT", "LAST_ACK"}

(* Every field keeps its range; the stream buffer and the accept queue never *)
(* hold more than their arrays (stream_push, acceptq_push).                  *)
TypeOK ==
    /\ \A s \in Sids :
          /\ socks[s].state \in States
          /\ Len(socks[s].rx) <= STREAM_BYTES /\ Len(socks[s].aq) <= ACCEPT_SLOTS
          /\ socks[s].parent \in Sids \cup {NULL} /\ socks[s].waiter \in Threads \cup {NULL}
          /\ socks[s].una <= socks[s].nxt
    /\ open \subseteq {s \in Sids : socks[s].used} /\ Cardinality(open) <= FD_MAX
    /\ g_ephemeral \in Ephemeral

(* Nothing sock_input_tcp acknowledged is lost, repeated or out of order:    *)
(* the bytes in the buffer follow those the program has read and, from the    *)
(* handshake until the remote end is taken to be done, are followed by        *)
(* rcv_nxt.  (In the handshake the FIN of an earlier connection is counted.)  *)
StreamInOrder == \A s \in Sids : LET r == socks[s] IN
    r.used /\ ~r.shut_rd /\ r.rcv > 0 =>
        /\ \A i \in 1 .. Len(r.rx) : r.rx[i] = r.read + i - 1
        /\ r.state \in {"ESTABLISHED", "FIN_WAIT1", "FIN_WAIT2"} =>
              r.rcv = r.read + Len(r.rx)

(* A byte sock_send reports as sent has reached the remote program's stack,  *)
(* and a connection is ESTABLISHED only if both ends took part.             *)
SentIsReceived == \A s \in Sids : LET r == socks[s] IN
    r.used /\ r.connected =>
        /\ r.told <= peer[Conn(s)].rcv
        /\ r.state \notin {"SYN_SENT", "SYN_RECV", "CLOSED"} => r.una <= peer[Conn(s)].rcv

(* A queued connection is a used socket that nobody else has; a connection   *)
(* still in its handshake belongs to a listener that is there, and sock_close *)
(* of that one takes nothing the program has been given.                    *)
QueuesSound ==
    /\ \A s \in Sids : \A i \in 1 .. Len(socks[s].aq) :
          LET child == socks[s].aq[i]
          IN  /\ socks[child].used /\ socks[child].connected /\ socks[child].parent = NULL
              /\ child \notin open
              /\ \A u \in Sids : \A j \in 1 .. Len(socks[u].aq) :
                    socks[u].aq[j] = child => u = s /\ j = i
    /\ \A s \in Sids : socks[s].used /\ socks[s].parent # NULL =>
          socks[socks[s].parent].used /\ socks[s].parent \in open /\ s \notin open

(* A segment has one socket to go to: no two connections have the same ends,  *)
(* and no two sockets that are not connected the same port (port_in_use).    *)
OneOwnerOfPort == \A s, u \in Sids :
    /\ s # u /\ socks[s].used /\ socks[u].used /\ socks[s].bound /\ socks[u].bound
    /\ socks[s].lport = socks[u].lport
    => /\ socks[s].remote # socks[u].remote
       /\ socks[s].lport = Port

(* What a listener has is its own, and a segment has one socket to go to.    *)
ConnectionsSound == QueuesSound /\ OneOwnerOfPort
=============================================================================
