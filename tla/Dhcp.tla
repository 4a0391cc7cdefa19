-------------------------------- MODULE Dhcp --------------------------------
(***************************************************************************)
(* The DHCP client of kernel/dhcp.c on one interface.  dhcp_configure runs *)
(* with interrupts off from start to end; what acts meanwhile is the       *)
(* network: it loses, repeats, delays and reorders, and every net_poll()   *)
(* hands dhcp_input a batch of the replies in the receive ring before      *)
(* dhcp_wait_reply looks at reply_type once.  A server offers one address, *)
(* so an address is named by its server.  How long the 20000 polls of an   *)
(* attempt take is left open.                                              *)
(***************************************************************************)
EXTENDS Naturals, Sequences

CONSTANTS
    DhcpServers,        \* the DHCP servers, and the addresses they lend
    Static,         \* the address the driver sets before it registers the interface
    NoAddress,      \* 0.0.0.0, and no server identifier
    DHCP_RETRIES,
    BATCH,          \* replies one net_poll() finds at most
    MaxRenews       \* bound on the number of configurations

ASSUME DhcpAssumption ==
    /\ Static \notin DhcpServers /\ NoAddress \notin DhcpServers \cup {Static}
    /\ DHCP_RETRIES \in Nat \ {0} /\ BATCH \in Nat \ {0} /\ MaxRenews \in Nat

VARIABLES
    client,     \* g_clients[]: [active, state, xid, offered, server, reply]
    address,    \* nif->ip
    previous,   \* prev_ip of the configuration under way
    attempt,    \* the attempt of dhcp_wait_reply
    phase,      \* where dhcp_configure is
    asked,      \* requests that reached the network
    replies,    \* replies the servers have sent: each may arrive any number of times
    acked,      \* addresses whose ACK the client took in this configuration
    overtaken   \* a reply came in behind the ACK in the same poll

dhcpVars == <<client, address, previous, attempt, phase, asked, replies, acked, overtaken>>

Inactive == [active |-> FALSE, state |-> "idle", xid |-> 0, offered |-> NoAddress,
             server |-> NoAddress, reply |-> "none"]

DhcpInit ==
    /\ client = Inactive
    /\ address = Static /\ previous = Static
    /\ attempt = 0 /\ phase = "idle"
    /\ asked = {} /\ replies = {}
    /\ acked = {} /\ overtaken = FALSE

Want == IF client.state = "selecting" THEN "offer" ELSE "ack"

\* netif_register and SYS_DHCP_START, up to the first attempt.
Configure ==
    /\ phase = "idle" /\ client.xid < MaxRenews
    /\ client' = [Inactive EXCEPT !.active = TRUE, !.state = "selecting", !.xid = client.xid + 1]
    /\ previous' = address
    /\ attempt' = 0 /\ phase' = "send"
    /\ acked' = {} /\ overtaken' = FALSE
    /\ UNCHANGED <<address, asked, replies>>

\* What dhcp_build_packet puts in the request of this state.
Request == IF client.state = "selecting"
           THEN [type |-> "discover", xid |-> client.xid, ip |-> NoAddress, server |-> NoAddress]
           ELSE [type |-> "request", xid |-> client.xid, ip |-> client.offered, server |-> client.server]

\* The end of dhcp_configure, with its lease or back at the address before.
EndWith(c, ip) ==
    /\ address' = ip
    /\ client' = [c EXCEPT !.active = FALSE, !.state = "idle"]
    /\ phase' = "idle"

\* The next attempt of the client c, or the end of them: -EAGAIN.
NextAttempt(c) ==
    /\ attempt' = attempt + 1
    /\ IF attempt + 1 < DHCP_RETRIES
       THEN phase' = "send" /\ client' = c /\ UNCHANGED address
       ELSE EndWith(c, previous)
    /\ UNCHANGED <<previous, replies, acked, overtaken>>

NoReplyYet == [client EXCEPT !.reply = "none"]

\* dhcp_send; a transmission reported as failed may have left all the same.
DhcpSend ==
    /\ phase = "send"
    /\ client' = NoReplyYet
    /\ asked' = asked \cup {Request}
    /\ phase' = "wait"
    /\ UNCHANGED <<address, previous, attempt, replies, acked, overtaken>>

SendFails ==
    /\ phase = "send"
    /\ asked' \in {asked, asked \cup {Request}}
    /\ NextAttempt(NoReplyYet)

PollsOver ==
    /\ phase = "wait"
    /\ UNCHANGED asked
    /\ NextAttempt(client)

AcceptsAnyXid(c, m) == c.active

\* The replies dhcp_input does not pass on or drop.
Accepts(c, m) == c.active /\ m.xid = c.xid

ReplyType(c, m) ==
    IF m.type = "offer" /\ c.state = "selecting" THEN "offer"
    ELSE IF m.type = "ack" /\ c.state = "requesting" THEN "ack"
    ELSE IF m.type = "nak" THEN "nak"
    ELSE c.reply

\* dhcp_input: the address and the server are stored before the type is looked at.
Taken(c, m) ==
    IF ~Accepts(c, m) THEN c
    ELSE [c EXCEPT !.offered = m.ip, !.server = m.server, !.reply = ReplyType(c, m)]

Behind(c, m) == Accepts(c, m) /\ c.reply = "ack" /\ m.type # "ack"

\* One net_poll() and the looks at reply_type behind it.
NetPoll(batch) ==
    LET c[k \in 0..Len(batch)] == IF k = 0 THEN client ELSE Taken(c[k - 1], batch[k])
        last == c[Len(batch)]
        acks == {batch[k].ip : k \in {j \in DOMAIN batch :
                    batch[j].type = "ack" /\ batch[j].xid = client.xid /\ client.state = "requesting"}}
    IN  /\ phase = "wait"
        /\ acked' = acked \cup acks
        /\ overtaken' = (overtaken \/ \E k \in DOMAIN batch : Behind(c[k - 1], batch[k]))
        /\ \/ /\ last.reply = Want /\ Want = "offer"
              /\ client' = [last EXCEPT !.state = "requesting"]
              /\ attempt' = 0 /\ phase' = "send"
              /\ UNCHANGED address
           \/ /\ last.reply = Want /\ Want = "ack"
              /\ EndWith(last, IF last.offered = NoAddress THEN previous ELSE last.offered)
              /\ UNCHANGED attempt
           \/ /\ last.reply = "nak"
              /\ EndWith(last, previous)
              /\ UNCHANGED attempt
           \/ /\ last.reply \notin {Want, "nak"}
              /\ client' = last
              /\ UNCHANGED <<address, attempt, phase>>
        /\ UNCHANGED <<previous, asked, replies>>

\* ----------------------------------------------------- the network

Reply(type, ip, s, xid) == [type |-> type, ip |-> ip, server |-> s, xid |-> xid]

ServerOffers(s) ==
    \E q \in asked :
        /\ q.type = "discover"
        /\ replies' = replies \cup {Reply("offer", s, s, q.xid)}
        /\ UNCHANGED <<client, address, previous, attempt, phase, asked, acked, overtaken>>

\* The server a request names confirms or refuses it.
ServerAnswers(s) ==
    \E q \in asked :
        /\ q.type = "request" /\ q.server = s
        /\ \/ q.ip = s /\ replies' = replies \cup {Reply("ack", s, s, q.xid)}
           \/ replies' = replies \cup {Reply("nak", NoAddress, s, q.xid)}
        /\ UNCHANGED <<client, address, previous, attempt, phase, asked, acked, overtaken>>

Batches == UNION {[1..n -> replies] : n \in 1..BATCH}

DhcpNext ==
    \/ Configure
    \/ DhcpSend
    \/ SendFails
    \/ PollsOver
    \/ \E batch \in Batches : NetPoll(batch)
    \/ \E s \in DhcpServers : ServerOffers(s)
    \/ \E s \in DhcpServers : ServerAnswers(s)

DhcpSpec == DhcpInit /\ [][DhcpNext]_dhcpVars

\* -------------------------------------------------------- properties

\* Once dhcp_configure has ended, the interface has the address it had before or one that a
\* server confirmed to this very configuration, however late, often or mixed the replies of
\* this one and of earlier ones come in, unless another reply came in behind the ACK in the
\* same net_poll(): dhcp_input stores the address of any reply (dhcp.c:214-275, 306).
LeaseIsAcked == (phase = "idle" /\ ~overtaken) => address \in acked \cup {previous}

=============================================================================
