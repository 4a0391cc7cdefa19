--------------------------- MODULE NetworkProofs ---------------------------
(***************************************************************************)
(* Theorems about the network. Dhcp: the address that stays is one a server*)
(* confirmed. Datagrams: a socket's ring holds what came in for it. TCP:   *)
(* streams are in order, what was sent was received, and no two connections*)
(* have the same ends. VirtioNet: what goes out and comes in is what was   *)
(* given and kept.                                                         *)
(***************************************************************************)
EXTENDS TcpSocket, Datagrams, Dhcp, VirtioNet, FiniteSetTheorems, NumberLemmas, TLAPS

Lendable == DhcpServers \cup {Static, NoAddress}
DhcpReplies == [type : {"offer", "ack", "nak"}, ip : Lendable, server : Lendable, xid : Nat]
DhcpClients == [active : BOOLEAN, state : {"idle", "selecting", "requesting"}, xid : Nat,
            offered : Lendable, server : Lendable, reply : {"none", "offer", "ack", "nak"}]

DhcpTypeOK ==
    /\ client \in DhcpClients
    /\ address \in Lendable /\ previous \in Lendable /\ acked \subseteq Lendable
    /\ phase \in {"idle", "send", "wait"} /\ overtaken \in BOOLEAN
    /\ asked \subseteq [type : {"discover", "request"}, xid : Nat, ip : Lendable, server : Lendable]
    /\ replies \subseteq DhcpReplies

(* Whoever waits has no reply to act on: a reply is acted on in the poll it    *)
(* comes in with, and an attempt begins without any.                          *)
DhcpInv ==
    /\ DhcpTypeOK
    /\ phase # "idle" => client.state \in {"selecting", "requesting"}
    /\ phase = "wait" => client.reply = "none"
    /\ LeaseIsAcked

LEMMA DhcpInitInv == DhcpInit => DhcpInv
<1> SUFFICES ASSUME DhcpInit PROVE DhcpInv OBVIOUS
<1>1. Inactive \in DhcpClients BY DEF Inactive, DhcpClients, Lendable
<1>2. DhcpTypeOK BY <1>1 DEF DhcpInit, DhcpTypeOK, Lendable
<1>3. LeaseIsAcked BY DEF DhcpInit, LeaseIsAcked
<1> QED BY <1>2, <1>3 DEF DhcpInit, DhcpInv

(* The client in the midst of a poll: it has taken what it asked for.         *)
Answers(c, r) ==
    (r = "ack" => c.state = "requesting") /\ (r = "offer" => c.state = "selecting")
Listeners == {c \in DhcpClients : Answers(c, c.reply)}

LEMMA TakenIs ==
    ASSUME NEW c \in Listeners, NEW m \in DhcpReplies
    PROVE  LET d == Taken(c, m)
           IN  /\ d \in Listeners /\ d.state = c.state /\ d.xid = c.xid /\ d.active = c.active
               /\ d.reply = "ack" =>
                     \/ c.reply = "ack" /\ d = c
                     \/ Behind(c, m)
                     \/ d.offered = m.ip /\ m.type = "ack" /\ m.xid = c.xid /\ c.state = "requesting"
<1> DEFINE d == Taken(c, m)
<1>0. c \in DhcpClients /\ Answers(c, c.reply) BY DEF Listeners
<1>1. CASE ~Accepts(c, m)
  <2>1. d = c BY <1>1 DEF Taken
  <2> QED BY <2>1
<1>2. CASE Accepts(c, m)
  <2> DEFINE r == ReplyType(c, m)
  <2>1. d = [c EXCEPT !.offered = m.ip, !.server = m.server, !.reply = r]
    BY <1>2 DEF Taken
  <2>2. r \in {"none", "offer", "ack", "nak"} BY <1>0 DEF ReplyType, DhcpClients
  <2>3. m.ip \in Lendable /\ m.server \in Lendable BY DEF DhcpReplies
  <2>4. r = "ack" => (m.type = "ack" /\ c.state = "requesting") \/ (c.reply = "ack" /\ m.type # "ack")
    BY <1>0 DEF ReplyType, Answers
  <2>7. Answers(c, r) BY <1>0 DEF ReplyType, Answers
  <2> HIDE DEF r, d
  <2>5. /\ d \in DhcpClients /\ d.offered = m.ip /\ d.reply = r
        /\ d.state = c.state /\ d.xid = c.xid /\ d.active = c.active
    <3>1. c \in DhcpClients BY <1>0
    <3> HIDE <1>0
    <3> QED BY <2>1, <2>2, <2>3, <3>1 DEF DhcpClients
  <2>6. m.xid = c.xid BY <1>2 DEF Accepts
  <2>8. d \in Listeners BY <2>5, <2>7 DEF Listeners, Answers
  <2>9. d.reply = "ack" =>
           \/ Behind(c, m)
           \/ d.offered = m.ip /\ m.type = "ack" /\ m.xid = c.xid /\ c.state = "requesting"
    BY <1>2, <2>4, <2>5, <2>6 DEF Behind
  <2> QED BY <2>5, <2>8, <2>9 DEF d
<1> QED BY <1>1, <1>2

(* A poll: unless something comes in behind it, an ACK leaves the address it  *)
(* confirms.                                                                 *)
LEMMA PollIs ==
    ASSUME DhcpInv, phase = "wait", NEW n \in Nat, NEW batch \in [1 .. n -> replies], NEW c,
           Len(batch) = n,
           c = [k \in 0 .. n |-> IF k = 0 THEN client ELSE Taken(c[k - 1], batch[k])]
    PROVE  /\ c[n] \in Listeners /\ c[n].state = client.state
           /\ c[n].reply = "ack" =>
                \/ \E k \in 1 .. n : Behind(c[k - 1], batch[k])
                \/ \E k \in 1 .. n : /\ c[n].offered = batch[k].ip /\ batch[k].type = "ack"
                                     /\ batch[k].xid = client.xid /\ client.state = "requesting"
<1> DEFINE Confirmed(j) == \E k \in 1 .. j : /\ c[j].offered = batch[k].ip /\ batch[k].type = "ack"
                                             /\ batch[k].xid = client.xid /\ client.state = "requesting"
           Late == \E k \in 1 .. n : Behind(c[k - 1], batch[k])
           S == {j \in 0 .. n : /\ c[j] \in Listeners /\ c[j].state = client.state /\ c[j].xid = client.xid
                                /\ c[j].reply = "ack" => Late \/ Confirmed(j)}
<1>1. c[0] = client /\ \A k \in 1 .. n : c[k] = Taken(c[k - 1], batch[k]) OBVIOUS
<1>2. client \in Listeners /\ client.reply = "none" BY DEF DhcpInv, DhcpTypeOK, Listeners, Answers
<1>3. 0 \in S BY <1>1, <1>2
<1>4. ASSUME NEW j \in 1 .. n, j - 1 \in S PROVE j \in S
  <2> DEFINE b == c[j - 1]
             d == c[j]
             m == batch[j]
  <2>1. d = Taken(b, m) /\ m \in DhcpReplies BY <1>1 DEF DhcpInv, DhcpTypeOK
  <2>2. /\ b \in Listeners /\ b.state = client.state /\ b.xid = client.xid
        /\ b.reply = "ack" => Late \/ Confirmed(j - 1)
    BY <1>4
  <2> HIDE DEF Late, Confirmed, b, d, m
  <2>3. /\ d \in Listeners /\ d.state = b.state /\ d.xid = b.xid
        /\ d.reply = "ack" =>
              \/ b.reply = "ack" /\ d = b
              \/ Behind(b, m)
              \/ d.offered = m.ip /\ m.type = "ack" /\ m.xid = b.xid /\ b.state = "requesting"
    BY <2>1, <2>2, TakenIs
  <2>4. d = b /\ Confirmed(j - 1) => Confirmed(j) BY DEF Confirmed, b, d
  <2>5. Behind(b, m) => Late BY DEF Late, b, m
  <2>6. d.offered = m.ip /\ m.type = "ack" /\ m.xid = client.xid /\ client.state = "requesting" => Confirmed(j)
    BY DEF Confirmed, d, m
  <2>7. d.reply = "ack" => Late \/ Confirmed(j) BY <2>2, <2>3, <2>4, <2>5, <2>6
  <2> QED BY <2>2, <2>3, <2>7 DEF d
<1> HIDE DEF S
<1>5. n \in S BY <1>3, <1>4, UpTo
<1> QED BY <1>5 DEF S

LEMMA EndWithInv ==
    ASSUME DhcpTypeOK, NEW d \in DhcpClients, NEW ip \in Lendable, EndWith(d, ip)
    PROVE  client' \in DhcpClients /\ address' = ip /\ address' \in Lendable /\ phase' = "idle"
BY DEF EndWith, DhcpClients

LEMMA NextAttemptInv ==
    ASSUME DhcpInv, phase # "idle", NEW d \in DhcpClients, d.state = client.state, NextAttempt(d),
           asked' \subseteq [type : {"discover", "request"}, xid : Nat, ip : Lendable, server : Lendable]
    PROVE  DhcpInv'
<1>1. DhcpTypeOK /\ previous \in Lendable BY DEF DhcpInv, DhcpTypeOK
<1>2. UNCHANGED <<previous, replies, acked, overtaken>> BY DEF NextAttempt
<1>3. CASE attempt + 1 < DHCP_RETRIES
  <2>1. phase' = "send" /\ client' = d /\ address' = address BY <1>3 DEF NextAttempt
  <2> QED BY <1>1, <1>2, <2>1 DEF DhcpInv, DhcpTypeOK, LeaseIsAcked
<1>4. CASE ~(attempt + 1 < DHCP_RETRIES)
  <2>1. EndWith(d, previous) BY <1>4 DEF NextAttempt
  <2>2. client' \in DhcpClients /\ address' = previous /\ phase' = "idle" BY <1>1, <2>1, EndWithInv
  <2> QED BY <1>1, <1>2, <2>2 DEF DhcpInv, DhcpTypeOK, LeaseIsAcked
<1> QED BY <1>3, <1>4

LEMMA NetPollInv ==
    ASSUME DhcpInv, NEW n \in 1 .. BATCH, NEW batch \in [1 .. n -> replies], NetPoll(batch)
    PROVE  DhcpInv'
<1> DEFINE Is(g) == g = [k \in 0 .. Len(batch) |-> IF k = 0 THEN client ELSE Taken(g[k - 1], batch[k])]
           c == CHOOSE g : Is(g)
           acks == {batch[k].ip : k \in {j \in DOMAIN batch :
                      batch[j].type = "ack" /\ batch[j].xid = client.xid /\ client.state = "requesting"}}
           last == c[Len(batch)]
<1>1. DhcpTypeOK /\ phase = "wait" /\ client \in Listeners
  BY DEF DhcpInv, DhcpTypeOK, NetPoll, Listeners, Answers
<1>2. n \in Nat /\ batch \in Seq(replies) /\ Len(batch) = n /\ DOMAIN batch = 1 .. n
  <2>1. n \in Nat OBVIOUS
  <2>2. batch \in Seq(replies) BY <2>1
  <2>3. DOMAIN batch = 1 .. n OBVIOUS
  <2> QED BY <2>1, <2>2, <2>3
<1>3. Is(c)
  <2> DEFINE F == [p \in Listeners \X (1 .. n) |-> Taken(p[1], batch[p[2]])]
  <2>1. \A k \in 1 .. n : batch[k] \in DhcpReplies BY <1>1 DEF DhcpTypeOK
  <2>2. F \in Steps(Listeners, n) BY <2>1, TakenIs DEF Steps
  <2>3. \A d \in Listeners, k \in 1 .. n : F[<<d, k>>] = Taken(d, batch[k]) OBVIOUS
  <2> HIDE DEF F
  <2>4. PICK g : Recurs(g, Listeners, n, client, F) BY <1>1, <1>2, <2>2, Recursion
  <2>5. g \in [0 .. n -> Listeners] /\ g[0] = client /\ \A k \in 1 .. n : g[k] = F[<<g[k - 1], k>>]
    BY <2>4 DEF Recurs
  <2>6. Is(g)
    <3>1. \A k \in 0 .. n : g[k] = IF k = 0 THEN client ELSE Taken(g[k - 1], batch[k])
      <4> SUFFICES ASSUME NEW k \in 0 .. n, k # 0 PROVE g[k] = Taken(g[k - 1], batch[k]) BY <2>5
      <4>1. k \in 1 .. n /\ k - 1 \in 0 .. n BY <1>2
      <4>2. g[k - 1] \in Listeners BY <2>5, <4>1
      <4> QED BY <2>3, <2>5, <4>1, <4>2
    <3>2. g = [k \in 0 .. n |-> g[k]] BY <2>5
    <3> QED BY <1>2, <3>1, <3>2
  <2> HIDE DEF Is
  <2> QED BY <2>6
<1>4. /\ acked' = acked \cup acks
      /\ overtaken' = (overtaken \/ \E k \in DOMAIN batch : Behind(c[k - 1], batch[k]))
      /\ UNCHANGED <<previous, asked, replies>>
  BY DEF NetPoll
<1>5. \/ /\ last.reply = Want /\ Want = "offer"
         /\ client' = [last EXCEPT !.state = "requesting"] /\ phase' = "send" /\ address' = address
      \/ last.reply = Want /\ Want = "ack" /\ EndWith(last, IF last.offered = NoAddress THEN previous ELSE last.offered)
      \/ last.reply = "nak" /\ EndWith(last, previous)
      \/ last.reply \notin {Want, "nak"} /\ client' = last /\ address' = address /\ phase' = phase
  BY DEF NetPoll
<1>6. c = [k \in 0 .. n |-> IF k = 0 THEN client ELSE Taken(c[k - 1], batch[k])] BY <1>2, <1>3
<1> HIDE DEF c, Is
<1>7. /\ last \in Listeners /\ last.state = client.state
      /\ last.reply = "ack" =>
           \/ \E k \in 1 .. n : Behind(c[k - 1], batch[k])
           \/ \E k \in 1 .. n : /\ last.offered = batch[k].ip /\ batch[k].type = "ack"
                                /\ batch[k].xid = client.xid /\ client.state = "requesting"
  BY <1>1, <1>2, <1>6, PollIs
<1>8. acks \subseteq Lendable BY <1>1, <1>2 DEF DhcpTypeOK, DhcpReplies
<1>9. last.reply = "ack" => overtaken' \/ last.offered \in acks BY <1>2, <1>4, <1>7
<1> HIDE DEF acks, last
<1>10. last \in DhcpClients /\ client.state \in {"selecting", "requesting"} BY <1>1, <1>7 DEF Listeners, DhcpInv
<1>11. overtaken' \in BOOLEAN /\ acked' \subseteq Lendable /\ previous' = previous
       /\ asked' = asked /\ replies' = replies /\ previous \in Lendable
  BY <1>1, <1>4, <1>8 DEF DhcpTypeOK
<1>12. CASE /\ last.reply = Want /\ Want = "offer"
            /\ client' = [last EXCEPT !.state = "requesting"] /\ phase' = "send" /\ address' = address
  <2>1. client' \in DhcpClients /\ client'.state = "requesting" BY <1>10, <1>12 DEF DhcpClients
  <2> QED BY <1>1, <1>11, <1>12, <2>1 DEF DhcpInv, DhcpTypeOK, LeaseIsAcked
<1>13. CASE last.reply = Want /\ Want = "ack"
            /\ EndWith(last, IF last.offered = NoAddress THEN previous ELSE last.offered)
  <2> DEFINE ip == IF last.offered = NoAddress THEN previous ELSE last.offered
  <2>1. ip \in Lendable BY <1>10, <1>11 DEF DhcpClients
  <2>2. overtaken' \/ ip \in acks \cup {previous} BY <1>9, <1>13
  <2>3. EndWith(last, ip) BY <1>13
  <2> HIDE DEF ip
  <2>4. client' \in DhcpClients /\ address' = ip /\ address' \in Lendable /\ phase' = "idle"
    BY <1>1, <1>10, <2>1, <2>3, EndWithInv
  <2> QED BY <1>1, <1>4, <1>11, <2>2, <2>4 DEF DhcpInv, DhcpTypeOK, LeaseIsAcked
<1>14. CASE last.reply = "nak" /\ EndWith(last, previous)
  <2>1. client' \in DhcpClients /\ address' = previous /\ address' \in Lendable /\ phase' = "idle"
    BY <1>1, <1>10, <1>11, <1>14, EndWithInv
  <2> QED BY <1>1, <1>11, <2>1 DEF DhcpInv, DhcpTypeOK, LeaseIsAcked
<1>15. CASE last.reply \notin {Want, "nak"} /\ client' = last /\ address' = address /\ phase' = phase
  <2>1. last.reply = "none"
    <3>1. Answers(client, last.reply) BY <1>7 DEF Listeners, Answers
    <3> QED BY <1>10, <1>15, <3>1 DEF Want, DhcpClients, Answers
  <2> QED BY <1>1, <1>7, <1>10, <1>11, <1>15, <2>1 DEF DhcpInv, DhcpTypeOK, LeaseIsAcked
<1> QED BY <1>5, <1>12, <1>13, <1>14, <1>15

LEMMA RequestIs ==
    ASSUME DhcpInv, phase # "idle"
    PROVE  Request \in [type : {"discover", "request"}, xid : Nat, ip : Lendable, server : Lendable]
BY DEF DhcpInv, DhcpTypeOK, DhcpClients, Request, Lendable

LEMMA DhcpNextInv == DhcpInv /\ [DhcpNext]_dhcpVars => DhcpInv'
<1> SUFFICES ASSUME DhcpInv, [DhcpNext]_dhcpVars PROVE DhcpInv' OBVIOUS
<1>1. DhcpTypeOK BY DEF DhcpInv
<1>2. CASE Configure
  <2>1. client.xid + 1 \in Nat BY <1>1 DEF DhcpTypeOK, DhcpClients
  <2>2. client' = [Inactive EXCEPT !.active = TRUE, !.state = "selecting", !.xid = client.xid + 1]
    BY <1>2 DEF Configure
  <2>3. client' \in DhcpClients /\ client'.state = "selecting"
    BY <2>1, <2>2 DEF Inactive, DhcpClients, Lendable
  <2> QED BY <1>1, <1>2, <2>3 DEF Configure, DhcpInv, DhcpTypeOK, LeaseIsAcked
<1>3. NoReplyYet \in DhcpClients /\ NoReplyYet.state = client.state /\ NoReplyYet.reply = "none"
  BY <1>1 DEF NoReplyYet, DhcpTypeOK, DhcpClients
<1>4. CASE DhcpSend
  <2>1. phase = "send" /\ asked' = asked \cup {Request} BY <1>4 DEF DhcpSend
  <2>2. asked' \subseteq [type : {"discover", "request"}, xid : Nat, ip : Lendable, server : Lendable]
    BY <1>1, <2>1, RequestIs DEF DhcpTypeOK
  <2> QED BY <1>1, <1>3, <1>4, <2>1, <2>2 DEF DhcpSend, DhcpInv, DhcpTypeOK, LeaseIsAcked
<1>5. CASE SendFails
  <2>1. phase = "send" /\ asked' \in {asked, asked \cup {Request}} /\ NextAttempt(NoReplyYet)
    BY <1>5 DEF SendFails
  <2>2. asked' \subseteq [type : {"discover", "request"}, xid : Nat, ip : Lendable, server : Lendable]
    BY <1>1, <2>1, RequestIs DEF DhcpTypeOK
  <2> QED BY <1>3, <2>1, <2>2, NextAttemptInv
<1>6. CASE PollsOver
  <2>1. phase = "wait" /\ asked' = asked /\ NextAttempt(client) BY <1>6 DEF PollsOver
  <2> QED BY <1>1, <2>1, NextAttemptInv DEF DhcpTypeOK
<1>7. ASSUME NEW batch \in Batches, NetPoll(batch) PROVE DhcpInv'
  <2>1. PICK n \in 1 .. BATCH : batch \in [1 .. n -> replies] BY DEF Batches
  <2> QED BY <1>7, <2>1, NetPollInv
<1>8. ASSUME NEW s \in DhcpServers, ServerOffers(s) PROVE DhcpInv'
  <2>1. PICK q \in asked : /\ replies' = replies \cup {Reply("offer", s, s, q.xid)}
                            /\ UNCHANGED <<client, address, previous, attempt, phase, asked, acked, overtaken>>
    BY <1>8 DEF ServerOffers
  <2>2. Reply("offer", s, s, q.xid) \in DhcpReplies
    BY <1>1 DEF DhcpTypeOK, Reply, DhcpReplies, Lendable
  <2> QED BY <1>1, <2>1, <2>2 DEF DhcpInv, DhcpTypeOK, LeaseIsAcked
<1>9. ASSUME NEW s \in DhcpServers, ServerAnswers(s) PROVE DhcpInv'
  <2>1. PICK q \in asked : /\ \/ replies' = replies \cup {Reply("ack", s, s, q.xid)}
                               \/ replies' = replies \cup {Reply("nak", NoAddress, s, q.xid)}
                            /\ UNCHANGED <<client, address, previous, attempt, phase, asked, acked, overtaken>>
    BY <1>9 DEF ServerAnswers
  <2>2. Reply("ack", s, s, q.xid) \in DhcpReplies /\ Reply("nak", NoAddress, s, q.xid) \in DhcpReplies
    BY <1>1 DEF DhcpTypeOK, Reply, DhcpReplies, Lendable
  <2> QED BY <1>1, <2>1, <2>2 DEF DhcpInv, DhcpTypeOK, LeaseIsAcked
<1>10. CASE UNCHANGED dhcpVars
  BY <1>1, <1>10 DEF dhcpVars, DhcpInv, DhcpTypeOK, LeaseIsAcked
<1> QED BY <1>2, <1>4, <1>5, <1>6, <1>7, <1>8, <1>9, <1>10 DEF DhcpNext

(* The address an interface is left with is the one it had or one a server     *)
(* confirmed to this configuration, for any servers, number of attempts and    *)
(* replies to a poll, unless a reply came in behind the ACK (dhcp.c:214-306).  *)
THEOREM LeaseIsConfirmed == DhcpSpec => []LeaseIsAcked
<1>1. DhcpInv => LeaseIsAcked BY DEF DhcpInv
<1> QED BY <1>1, DhcpInitInv, DhcpNextInv, PTL DEF DhcpSpec
-----------------------------------------------------------------------------
Rows == [type : {"none", "dgram", "raw"}, lport : Nat, laddr : {Anywhere, Own, Broadcast},
         peer : Friends \cup (FarHosts \X {0}) \cup {NoRemote}, rx : [RxSlots -> Nat],
         r : RxSlots, w : RxSlots, n : 0 .. RX_SLOTS, waiter : Callers \cup {NoCaller}]

(* The ring of so holds the packets q.                                       *)
Rings(so, q) ==
    /\ q \in Seq(Nat) /\ Len(q) = so.n /\ so.w = Turn(so.r + so.n, RX_SLOTS)
    /\ \A i \in 1 .. so.n : q[i] = so.rx[Turn(so.r + i - 1, RX_SLOTS)]

LEMMA PushRings ==
    ASSUME NEW so \in Rows, NEW q, Rings(so, q), NEW p \in Nat
    PROVE  /\ RxPush(so, p) \in Rows
           /\ RxPush(so, p).type = so.type /\ RxPush(so, p).lport = so.lport /\ RxPush(so, p).laddr = so.laddr
           /\ RxPush(so, p).peer = so.peer
           /\ Rings(RxPush(so, p), IF Len(q) < RX_SLOTS THEN Append(q, p) ELSE q)
<1>1. RX_SLOTS \in Nat \ {0} /\ RxSlots = 0 .. RX_SLOTS - 1 BY DatagramAssumption DEF RxSlots
<1>2. /\ so.rx \in [RxSlots -> Nat] /\ so.r \in 0 .. RX_SLOTS - 1 /\ so.w \in 0 .. RX_SLOTS - 1
      /\ so.n \in 0 .. RX_SLOTS
  BY <1>1 DEF Rows
<1>3. CASE so.n = RX_SLOTS
  <2>1. RxPush(so, p) = so BY <1>3 DEF RxPush
  <2>2. ~(Len(q) < RX_SLOTS) BY <1>1, <1>3 DEF Rings
  <2> QED BY <2>1, <2>2
<1>4. CASE so.n # RX_SLOTS
  <2> DEFINE t == RxPush(so, p)
             x == [so.rx EXCEPT ![so.w] = p]
             v == Turn(so.w + 1, RX_SLOTS)
             q1 == Append(q, p)
  <2>1. t = [so EXCEPT !.rx = x, !.w = v, !.n = so.n + 1, !.waiter = NoCaller]
    BY <1>4 DEF RxPush, Rows, Turn
  <2>2. x \in [RxSlots -> Nat] BY <1>1, <1>2
  <2>3. /\ v \in 0 .. RX_SLOTS - 1 /\ v = Turn(so.r + (so.n + 1), RX_SLOTS) /\ Turn(so.r + (so.n + 1) - 1, RX_SLOTS) = so.w
        /\ \A i \in 1 .. so.n : Turn(so.r + i - 1, RX_SLOTS) \in 0 .. RX_SLOTS - 1 /\ Turn(so.r + i - 1, RX_SLOTS) # so.w
    <3>1. so.n \in 0 .. RX_SLOTS - 1 /\ so.w = Turn(so.r + so.n, RX_SLOTS) BY <1>1, <1>2, <1>4 DEF Rings
    <3> DEFINE r == so.r
               n == so.n
               w == so.w
    <3>2. r \in 0 .. RX_SLOTS - 1 /\ n \in 0 .. RX_SLOTS - 1 /\ w = Turn(r + n, RX_SLOTS) BY <1>2, <3>1
    <3> HIDE DEF r, n, w
    <3>3. Pushing(RX_SLOTS, r, n, w) BY <1>1, <3>2, RingPush
    <3> QED BY <3>3 DEF r, n, w, Pushing
  <2> HIDE DEF t, v
  <2>4. so.n + 1 \in 0 .. RX_SLOTS BY <1>1, <1>2, <1>4
  <2>5. /\ t \in Rows /\ t.type = so.type /\ t.lport = so.lport /\ t.laddr = so.laddr /\ t.peer = so.peer
        /\ t.rx = x /\ t.w = v /\ t.n = so.n + 1 /\ t.r = so.r
    <3> HIDE DEF x
    <3> QED BY <1>1, <2>1, <2>2, <2>3, <2>4 DEF Rows
  <2>8. q \in Seq(Nat) /\ Len(q) = so.n BY DEF Rings
  <2>9. /\ q1 \in Seq(Nat) /\ Len(q1) = so.n + 1 /\ q1[so.n + 1] = p
        /\ \A i \in 1 .. so.n : q1[i] = q[i]
    BY <2>8
  <2> HIDE DEF q1
  <2>10. ASSUME NEW i \in 1 .. so.n + 1 PROVE q1[i] = x[Turn(so.r + i - 1, RX_SLOTS)]
    <3>1. CASE i = so.n + 1 BY <1>1, <1>2, <2>3, <2>9, <3>1
    <3>2. CASE i # so.n + 1
      <4>1. i \in 1 .. so.n BY <1>2, <3>2
      <4>2. q[i] = so.rx[Turn(so.r + i - 1, RX_SLOTS)] BY <4>1 DEF Rings
      <4> QED BY <1>1, <1>2, <2>3, <2>9, <4>1, <4>2
    <3> QED BY <3>1, <3>2
  <2> HIDE DEF x
  <2>11. Rings(t, q1) BY <2>3, <2>5, <2>9, <2>10 DEF Rings
  <2>12. Len(q) < RX_SLOTS BY <1>1, <1>2, <1>4, <2>8
  <2> QED BY <2>5, <2>11, <2>12 DEF t, q1
<1> QED BY <1>3, <1>4

LEMMA PopRings ==
    ASSUME NEW so \in Rows, NEW q, Rings(so, q), so.n > 0
    PROVE  /\ RxPop(so) \in Rows
           /\ RxPop(so).type = so.type /\ RxPop(so).lport = so.lport /\ RxPop(so).laddr = so.laddr
           /\ RxPop(so).peer = so.peer
           /\ q # << >> /\ Head(q) = so.rx[so.r] /\ Rings(RxPop(so), Tail(q))
<1> DEFINE t == RxPop(so)
           x == [so.rx EXCEPT ![so.r] = NoPacket]
           v == Turn(so.r + 1, RX_SLOTS)
           q1 == Tail(q)
<1>1. RX_SLOTS \in Nat \ {0} /\ RxSlots = 0 .. RX_SLOTS - 1 BY DatagramAssumption DEF RxSlots
<1>2. /\ so.rx \in [RxSlots -> Nat] /\ so.r \in 0 .. RX_SLOTS - 1 /\ so.w \in 0 .. RX_SLOTS - 1
      /\ so.n \in 1 .. RX_SLOTS
  BY <1>1 DEF Rows
<1>3. t = [so EXCEPT !.rx = x, !.r = v, !.n = so.n - 1] BY DEF RxPop, Rows, Turn
<1>4. x \in [RxSlots -> Nat] BY <1>1, <1>2 DEF NoPacket
<1>5. /\ v \in 0 .. RX_SLOTS - 1 /\ Turn(v + (so.n - 1), RX_SLOTS) = so.w /\ Turn(so.r, RX_SLOTS) = so.r
      /\ \A i \in 1 .. so.n - 1 : /\ Turn(v + i - 1, RX_SLOTS) = Turn(so.r + (i + 1) - 1, RX_SLOTS)
                                 /\ Turn(v + i - 1, RX_SLOTS) \in 0 .. RX_SLOTS - 1 /\ Turn(v + i - 1, RX_SLOTS) # so.r
  <2>1. so.w = Turn(so.r + so.n, RX_SLOTS) BY DEF Rings
  <2> DEFINE r == so.r
             n == so.n
  <2>2. /\ r \in 0 .. RX_SLOTS - 1 /\ n \in 0 .. RX_SLOTS /\ 1 \in 0 .. n /\ 1 > 0
        /\ v = Turn(r + 1, RX_SLOTS) /\ so.w = Turn(r + n, RX_SLOTS)
    BY <1>2, <2>1
  <2> HIDE DEF r, n, v
  <2>3. Popping(RX_SLOTS, r, n, 1, v) BY <1>1, <2>2, RingPop
  <2> QED BY <2>2, <2>3 DEF r, n, Popping
<1> HIDE DEF t, v
<1>6. so.n - 1 \in 0 .. RX_SLOTS BY <1>1, <1>2
<1>7. /\ t \in Rows /\ t.type = so.type /\ t.lport = so.lport /\ t.laddr = so.laddr /\ t.peer = so.peer
      /\ t.rx = x /\ t.w = so.w /\ t.n = so.n - 1 /\ t.r = v
  <2> HIDE DEF x
  <2> QED BY <1>1, <1>3, <1>4, <1>5, <1>6 DEF Rows
<1>9. q \in Seq(Nat) /\ Len(q) = so.n BY DEF Rings
<1>10. /\ q1 \in Seq(Nat) /\ Len(q1) = so.n - 1 /\ q # << >> /\ Head(q) = q[1]
       /\ \A i \in 1 .. so.n - 1 : q1[i] = q[i + 1]
  BY <1>2, <1>9
<1> HIDE DEF q1
<1>11. q[1] = so.rx[so.r] BY <1>2, <1>5 DEF Rings
<1>12. ASSUME NEW i \in 1 .. so.n - 1 PROVE q1[i] = x[Turn(v + i - 1, RX_SLOTS)]
  <2>1. i + 1 \in 1 .. so.n BY <1>2
  <2>2. q[i + 1] = so.rx[Turn(so.r + (i + 1) - 1, RX_SLOTS)] BY <2>1 DEF Rings
  <2>3. q1[i] = q[i + 1] BY <1>10
  <2> QED BY <1>1, <1>2, <1>5, <2>2, <2>3
<1> HIDE DEF x
<1>13. Rings(t, q1) BY <1>5, <1>7, <1>10, <1>12 DEF Rings
<1> QED BY <1>7, <1>10, <1>11, <1>13 DEF t, q1
-----------------------------------------------------------------------------
(* No two sockets of a type have a port at the same address, and one without  *)
(* a port has no address.                                                    *)
Addressed(ds) ==
    /\ ds \in [DSlots -> Rows]
    /\ \A s \in DSlots : ds[s].lport = 0 => ds[s].laddr = Anywhere
    /\ \A s, u \in DSlots :
          s # u /\ ds[s].type # "none" /\ ds[u].type = ds[s].type /\ ds[u].lport = ds[s].lport /\ ds[s].lport # 0
          => ds[s].laddr # Anywhere /\ ds[u].laddr # Anywhere /\ ds[s].laddr # ds[u].laddr

Alike(so, to) == so.type = to.type /\ so.lport = to.lport /\ so.laddr = to.laddr

LEMMA KeepsAddressed ==
    ASSUME Addressed(dsocks), NEW ds \in [DSlots -> Rows], \A s \in DSlots : Alike(ds[s], dsocks[s])
    PROVE  Addressed(ds)
BY DEF Addressed, Alike

LEMMA TakesPort ==
    ASSUME Addressed(dsocks), NEW s \in Used, NEW so \in Rows, so.type = dsocks[s].type, so.lport # 0,
           ~PortInUseBy(so.type, so.lport, so.laddr)
    PROVE  Addressed([dsocks EXCEPT ![s] = so])
<1> DEFINE ds == [dsocks EXCEPT ![s] = so]
<1>1. dsocks \in [DSlots -> Rows] /\ s \in DSlots BY DEF Addressed, Used
<1>2. ds \in [DSlots -> Rows] /\ ds[s] = so /\ \A u \in DSlots \ {s} : ds[u] = dsocks[u] BY <1>1
<1>3. \A u \in DSlots : dsocks[u].type # "none" /\ dsocks[u].type = so.type /\ dsocks[u].lport = so.lport
        => dsocks[u].laddr # Anywhere /\ so.laddr # Anywhere /\ dsocks[u].laddr # so.laddr
  BY DEF PortInUseBy, Used
<1> HIDE DEF ds
<1> QED BY <1>1, <1>2, <1>3 DEF Addressed

LEMMA BlanksAddressed ==
    ASSUME Addressed(dsocks), NEW s \in DSlots, NEW so \in Rows, so.lport = 0, so.laddr = Anywhere
    PROVE  Addressed([dsocks EXCEPT ![s] = so])
<1> DEFINE ds == [dsocks EXCEPT ![s] = so]
<1>1. ds \in [DSlots -> Rows] /\ ds[s] = so /\ \A u \in DSlots \ {s} : ds[u] = dsocks[u] BY DEF Addressed
<1> HIDE DEF ds
<1> QED BY <1>1 DEF Addressed

(* There are more ephemeral ports than sockets, so that one is found.         *)
LEMMA EphemeralIs ==
    ASSUME Addressed(dsocks), nextPort \in LowPort .. HighPort, NEW type
    PROVE  EphemeralFor(type) \in LowPort .. HighPort /\ ~PortInUseBy(type, EphemeralFor(type), Anywhere)
<1> DEFINE P == LowPort .. HighPort
           spare == {p \in P : ~PortInUseBy(type, p, Anywhere)}
           f == [p \in P |-> CHOOSE s \in DSlots : dsocks[s].lport = p]
           N == {Away(p) : p \in spare}
<1>1. LowPort \in Nat /\ HighPort \in Nat /\ DSOCK_MAX \in Nat \ {0} /\ HighPort >= LowPort + DSOCK_MAX
  BY DatagramAssumption
<1>2. spare # {}
  <2> SUFFICES ASSUME spare = {} PROVE FALSE OBVIOUS
  <2>1. \A p \in P : \E s \in DSlots : dsocks[s].lport = p BY DEF PortInUseBy, Used
  <2>2. \A p \in P : f[p] \in DSlots /\ dsocks[f[p]].lport = p BY <2>1
  <2>3. f \in [P -> DSlots] BY <2>2
  <2>4. IsFiniteSet(P) /\ Cardinality(P) = HighPort - LowPort + 1 BY <1>1, FS_Interval
  <2>5. IsFiniteSet(DSlots) /\ Cardinality(DSlots) = DSOCK_MAX
    <3>1. 0 \in Int /\ DSOCK_MAX - 1 \in Int /\ ~(0 > DSOCK_MAX - 1) /\ DSOCK_MAX - 1 - 0 + 1 = DSOCK_MAX BY <1>1
    <3>2. Cardinality(0 .. DSOCK_MAX - 1) = IF 0 > DSOCK_MAX - 1 THEN 0 ELSE DSOCK_MAX - 1 - 0 + 1
      BY <3>1, FS_Interval
    <3> QED BY <3>1, <3>2, FS_Interval DEF DSlots
  <2>6. Cardinality(DSlots) < Cardinality(P) BY <1>1, <2>4, <2>5
  <2> DEFINE D == DSlots
  <2>7. f \in [P -> D] /\ IsFiniteSet(P) /\ IsFiniteSet(D) /\ Cardinality(D) < Cardinality(P)
    BY <2>3, <2>4, <2>5, <2>6
  <2> HIDE DEF f, P, D
  <2>8. \E x, y \in P : x # y /\ f[x] = f[y] BY ONLY <2>7, FS_PigeonHole, Zenon
  <2> QED BY <2>2, <2>8
<1>3. N # {} /\ N \subseteq Nat
  <2>1. \A p \in P : Away(p) \in Nat BY <1>1 DEF Away
  <2> QED BY <1>2, <2>1
<1> HIDE DEF N
<1>4. PICK n \in N : \A m \in N : n <= m BY <1>3, HasLeast
<1>5. \E p \in spare : \A q \in spare : Away(p) <= Away(q) BY <1>4 DEF N
<1>6. EphemeralFor(type) = CHOOSE p \in spare : \A q \in spare : Away(p) <= Away(q) BY DEF EphemeralFor
<1>7. EphemeralFor(type) \in spare BY <1>5, <1>6
<1> QED BY <1>7

LEMMA AfterIs == ASSUME NEW p \in LowPort .. HighPort PROVE After(p) \in LowPort .. HighPort
<1>1. LowPort \in Nat /\ HighPort \in Nat /\ HighPort >= LowPort + DSOCK_MAX /\ DSOCK_MAX \in Nat
  BY DatagramAssumption
<1> QED BY <1>1 DEF After

LEMMA BoundIs ==
    ASSUME Addressed(dsocks), nextPort \in LowPort .. HighPort, NEW s \in Used
    PROVE  /\ Bound(s) \in Rows /\ Bound(s).lport # 0 /\ PortAfter(s) \in LowPort .. HighPort
           /\ Addressed([dsocks EXCEPT ![s] = Bound(s)])
           /\ Bound(s).type = dsocks[s].type
           /\ \A q : Rings(dsocks[s], q) => Rings(Bound(s), q)
<1>1. dsocks \in [DSlots -> Rows] /\ s \in DSlots /\ dsocks[s] \in Rows BY DEF Addressed, Used
<1>2. CASE dsocks[s].lport # 0
  <2>1. Bound(s) = dsocks[s] /\ PortAfter(s) = nextPort BY <1>2 DEF Bound, PortAfter
  <2>2. [dsocks EXCEPT ![s] = dsocks[s]] = dsocks BY <1>1
  <2> QED BY <1>1, <1>2, <2>1, <2>2
<1>3. CASE dsocks[s].lport = 0
  <2> DEFINE port == EphemeralFor(dsocks[s].type)
             b == [dsocks[s] EXCEPT !.lport = port]
  <2>1. port \in LowPort .. HighPort /\ ~PortInUseBy(dsocks[s].type, port, Anywhere) BY EphemeralIs
  <2>2. Bound(s) = b /\ PortAfter(s) = After(port) BY <1>3 DEF Bound, PortAfter
  <2>3. port \in Nat /\ port # 0 BY <2>1, DatagramAssumption
  <2> HIDE DEF port
  <2>4. /\ b \in Rows /\ b.lport = port /\ b.type = dsocks[s].type /\ b.laddr = dsocks[s].laddr
        /\ b.rx = dsocks[s].rx /\ b.r = dsocks[s].r /\ b.w = dsocks[s].w /\ b.n = dsocks[s].n
    BY <1>1, <2>3 DEF Rows
  <2>5. b.laddr = Anywhere BY <1>1, <1>3, <2>4 DEF Addressed
  <2> HIDE DEF b
  <2>6. Addressed([dsocks EXCEPT ![s] = b]) BY <2>1, <2>3, <2>4, <2>5, TakesPort
  <2>7. \A q : Rings(dsocks[s], q) => Rings(b, q) BY <2>4 DEF Rings
  <2> QED BY <2>1, <2>2, <2>3, <2>4, <2>6, <2>7, AfterIs
<1> QED BY <1>2, <1>3
-----------------------------------------------------------------------------
(* Each ring holds what is due, no two sockets answer to one name, and who    *)
(* was spoken to was spoken to from a port.                                  *)
DatagramInv ==
    /\ Addressed(dsocks) /\ nextPort \in LowPort .. HighPort /\ packets \in Nat
    /\ recv \in [Callers -> [s : DSlots, at : {"running", "polling", "asleep", "woken"}]]
    /\ due = [s \in DSlots |-> due[s]] /\ \A s \in DSlots : Rings(dsocks[s], due[s])
    /\ spoken = [s \in DSlots |-> spoken[s]]
    /\ \A s \in DSlots : /\ spoken[s] # {} => dsocks[s].lport # 0
                         /\ dsocks[s].type = "none" => due[s] = << >> /\ spoken[s] = {}

(* A step of a program that changes one socket, and the packets due to it.    *)
LEMMA OneSocket ==
    ASSUME DatagramInv, NEW s \in DSlots, NEW so \in Rows, NEW q, NEW x,
           Addressed([dsocks EXCEPT ![s] = so]), Rings(so, q), x # {} => so.lport # 0,
           so.type = "none" => q = << >> /\ x = {},
           dsocks' = [dsocks EXCEPT ![s] = so], due' = [due EXCEPT ![s] = q],
           spoken' = [spoken EXCEPT ![s] = x], nextPort' \in LowPort .. HighPort, packets' = packets,
           recv' \in [Callers -> [s : DSlots, at : {"running", "polling", "asleep", "woken"}]]
    PROVE  DatagramInv'
<1>1. dsocks \in [DSlots -> Rows] BY DEF DatagramInv, Addressed
<1>2. dsocks'[s] = so /\ \A u \in DSlots \ {s} : dsocks'[u] = dsocks[u] BY <1>1
<1>3. due'[s] = q /\ (\A u \in DSlots \ {s} : due'[u] = due[u]) /\ due' = [u \in DSlots |-> due'[u]]
  BY DEF DatagramInv
<1>4. spoken'[s] = x /\ (\A u \in DSlots \ {s} : spoken'[u] = spoken[u]) /\ spoken' = [u \in DSlots |-> spoken'[u]]
  BY DEF DatagramInv
<1>5. Addressed(dsocks') /\ packets' \in Nat BY DEF DatagramInv
<1>6. ASSUME NEW u \in DSlots PROVE Rings(dsocks'[u], due'[u])
  <2>1. Rings(dsocks[u], due[u]) BY DEF DatagramInv
  <2>2. CASE u = s BY <1>2, <1>3, <2>2
  <2>3. CASE u # s
    <3>1. dsocks'[u] = dsocks[u] /\ due'[u] = due[u] BY <1>2, <1>3, <2>3
    <3> QED BY <2>1, <3>1
  <2> QED BY <2>2, <2>3
<1>7. \A u \in DSlots : /\ spoken'[u] # {} => dsocks'[u].lport # 0
                        /\ dsocks'[u].type = "none" => due'[u] = << >> /\ spoken'[u] = {}
  BY <1>2, <1>4 DEF DatagramInv
<1> QED BY <1>3, <1>4, <1>5, <1>6, <1>7 DEF DatagramInv, Addressed

LEMMA BlankIs ==
    ASSUME NEW type \in {"none", "dgram", "raw"}
    PROVE  LET so == [Blank EXCEPT !.type = type]
           IN  so \in Rows /\ so.lport = 0 /\ so.laddr = Anywhere /\ Rings(so, << >>)
<1> DEFINE so == [Blank EXCEPT !.type = type]
           none == [i \in RxSlots |-> NoPacket]
<1>1. none \in [RxSlots -> Nat] BY DEF NoPacket
<1>2. RX_SLOTS \in Nat \ {0} /\ RxSlots = 0 .. RX_SLOTS - 1 BY DatagramAssumption DEF RxSlots
<1>3. so = [type |-> type, lport |-> 0, laddr |-> Anywhere, peer |-> NoRemote,
            rx |-> none, r |-> 0, w |-> 0, n |-> 0, waiter |-> NoCaller]
  BY DEF Blank
<1> HIDE DEF so, none
<1>4. so \in Rows BY <1>1, <1>2, <1>3 DEF Rows
<1>5. Turn(0 + 0, RX_SLOTS) = 0 BY <1>2, TurnIs
<1>6. Rings(so, << >>) BY <1>3, <1>5 DEF Rings
<1> QED BY <1>3, <1>4, <1>6 DEF so

LEMMA DatagramInitInv == DatagramInit => DatagramInv
<1> SUFFICES ASSUME DatagramInit PROVE DatagramInv OBVIOUS
<1>1. Blank = [Blank EXCEPT !.type = "none"] BY DEF Blank
<1>2. Blank \in Rows /\ Blank.lport = 0 /\ Blank.laddr = Anywhere /\ Rings(Blank, << >>) BY <1>1, BlankIs
<1>3. \A s \in DSlots : dsocks[s] = Blank BY DEF DatagramInit
<1>4. Addressed(dsocks) BY <1>2, <1>3 DEF Addressed, DatagramInit
<1>5. nextPort \in LowPort .. HighPort /\ 0 \in DSlots
  BY DatagramAssumption DEF DatagramInit, DSlots
<1>6. recv \in [Callers -> [s : DSlots, at : {"running", "polling", "asleep", "woken"}]]
  BY <1>5 DEF DatagramInit, NotWaiting
<1> QED BY <1>2, <1>3, <1>4, <1>5, <1>6 DEF DatagramInit, DatagramInv

(* The packet p comes in for the socket s, where no other one answers.        *)
LEMMA DeliverInv ==
    ASSUME DatagramInv, NEW to, to \subseteq Used, Deliver(to, to)
    PROVE  DatagramInv'
<1> DEFINE p == packets + 1
<1>1. p \in Nat /\ packets' \in Nat BY DEF DatagramInv, Deliver
<1>2. \A s \in DSlots : dsocks[s] \in Rows /\ Rings(dsocks[s], due[s]) BY DEF DatagramInv, Addressed
<1>3. /\ dsocks' = [s \in DSlots |-> IF s \in to THEN RxPush(dsocks[s], p) ELSE dsocks[s]]
      /\ due' = [s \in DSlots |-> IF s \in to /\ Len(due[s]) < RX_SLOTS THEN Append(due[s], p) ELSE due[s]]
      /\ nextPort' = nextPort /\ spoken' = spoken
  BY DEF Deliver
<1> HIDE DEF p
<1>4. ASSUME NEW s \in DSlots
      PROVE  dsocks'[s] \in Rows /\ Rings(dsocks'[s], due'[s]) /\ Alike(dsocks'[s], dsocks[s])
  <2>1. CASE s \in to
    <3>1. dsocks'[s] = RxPush(dsocks[s], p) BY <1>3, <2>1
    <3>2. due'[s] = IF Len(due[s]) < RX_SLOTS THEN Append(due[s], p) ELSE due[s] BY <1>3, <2>1
    <3> DEFINE so == dsocks[s]
               q == due[s]
    <3>3. so \in Rows /\ Rings(so, q) BY <1>2
    <3> HIDE DEF so, q
    <3>4. /\ RxPush(so, p) \in Rows /\ Alike(RxPush(so, p), so)
          /\ Rings(RxPush(so, p), IF Len(q) < RX_SLOTS THEN Append(q, p) ELSE q)
      BY <1>1, <3>3, PushRings DEF Alike
    <3> QED BY <3>1, <3>2, <3>4 DEF so, q
  <2>2. CASE s \notin to
    <3>1. dsocks'[s] = dsocks[s] /\ due'[s] = due[s] BY <1>3, <2>2
    <3> QED BY <1>2, <3>1 DEF Alike
  <2> QED BY <2>1, <2>2
<1>5. dsocks' \in [DSlots -> Rows] BY <1>3, <1>4
<1>6. Addressed(dsocks') BY <1>4, <1>5, KeepsAddressed DEF DatagramInv
<1>7. recv' \in [Callers -> [s : DSlots, at : {"running", "polling", "asleep", "woken"}]]
  BY DEF Deliver, DatagramInv
<1>8. due' = [s \in DSlots |-> due'[s]] BY <1>3
<1>9. \A s \in DSlots : /\ spoken'[s] # {} => dsocks'[s].lport # 0
                        /\ dsocks'[s].type = "none" => due'[s] = << >> /\ spoken'[s] = {}
  BY <1>3, <1>4 DEF DatagramInv, Alike, Used
<1> QED BY <1>1, <1>3, <1>4, <1>6, <1>7, <1>8, <1>9 DEF DatagramInv

(* One datagram has one receiver.                                            *)
LEMMA OneReceiver ==
    ASSUME DatagramInv, NEW from, NEW addr \in {Own, Broadcast}, NEW port \in Nat \ {0},
           NEW s \in Used, Named(s, from, addr, port)
    PROVE  Receivers(from, addr, port) = {s} /\ {u \in Used : Named(u, from, addr, port)} = {s}
<1>1. ASSUME NEW u \in Used, Named(u, from, addr, port) PROVE u = s
  <2> SUFFICES ASSUME u # s PROVE FALSE OBVIOUS
  <2>1. dsocks[s].laddr # Anywhere /\ dsocks[u].laddr # Anywhere /\ dsocks[s].laddr # dsocks[u].laddr
    BY <1>1 DEF DatagramInv, Addressed, Named, Used
  <2>2. dsocks[s].laddr \in {Anywhere, addr} /\ dsocks[u].laddr \in {Anywhere, addr} BY <1>1 DEF Named
  <2> QED BY <2>1, <2>2
<1>2. \A u \in Used : u < s => ~Named(u, from, addr, port)
  <2>1. s \in Nat BY DatagramAssumption DEF Used, DSlots
  <2> QED BY <1>1, <2>1
<1> QED BY <1>1, <1>2 DEF Receivers

LEMMA RecvLoopInv ==
    ASSUME DatagramInv, NEW t \in Callers, NEW s \in DSlots, NEW so \in Rows, RecvLoop(t, s, so),
           Addressed([dsocks EXCEPT ![s] = so]), Rings(so, due[s]), spoken[s] # {} => so.lport # 0,
           so.type = dsocks[s].type, nextPort' \in LowPort .. HighPort, UNCHANGED <<packets, spoken>>
    PROVE  DatagramInv'
<1>1. /\ dsocks \in [DSlots -> Rows] /\ spoken' = [spoken EXCEPT ![s] = spoken[s]]
      /\ so.type = "none" => due[s] = << >> /\ spoken[s] = {}
  BY DEF DatagramInv, Addressed
<1>2. recv' \in [Callers -> [s : DSlots, at : {"running", "polling", "asleep", "woken"}]]
  <2>1. 0 \in DSlots BY DatagramAssumption DEF DSlots
  <2> QED BY <2>1 DEF RecvLoop, NotWaiting, DatagramInv
<1>3. CASE so.n > 0
  <2> DEFINE r == RxPop(so)
             d == [dsocks EXCEPT ![s] = so]
  <2>1. /\ r \in Rows /\ r.type = so.type /\ r.lport = so.lport /\ r.laddr = so.laddr
        /\ due[s] # << >> /\ Head(due[s]) = so.rx[so.r] /\ Rings(r, Tail(due[s]))
    BY <1>3, PopRings
  <2>2. dsocks' = [dsocks EXCEPT ![s] = r]
    BY <1>3 DEF RecvLoop
  <2>3. due' = [due EXCEPT ![s] = Tail(due[s])] BY <1>3, <2>1 DEF RecvLoop
  <2> HIDE DEF r
  <2>4. Addressed([dsocks EXCEPT ![s] = r])
    <3> DEFINE e == [dsocks EXCEPT ![s] = r]
    <3>1. d \in [DSlots -> Rows] /\ e \in [DSlots -> Rows] /\ \A u \in DSlots : Alike(e[u], d[u])
      BY <1>1, <2>1 DEF Alike
    <3> HIDE DEF d, e
    <3>2. Addressed(e) BY <3>1 DEF Addressed, Alike, d
    <3> QED BY <3>2 DEF e
  <2> QED BY <1>1, <1>2, <2>1, <2>2, <2>3, <2>4, OneSocket
<1>4. CASE ~(so.n > 0)
  <2>1. dsocks' = [dsocks EXCEPT ![s] = so] /\ due' = [due EXCEPT ![s] = due[s]]
    BY <1>4 DEF RecvLoop, DatagramInv
  <2> QED BY <1>1, <1>2, <2>1, OneSocket
<1> QED BY <1>3, <1>4

LEMMA DatagramNextInv == DatagramInv /\ [DatagramNext]_datagramVars => DatagramInv'
<1> SUFFICES ASSUME DatagramInv, [DatagramNext]_datagramVars PROVE DatagramInv' OBVIOUS
<1>1. /\ Addressed(dsocks) /\ nextPort \in LowPort .. HighPort /\ dsocks \in [DSlots -> Rows]
      /\ recv \in [Callers -> [s : DSlots, at : {"running", "polling", "asleep", "woken"}]]
  BY DEF DatagramInv, Addressed
<1>2. \A s \in DSlots : /\ dsocks[s] \in Rows /\ Rings(dsocks[s], due[s])
                        /\ spoken[s] # {} => dsocks[s].lport # 0
                        /\ dsocks[s].type = "none" => due[s] = << >> /\ spoken[s] = {}
  BY <1>1 DEF DatagramInv
<1>3. \A s \in DSlots : due = [due EXCEPT ![s] = due[s]] /\ spoken = [spoken EXCEPT ![s] = spoken[s]]
  BY DEF DatagramInv
<1>4. \A s \in Used : s \in DSlots /\ dsocks[s].type # "none" BY DEF Used
<1>5. ASSUME NEW t \in Callers, NEW type \in {"dgram", "raw"}, CreateSocket(t, type) PROVE DatagramInv'
  <2> DEFINE S == DSlots \ Used
             s == CHOOSE x \in S : \A y \in S : x <= y
             so == [Blank EXCEPT !.type = type]
  <2>1. S # {} /\ S \subseteq Nat
    <3>1. Used \subseteq DSlots /\ Used # DSlots BY <1>5 DEF CreateSocket, Used
    <3>2. DSlots \subseteq Nat BY DatagramAssumption DEF DSlots
    <3> QED BY <3>1, <3>2
  <2>2. /\ dsocks' = [dsocks EXCEPT ![s] = so]
        /\ UNCHANGED <<nextPort, recv, packets, due, spoken>>
    BY <1>5 DEF CreateSocket
  <2> HIDE DEF S
  <2>3. \E x \in S : \A y \in S : x <= y BY <2>1, HasLeast
  <2>4. s \in S BY <2>3
  <2> HIDE DEF s
  <2>5. s \in DSlots /\ due[s] = << >> /\ spoken[s] = {} BY <1>2, <2>4 DEF S, Used
  <2>6. so \in Rows /\ so.lport = 0 /\ so.laddr = Anywhere /\ Rings(so, << >>) BY BlankIs
  <2>7. so.type = type BY DEF Blank
  <2> HIDE DEF so
  <2>8. Addressed([dsocks EXCEPT ![s] = so]) BY <1>1, <2>5, <2>6, BlanksAddressed
  <2> QED BY <1>1, <1>3, <2>2, <2>5, <2>6, <2>7, <2>8, OneSocket
<1>6. ASSUME NEW t \in Callers, NEW s \in Used, NEW port \in Wanted \cup {0}, NEW addr \in {Anywhere, Own, Broadcast},
             BindSocket(t, s, port, addr)
      PROVE  DatagramInv'
  <2> DEFINE p == IF port = 0 THEN EphemeralFor(dsocks[s].type) ELSE port
             so == [dsocks[s] EXCEPT !.lport = p, !.laddr = addr]
  <2>1. p \in Nat \ {0} /\ ~PortInUseBy(dsocks[s].type, p, addr)
    <3>1. CASE port = 0
      <4>1. p \in LowPort .. HighPort /\ ~PortInUseBy(dsocks[s].type, p, Anywhere) BY <1>1, <3>1, EphemeralIs
      <4>2. p \in Nat \ {0} BY <4>1, DatagramAssumption
      <4> HIDE DEF p
      <4> QED BY <4>1, <4>2 DEF PortInUseBy
    <3>2. CASE port # 0 BY <1>6, <3>2, DatagramAssumption DEF BindSocket
    <3> QED BY <3>1, <3>2
  <2>2. /\ dsocks' = [dsocks EXCEPT ![s].lport = p, ![s].laddr = addr]
        /\ nextPort' = IF port = 0 THEN After(EphemeralFor(dsocks[s].type)) ELSE nextPort
        /\ spoken' = [spoken EXCEPT ![s] = {}] /\ UNCHANGED <<recv, packets, due>>
    BY <1>6 DEF BindSocket
  <2>3. nextPort' \in LowPort .. HighPort BY <1>1, <2>2, EphemeralIs, AfterIs
  <2> HIDE DEF p
  <2>4. dsocks' = [dsocks EXCEPT ![s] = so] BY <1>1, <1>4, <2>2
  <2>5. /\ so \in Rows /\ so.type = dsocks[s].type /\ so.lport = p /\ so.laddr = addr
        /\ so.rx = dsocks[s].rx /\ so.r = dsocks[s].r /\ so.w = dsocks[s].w /\ so.n = dsocks[s].n
    BY <1>2, <1>4, <2>1 DEF Rows
  <2> HIDE DEF so
  <2>6. Rings(so, due[s]) BY <1>2, <1>4, <2>5 DEF Rings
  <2>7. Addressed([dsocks EXCEPT ![s] = so]) BY <1>1, <2>1, <2>5, TakesPort
  <2> QED BY <1>1, <1>3, <1>4, <2>1, <2>2, <2>3, <2>4, <2>5, <2>6, <2>7, OneSocket
<1>7. ASSUME NEW s \in Used
      PROVE  /\ Bound(s) \in Rows /\ Bound(s).lport # 0 /\ PortAfter(s) \in LowPort .. HighPort
             /\ Addressed([dsocks EXCEPT ![s] = Bound(s)]) /\ Bound(s).type = dsocks[s].type
             /\ Bound(s).type # "none" /\ Rings(Bound(s), due[s])
  BY <1>1, <1>2, <1>4, BoundIs
<1>8. ASSUME NEW t \in Callers, NEW s \in Used, NEW to \in Friends \cup (FarHosts \X {0}), ConnectSocket(t, s, to)
      PROVE  DatagramInv'
  <2> DEFINE so == [Bound(s) EXCEPT !.peer = to]
             d == [dsocks EXCEPT ![s] = Bound(s)]
             e == [dsocks EXCEPT ![s] = so]
  <2>1. dsocks' = e /\ nextPort' = PortAfter(s) /\ UNCHANGED <<recv, packets, due, spoken>>
    BY <1>8 DEF ConnectSocket
  <2>2. /\ so \in Rows /\ so.type = Bound(s).type /\ so.lport = Bound(s).lport /\ so.laddr = Bound(s).laddr
        /\ so.rx = Bound(s).rx /\ so.r = Bound(s).r /\ so.w = Bound(s).w /\ so.n = Bound(s).n
    BY <1>7 DEF Rows
  <2> HIDE DEF so
  <2>3. Rings(so, due[s]) BY <1>7, <2>2 DEF Rings
  <2>4. d \in [DSlots -> Rows] /\ e \in [DSlots -> Rows] /\ \A u \in DSlots : Alike(e[u], d[u])
    BY <1>1, <1>4, <1>7, <2>2 DEF Alike
  <2>5. Addressed(d) BY <1>7
  <2> HIDE DEF d, e
  <2>6. Addressed(e) BY <2>4, <2>5 DEF Addressed, Alike
  <2>7. so.lport # 0 /\ so.type # "none" BY <1>7, <2>2
  <2>8. due' = [due EXCEPT ![s] = due[s]] /\ spoken' = [spoken EXCEPT ![s] = spoken[s]] BY <1>3, <1>4, <2>1
  <2> QED BY <1>1, <1>4, <1>7, <2>1, <2>2, <2>3, <2>6, <2>7, <2>8, OneSocket DEF e
<1>9. ASSUME NEW t \in Callers, NEW s \in Used, NEW to \in Friends, SendDatagram(t, s, to) PROVE DatagramInv'
  <2>1. /\ dsocks' = [dsocks EXCEPT ![s] = Bound(s)] /\ nextPort' = PortAfter(s)
        /\ UNCHANGED <<recv, packets, due>>
        /\ \/ spoken' = [spoken EXCEPT ![s] = @ \cup {to}]
           \/ UNCHANGED spoken
    BY <1>9 DEF SendDatagram
  <2>2. PICK x : spoken' = [spoken EXCEPT ![s] = x] BY <1>3, <1>4, <2>1
  <2>3. due' = [due EXCEPT ![s] = due[s]] BY <1>3, <1>4, <2>1
  <2> QED BY <1>1, <1>4, <1>7, <2>1, <2>2, <2>3, OneSocket
<1>10. ASSUME NEW t \in Callers, NEW s \in Used, CloseSocket(t, s) PROVE DatagramInv'
  <2>1. /\ dsocks' = [dsocks EXCEPT ![s] = Blank] /\ due' = [due EXCEPT ![s] = << >>]
        /\ spoken' = [spoken EXCEPT ![s] = {}] /\ UNCHANGED <<nextPort, recv, packets>>
    BY <1>10 DEF CloseSocket
  <2>2. Blank = [Blank EXCEPT !.type = "none"] BY DEF Blank
  <2>3. Blank \in Rows /\ Blank.lport = 0 /\ Blank.laddr = Anywhere /\ Rings(Blank, << >>) BY <2>2, BlankIs
  <2>4. Addressed([dsocks EXCEPT ![s] = Blank]) BY <1>1, <1>4, <2>3, BlanksAddressed
  <2> QED BY <1>1, <1>4, <2>1, <2>3, <2>4, OneSocket
<1>11. ASSUME NEW t \in Callers, NEW s \in Used, RecvFrom(t, s) PROVE DatagramInv'
  <2>1. RecvLoop(t, s, Bound(s)) /\ nextPort' = PortAfter(s) /\ UNCHANGED <<packets, spoken>>
    BY <1>11 DEF RecvFrom
  <2> QED BY <1>4, <1>7, <2>1, RecvLoopInv
<1>12. ASSUME NEW t \in Callers, NEW s \in Used, RecvNothing(t, s) PROVE DatagramInv'
  <2>1. /\ dsocks' = [dsocks EXCEPT ![s] = Bound(s)] /\ nextPort' = PortAfter(s)
        /\ UNCHANGED <<recv, packets, due, spoken>>
    BY <1>12 DEF RecvNothing
  <2>2. due' = [due EXCEPT ![s] = due[s]] /\ spoken' = [spoken EXCEPT ![s] = spoken[s]] BY <1>3, <1>4, <2>1
  <2> QED BY <1>1, <1>4, <1>7, <2>1, <2>2, OneSocket
<1>13. ASSUME NEW t \in Callers, BlockWait(t) PROVE DatagramInv'
  <2> DEFINE s == recv[t].s
             so == [dsocks[s] EXCEPT !.waiter = t]
             e == [dsocks EXCEPT ![s] = so]
  <2>1. s \in DSlots BY <1>1
  <2>2. /\ dsocks' = [dsocks EXCEPT ![s].waiter = t] /\ recv' = [recv EXCEPT ![t].at = "asleep"]
        /\ UNCHANGED <<nextPort, packets, calls, due, spoken>>
    BY <1>13 DEF BlockWait
  <2> HIDE DEF s
  <2>3. dsocks' = e BY <1>1, <2>1, <2>2
  <2>4. /\ so \in Rows /\ so.type = dsocks[s].type /\ so.lport = dsocks[s].lport /\ so.laddr = dsocks[s].laddr
        /\ so.rx = dsocks[s].rx /\ so.r = dsocks[s].r /\ so.w = dsocks[s].w /\ so.n = dsocks[s].n
    BY <1>2, <2>1 DEF Rows
  <2> HIDE DEF so
  <2>5. Rings(so, due[s]) BY <1>2, <2>1, <2>4 DEF Rings
  <2>6. e \in [DSlots -> Rows] /\ \A u \in DSlots : Alike(e[u], dsocks[u]) BY <1>1, <2>1, <2>4 DEF Alike
  <2> HIDE DEF e
  <2>7. Addressed(e) BY <1>1, <2>6, KeepsAddressed
  <2>8. recv' \in [Callers -> [s : DSlots, at : {"running", "polling", "asleep", "woken"}]] BY <1>1, <2>2
  <2>9. due' = [due EXCEPT ![s] = due[s]] /\ spoken' = [spoken EXCEPT ![s] = spoken[s]] BY <1>3, <2>1, <2>2
  <2> QED BY <1>1, <1>2, <2>1, <2>2, <2>3, <2>4, <2>5, <2>7, <2>8, <2>9, OneSocket DEF e
<1>14. ASSUME NEW t \in Callers, TimedOut(t) PROVE DatagramInv'
  <2>1. recv' \in [Callers -> [s : DSlots, at : {"running", "polling", "asleep", "woken"}]]
    BY <1>1, <1>14 DEF TimedOut
  <2> QED BY <1>14, <2>1 DEF TimedOut, DatagramInv
<1>15. ASSUME NEW t \in Callers, RecvAgain(t) PROVE DatagramInv'
  <2> DEFINE s == recv[t].s
  <2>1. s \in DSlots /\ [dsocks EXCEPT ![s] = dsocks[s]] = dsocks BY <1>1
  <2>2. RecvLoop(t, s, dsocks[s]) /\ UNCHANGED <<nextPort, packets, spoken>> BY <1>15 DEF RecvAgain
  <2> HIDE DEF s
  <2> QED BY <1>1, <1>2, <2>1, <2>2, RecvLoopInv
<1>16. ASSUME NEW from \in Remotes, NEW addr \in {Own, Broadcast}, NEW port \in Wanted \cup LowPort .. HighPort,
              Datagram(from, addr, port)
       PROVE  DatagramInv'
  <2> DEFINE named == {s \in Used : Named(s, from, addr, port)}
  <2>1. named # {} /\ Deliver(Receivers(from, addr, port), named) BY <1>16 DEF Datagram
  <2>2. port \in Nat \ {0} BY DatagramAssumption
  <2>3. PICK s \in Used : Named(s, from, addr, port) BY <2>1
  <2>4. Receivers(from, addr, port) = {s} /\ named = {s} BY <2>2, <2>3, OneReceiver
  <2>5. Deliver({s}, {s}) BY <2>1, <2>4
  <2> QED BY <2>5, DeliverInv
<1>17. ASSUME NEW h \in FarHosts, Icmp(<<h, 0>>) PROVE DatagramInv'
  <2> DEFINE to == Listening(<<h, 0>>)
  <2>1. Deliver(to, to) /\ to \subseteq Used BY <1>17 DEF Icmp, Listening
  <2> HIDE DEF to
  <2> QED BY <2>1, DeliverInv
<1>18. CASE UNCHANGED datagramVars BY <1>18 DEF datagramVars, DatagramInv
<1> QED BY <1>5, <1>6, <1>8, <1>9, <1>10, <1>11, <1>12, <1>13, <1>14, <1>15, <1>16, <1>17, <1>18 DEF DatagramNext

(* What is in a socket's ring came in for that socket and in that order, and  *)
(* an answer comes to the socket that asked (socket.c), for any number of     *)
(* sockets, slots, callers and remote ends.                                  *)
THEOREM DatagramsArrive == DatagramSpec => []DatagramsSound
<1>1. DatagramInv => RingsTell
  <2> SUFFICES ASSUME DatagramInv, NEW s \in Used PROVE InRing(s) = due[s] BY DEF RingsTell
  <2>1. Rings(dsocks[s], due[s]) BY DEF DatagramInv, Used
  <2>2. due[s] \in Seq(Nat) /\ Len(due[s]) = dsocks[s].n
        /\ \A i \in 1 .. dsocks[s].n : due[s][i] = dsocks[s].rx[Turn(dsocks[s].r + i - 1, RX_SLOTS)]
    BY <2>1 DEF Rings
  <2>3. due[s] = [i \in 1 .. dsocks[s].n |-> due[s][i]] BY <2>2
  <2>4. InRing(s) = [i \in 1 .. dsocks[s].n |-> dsocks[s].rx[Turn(dsocks[s].r + i - 1, RX_SLOTS)]] BY DEF InRing, Turn
  <2> QED BY <2>2, <2>3, <2>4
<1>2. DatagramInv => AnswersReturn
  <2> SUFFICES ASSUME DatagramInv, NEW s \in Used, NEW to \in spoken[s], dsocks[s].type = "dgram",
                      dsocks[s].laddr \in {Anywhere, Own}, dsocks[s].peer \in {NoRemote, to}
               PROVE  Receivers(to, Own, dsocks[s].lport) = {s}
    BY DEF AnswersReturn
  <2>1. dsocks[s].lport \in Nat \ {0} BY DEF DatagramInv, Addressed, Used, Rows
  <2>2. Named(s, to, Own, dsocks[s].lport) BY DEF Named
  <2> QED BY <2>1, <2>2, OneReceiver
<1>3. DatagramInv => DatagramsSound BY <1>1, <1>2 DEF DatagramsSound
<1> QED BY <1>3, DatagramInitInv, DatagramNextInv, PTL DEF DatagramSpec
-----------------------------------------------------------------------------
(* TcpSocket. TcpInv says of every socket what it is (Kinds), what it has sent *)
(* (SentBy), what it has had (Hears) and what the remote end has of it (Knows,  *)
(* Covers); of the remote ends and the segments about, that their numbers are  *)
(* of connections begun already; and what sockets are to each other (Ports,   *)
(* Children, Queues). tcp_next_iss() puts the numbers of two connections ISS    *)
(* apart, so a number tells which connection it was given in: its generation.  *)
(* The generation of a number: which tcp_next_iss() it comes from.            *)
Gen(x) == x \div ISS
Offset(x) == x % ISS
EndOfSeg(m) == m.seq + m.len + (IF m.flags \cap {"SYN", "FIN"} # {} THEN 1 ELSE 0)
Ends(r) == <<r.lport, r.remote>>
RemoteEnds == Clients \cup Servers
TcpFlags == {"SYN", "ACK", "FIN", "RST"}

SockRows == [used : BOOLEAN, bound : BOOLEAN, connected : BOOLEAN, state : States,
             backlog : BOOLEAN, parent : Sids \cup {NULL}, shut_rd : BOOLEAN, shut_wr : BOOLEAN,
             error : BOOLEAN, lport : Nat, remote : RemoteEnds \cup {NULL}, una : Nat, nxt : Nat, rcv : Nat,
             rx : Seq(Nat), aq : Seq(Sids), waiter : Threads \cup {NULL}, read : Nat, told : Nat]
PeerRows == [st : {"closed", "syn_sent", "open", "reset"}, nxt : Nat, rcv : Nat, fin : BOOLEAN]
Segs == [c : Conns, flags : SUBSET TcpFlags, seq : Nat, ack : Nat, len : Nat]
CallRows == [op : {"none", "connect", "send", "accept", "recv"}, s : Sids, want : Nat, tries : Nat,
             at : {"loop", "poll", "sleep"}]

(* What a socket s in use can be, where op are those the program has.        *)
Kinds(s, r, op) ==
    /\ r.bound = FALSE => r.connected = FALSE /\ r.state = "CLOSED" /\ r.remote = NULL
    /\ r.bound = TRUE => r.lport \in {Port} \cup Ephemeral
    /\ r.connected = TRUE => r.bound = TRUE /\ r.remote \in RemoteEnds /\ r.state # "LISTEN"
    /\ r.connected = FALSE => r.state \in {"CLOSED", "LISTEN"} /\ r.remote \notin Clients
    /\ r.remote \in Clients => r.lport = Port /\ r.state # "SYN_SENT"
    /\ r.state \in {"LISTEN", "SYN_SENT"} => s \in op
    /\ r.parent # NULL => s \notin op /\ r.remote \in Clients
    /\ r.state = "SYN_RECV" => r.parent # NULL

(* What it has sent is of one generation, and not of a later one than g.      *)
SentBy(r, g) == r.connected = TRUE =>
    /\ r.nxt < g + ISS
    /\ r.shut_wr = FALSE => Offset(r.nxt) <= ISS - 2
    /\ r.state = "SYN_RECV" => r.nxt = r.una + 1 /\ Offset(r.nxt) = 1

(* The remote end speaks to an earlier connection than r.                     *)
Elsewhere(r, p) == p.rcv > 0 /\ Gen(p.rcv) # Gen(r.nxt)

Hears(r, pe) ==
    /\ r.connected = FALSE \/ r.state = "SYN_SENT" => r.rcv = 0 /\ r.read = 0 /\ r.rx = <<>>
    /\ r.shut_rd = FALSE =>
          /\ \A i \in 1 .. Len(r.rx) : r.rx[i] = r.read + i - 1
          /\ r.rcv # r.read + Len(r.rx) =>
                /\ r.state \notin {"ESTABLISHED", "FIN_WAIT1", "FIN_WAIT2"}
                /\ pe[Ends(r)].fin = TRUE /\ pe[Ends(r)].nxt <= r.rcv
                /\ r.state = "SYN_RECV" => Elsewhere(r, pe[Ends(r)])

(* The handshake of r was done once.                                         *)
Settled(s, r, op) == r.connected = TRUE /\ r.state \notin {"SYN_SENT", "SYN_RECV"} /\ (r.state = "CLOSED" => s \in op)

Knows(s, r, op, pe) ==
    /\ r.connected = TRUE => r.told <= pe[Ends(r)].rcv
    /\ Settled(s, r, op) => r.una <= pe[Ends(r)].rcv

(* The remote end has had nothing of r that r did not send, nor will have.    *)
Covers(r, pe, tp) == r.connected = TRUE =>
    /\ Gen(pe[Ends(r)].rcv) = Gen(r.nxt) => pe[Ends(r)].rcv <= r.nxt
    /\ \A m \in tp : m.c = Ends(r) /\ Gen(m.seq) = Gen(r.nxt) => EndOfSeg(m) <= r.nxt

RowSound(s, r, op, pe, tp, g) ==
    /\ r \in SockRows
    /\ r.used = FALSE => r = Unused /\ s \notin op
    /\ r.used = TRUE => Kinds(s, r, op) /\ SentBy(r, g) /\ Hears(r, pe) /\ Knows(s, r, op, pe) /\ Covers(r, pe, tp)

Ports(sk) == \A s, u \in Sids :
    s # u /\ sk[s].used = TRUE /\ sk[u].used = TRUE /\ sk[s].bound = TRUE /\ sk[u].bound = TRUE
    /\ sk[s].lport = sk[u].lport
    => /\ sk[s].remote # sk[u].remote /\ sk[s].lport = Port
       /\ sk[s].remote \in Clients \/ sk[u].remote \in Clients

Children(sk, op) == \A s \in Sids : sk[s].parent # NULL =>
    sk[s].parent \in op /\ sk[sk[s].parent].used = TRUE

Queues(sk, op) == \A s \in Sids : \A i \in 1 .. Len(sk[s].aq) :
    LET child == sk[s].aq[i]
    IN  /\ sk[child].used = TRUE /\ sk[child].connected = TRUE /\ sk[child].parent = NULL
        /\ child \notin op
        /\ \A u \in Sids : \A j \in 1 .. Len(sk[u].aq) : sk[u].aq[j] = child => u = s /\ j = i

PeersSound(pe, g) == pe \in [Conns -> PeerRows] /\ \A c \in Conns :
    /\ pe[c].st \in {"closed", "syn_sent"} <=> pe[c].rcv = 0
    /\ pe[c].rcv = 0 => pe[c].fin = FALSE
    /\ pe[c].st # "closed" /\ c[2] \in Clients => c[1] = Port
    /\ pe[c].rcv < g + ISS

SegsSound(tp, g) == tp \subseteq Segs /\ \A m \in tp :
    /\ Gen(m.seq) = Gen(EndOfSeg(m)) /\ EndOfSeg(m) < g + ISS /\ m.seq < EndOfSeg(m)

-----------------------------------------------------------------------------
LEMMA GenIs == \A x \in Nat : /\ Gen(x) \in Nat /\ Offset(x) \in 0 .. ISS - 1
                              /\ x = (ISS * Gen(x)) + Offset(x)
BY DEF Gen, Offset, ISS

LEMMA GenNext == \A x \in Nat : Offset(x) <= ISS - 2 =>
    Gen(x + 1) = Gen(x) /\ Offset(x + 1) = Offset(x) + 1
BY DEF Gen, Offset, ISS

LEMMA GenNew == \A g \in Nat : Offset(g) = 0 =>
   /\ Offset(g + ISS) = 0 /\ Gen(g + ISS + 1) = Gen(g + ISS) /\ Offset(g + ISS + 1) = 1
   /\ \A x \in Nat : x < g + ISS => Gen(x) # Gen(g + ISS)
BY DEF Gen, Offset, ISS

(* Every acknowledgement a remote end gives is of what it has, in its own     *)
(* generation.                                                              *)
LEMMA AcksAre ==
    ASSUME NEW x \in Nat, NEW a \in (x \div ISS) * ISS + 1 .. x
    PROVE  a \in Nat /\ a <= x /\ Gen(a) = Gen(x)
BY DEF Gen, ISS

LEMMA OnlyAck ==
    ASSUME NEW x \in Nat, x > 0, NEW y \in Nat, Gen(x) = Gen(y), Offset(y) = 1, x <= y,
           NEW a \in (x \div ISS) * ISS + 1 .. x
    PROVE  a = y
BY DEF Gen, Offset, ISS
-----------------------------------------------------------------------------
(* What is done to one socket.                                               *)
LEMMA EndsIn ==
    ASSUME NEW s, NEW op, NEW r \in SockRows, Kinds(s, r, op), r.connected = TRUE
    PROVE  Ends(r) \in Conns /\ Ends(r)[1] = r.lport /\ Ends(r)[2] = r.remote
BY DEF Kinds, Ends, Conns, RemoteEnds, SockRows

(* All but what its queues and its waiter are.                               *)
SameRow(q, r) ==
    /\ q.used = r.used /\ q.bound = r.bound /\ q.connected = r.connected /\ q.state = r.state
    /\ q.shut_rd = r.shut_rd /\ q.shut_wr = r.shut_wr /\ q.lport = r.lport /\ q.remote = r.remote
    /\ q.una = r.una /\ q.nxt = r.nxt /\ q.rcv = r.rcv /\ q.rx = r.rx /\ q.read = r.read /\ q.told = r.told

LEMMA SameLocal ==
    ASSUME NEW s, NEW op, NEW pe, NEW tp, NEW g, NEW r, NEW q \in SockRows,
           RowSound(s, r, op, pe, tp, g), r.used = TRUE, SameRow(q, r),
           q.parent = r.parent \/ (q.parent = NULL /\ r.state # "SYN_RECV")
    PROVE  RowSound(s, q, op, pe, tp, g)
<1>1. Ends(q) = Ends(r) BY DEF SameRow, Ends
<1>2. Kinds(s, q, op) BY DEF RowSound, Kinds, SameRow
<1>3. SentBy(q, g) BY DEF RowSound, SentBy, SameRow
<1>4. \A p : Elsewhere(q, p) = Elsewhere(r, p) BY DEF Elsewhere, SameRow
<1>5. Hears(q, pe) BY <1>1, <1>4 DEF RowSound, Hears, SameRow
<1>6. Knows(s, q, op, pe) BY <1>1 DEF RowSound, Knows, Settled, SameRow
<1>7. Covers(q, pe, tp) BY <1>1 DEF RowSound, Covers, SameRow
<1> QED BY <1>2, <1>3, <1>5, <1>6, <1>7 DEF RowSound, SameRow

LEMMA OpenLocal ==
    ASSUME NEW s, NEW op, NEW pe, NEW tp, NEW g, NEW r, NEW more,
           RowSound(s, r, op, pe, tp, g), s \in more <=> s \in op
    PROVE  RowSound(s, r, more, pe, tp, g)
BY DEF RowSound, Kinds, Knows, Settled

(* A connection that was taken out of the queue of its listener.             *)
LEMMA TakenLocal ==
    ASSUME NEW s, NEW op, NEW pe, NEW tp, NEW g, NEW r, NEW more,
           RowSound(s, r, op, pe, tp, g), r.used = TRUE, r.state = "ESTABLISHED", r.parent = NULL, s \in more
    PROVE  RowSound(s, r, more, pe, tp, g)
BY DEF RowSound, Kinds, Knows, Settled

LEMMA RowTypes ==
    /\ Fresh \in SockRows /\ Fresh.used = TRUE /\ Unused \in SockRows /\ Unused.used = FALSE
    /\ Unused.bound = FALSE /\ Unused.connected = FALSE /\ Unused.parent = NULL /\ Unused.aq = <<>>
<1>1. Fresh \in SockRows
  <2>1. <<>> \in Seq(Nat) /\ <<>> \in Seq(Sids) OBVIOUS
  <2>2. "CLOSED" \in States BY DEF States
  <2> QED BY <2>1, <2>2 DEF Fresh, SockRows
<1>2. /\ Fresh.used = TRUE /\ Fresh.bound = FALSE /\ Fresh.connected = FALSE
      /\ Fresh.parent = NULL /\ Fresh.aq = <<>>
  BY DEF Fresh
<1> HIDE DEF Fresh
<1> QED BY <1>1, <1>2 DEF Unused, SockRows

LEMMA UnusedLocal ==
    ASSUME NEW s, NEW op, NEW pe, NEW tp, NEW g, s \notin op
    PROVE  RowSound(s, Unused, op, pe, tp, g)
BY RowTypes DEF RowSound

LEMMA FreshLocal ==
    ASSUME NEW s, NEW op, NEW pe, NEW tp, NEW g
    PROVE  RowSound(s, Fresh, op, pe, tp, g)
<1>1. /\ Fresh.bound = FALSE /\ Fresh.connected = FALSE /\ Fresh.state = "CLOSED" /\ Fresh.remote = NULL
      /\ Fresh.parent = NULL /\ Fresh.aq = <<>> /\ Fresh.rx = <<>> /\ Fresh.rcv = 0 /\ Fresh.read = 0
  BY DEF Fresh
<1> HIDE DEF Fresh
<1>2. Kinds(s, Fresh, op) BY <1>1, TcpAssumption DEF Kinds, TcpAssumption
<1>3. Hears(Fresh, pe) BY <1>1 DEF Hears
<1> QED BY RowTypes, <1>1, <1>2, <1>3 DEF RowSound, SentBy, Knows, Settled, Covers

LEMMA BindLocal ==
    ASSUME NEW s, NEW op, NEW pe, NEW tp, NEW g, NEW r, RowSound(s, r, op, pe, tp, g), r.used = TRUE,
           r.bound = FALSE
    PROVE  RowSound(s, [r EXCEPT !.bound = TRUE, !.lport = Port], op, pe, tp, g)
<1> DEFINE q == [r EXCEPT !.bound = TRUE, !.lport = Port]
<1>1. /\ q \in SockRows /\ q.used = TRUE /\ q.bound = TRUE /\ q.connected = r.connected /\ q.state = r.state
      /\ q.parent = r.parent /\ q.aq = r.aq /\ q.rx = r.rx /\ q.rcv = r.rcv /\ q.read = r.read
      /\ q.lport = Port /\ q.remote = r.remote
  BY TcpAssumption DEF TcpAssumption, RowSound, SockRows
<1> HIDE DEF q
<1>2. r.connected = FALSE /\ r.state = "CLOSED" BY DEF RowSound, Kinds
<1>3. Kinds(s, q, op) BY <1>1, <1>2 DEF RowSound, Kinds
<1>4. Hears(q, pe) BY <1>1, <1>2 DEF RowSound, Hears
<1> QED BY <1>1, <1>2, <1>3, <1>4 DEF RowSound, SentBy, Knows, Settled, Covers, q

LEMMA ListenLocal ==
    ASSUME NEW s \in Sids, NEW op, NEW pe, NEW tp, NEW g, NEW r, RowSound(s, r, op, pe, tp, g), r.used = TRUE,
           r.bound = TRUE, r.connected = FALSE, s \in op, NEW backlog \in BOOLEAN
    PROVE  RowSound(s, [r EXCEPT !.backlog = backlog, !.state = "LISTEN"], op, pe, tp, g)
<1> DEFINE q == [r EXCEPT !.backlog = backlog, !.state = "LISTEN"]
<1>1. /\ q \in SockRows /\ q.used = TRUE /\ q.bound = TRUE /\ q.connected = FALSE /\ q.state = "LISTEN"
      /\ q.parent = r.parent /\ q.rx = r.rx /\ q.rcv = r.rcv /\ q.read = r.read
      /\ q.lport = r.lport /\ q.remote = r.remote
  BY DEF RowSound, SockRows, States
<1> HIDE DEF q
<1>3. Kinds(s, q, op) BY <1>1 DEF RowSound, Kinds
<1>4. Hears(q, pe) BY <1>1 DEF RowSound, Hears
<1> QED BY <1>1, <1>3, <1>4 DEF RowSound, SentBy, Knows, Settled, Covers, q

(* tcp_mark_error.                                                           *)
GaveUp(q, r) ==
    /\ q.used = TRUE /\ q.bound = r.bound /\ q.lport = r.lport /\ q.remote = r.remote
    /\ q.parent = r.parent /\ q.aq = r.aq /\ q.state = "CLOSED"
    /\ r.state # "SYN_SENT" => q.connected = r.connected

LEMMA FailedLocal ==
    ASSUME NEW s, NEW op, NEW pe, NEW tp, NEW g, NEW r, NEW err \in BOOLEAN,
           RowSound(s, r, op, pe, tp, g), r.used = TRUE, NEW f, f = Failed(r, err)
    PROVE  RowSound(s, f, op, pe, tp, g) /\ GaveUp(f, r)
<1> DEFINE q == Failed(r, err)
           both == r.connected /\ r.state # "SYN_SENT"
<1>0. both \in BOOLEAN OBVIOUS
<1>1. /\ q \in SockRows /\ q.used = TRUE /\ q.bound = r.bound /\ q.state = "CLOSED" /\ q.parent = r.parent
      /\ q.aq = r.aq /\ q.shut_rd = r.shut_rd /\ q.shut_wr = r.shut_wr /\ q.lport = r.lport
      /\ q.remote = r.remote /\ q.una = r.una /\ q.nxt = r.nxt /\ q.rcv = r.rcv /\ q.rx = r.rx
      /\ q.read = r.read /\ q.told = r.told /\ q.waiter = r.waiter /\ q.connected = both
  <2>1. q = [r EXCEPT !.error = err, !.state = "CLOSED", !.connected = both] BY DEF Failed
  <2> HIDE DEF both, q
  <2> QED BY <1>0, <2>1, ZenonT(60) DEF RowSound, SockRows, States
<1>2. q.connected = (r.connected /\ r.state # "SYN_SENT") BY <1>1
<1>3. r \in SockRows BY DEF RowSound
<1> HIDE DEF q
<1>4. r.state = "SYN_SENT" => q.connected = FALSE BY <1>2, Zenon
<1>5. r.state # "SYN_SENT" => q.connected = r.connected
  <2>1. r.connected \in BOOLEAN BY <1>3 DEF SockRows
  <2> QED BY <1>2, <2>1
<1>6. Ends(q) = Ends(r) BY <1>1 DEF Ends
<1>7. Kinds(s, q, op) BY <1>1, <1>4, <1>5 DEF RowSound, Kinds
<1>8. SentBy(q, g) BY <1>1, <1>4, <1>5 DEF RowSound, SentBy
<1>9. Hears(q, pe) BY <1>1, <1>4, <1>5, <1>6 DEF RowSound, Hears, Kinds
<1>10. Knows(s, q, op, pe) BY <1>1, <1>4, <1>5, <1>6 DEF RowSound, Knows, Settled, Kinds
<1>11. Covers(q, pe, tp) BY <1>1, <1>4, <1>5, <1>6 DEF RowSound, Covers
<1>12. RowSound(s, q, op, pe, tp, g) /\ GaveUp(q, r)
  BY <1>1, <1>5, <1>7, <1>8, <1>9, <1>10, <1>11 DEF RowSound, GaveUp
<1> QED BY <1>12 DEF q

(* What a remote end in state p may have sent.                               *)
FromPeer(m, p) ==
    /\ m.seq \in Nat /\ m.ack \in Nat /\ m.len \in {0, 1}
    /\ "ACK" \in m.flags => p.rcv > 0 /\ m.ack \in (p.rcv \div ISS) * ISS + 1 .. p.rcv
    /\ "FIN" \in m.flags => "ACK" \in m.flags /\ p.fin = TRUE /\ m.seq + m.len = p.nxt /\ m.seq > 0
    /\ m.len = 1 => m.seq > 0 /\ m.seq < p.nxt
    /\ "SYN" \in m.flags => m.seq = 0

(* A segment has come, and all but the state and the stream is as it was.     *)
KeptEnds(q, r) ==
    /\ q.used = TRUE /\ q.bound = r.bound /\ q.lport = r.lport /\ q.remote = r.remote
    /\ q.connected = r.connected /\ q.parent = r.parent /\ q.aq = r.aq

PastSyn(q, r) == q.state \notin {"LISTEN", "SYN_SENT"} /\ (q.state = "SYN_RECV" => r.state = "SYN_RECV")
Unacked(q, pe) == q.state = "SYN_RECV" => Elsewhere(q, pe[Ends(q)])

LEMMA AckedLocal ==
    ASSUME NEW s, NEW op, NEW pe, NEW tp, NEW g, NEW r, NEW m,
           RowSound(s, r, op, pe, tp, g), r.used = TRUE, r.state \notin {"LISTEN", "SYN_SENT"},
           pe[Ends(r)] \in PeerRows, FromPeer(m, pe[Ends(r)]), "ACK" \in m.flags,
           NEW q, q = Acked(r, m.ack)
    PROVE  RowSound(s, q, op, pe, tp, g) /\ KeptEnds(q, r) /\ PastSyn(q, r) /\ Unacked(q, pe)
<1> DEFINE a == m.ack
           p == pe[Ends(r)]
           una == IF a > r.una /\ a <= r.nxt THEN a ELSE r.una
<1>1. r \in SockRows /\ a \in Nat BY DEF RowSound, FromPeer
<1>2. una \in Nat BY <1>1 DEF SockRows
<1>4. /\ q \in SockRows /\ q.used = TRUE /\ q.bound = r.bound /\ q.parent = r.parent
      /\ q.aq = r.aq /\ q.shut_rd = r.shut_rd /\ q.shut_wr = r.shut_wr /\ q.lport = r.lport
      /\ q.remote = r.remote /\ q.una = una /\ q.nxt = r.nxt /\ q.rcv = r.rcv /\ q.rx = r.rx
      /\ q.read = r.read /\ q.told = r.told /\ q.waiter = r.waiter
      /\ q.state = (CASE una = r.nxt /\ r.state = "SYN_RECV" -> "ESTABLISHED"
                      [] una = r.nxt /\ r.state = "FIN_WAIT1" -> "FIN_WAIT2"
                      [] una = r.nxt /\ r.state = "LAST_ACK" -> "CLOSED"
                      [] OTHER -> r.state)
      /\ q.connected = r.connected
  <2> HIDE DEF una
  <2>1. q = (LET r1 == [r EXCEPT !.una = una] IN
                CASE una = r.nxt /\ r.state = "SYN_RECV" -> [r1 EXCEPT !.state = "ESTABLISHED"]
                  [] una = r.nxt /\ r.state = "FIN_WAIT1" -> [r1 EXCEPT !.state = "FIN_WAIT2"]
                  [] una = r.nxt /\ r.state = "LAST_ACK" -> Failed(r1, FALSE)
                  [] OTHER -> r1)
    BY DEF Acked, una
  <2> DEFINE r1 == [r EXCEPT !.una = una]
  <2>2. /\ r1 \in SockRows /\ r1.used = TRUE /\ r1.bound = r.bound /\ r1.parent = r.parent
        /\ r1.aq = r.aq /\ r1.shut_rd = r.shut_rd /\ r1.shut_wr = r.shut_wr /\ r1.lport = r.lport
        /\ r1.remote = r.remote /\ r1.una = una /\ r1.nxt = r.nxt /\ r1.rcv = r.rcv /\ r1.rx = r.rx
        /\ r1.read = r.read /\ r1.told = r.told /\ r1.waiter = r.waiter /\ r1.state = r.state
        /\ r1.connected = r.connected
    BY <1>1, <1>2 DEF SockRows
  <2> HIDE DEF r1
  <2>3. CASE una = r.nxt /\ r.state = "SYN_RECV"
    <3>1. q = [r1 EXCEPT !.state = "ESTABLISHED"] BY <2>1, <2>3 DEF r1
    <3> QED BY <2>2, <2>3, <3>1, SMTT(30) DEF SockRows, States
  <2>4. CASE una = r.nxt /\ r.state = "FIN_WAIT1"
    <3>1. q = [r1 EXCEPT !.state = "FIN_WAIT2"] BY <2>1, <2>4 DEF r1
    <3> QED BY <2>2, <2>4, <3>1, SMTT(30) DEF SockRows, States
  <2>5. CASE una = r.nxt /\ r.state = "LAST_ACK"
    <3>1. q = Failed(r1, FALSE) BY <2>1, <2>5 DEF r1
    <3>2. q = [r1 EXCEPT !.error = FALSE, !.state = "CLOSED", !.connected = r1.connected /\ r1.state # "SYN_SENT"]
      BY <3>1 DEF Failed
    <3>3. (r1.connected /\ r1.state # "SYN_SENT") = r1.connected
      <4>1. r1.connected \in BOOLEAN BY <2>2 DEF SockRows
      <4> QED BY <2>2, <2>5, <4>1
    <3> DEFINE con == r1.connected
               x == [r1 EXCEPT !.error = FALSE, !.state = "CLOSED", !.connected = con]
    <3>4. q = x BY <3>2, <3>3
    <3>5. con \in BOOLEAN /\ con = r.connected BY <2>2 DEF SockRows
    <3> HIDE DEF con
    <3>6. /\ x \in SockRows /\ x.used = TRUE /\ x.bound = r.bound /\ x.parent = r.parent
          /\ x.aq = r.aq /\ x.shut_rd = r.shut_rd /\ x.shut_wr = r.shut_wr /\ x.lport = r.lport
          /\ x.remote = r.remote /\ x.una = una /\ x.nxt = r.nxt /\ x.rcv = r.rcv /\ x.rx = r.rx
          /\ x.read = r.read /\ x.told = r.told /\ x.waiter = r.waiter /\ x.state = "CLOSED"
          /\ x.connected = con
      BY <2>2, <3>5 DEF SockRows, States
    <3> HIDE DEF x
    <3> QED BY <2>5, <3>4, <3>5, <3>6
  <2>6. CASE ~(una = r.nxt /\ r.state \in {"SYN_RECV", "FIN_WAIT1", "LAST_ACK"})
    <3>1. q = r1 BY <2>1, <2>6 DEF r1
    <3> QED BY <2>2, <2>6, <3>1
  <2> QED BY <2>3, <2>4, <2>5, <2>6
<1>5. Ends(q) = Ends(r) BY <1>4 DEF Ends
<1>6. una = r.una \/ (una = a /\ r.una < a /\ a <= r.nxt) OBVIOUS
<1>7. /\ p.rcv \in Nat /\ p.rcv > 0 /\ a \in (p.rcv \div ISS) * ISS + 1 .. p.rcv
  BY DEF FromPeer, PeerRows
<1>8. a <= p.rcv /\ Gen(a) = Gen(p.rcv) BY <1>7, AcksAre
<1>9. CASE r.connected = FALSE
  <2>1. r.state = "CLOSED" BY <1>9 DEF RowSound, Kinds
  <2>2. q.state = "CLOSED" BY <1>4, <2>1
  <2>3. Kinds(s, q, op) BY <1>4, <1>9, <2>1, <2>2 DEF RowSound, Kinds
  <2>4. Hears(q, pe) BY <1>4, <1>9, <2>1, <2>2 DEF RowSound, Hears
  <2> QED BY <1>4, <1>9, <2>2, <2>3, <2>4 DEF RowSound, SentBy, Knows, Settled, Covers, KeptEnds, PastSyn, Unacked
<1>10. CASE r.connected = TRUE
  <2>1. /\ r.nxt \in Nat /\ r.una \in Nat
        /\ r.state = "SYN_RECV" => r.nxt = r.una + 1 /\ Offset(r.nxt) = 1
        /\ Gen(p.rcv) = Gen(r.nxt) => p.rcv <= r.nxt
    BY <1>1, <1>10 DEF RowSound, SockRows, SentBy, Covers
  <2>2. r.state = "SYN_RECV" /\ una # r.nxt => una = r.una /\ Gen(p.rcv) # Gen(r.nxt)
    <3> SUFFICES ASSUME r.state = "SYN_RECV", una # r.nxt PROVE una = r.una /\ Gen(p.rcv) # Gen(r.nxt)
      OBVIOUS
    <3>1. a # r.nxt BY <1>1, <2>1
    <3>2. una = r.una BY <1>1, <1>6, <2>1, <3>1
    <3>3. Gen(p.rcv) # Gen(r.nxt)
      <4> HIDE DEF p, a
      <4> QED BY <1>7, <2>1, <3>1, OnlyAck
    <3> QED BY <3>2, <3>3
  <2>3. r.state = "SYN_RECV" /\ una = r.nxt => a = r.nxt /\ ~Elsewhere(r, p)
    <3> SUFFICES ASSUME r.state = "SYN_RECV", una = r.nxt PROVE a = r.nxt /\ ~Elsewhere(r, p)
      OBVIOUS
    <3>1. a = r.nxt BY <1>6, <2>1
    <3> QED BY <1>8, <3>1 DEF Elsewhere
  <2>4. Elsewhere(q, p) = Elsewhere(r, p) BY <1>4 DEF Elsewhere
  <2>5. q.state = "SYN_RECV" => r.state = "SYN_RECV" /\ una # r.nxt BY <1>4
  <2>6. /\ q.state = "ESTABLISHED" => r.state = "ESTABLISHED" \/ (r.state = "SYN_RECV" /\ una = r.nxt)
        /\ q.state = "FIN_WAIT1" => r.state = "FIN_WAIT1"
        /\ q.state = "FIN_WAIT2" => r.state \in {"FIN_WAIT1", "FIN_WAIT2"}
        /\ q.state = "CLOSED" => r.state \in {"CLOSED", "LAST_ACK"}
        /\ q.state \notin {"LISTEN", "SYN_SENT"}
        /\ r.state = "SYN_RECV" => q.state \in {"SYN_RECV", "ESTABLISHED"}
        /\ r.state = "CLOSED" => q.state = "CLOSED"
    BY <1>4
  <2> HIDE DEF a, p, una
  <2>7. Kinds(s, q, op) BY <1>4, <1>10, <2>5, <2>6 DEF RowSound, Kinds
  <2>8. SentBy(q, g) BY <1>4, <1>10, <2>2, <2>5 DEF RowSound, SentBy
  <2>9. Hears(q, pe)
    <3>1. ~(q.state = "SYN_RECV") \/ Elsewhere(q, p)
      BY <2>2, <2>5, <2>4, <1>7 DEF Elsewhere
    <3>2. Hears(r, pe) BY DEF RowSound
    <3>3. q.shut_rd = FALSE /\ q.rcv # q.read + Len(q.rx) => q.state \notin {"ESTABLISHED", "FIN_WAIT1", "FIN_WAIT2"}
      BY <1>4, <2>3, <2>6, <3>2 DEF Hears, p
    <3> QED BY <1>4, <1>5, <1>10, <2>6, <3>1, <3>2, <3>3 DEF Hears, p
  <2>10. Knows(s, q, op, pe)
    <3>1. Knows(s, r, op, pe) BY DEF RowSound
    <3>2. q.told <= p.rcv BY <1>4, <1>10, <3>1 DEF Knows, p
    <3>3. Settled(s, q, op) => q.una <= p.rcv
      <4> SUFFICES ASSUME Settled(s, q, op) PROVE una <= p.rcv BY <1>4
      <4>1. CASE una = a BY <1>8, <4>1
      <4>2. CASE una # a
        <5>1. una = r.una BY <1>6, <4>2
        <5>2. r.state # "SYN_RECV" BY <2>3, <2>6, <4>2, <2>5, <1>4, <5>1, <2>1 DEF Settled
        <5>3. Settled(s, r, op) BY <5>2, <1>4, <1>10, <2>6 DEF Settled
        <5> QED BY <5>1, <5>3, <3>1 DEF Knows, p
      <4> QED BY <4>1, <4>2
    <3> QED BY <1>5, <3>2, <3>3 DEF Knows, p
  <2>11. Covers(q, pe, tp) BY <1>4, <1>5, <1>10 DEF RowSound, Covers
  <2>12. q.state = "SYN_RECV" => r.state = "SYN_RECV" /\ Elsewhere(q, pe[Ends(q)])
    BY <2>2, <2>5, <2>4, <1>7, <1>5 DEF Elsewhere, p
  <2> QED BY <1>4, <2>6, <2>7, <2>8, <2>9, <2>10, <2>11, <2>12 DEF RowSound, KeptEnds, PastSyn, Unacked
<1> QED
  <2>1. r.connected \in BOOLEAN BY <1>1 DEF SockRows
  <2> QED BY <1>9, <1>10, <2>1

TookSegment(q, r, pe) == q.state = r.state /\ (Unacked(r, pe) => Unacked(q, pe))

LEMMA PushedLocal ==
    ASSUME NEW s, NEW op, NEW pe, NEW tp, NEW g, NEW r, NEW m,
           RowSound(s, r, op, pe, tp, g), r.used = TRUE, r.state # "LISTEN",
           pe[Ends(r)] \in PeerRows, FromPeer(m, pe[Ends(r)]),
           NEW q, q = Pushed(r, m)
    PROVE  RowSound(s, q, op, pe, tp, g) /\ KeptEnds(q, r) /\ TookSegment(q, r, pe)
<1> DEFINE p == pe[Ends(r)]
           takes == m.len > 0 /\ m.seq = r.rcv /\ ~r.shut_rd /\ Len(r.rx) < STREAM_BYTES
<1>1. r \in SockRows /\ m.seq \in Nat /\ m.len \in {0, 1} /\ p.nxt \in Nat BY DEF RowSound, FromPeer, PeerRows
<1>2. CASE ~takes
  <2>1. q = r BY <1>2 DEF Pushed
  <2> QED BY <2>1 DEF KeptEnds, TookSegment
<1>3. CASE takes
  <2> DEFINE rx == Append(r.rx, m.seq)
             n == r.rcv + 1
  <2>1. q = [r EXCEPT !.rx = rx, !.rcv = n] BY <1>3 DEF Pushed
  <2>2. r.rx \in Seq(Nat) /\ r.rcv \in Nat /\ r.read \in Nat /\ rx \in Seq(Nat) /\ n \in Nat
    BY <1>1 DEF SockRows
  <2> HIDE DEF rx, n
  <2>3. /\ q \in SockRows /\ q.used = TRUE /\ q.bound = r.bound /\ q.parent = r.parent
        /\ q.aq = r.aq /\ q.shut_rd = r.shut_rd /\ q.shut_wr = r.shut_wr /\ q.lport = r.lport
        /\ q.remote = r.remote /\ q.una = r.una /\ q.nxt = r.nxt /\ q.rcv = n /\ q.rx = rx
        /\ q.read = r.read /\ q.told = r.told /\ q.waiter = r.waiter /\ q.state = r.state
        /\ q.connected = r.connected
    BY <1>1, <2>1, <2>2 DEF SockRows
  <2>4. r.shut_rd = FALSE /\ m.seq = r.rcv /\ m.seq > 0 /\ m.seq < p.nxt
    <3>1. r.shut_rd \in BOOLEAN BY <1>1 DEF SockRows
    <3>2. ~r.shut_rd BY <1>3
    <3>3. r.shut_rd = FALSE BY <3>1, <3>2
    <3>4. m.seq = r.rcv /\ m.len = 1 BY <1>1, <1>3
    <3> QED BY <1>1, <3>3, <3>4 DEF FromPeer
  <2>5. Hears(r, pe) BY DEF RowSound
  <2>6. r.connected = TRUE /\ r.state # "SYN_SENT"
    <3>1. r.connected = TRUE \/ r.connected = FALSE BY <1>1 DEF SockRows
    <3>2. r.rcv # 0 BY <2>4
    <3> QED BY <3>1, <3>2, <2>5 DEF Hears
  <2>7. r.rcv = r.read + Len(r.rx) BY <1>1, <2>2, <2>4, <2>5 DEF Hears
  <2>8. Ends(q) = Ends(r) BY <2>3 DEF Ends
  <2>9. Kinds(s, q, op) BY <2>3 DEF RowSound, Kinds
  <2>10. SentBy(q, g) BY <2>3 DEF RowSound, SentBy
  <2>11. Hears(q, pe)
    <3> USE DEF n, rx
    <3>1. Len(q.rx) = Len(r.rx) + 1 /\ q.rcv = q.read + Len(q.rx) BY <2>2, <2>3, <2>7
    <3>2. ASSUME NEW i \in 1 .. Len(q.rx) PROVE q.rx[i] = q.read + i - 1
      <4>1. CASE i \in 1 .. Len(r.rx)
        <5>1. q.rx[i] = r.rx[i] BY <2>2, <2>3, <4>1
        <5> QED BY <2>3, <2>4, <2>5, <4>1, <5>1 DEF Hears
      <4>2. CASE i = Len(r.rx) + 1
        <5>1. q.rx[i] = m.seq BY <1>1, <2>2, <2>3, <4>2
        <5> QED BY <2>2, <2>3, <2>4, <2>7, <4>2, <5>1
      <4> QED BY <2>2, <3>1, <4>1, <4>2
    <3> QED BY <2>3, <2>6, <3>1, <3>2 DEF Hears
  <2>12. Knows(s, q, op, pe) BY <2>3, <2>8 DEF RowSound, Knows, Settled
  <2>13. Covers(q, pe, tp) BY <2>3, <2>8 DEF RowSound, Covers
  <2>14. Elsewhere(q, pe[Ends(q)]) = Elsewhere(r, pe[Ends(r)]) BY <2>3, <2>8 DEF Elsewhere
  <2> QED BY <2>3, <2>9, <2>10, <2>11, <2>12, <2>13, <2>14 DEF RowSound, KeptEnds, TookSegment, Unacked
<1> QED BY <1>2, <1>3

LEMMA FinnedLocal ==
    ASSUME NEW s, NEW op, NEW pe, NEW tp, NEW g, NEW r, NEW m,
           RowSound(s, r, op, pe, tp, g), r.used = TRUE, r.state \notin {"LISTEN", "SYN_SENT"},
           pe[Ends(r)] \in PeerRows, FromPeer(m, pe[Ends(r)]), "FIN" \in m.flags,
           Unacked(r, pe),
           NEW q, q = Finned(r, m)
    PROVE  RowSound(s, q, op, pe, tp, g) /\ KeptEnds(q, r) /\ PastSyn(q, r)
<1> DEFINE p == pe[Ends(r)]
           counts == m.seq = r.rcv \/ m.seq + m.len = r.rcv
           r1 == IF counts THEN [r EXCEPT !.rcv = r.rcv + 1] ELSE r
           q1 == IF r.state = "ESTABLISHED" THEN [r1 EXCEPT !.state = "CLOSE_WAIT"] ELSE r1
<1>1. r \in SockRows /\ m.seq \in Nat /\ m.len \in {0, 1} /\ p.nxt \in Nat /\ r.rcv \in Nat /\ r.state \in States
  BY DEF RowSound, FromPeer, PeerRows, SockRows
<1>2. /\ r1 \in SockRows /\ r1.used = TRUE /\ r1.bound = r.bound /\ r1.parent = r.parent
      /\ r1.aq = r.aq /\ r1.shut_rd = r.shut_rd /\ r1.shut_wr = r.shut_wr /\ r1.lport = r.lport
      /\ r1.remote = r.remote /\ r1.una = r.una /\ r1.nxt = r.nxt /\ r1.rx = r.rx
      /\ r1.read = r.read /\ r1.told = r.told /\ r1.waiter = r.waiter /\ r1.state = r.state
      /\ r1.connected = r.connected /\ r1.rcv = (IF counts THEN r.rcv + 1 ELSE r.rcv)
  <2>1. CASE counts
    <3> DEFINE n == r.rcv + 1
    <3>1. r1 = [r EXCEPT !.rcv = n] BY <2>1
    <3>2. n \in Nat BY <1>1
    <3> HIDE DEF r1, counts, n
    <3>3. /\ r1 \in SockRows /\ r1.used = TRUE /\ r1.bound = r.bound /\ r1.parent = r.parent
          /\ r1.aq = r.aq /\ r1.shut_rd = r.shut_rd /\ r1.shut_wr = r.shut_wr /\ r1.lport = r.lport
          /\ r1.remote = r.remote /\ r1.una = r.una /\ r1.nxt = r.nxt /\ r1.rx = r.rx
          /\ r1.read = r.read /\ r1.told = r.told /\ r1.waiter = r.waiter /\ r1.state = r.state
          /\ r1.connected = r.connected /\ r1.rcv = n
      BY <1>1, <3>1, <3>2 DEF SockRows
    <3> QED BY <2>1, <3>3 DEF n
  <2>2. CASE ~counts
    <3>1. r1 = r BY <2>2
    <3> HIDE DEF r1, counts
    <3> QED BY <1>1, <2>2, <3>1
  <2> QED BY <2>1, <2>2
<1>3. counts => p.fin = TRUE /\ p.nxt <= r.rcv + 1 /\ r.rcv > 0 BY <1>1 DEF FromPeer
<1>4. Hears(r, pe) BY DEF RowSound
<1>5. counts => r.connected = TRUE
  <2>1. r.connected = TRUE \/ r.connected = FALSE BY <1>1 DEF SockRows
  <2>2. counts => r.rcv # 0 BY <1>3
  <2> HIDE DEF counts
  <2> QED BY <1>4, <2>1, <2>2 DEF Hears
<1>6. q = CASE r.state = "ESTABLISHED" -> [r1 EXCEPT !.state = "CLOSE_WAIT"]
            [] r.state \in {"FIN_WAIT1", "FIN_WAIT2"} -> Failed(r1, FALSE)
            [] OTHER -> r1
  BY DEF Finned
<1> HIDE DEF r1, counts
(* But for its state.                                                        *)
<1>7. ASSUME NEW x \in SockRows, x.used = TRUE, x.bound = r.bound, x.parent = r.parent, x.aq = r.aq,
             x.shut_rd = r.shut_rd, x.shut_wr = r.shut_wr, x.lport = r.lport, x.remote = r.remote,
             x.una = r.una, x.nxt = r.nxt, x.rx = r.rx, x.read = r.read, x.told = r.told,
             x.waiter = r.waiter, x.connected = r.connected, x.rcv = r1.rcv,
             \/ r.state = "ESTABLISHED" /\ x.state = "CLOSE_WAIT"
             \/ r.state \in {"FIN_WAIT1", "FIN_WAIT2"} /\ x.state = "CLOSED"
             \/ r.state \notin {"ESTABLISHED", "FIN_WAIT1", "FIN_WAIT2"} /\ x.state = r.state
      PROVE  RowSound(s, x, op, pe, tp, g) /\ KeptEnds(x, r) /\ PastSyn(x, r)
  <2>1. Ends(x) = Ends(r) BY <1>7 DEF Ends
  <2>2. Kinds(s, x, op) BY <1>7 DEF RowSound, Kinds
  <2>3. SentBy(x, g) BY <1>7 DEF RowSound, SentBy
  <2>4. Elsewhere(x, p) = Elsewhere(r, p) BY <1>7 DEF Elsewhere
  <2>5. Hears(x, pe)
    <3>1. x.rcv = r.rcv \/ (counts /\ x.rcv = r.rcv + 1) BY <1>2, <1>7
    <3>2. CASE x.rcv = r.rcv
      BY <1>4, <1>7, <2>1, <2>4, <3>2 DEF Hears, Unacked
    <3>3. CASE counts /\ x.rcv = r.rcv + 1
      BY <1>3, <1>4, <1>5, <1>7, <2>1, <2>4, <3>3 DEF Hears, Unacked
    <3> QED BY <3>1, <3>2, <3>3
  <2>6. Knows(s, x, op, pe) BY <1>7, <2>1 DEF RowSound, Knows, Settled
  <2>7. Covers(x, pe, tp) BY <1>7, <2>1 DEF RowSound, Covers
  <2> QED BY <1>7, <2>2, <2>3, <2>5, <2>6, <2>7 DEF RowSound, KeptEnds, PastSyn
<1>8. CASE r.state = "ESTABLISHED"
  <2> DEFINE x == [r1 EXCEPT !.state = "CLOSE_WAIT"]
  <2>1. q = x BY <1>6, <1>8
  <2>2. /\ x \in SockRows /\ x.used = TRUE /\ x.bound = r.bound /\ x.parent = r.parent
        /\ x.aq = r.aq /\ x.shut_rd = r.shut_rd /\ x.shut_wr = r.shut_wr /\ x.lport = r.lport
        /\ x.remote = r.remote /\ x.una = r.una /\ x.nxt = r.nxt /\ x.rx = r.rx
        /\ x.read = r.read /\ x.told = r.told /\ x.waiter = r.waiter /\ x.state = "CLOSE_WAIT"
        /\ x.connected = r.connected /\ x.rcv = r1.rcv
    BY <1>2 DEF SockRows, States
  <2> HIDE DEF x
  <2>3. RowSound(s, x, op, pe, tp, g) /\ KeptEnds(x, r) /\ PastSyn(x, r) BY <1>7, <1>8, <2>2
  <2> QED BY <2>1, <2>3
<1>9. CASE r.state \in {"FIN_WAIT1", "FIN_WAIT2"}
  <2>1. q = Failed(r1, FALSE) BY <1>6, <1>9
  <2>2. (r1.connected /\ r1.state # "SYN_SENT") = r.connected
    <3>1. r1.connected \in BOOLEAN BY <1>2 DEF SockRows
    <3> QED BY <1>2, <1>9, <3>1
  <2> DEFINE con == r.connected
             x == [r1 EXCEPT !.error = FALSE, !.state = "CLOSED", !.connected = con]
  <2>3. q = x BY <2>1, <2>2 DEF Failed
  <2>5. con \in BOOLEAN /\ con = r.connected BY <1>1 DEF SockRows
  <2> HIDE DEF con
  <2>4. /\ x \in SockRows /\ x.used = TRUE /\ x.bound = r.bound /\ x.parent = r.parent
        /\ x.aq = r.aq /\ x.shut_rd = r.shut_rd /\ x.shut_wr = r.shut_wr /\ x.lport = r.lport
        /\ x.remote = r.remote /\ x.una = r.una /\ x.nxt = r.nxt /\ x.rx = r.rx
        /\ x.read = r.read /\ x.told = r.told /\ x.waiter = r.waiter /\ x.state = "CLOSED"
        /\ x.connected = con /\ x.rcv = r1.rcv
    BY <1>2, <2>5 DEF SockRows, States
  <2> HIDE DEF x
  <2>6. RowSound(s, x, op, pe, tp, g) /\ KeptEnds(x, r) /\ PastSyn(x, r) BY <1>7, <1>9, <2>4, <2>5
  <2> QED BY <2>3, <2>6
<1>10. CASE r.state \notin {"ESTABLISHED", "FIN_WAIT1", "FIN_WAIT2"}
  <2>1. q = r1 BY <1>6, <1>10
  <2> QED BY <1>2, <1>7, <1>10, <2>1
<1> QED BY <1>8, <1>9, <1>10

(* What a step on one socket leaves to the others and to the threads.        *)
LikeRow(q, r) ==
    /\ q.used = r.used /\ q.bound = r.bound /\ q.lport = r.lport /\ q.remote = r.remote
    /\ q.parent = r.parent /\ q.aq = r.aq
    /\ r.connected = TRUE /\ r.state # "SYN_SENT" => q.connected = TRUE /\ q.state # "SYN_SENT"
    /\ r.state # "SYN_RECV" => q.state # "SYN_RECV"

LEMMA LikeTwice == \A q, x, r : LikeRow(q, x) /\ LikeRow(x, r) => LikeRow(q, r)
BY DEF LikeRow

LEMMA WaiterLocal ==
    ASSUME NEW s, NEW op, NEW pe, NEW tp, NEW g, NEW r, NEW w \in Threads \cup {NULL},
           RowSound(s, r, op, pe, tp, g), r.used = TRUE
    PROVE  RowSound(s, [r EXCEPT !.waiter = w], op, pe, tp, g) /\ LikeRow([r EXCEPT !.waiter = w], r)
<1> DEFINE q == [r EXCEPT !.waiter = w]
<1>1. /\ q \in SockRows /\ SameRow(q, r) /\ q.parent = r.parent /\ q.aq = r.aq
  BY DEF RowSound, SockRows, SameRow
<1> HIDE DEF q
<1>2. RowSound(s, q, op, pe, tp, g) BY <1>1, SameLocal
<1>3. LikeRow(q, r) BY <1>1 DEF LikeRow, SameRow
<1> QED BY <1>2, <1>3 DEF q

(* The remote end has answered the SYN of r.                                  *)
Synced(r, m) == [r EXCEPT !.rcv = m.seq + 1, !.read = m.seq + 1, !.una = m.ack, !.state = "ESTABLISHED"]

LEMMA SyncedLocal ==
    ASSUME NEW s, NEW op, NEW pe, NEW tp, NEW g, NEW r, NEW m,
           RowSound(s, r, op, pe, tp, g), r.used = TRUE, r.state = "SYN_SENT",
           pe[Ends(r)] \in PeerRows, FromPeer(m, pe[Ends(r)]), "ACK" \in m.flags, m.ack = r.nxt,
           NEW q, q = Synced(r, m)
    PROVE  RowSound(s, q, op, pe, tp, g) /\ LikeRow(q, r)
<1> DEFINE n == m.seq + 1
           a == m.ack
           p == pe[Ends(r)]
<1>1. r \in SockRows /\ n \in Nat /\ a \in Nat BY DEF RowSound, FromPeer
<1>2. p.rcv \in Nat /\ a <= p.rcv
  <2>1. p.rcv \in Nat /\ a \in (p.rcv \div ISS) * ISS + 1 .. p.rcv BY DEF FromPeer, PeerRows
  <2> QED BY <2>1, AcksAre
<1> HIDE DEF n, a
<1>13. q = [r EXCEPT !.rcv = n, !.read = n, !.una = a, !.state = "ESTABLISHED"] BY DEF n, a, Synced
<1>3. /\ q \in SockRows /\ q.used = TRUE /\ q.bound = r.bound /\ q.parent = r.parent
      /\ q.aq = r.aq /\ q.shut_rd = r.shut_rd /\ q.shut_wr = r.shut_wr /\ q.lport = r.lport
      /\ q.remote = r.remote /\ q.una = a /\ q.nxt = r.nxt /\ q.rcv = n /\ q.rx = r.rx
      /\ q.read = n /\ q.told = r.told /\ q.state = "ESTABLISHED"
      /\ q.connected = r.connected
  BY <1>1, <1>13, ZenonT(60) DEF SockRows, States
<1>4. Ends(q) = Ends(r) BY <1>3 DEF Ends
<1>5. r.connected = TRUE
  <2>1. r.connected = TRUE \/ r.connected = FALSE BY <1>1 DEF SockRows
  <2> QED BY <2>1 DEF RowSound, Kinds
<1>6. Kinds(s, q, op) BY <1>3, <1>5 DEF RowSound, Kinds
<1>7. SentBy(q, g) BY <1>3 DEF RowSound, SentBy
<1>8. Hears(q, pe)
  <2>1. q.rx = <<>> BY <1>3 DEF RowSound, Hears
  <2>2. Len(q.rx) = 0 BY <2>1
  <2> QED BY <1>1, <1>3, <1>5, <2>2 DEF Hears
<1>9. Knows(s, q, op, pe) BY <1>2, <1>3, <1>4 DEF RowSound, Knows
<1>10. Covers(q, pe, tp) BY <1>3, <1>4 DEF RowSound, Covers
<1>11. RowSound(s, q, op, pe, tp, g) BY <1>3, <1>6, <1>7, <1>8, <1>9, <1>10 DEF RowSound
<1>12. LikeRow(q, r) BY <1>3, <1>5 DEF LikeRow
<1> QED BY <1>11, <1>12

LEMMA TakeByteLocal ==
    ASSUME NEW s, NEW op, NEW pe, NEW tp, NEW g, NEW r,
           RowSound(s, r, op, pe, tp, g), r.used = TRUE, r.rx # <<>>
    PROVE  LET q == [r EXCEPT !.rx = Tail(r.rx), !.read = r.read + 1]
           IN  RowSound(s, q, op, pe, tp, g) /\ LikeRow(q, r)
<1> DEFINE rx == Tail(r.rx)
           n == r.read + 1
           q == [r EXCEPT !.rx = rx, !.read = n]
<1>1. r \in SockRows /\ rx \in Seq(Nat) /\ n \in Nat /\ r.rx \in Seq(Nat) /\ r.read \in Nat
      /\ r.rcv \in Nat
  BY DEF RowSound, SockRows
<1>2. Len(rx) = Len(r.rx) - 1 /\ \A i \in 1 .. Len(rx) : rx[i] = r.rx[i + 1]
  BY <1>1
<1> HIDE DEF n, rx
<1>3. /\ q \in SockRows /\ q.used = TRUE /\ q.bound = r.bound /\ q.parent = r.parent
      /\ q.aq = r.aq /\ q.shut_rd = r.shut_rd /\ q.shut_wr = r.shut_wr /\ q.lport = r.lport
      /\ q.remote = r.remote /\ q.una = r.una /\ q.nxt = r.nxt /\ q.rcv = r.rcv /\ q.rx = rx
      /\ q.read = n /\ q.told = r.told /\ q.state = r.state
      /\ q.connected = r.connected
  BY <1>1 DEF SockRows
<1> HIDE DEF q
<1>4. Ends(q) = Ends(r) BY <1>3 DEF Ends
<1>5. Hears(r, pe) BY DEF RowSound
<1>6. ~(r.connected = FALSE \/ r.state = "SYN_SENT") BY <1>5 DEF Hears
<1>7. Kinds(s, q, op) BY <1>3 DEF RowSound, Kinds
<1>8. SentBy(q, g) BY <1>3 DEF RowSound, SentBy
<1>9. Hears(q, pe)
  <2>1. q.read + Len(q.rx) = r.read + Len(r.rx)
    <3>1. Len(r.rx) \in Nat BY <1>1
    <3>2. n + (Len(r.rx) - 1) = r.read + Len(r.rx) BY <1>1, <3>1 DEF n
    <3> QED BY <1>2, <1>3, <3>2
  <2>2. ASSUME NEW i \in 1 .. Len(q.rx), q.shut_rd = FALSE PROVE q.rx[i] = q.read + i - 1
    <3>1. i + 1 \in 1 .. Len(r.rx) /\ q.rx[i] = r.rx[i + 1]
      <4>1. q.rx = rx BY <1>3
      <4>2. Len(r.rx) \in Nat /\ i \in 1 .. Len(rx) BY <1>1, <4>1
      <4> QED BY <1>2, <4>1, <4>2
    <3>2. r.rx[i + 1] = r.read + (i + 1) - 1 BY <1>3, <1>5, <2>2, <3>1 DEF Hears
    <3> QED BY <1>1, <1>3, <3>1, <3>2 DEF n
  <2>3. Elsewhere(q, pe[Ends(q)]) = Elsewhere(r, pe[Ends(r)]) BY <1>3, <1>4 DEF Elsewhere
  <2> QED BY <1>3, <1>4, <1>5, <1>6, <2>1, <2>2, <2>3 DEF Hears
<1>10. Knows(s, q, op, pe) BY <1>3, <1>4 DEF RowSound, Knows, Settled
<1>11. Covers(q, pe, tp) BY <1>3, <1>4 DEF RowSound, Covers
<1>12. RowSound(s, q, op, pe, tp, g) BY <1>3, <1>7, <1>8, <1>9, <1>10, <1>11 DEF RowSound
<1>13. LikeRow(q, r) BY <1>3 DEF LikeRow
<1> QED BY <1>12, <1>13 DEF q, n, rx

(* sock_send says that all before want was acknowledged.                      *)
LEMMA ToldLocal ==
    ASSUME NEW s, NEW op, NEW pe, NEW tp, NEW g, NEW r, NEW want \in Nat,
           RowSound(s, r, op, pe, tp, g), r.used = TRUE, Settled(s, r, op), want <= r.una,
           pe[Ends(r)] \in PeerRows
    PROVE  RowSound(s, [r EXCEPT !.told = want], op, pe, tp, g) /\ LikeRow([r EXCEPT !.told = want], r)
<1> DEFINE q == [r EXCEPT !.told = want]
<1>1. r \in SockRows /\ r.una \in Nat /\ pe[Ends(r)].rcv \in Nat BY DEF RowSound, SockRows, PeerRows
<1>3. /\ q \in SockRows /\ q.used = TRUE /\ q.bound = r.bound /\ q.parent = r.parent
      /\ q.aq = r.aq /\ q.shut_rd = r.shut_rd /\ q.shut_wr = r.shut_wr /\ q.lport = r.lport
      /\ q.remote = r.remote /\ q.una = r.una /\ q.nxt = r.nxt /\ q.rcv = r.rcv /\ q.rx = r.rx
      /\ q.read = r.read /\ q.told = want /\ q.state = r.state
      /\ q.connected = r.connected
  BY <1>1 DEF SockRows
<1> HIDE DEF q
<1>4. Ends(q) = Ends(r) BY <1>3 DEF Ends
<1>7. Kinds(s, q, op) BY <1>3 DEF RowSound, Kinds
<1>8. SentBy(q, g) BY <1>3 DEF RowSound, SentBy
<1>9. Hears(q, pe)
  <2>1. Elsewhere(q, pe[Ends(q)]) = Elsewhere(r, pe[Ends(r)]) BY <1>3, <1>4 DEF Elsewhere
  <2> QED BY <1>3, <1>4, <2>1 DEF RowSound, Hears
<1>10. Knows(s, q, op, pe)
  <2>1. r.una <= pe[Ends(r)].rcv BY DEF RowSound, Knows
  <2> QED BY <1>1, <1>3, <1>4, <2>1 DEF Knows
<1>11. Covers(q, pe, tp) BY <1>3, <1>4 DEF RowSound, Covers
<1>12. RowSound(s, q, op, pe, tp, g) BY <1>3, <1>7, <1>8, <1>9, <1>10, <1>11 DEF RowSound
<1>13. LikeRow(q, r) BY <1>3 DEF LikeRow
<1> QED BY <1>12, <1>13 DEF q

(* sock_shutdown, but for the FIN.                                           *)
LEMMA ShutLocal ==
    ASSUME NEW s, NEW op, NEW pe, NEW tp, NEW g, NEW r, NEW q \in SockRows,
           RowSound(s, r, op, pe, tp, g), r.used = TRUE,
           q.used = TRUE, q.bound = r.bound, q.parent = r.parent,
           q.aq = r.aq, q.lport = r.lport, q.remote = r.remote,
           q.una = r.una, q.nxt = r.nxt, q.rcv = r.rcv, q.read = r.read, q.told = r.told,
           q.state = r.state, q.connected = r.connected,
           q.shut_wr = r.shut_wr \/ q.shut_wr = TRUE,
           (q.shut_rd = r.shut_rd /\ q.rx = r.rx) \/ (q.shut_rd = TRUE /\ q.rx = <<>>)
    PROVE  RowSound(s, q, op, pe, tp, g) /\ LikeRow(q, r)
<1>4. Ends(q) = Ends(r) BY DEF Ends
<1>7. Kinds(s, q, op) BY DEF RowSound, Kinds
<1>8. SentBy(q, g) BY DEF RowSound, SentBy
<1>9. Hears(q, pe)
  <2>1. Elsewhere(q, pe[Ends(q)]) = Elsewhere(r, pe[Ends(r)]) BY <1>4 DEF Elsewhere
  <2>2. CASE q.shut_rd = r.shut_rd /\ q.rx = r.rx
    BY <1>4, <2>1, <2>2 DEF RowSound, Hears
  <2>3. CASE q.shut_rd = TRUE /\ q.rx = <<>>
    BY <2>3 DEF RowSound, Hears
  <2> QED BY <2>2, <2>3
<1>10. Knows(s, q, op, pe) BY <1>4 DEF RowSound, Knows, Settled
<1>11. Covers(q, pe, tp) BY <1>4 DEF RowSound, Covers
<1>12. RowSound(s, q, op, pe, tp, g) BY <1>7, <1>8, <1>9, <1>10, <1>11 DEF RowSound
<1>13. LikeRow(q, r) BY DEF LikeRow
<1> QED BY <1>12, <1>13

LEMMA EndIs == ASSUME NEW m \in Segs PROVE EndOfSeg(m) \in Nat
BY DEF Segs, EndOfSeg

(* A byte or a FIN goes out as segment m.                                    *)
LEMMA SentLocal ==
    ASSUME NEW s, NEW op, NEW pe, NEW tp, NEW g \in Nat, NEW r, NEW q \in SockRows, NEW m,
           RowSound(s, r, op, pe, tp, g), r.used = TRUE, r.connected = TRUE, r.shut_wr = FALSE,
           pe[Ends(r)] \in PeerRows, Offset(g) = 0, tp \subseteq Segs,
           q.used = TRUE, q.bound = r.bound, q.parent = r.parent,
           q.aq = r.aq, q.lport = r.lport, q.remote = r.remote,
           q.una = r.una, q.nxt = r.nxt + 1, q.rcv = r.rcv, q.rx = r.rx, q.read = r.read, q.told = r.told,
           q.shut_rd = r.shut_rd, q.connected = TRUE,
           q.shut_wr = TRUE \/ Offset(r.nxt) <= ISS - 3,
           \/ r.state \in {"ESTABLISHED", "CLOSE_WAIT"} /\ q.state = r.state
           \/ r.state = "ESTABLISHED" /\ q.state = "FIN_WAIT1"
           \/ r.state = "CLOSE_WAIT" /\ q.state = "LAST_ACK",
           m.c = Ends(r), m.seq = r.nxt, EndOfSeg(m) = r.nxt + 1
    PROVE  /\ RowSound(s, q, op, pe, tp \cup {m}, g) /\ LikeRow(q, r)
           /\ Gen(m.seq) = Gen(EndOfSeg(m)) /\ EndOfSeg(m) < g + ISS /\ m.seq < EndOfSeg(m)
<1>1. r \in SockRows /\ r.nxt \in Nat /\ pe[Ends(r)].rcv \in Nat BY DEF RowSound, SockRows, PeerRows
<1>2. r.nxt < g + ISS /\ Offset(r.nxt) <= ISS - 2 BY DEF RowSound, SentBy
<1>3. Gen(r.nxt + 1) = Gen(r.nxt) /\ Offset(r.nxt + 1) = Offset(r.nxt) + 1 BY <1>1, <1>2, GenNext
<1>4. r.nxt + 1 < g + ISS
  <2> DEFINE n == r.nxt
  <2>1. n \in Nat /\ n < g + ISS /\ Offset(n) <= ISS - 2 BY <1>1, <1>2
  <2> HIDE DEF n
  <2>2. n + 1 < g + ISS BY <2>1 DEF Offset, ISS
  <2> QED BY <2>2 DEF n
<1>5. Ends(q) = Ends(r) BY DEF Ends
<1>6. Kinds(s, q, op) BY DEF RowSound, Kinds
<1>7. SentBy(q, g)
  <2>1. Offset(r.nxt) \in Nat
    <3> DEFINE n == r.nxt
    <3>1. n \in Nat BY <1>1
    <3> HIDE DEF n
    <3>2. Offset(n) \in Nat BY <3>1 DEF Offset, ISS
    <3> QED BY <3>2 DEF n
  <2>2. q.shut_wr = FALSE => Offset(q.nxt) <= ISS - 2 BY <1>3, <2>1 DEF ISS
  <2> QED BY <1>4, <2>2 DEF SentBy
<1>8. Hears(q, pe) BY <1>5 DEF RowSound, Hears
<1>9. Knows(s, q, op, pe) BY <1>5 DEF RowSound, Knows, Settled
<1>10. Covers(q, pe, tp \cup {m})
  <2>1. Gen(q.nxt) = Gen(r.nxt) BY <1>3
  <2>2. Covers(r, pe, tp) BY DEF RowSound
  <2>3. Gen(pe[Ends(r)].rcv) = Gen(r.nxt) => pe[Ends(r)].rcv <= r.nxt + 1 BY <1>1, <2>2 DEF Covers
  <2>4. ASSUME NEW x \in tp \cup {m}, x.c = Ends(r), Gen(x.seq) = Gen(r.nxt) PROVE EndOfSeg(x) <= r.nxt + 1
    <3>1. CASE x = m BY <1>1, <3>1
    <3>2. CASE x \in tp
      <4>1. EndOfSeg(x) <= r.nxt BY <2>2, <2>4, <3>2 DEF Covers
      <4>2. EndOfSeg(x) <= r.nxt => EndOfSeg(x) <= r.nxt + 1
        BY <1>1, <3>2, EndIs
      <4> QED BY <4>1, <4>2
    <3> QED BY <2>4, <3>1, <3>2
  <2> QED BY <1>5, <2>1, <2>3, <2>4 DEF Covers
<1>11. RowSound(s, q, op, pe, tp \cup {m}, g) BY <1>6, <1>7, <1>8, <1>9, <1>10 DEF RowSound
<1>12. LikeRow(q, r) BY DEF LikeRow
<1> QED BY <1>1, <1>3, <1>4, <1>11, <1>12

(* The invariant, of any values of the variables.                            *)
TcpSound(sk, op, pe, tp, g) ==
    /\ sk \in [Sids -> SockRows] /\ op \subseteq Sids /\ g \in Nat /\ Offset(g) = 0
    /\ \A s \in Sids : RowSound(s, sk[s], op, pe, tp, g)
    /\ Ports(sk) /\ Children(sk, op) /\ Queues(sk, op)
    /\ PeersSound(pe, g) /\ SegsSound(tp, g)

Rests(c) == c.op = "none" => c.at = "loop"
CallsSound(sk, op, cl) ==
    /\ cl \in [Threads -> CallRows] /\ \A t \in Threads : Rests(cl[t])
    /\ \A t \in Threads : cl[t].op # "none" =>
          /\ cl[t].s \in op
          /\ cl[t].op = "send" => Settled(cl[t].s, sk[cl[t].s], op)

TcpInv == TcpSound(socks, open, peer, toPeer, g_tcp_iss) /\ CallsSound(socks, open, call)

LEMMA SyncedBy ==
    ASSUME NEW s, NEW r, NEW op, NEW pe, NEW tp, NEW g, RowSound(s, r, op, pe, tp, g),
           r.used = TRUE \/ r.state = "SYN_SENT", r.state = "SYN_SENT"
    PROVE  s \in op
<1>1. CASE r.used = TRUE BY <1>1 DEF RowSound, Kinds
<1>2. CASE r.used = FALSE
  <2>1. r = Unused /\ Unused.state = "CLOSED" BY <1>2 DEF RowSound, Unused, Fresh
  <2> QED BY <2>1
<1>3. r.used \in BOOLEAN BY DEF RowSound, SockRows
<1> QED BY <1>1, <1>2, <1>3

LEMMA LikeSound ==
    ASSUME NEW sk, NEW nk \in [Sids -> SockRows], NEW op, NEW pe, NEW tp, NEW g,
           TcpSound(sk, op, pe, tp, g),
           \A u \in Sids : RowSound(u, nk[u], op, pe, tp, g) /\ LikeRow(nk[u], sk[u])
    PROVE  /\ TcpSound(nk, op, pe, tp, g)
           /\ \A cl : CallsSound(sk, op, cl) => CallsSound(nk, op, cl)
<1>1. Ports(nk) BY DEF TcpSound, Ports, LikeRow
<1>2. Children(nk, op)
  <2> SUFFICES ASSUME NEW s \in Sids, nk[s].parent # NULL
               PROVE  nk[s].parent \in op /\ nk[nk[s].parent].used = TRUE
    BY DEF Children
  <2>1. nk[s].parent = sk[s].parent BY DEF LikeRow
  <2>2. sk[s].parent \in op /\ sk[sk[s].parent].used = TRUE BY <2>1 DEF TcpSound, Children
  <2> QED BY <2>1, <2>2 DEF TcpSound, LikeRow
<1>3. Queues(nk, op)
  <2>0. Queues(sk, op) /\ sk \in [Sids -> SockRows] BY DEF TcpSound
  <2>1. \A u \in Sids : nk[u].aq = sk[u].aq BY DEF LikeRow
  <2>2. ASSUME NEW s \in Sids, NEW i \in 1 .. Len(sk[s].aq)
        PROVE  LET child == sk[s].aq[i] IN
               /\ nk[child].used = TRUE /\ nk[child].connected = TRUE /\ nk[child].parent = NULL
               /\ child \notin op
    <3> DEFINE child == sk[s].aq[i]
    <3>1. child \in Sids
      <4>1. sk[s].aq \in Seq(Sids) BY <2>0 DEF SockRows
      <4> QED BY <4>1
    <3>2. /\ sk[child].used = TRUE /\ sk[child].connected = TRUE /\ sk[child].parent = NULL
          /\ child \notin op
      BY <2>0 DEF Queues
    <3> HIDE DEF child
    <3>3. sk[child].state # "SYN_SENT" BY <3>1, <3>2, SyncedBy DEF TcpSound
    <3>4. LikeRow(nk[child], sk[child]) BY <3>1
    <3>5. /\ nk[child].used = TRUE /\ nk[child].connected = TRUE /\ nk[child].parent = NULL
      BY <3>2, <3>3, <3>4 DEF LikeRow
    <3> QED BY <3>2, <3>5 DEF child
  <2>3. ASSUME NEW s \in Sids, NEW i \in 1 .. Len(nk[s].aq), NEW u \in Sids, NEW j \in 1 .. Len(nk[u].aq),
               nk[u].aq[j] = nk[s].aq[i]
        PROVE  u = s /\ j = i
    BY <2>0, <2>1, <2>3 DEF Queues
  <2>4. ASSUME NEW s \in Sids, NEW i \in 1 .. Len(nk[s].aq)
        PROVE  LET child == nk[s].aq[i] IN
               /\ nk[child].used = TRUE /\ nk[child].connected = TRUE /\ nk[child].parent = NULL
               /\ child \notin op
    BY <2>1, <2>2
  <2> QED BY <2>3, <2>4 DEF Queues
<1>4. ASSUME NEW cl, CallsSound(sk, op, cl) PROVE CallsSound(nk, op, cl)
  <2> SUFFICES ASSUME NEW t \in Threads, cl[t].op = "send" PROVE Settled(cl[t].s, nk[cl[t].s], op)
    BY <1>4 DEF CallsSound
  <2> DEFINE s == cl[t].s
  <2>1. s \in op /\ Settled(s, sk[s], op) /\ s \in Sids BY <1>4 DEF CallsSound, TcpSound
  <2> HIDE DEF s
  <2>2. LikeRow(nk[s], sk[s]) BY <2>1
  <2>3. Settled(s, nk[s], op) BY <2>1, <2>2 DEF Settled, LikeRow
  <2> QED BY <2>3 DEF s
<1> QED BY <1>1, <1>2, <1>3, <1>4 DEF TcpSound

LEMMA OneLike ==
    ASSUME NEW sk, NEW op, NEW pe, NEW tp, NEW g, NEW s \in Sids, NEW q,
           TcpSound(sk, op, pe, tp, g), RowSound(s, q, op, pe, tp, g), LikeRow(q, sk[s])
    PROVE  /\ TcpSound([sk EXCEPT ![s] = q], op, pe, tp, g)
           /\ \A cl : CallsSound(sk, op, cl) => CallsSound([sk EXCEPT ![s] = q], op, cl)
<1> DEFINE nk == [sk EXCEPT ![s] = q]
<1>1. sk \in [Sids -> SockRows] /\ q \in SockRows BY DEF TcpSound, RowSound
<1>2. nk \in [Sids -> SockRows] /\ nk[s] = q /\ \A u \in Sids \ {s} : nk[u] = sk[u] BY <1>1
<1> HIDE DEF nk
<1>3. \A u \in Sids : LikeRow(sk[u], sk[u]) BY DEF LikeRow
<1>4. \A u \in Sids : RowSound(u, nk[u], op, pe, tp, g) /\ LikeRow(nk[u], sk[u])
  BY <1>2, <1>3 DEF TcpSound
<1>5. TcpSound(nk, op, pe, tp, g) /\ \A cl : CallsSound(sk, op, cl) => CallsSound(nk, op, cl)
  BY <1>2, <1>4, LikeSound
<1> QED BY <1>5 DEF nk

(* A thread that calls goes on with its call, returns from it, or begins one. *)
LEMMA CallsStep ==
    ASSUME NEW sk, NEW op, NEW cl, NEW nc \in [Threads -> CallRows], CallsSound(sk, op, cl),
           \A t \in Threads : Rests(nc[t]),
           \A t \in Threads :
              \/ nc[t].op = "none"
              \/ nc[t].op = cl[t].op /\ nc[t].s = cl[t].s
              \/ nc[t].s \in op /\ (nc[t].op = "send" => Settled(nc[t].s, sk[nc[t].s], op))
    PROVE  CallsSound(sk, op, nc)
BY DEF CallsSound

LEMMA WakeSound ==
    ASSUME NEW sk, NEW op, NEW pe, NEW tp, NEW g, NEW S \in SUBSET Sids,
           TcpSound(sk, op, pe, tp, g), CallsSound(sk, op, call),
           \A s \in S : sk[s].used = TRUE,
           WakeWaiters(S, sk)
    PROVE  TcpSound(socks', op, pe, tp, g) /\ CallsSound(socks', op, call')
<1>1. /\ socks' = [s \in Sids |-> IF s \in S THEN [sk[s] EXCEPT !.waiter = NULL] ELSE sk[s]]
      /\ \E W : call' = [t \in Threads |-> IF t \in W /\ call[t].at = "sleep"
                                      THEN [call[t] EXCEPT !.at = "loop"] ELSE call[t]]
  BY DEF WakeWaiters
<1>2. sk \in [Sids -> SockRows] BY DEF TcpSound
<1>3. ASSUME NEW u \in Sids
      PROVE  /\ socks'[u] \in SockRows /\ RowSound(u, socks'[u], op, pe, tp, g)
             /\ LikeRow(socks'[u], sk[u])
  <2>1. RowSound(u, sk[u], op, pe, tp, g) BY DEF TcpSound
  <2>2. CASE u \in S
    <3>1. socks'[u] = [sk[u] EXCEPT !.waiter = NULL] BY <1>1, <2>2
    <3> DEFINE r == sk[u]
    <3>0. RowSound(u, r, op, pe, tp, g) /\ r.used = TRUE /\ NULL \in Threads \cup {NULL} BY <2>1, <2>2
    <3> HIDE DEF r
    <3>3. RowSound(u, [r EXCEPT !.waiter = NULL], op, pe, tp, g) /\ LikeRow([r EXCEPT !.waiter = NULL], r)
      BY <3>0, WaiterLocal
    <3>2. RowSound(u, socks'[u], op, pe, tp, g) /\ LikeRow(socks'[u], sk[u]) BY <3>1, <3>3 DEF r
    <3> QED BY <3>2 DEF RowSound
  <2>3. CASE u \notin S
    <3>1. socks'[u] = sk[u] BY <1>1, <2>3
    <3> QED BY <1>2, <2>1, <3>1 DEF LikeRow
  <2> QED BY <2>2, <2>3
<1>4. socks' \in [Sids -> SockRows]
  <2>1. socks' = [s \in Sids |-> socks'[s]] BY <1>1
  <2> QED BY <1>3, <2>1
<1>5. TcpSound(socks', op, pe, tp, g) /\ CallsSound(socks', op, call) BY <1>3, <1>4, LikeSound
<1>6. call \in [Threads -> CallRows] BY DEF CallsSound
<1>7. PICK W : call' = [t \in Threads |-> IF t \in W /\ call[t].at = "sleep"
                                      THEN [call[t] EXCEPT !.at = "loop"] ELSE call[t]]
  BY <1>1
<1>8. ASSUME NEW t \in Threads
      PROVE  /\ call'[t] \in CallRows /\ call'[t].op = call[t].op /\ call'[t].s = call[t].s
             /\ Rests(call'[t])
  <2>1. call'[t] = [call[t] EXCEPT !.at = "loop"] \/ call'[t] = call[t] BY <1>7
  <2>2. Rests(call[t]) BY DEF CallsSound
  <2> QED BY <1>6, <2>1, <2>2 DEF CallRows, Rests
<1>9. call' \in [Threads -> CallRows]
  <2>1. call' = [t \in Threads |-> call'[t]] BY <1>7
  <2> QED BY <1>8, <2>1
<1> QED BY <1>5, <1>8, <1>9, CallsStep

(* What is sent on other connections, and later.                             *)
IsOf(x, r) == r.used = TRUE /\ r.connected = TRUE /\ x.c = Ends(r)

LEMMA OtherLocal ==
    ASSUME NEW s, NEW op, NEW pe, NEW tp, NEW more, NEW g \in Nat, NEW h \in Nat, NEW r,
           RowSound(s, r, op, pe, tp, g), g <= h,
           \A x \in more : x \in tp \/ ~IsOf(x, r)
    PROVE  RowSound(s, r, op, pe, more, h)
<1>1. r \in SockRows /\ r.nxt \in Nat BY DEF RowSound, SockRows
<1>2. CASE r.used = FALSE BY <1>2 DEF RowSound
<1>3. CASE r.used = TRUE
  <2>1. SentBy(r, h)
    <3>1. r.nxt < g + ISS => r.nxt < h + ISS BY <1>1 DEF ISS
    <3> QED BY <1>3, <3>1 DEF RowSound, SentBy
  <2>2. Covers(r, pe, more) BY <1>3 DEF RowSound, Covers, IsOf
  <2> QED BY <1>3, <2>1, <2>2 DEF RowSound
<1> QED BY <1>1, <1>2, <1>3 DEF SockRows

LEMMA LaterSound ==
    ASSUME NEW pe, NEW tp, NEW g \in Nat, NEW h \in Nat, g <= h,
           PeersSound(pe, g), SegsSound(tp, g)
    PROVE  PeersSound(pe, h) /\ SegsSound(tp, h)
<1>1. \A x \in Nat : x < g + ISS => x < h + ISS BY DEF ISS
<1>2. PeersSound(pe, h) BY <1>1 DEF PeersSound, PeerRows
<1>3. \A m \in tp : EndOfSeg(m) \in Nat BY EndIs DEF SegsSound
<1>4. SegsSound(tp, h) BY <1>1, <1>3 DEF SegsSound
<1> QED BY <1>2, <1>4

(* A socket that opens a connection with segment m, of a new generation.      *)
Opens(q, h) == /\ q.used = TRUE /\ q.connected = TRUE /\ q.state \in {"SYN_SENT", "SYN_RECV"}
               /\ (q.state = "SYN_RECV" => q.una = h) /\ q.told = 0

LEMMA NewLocal ==
    ASSUME NEW s, NEW op, NEW pe, NEW tp, NEW g \in Nat, NEW q \in SockRows, NEW m,
           PeersSound(pe, g), SegsSound(tp, g), Offset(g) = 0,
           Opens(q, g + ISS), q.nxt = g + ISS + 1,
           Kinds(s, q, op), Hears(q, pe),
           m \in Segs, m.c = Ends(q), m.seq = g + ISS, EndOfSeg(m) = g + ISS + 1
    PROVE  RowSound(s, q, op, pe, tp \cup {m}, g + ISS) /\ SegsSound(tp \cup {m}, g + ISS)
<1> DEFINE h == g + ISS
           n == h + 1
<1>1. h \in Nat /\ g <= h /\ n \in Nat /\ n < h + ISS /\ n = h + 1 /\ h < n BY DEF ISS
<1>2. /\ Offset(h) = 0 /\ Gen(n) = Gen(h) /\ Offset(n) = 1
      /\ \A x \in Nat : x < h => Gen(x) # Gen(h)
  BY GenNew
<1>13. /\ q.used = TRUE /\ q.connected = TRUE /\ q.state \in {"SYN_SENT", "SYN_RECV"}
       /\ (q.state = "SYN_RECV" => q.una = h) /\ q.told = 0
  BY DEF Opens
<1>3. Ends(q) \in Conns BY <1>13, EndsIn
<1>4. pe[Ends(q)].rcv \in Nat /\ pe[Ends(q)].rcv < h BY <1>3 DEF PeersSound, PeerRows
<1>5. \A x \in tp : EndOfSeg(x) \in Nat /\ EndOfSeg(x) < h /\ Gen(x.seq) = Gen(EndOfSeg(x))
  BY EndIs DEF SegsSound
<1>6. q.nxt = n /\ m.seq = h /\ EndOfSeg(m) = n /\ (q.state = "SYN_RECV" => q.una = h) BY <1>13
<1> HIDE DEF h, n
<1>7. SentBy(q, h)
  <2>1. Offset(n) <= ISS - 2 BY <1>2 DEF ISS
  <2> QED BY <1>1, <1>2, <1>6, <1>13, <2>1 DEF SentBy
<1>8. Knows(s, q, op, pe)
  <2>1. 0 <= pe[Ends(q)].rcv BY <1>4
  <2> QED BY <1>13, <2>1 DEF Knows, Settled
<1>9. Covers(q, pe, tp \cup {m})
  <2>1. Gen(pe[Ends(q)].rcv) # Gen(q.nxt) BY <1>2, <1>4, <1>6
  <2>2. \A x \in tp : Gen(x.seq) # Gen(q.nxt) BY <1>2, <1>5, <1>6
  <2>3. EndOfSeg(m) <= q.nxt BY <1>1, <1>6
  <2> QED BY <2>1, <2>2, <2>3 DEF Covers
<1>10. RowSound(s, q, op, pe, tp \cup {m}, h) BY <1>7, <1>8, <1>9, <1>13 DEF RowSound
<1>11. SegsSound(tp, h) BY <1>1, LaterSound
<1>12. SegsSound(tp \cup {m}, h) BY <1>1, <1>2, <1>6, <1>11 DEF SegsSound
<1> QED BY <1>10, <1>12 DEF h

(* What the network delivers.                                                *)
LEMMA SentIs ==
    ASSUME NEW g, PeersSound(peer, g), NEW c \in Conns, NEW m \in Sent(c)
    PROVE  /\ m.c = c /\ FromPeer(m, peer[c]) /\ peer[c] \in PeerRows
           /\ m.flags = {"SYN"} => c[2] \in Clients /\ peer[c].st # "closed" /\ m.len = 0
<1> DEFINE p == peer[c]
           acks == IF p.rcv = 0 THEN {} ELSE (p.rcv \div ISS) * ISS + 1 .. p.rcv
           end == IF p.fin THEN {<<{"ACK", "FIN"}, p.nxt, 0>>, <<{"ACK", "FIN"}, p.nxt - 1, 1>>} ELSE {}
           body == {<<{"ACK"}, i, 1>> : i \in 1 .. p.nxt - 1} \cup {<<{"ACK"}, p.nxt, 0>>} \cup end
<1>1. p \in PeerRows /\ p.rcv \in Nat /\ p.nxt \in Nat /\ p.fin \in BOOLEAN
  <2>1. p \in PeerRows BY DEF PeersSound
  <2> QED BY <2>1 DEF PeerRows
<1>2. \/ \E b \in body, a \in acks : b[2] > 0 /\ m = Seg(c, b[1], b[2], a, b[3])
      \/ p.st # "closed" /\ c[2] \in Clients /\ m = Seg(c, {"SYN"}, 0, 0, 0)
      \/ \E a \in acks : m = Seg(c, {"SYN", "ACK"}, 0, a, 0)
      \/ m = Seg(c, {"RST"}, 0, 0, 0)
  BY DEF Sent
<1>3. \A a \in acks : a \in Nat /\ p.rcv > 0 /\ a \in (p.rcv \div ISS) * ISS + 1 .. p.rcv
  <2> SUFFICES ASSUME NEW a \in acks
               PROVE  a \in Nat /\ p.rcv > 0 /\ a \in (p.rcv \div ISS) * ISS + 1 .. p.rcv
    OBVIOUS
  <2>1. p.rcv # 0 /\ a \in (p.rcv \div ISS) * ISS + 1 .. p.rcv OBVIOUS
  <2> DEFINE x == p.rcv
  <2>2. x \in Nat /\ a \in (x \div ISS) * ISS + 1 .. x BY <1>1, <2>1
  <2> HIDE DEF x
  <2>3. a \in Nat BY <2>2, AcksAre
  <2> QED BY <1>1, <2>1, <2>3
<1> HIDE DEF acks
<1>4. CASE \E b \in body, a \in acks : b[2] > 0 /\ m = Seg(c, b[1], b[2], a, b[3])
  <2>1. PICK b \in body, a \in acks : b[2] > 0 /\ m = Seg(c, b[1], b[2], a, b[3]) BY <1>4
  <2>2. m.c = c /\ m.flags = b[1] /\ m.seq = b[2] /\ m.ack = a /\ m.len = b[3] BY <2>1 DEF Seg
  <2>3. \/ \E i \in 1 .. p.nxt - 1 : b = <<{"ACK"}, i, 1>>
        \/ b = <<{"ACK"}, p.nxt, 0>>
        \/ p.fin = TRUE /\ (b = <<{"ACK", "FIN"}, p.nxt, 0>> \/ b = <<{"ACK", "FIN"}, p.nxt - 1, 1>>)
    BY <1>1
  <2> HIDE DEF body, p
  <2>4. \/ m.flags = {"ACK"} /\ m.len = 1 /\ m.seq \in 1 .. p.nxt - 1
        \/ m.flags = {"ACK"} /\ m.len = 0 /\ m.seq = p.nxt
        \/ p.fin = TRUE /\ m.flags = {"ACK", "FIN"} /\ m.seq = p.nxt /\ m.len = 0
        \/ p.fin = TRUE /\ m.flags = {"ACK", "FIN"} /\ m.seq = p.nxt - 1 /\ m.len = 1
    BY <2>2, <2>3
  <2>5. m.seq > 0 BY <2>1, <2>2
  <2>6. m.c = c /\ m.ack \in Nat /\ p.rcv > 0 /\ m.ack \in (p.rcv \div ISS) * ISS + 1 .. p.rcv BY <1>3, <2>1, <2>2
  <2>7. m.flags # {"SYN"} /\ "SYN" \notin m.flags BY <2>4
  <2>8. m.seq \in Nat /\ m.len \in {0, 1} BY <1>1, <2>4, <2>5
  <2>9. m.len = 1 => m.seq < p.nxt BY <1>1, <2>4
  <2>10. "FIN" \in m.flags => "ACK" \in m.flags /\ p.fin = TRUE /\ m.seq + m.len = p.nxt BY <1>1, <2>4
  <2>11. FromPeer(m, p) BY <2>5, <2>6, <2>7, <2>8, <2>9, <2>10 DEF FromPeer
  <2> QED BY <1>1, <2>6, <2>7, <2>11 DEF p
<1>5. CASE p.st # "closed" /\ c[2] \in Clients /\ m = Seg(c, {"SYN"}, 0, 0, 0)
  <2>1. m.c = c /\ m.flags = {"SYN"} /\ m.seq = 0 /\ m.ack = 0 /\ m.len = 0 BY <1>5 DEF Seg
  <2> QED BY <1>1, <1>5, <2>1 DEF FromPeer
<1>6. CASE \E a \in acks : m = Seg(c, {"SYN", "ACK"}, 0, a, 0)
  <2>1. PICK a \in acks : m = Seg(c, {"SYN", "ACK"}, 0, a, 0) BY <1>6
  <2>2. m.c = c /\ m.flags = {"SYN", "ACK"} /\ m.seq = 0 /\ m.ack = a /\ m.len = 0 BY <2>1 DEF Seg
  <2>3. m.flags # {"SYN"} /\ "FIN" \notin m.flags BY <2>2
  <2> QED BY <1>1, <1>3, <2>2, <2>3 DEF FromPeer
<1>7. CASE m = Seg(c, {"RST"}, 0, 0, 0)
  <2>1. m.c = c /\ m.flags = {"RST"} /\ m.seq = 0 /\ m.ack = 0 /\ m.len = 0 BY <1>7 DEF Seg
  <2> QED BY <1>1, <2>1 DEF FromPeer
<1> QED BY <1>2, <1>4, <1>5, <1>6, <1>7

LEMMA PeerLocal ==
    ASSUME NEW s, NEW op, NEW pe, NEW p2, NEW tp, NEW g, NEW r, RowSound(s, r, op, pe, tp, g),
           \A c \in Conns :
              /\ pe[c] \in PeerRows /\ p2[c] \in PeerRows
              /\ pe[c].rcv <= p2[c].rcv
              /\ pe[c].fin = TRUE => /\ p2[c].fin = TRUE /\ p2[c].nxt = pe[c].nxt
                                     /\ pe[c].rcv > 0 => Gen(p2[c].rcv) = Gen(pe[c].rcv)
              /\ \/ p2[c].rcv = pe[c].rcv
                 \/ \E m \in tp : m.c = c /\ p2[c].rcv = EndOfSeg(m) /\ Gen(m.seq) = Gen(EndOfSeg(m))
    PROVE  RowSound(s, r, op, p2, tp, g)
<1>0. r \in SockRows /\ r.connected \in BOOLEAN /\ r.used \in BOOLEAN /\ r.una \in Nat /\ r.told \in Nat
  BY DEF RowSound, SockRows
<1>1. CASE r.used = FALSE BY <1>1 DEF RowSound
<1>2. CASE r.used = TRUE /\ r.connected = FALSE
  <2>1. Hears(r, p2)
    <3>1. r.rcv = 0 /\ r.read = 0 /\ r.rx = <<>> BY <1>2 DEF RowSound, Hears
    <3>2. Len(r.rx) = 0 BY <3>1
    <3> QED BY <3>1, <3>2 DEF Hears
  <2> QED BY <1>2, <2>1 DEF RowSound, Knows, Settled, Covers
<1>3. CASE r.used = TRUE /\ r.connected = TRUE
  <2> DEFINE c == Ends(r)
  <2>1. c \in Conns BY <1>0, <1>3, EndsIn DEF RowSound
  <2> HIDE DEF c
  <2>2. /\ pe[c] \in PeerRows /\ p2[c] \in PeerRows
        /\ pe[c].rcv <= p2[c].rcv
        /\ pe[c].fin = TRUE => /\ p2[c].fin = TRUE /\ p2[c].nxt = pe[c].nxt
                               /\ pe[c].rcv > 0 => Gen(p2[c].rcv) = Gen(pe[c].rcv)
        /\ \/ p2[c].rcv = pe[c].rcv
           \/ \E m \in tp : m.c = c /\ p2[c].rcv = EndOfSeg(m) /\ Gen(m.seq) = Gen(EndOfSeg(m))
    BY <2>1
  <2>3. pe[c].rcv \in Nat /\ p2[c].rcv \in Nat BY <2>2 DEF PeerRows
  <2>4. Hears(r, p2)
    <3>1. Hears(r, pe) BY <1>3 DEF RowSound
    <3>2. pe[c].fin = TRUE /\ Elsewhere(r, pe[c]) => Elsewhere(r, p2[c]) BY <2>2, <2>3 DEF Elsewhere
    <3> QED BY <2>2, <3>1, <3>2 DEF Hears, c
  <2>5. Knows(s, r, op, p2)
    <3>1. Knows(s, r, op, pe) BY <1>3 DEF RowSound
    <3> QED BY <1>0, <2>2, <2>3, <3>1 DEF Knows, c
  <2>6. Covers(r, p2, tp)
    <3>1. Covers(r, pe, tp) BY <1>3 DEF RowSound
    <3> QED BY <1>3, <2>2, <3>1 DEF Covers, c
  <2> QED BY <1>3, <2>4, <2>5, <2>6 DEF RowSound
<1> QED BY <1>0, <1>1, <1>2, <1>3

LEMMA PeersSoundly ==
    ASSUME NEW sk, NEW op, NEW pe, NEW tp, NEW g, NEW c \in Conns, NEW p \in PeerRows,
           TcpSound(sk, op, pe, tp, g),
           pe[c].rcv <= p.rcv,
           pe[c].fin = TRUE => /\ p.fin = TRUE /\ p.nxt = pe[c].nxt
                               /\ pe[c].rcv > 0 => Gen(p.rcv) = Gen(pe[c].rcv),
           \/ p.rcv = pe[c].rcv
           \/ \E m \in tp : m.c = c /\ p.rcv = EndOfSeg(m),
           p.st \in {"closed", "syn_sent"} <=> p.rcv = 0, p.rcv = 0 => p.fin = FALSE,
           p.st # "closed" /\ c[2] \in Clients => c[1] = Port
    PROVE  TcpSound(sk, op, [pe EXCEPT ![c] = p], tp, g)
<1> DEFINE p2 == [pe EXCEPT ![c] = p]
<1>1. pe \in [Conns -> PeerRows] BY DEF TcpSound, PeersSound
<1>2. p2 \in [Conns -> PeerRows] /\ p2[c] = p /\ \A d \in Conns \ {c} : p2[d] = pe[d] BY <1>1
<1>3. \A m \in tp : EndOfSeg(m) < g + ISS /\ Gen(m.seq) = Gen(EndOfSeg(m)) BY DEF TcpSound, SegsSound
<1> HIDE DEF p2
<1>4. \A d \in Conns : pe[d].rcv \in Nat BY <1>1 DEF PeerRows
<1>5. ASSUME NEW d \in Conns
      PROVE  /\ pe[d] \in PeerRows /\ p2[d] \in PeerRows
             /\ pe[d].rcv <= p2[d].rcv
             /\ pe[d].fin = TRUE => /\ p2[d].fin = TRUE /\ p2[d].nxt = pe[d].nxt
                                    /\ pe[d].rcv > 0 => Gen(p2[d].rcv) = Gen(pe[d].rcv)
             /\ \/ p2[d].rcv = pe[d].rcv
                \/ \E m \in tp : m.c = d /\ p2[d].rcv = EndOfSeg(m) /\ Gen(m.seq) = Gen(EndOfSeg(m))
  <2>1. CASE d = c BY <1>1, <1>2, <1>3, <2>1
  <2>2. CASE d # c
    <3>1. p2[d] = pe[d] BY <1>2, <2>2
    <3> QED BY <1>1, <1>4, <3>1
  <2> QED BY <2>1, <2>2
<1>6. ASSUME NEW s \in Sids PROVE RowSound(s, sk[s], op, p2, tp, g)
  <2> DEFINE r == sk[s]
  <2>1. RowSound(s, r, op, pe, tp, g) BY DEF TcpSound
  <2> HIDE DEF r
  <2>2. RowSound(s, r, op, p2, tp, g) BY <1>5, <2>1, PeerLocal
  <2> QED BY <2>2 DEF r
<1>7. PeersSound(p2, g)
  <2>1. PeersSound(pe, g) BY DEF TcpSound
  <2> QED BY <1>2, <1>3, <2>1 DEF PeersSound
<1> QED BY <1>6, <1>7 DEF TcpSound, p2

LEMMA PeerRow == ASSUME TcpInv, NEW c \in Conns
                 PROVE  /\ peer \in [Conns -> PeerRows] /\ peer[c] \in PeerRows
                        /\ peer[c].st \in {"closed", "syn_sent"} <=> peer[c].rcv = 0
                        /\ peer[c].rcv = 0 => peer[c].fin = FALSE
                        /\ peer[c].st # "closed" /\ c[2] \in Clients => c[1] = Port
BY DEF TcpInv, TcpSound, PeersSound

(* One remote end has changed.                                               *)
LEMMA PeerMoves ==
    ASSUME TcpInv, NEW c \in Conns, NEW p \in PeerRows, peer' = [peer EXCEPT ![c] = p],
           UNCHANGED <<kernelVars, toPeer>>,
           peer[c].rcv <= p.rcv,
           peer[c].fin = TRUE => /\ p.fin = TRUE /\ p.nxt = peer[c].nxt
                                 /\ peer[c].rcv > 0 => Gen(p.rcv) = Gen(peer[c].rcv),
           \/ p.rcv = peer[c].rcv
           \/ \E m \in toPeer : m.c = c /\ p.rcv = EndOfSeg(m),
           p.st \in {"closed", "syn_sent"} <=> p.rcv = 0, p.rcv = 0 => p.fin = FALSE,
           p.st # "closed" /\ c[2] \in Clients => c[1] = Port
    PROVE  TcpInv'
<1>1. TcpSound(socks, open, [peer EXCEPT ![c] = p], toPeer, g_tcp_iss) BY PeersSoundly DEF TcpInv
<1>2. CallsSound(socks, open, call) BY DEF TcpInv
<1>3. UNCHANGED <<socks, open, call, g_tcp_iss, toPeer>> BY DEF kernelVars
<1> QED BY <1>1, <1>2, <1>3 DEF TcpInv

LEMMA PeerStepKeeps == ASSUME TcpInv, NEW c \in Conns, PeerStep(c) PROVE TcpInv'
<1> DEFINE p == peer[c]
<1>1. /\ peer \in [Conns -> PeerRows] /\ p \in PeerRows
      /\ p.st \in {"closed", "syn_sent"} <=> p.rcv = 0
      /\ p.rcv = 0 => p.fin = FALSE
      /\ p.st # "closed" /\ c[2] \in Clients => c[1] = Port
  BY PeerRow
<1>2. p.rcv \in Nat /\ p.nxt \in Nat /\ p.fin \in BOOLEAN /\ UNCHANGED <<kernelVars, toPeer>>
  BY <1>1 DEF PeerStep, PeerRows
<1>3. CASE /\ c[1] = Port /\ c[2] \in Clients /\ peer[c].st = "closed"
           /\ peer' = [peer EXCEPT ![c].st = "syn_sent", ![c].nxt = 1]
  <2> DEFINE q == [p EXCEPT !.st = "syn_sent", !.nxt = 1]
  <2>1. peer' = [peer EXCEPT ![c] = q] BY <1>1, <1>3
  <2> HIDE DEF p
  <2>2. q \in PeerRows /\ q.st = "syn_sent" /\ q.rcv = p.rcv /\ q.fin = p.fin BY <1>1 DEF PeerRows
  <2> HIDE DEF q
  <2>3. p.rcv = 0 /\ p.fin = FALSE BY <1>1, <1>3 DEF p
  <2>4. p.rcv <= q.rcv BY <1>2, <2>2
  <2>5. (q.st \in {"closed", "syn_sent"} <=> q.rcv = 0) /\ (q.rcv = 0 => q.fin = FALSE) BY <2>2, <2>3
  <2>6. peer[c].fin # TRUE BY <2>3 DEF p
  <2>7. c[1] = Port /\ q.rcv = peer[c].rcv BY <1>3, <2>2 DEF p
  <2> QED BY <1>2, <2>1, <2>2, <2>4, <2>5, <2>6, <2>7, PeerMoves DEF p
<1>4. CASE /\ peer[c].st = "open" /\ ~peer[c].fin /\ peer[c].nxt <= DataIn
           /\ peer' = [peer EXCEPT ![c].nxt = @ + 1]
  <2> DEFINE n == p.nxt + 1
             q == [p EXCEPT !.nxt = n]
  <2>1. peer' = [peer EXCEPT ![c] = q] BY <1>1, <1>4
  <2>2. p.st = "open" /\ ~p.fin /\ n \in Nat BY <1>2, <1>4
  <2> HIDE DEF p, n
  <2>3. q \in PeerRows /\ q.st = p.st /\ q.rcv = p.rcv /\ q.fin = p.fin BY <1>1, <2>2 DEF PeerRows
  <2> HIDE DEF q
  <2>4. p.rcv <= q.rcv BY <1>2, <2>3
  <2>5. /\ (q.st \in {"closed", "syn_sent"} <=> q.rcv = 0) /\ (q.rcv = 0 => q.fin = FALSE)
        /\ c[2] \in Clients => c[1] = Port
    BY <1>1, <2>2, <2>3
  <2>6. p.fin = TRUE => q.fin = TRUE /\ q.nxt = p.nxt BY <1>2, <2>2, <2>3
  <2> QED BY <1>2, <2>1, <2>3, <2>4, <2>5, <2>6, PeerMoves DEF p
<1>5. CASE /\ peer[c].st = "open" /\ ~peer[c].fin
           /\ peer' = [peer EXCEPT ![c].fin = TRUE]
  <2> DEFINE q == [p EXCEPT !.fin = TRUE]
  <2>1. peer' = [peer EXCEPT ![c] = q] BY <1>1, <1>5
  <2>2. p.st = "open" /\ ~p.fin BY <1>5
  <2> HIDE DEF p
  <2>3. q \in PeerRows /\ q.st = p.st /\ q.rcv = p.rcv /\ q.fin = TRUE BY <1>1 DEF PeerRows
  <2> HIDE DEF q
  <2>4. p.rcv <= q.rcv BY <1>2, <2>3
  <2>5. /\ (q.st \in {"closed", "syn_sent"} <=> q.rcv = 0) /\ (q.rcv = 0 => q.fin = FALSE)
        /\ c[2] \in Clients => c[1] = Port
    BY <1>1, <2>2, <2>3
  <2>6. p.fin = TRUE => q.fin = TRUE /\ q.nxt = p.nxt BY <1>2, <2>2, <2>3
  <2> QED BY <1>2, <2>1, <2>3, <2>4, <2>5, <2>6, PeerMoves DEF p
<1>6. CASE peer[c].st = "open" /\ peer' = [peer EXCEPT ![c].st = "reset"]
  <2> DEFINE q == [p EXCEPT !.st = "reset"]
  <2>1. peer' = [peer EXCEPT ![c] = q] BY <1>1, <1>6
  <2>2. p.st = "open" BY <1>6
  <2> HIDE DEF p
  <2>3. q \in PeerRows /\ q.st = "reset" /\ q.rcv = p.rcv /\ q.fin = p.fin /\ q.nxt = p.nxt BY <1>1 DEF PeerRows
  <2> HIDE DEF q
  <2>4. p.rcv <= q.rcv BY <1>2, <2>3
  <2>5. /\ (q.st \in {"closed", "syn_sent"} <=> q.rcv = 0) /\ (q.rcv = 0 => q.fin = FALSE)
        /\ c[2] \in Clients => c[1] = Port
    BY <1>1, <2>2, <2>3
  <2>6. p.fin = TRUE => q.fin = TRUE /\ q.nxt = p.nxt BY <1>2, <2>2, <2>3
  <2> QED BY <1>2, <2>1, <2>3, <2>4, <2>5, <2>6, PeerMoves DEF p
<1> QED BY <1>3, <1>4, <1>5, <1>6 DEF PeerStep

LEMMA PeerInputKeeps == ASSUME TcpInv, NEW m \in toPeer, PeerInput(m) PROVE TcpInv'
<1> DEFINE c == m.c
           p == peer[c]
           rcv == EndOfSeg(m)
<1>1. m \in Segs /\ c \in Conns /\ m.seq \in Nat /\ m.seq < rcv /\ Gen(m.seq) = Gen(rcv) /\ rcv \in Nat
  <2>1. m \in Segs /\ m.seq < rcv /\ Gen(m.seq) = Gen(rcv) BY DEF TcpInv, TcpSound, SegsSound
  <2> QED BY <2>1, EndIs DEF Segs
<1>2. /\ peer \in [Conns -> PeerRows] /\ p \in PeerRows
      /\ p.st \in {"closed", "syn_sent"} <=> p.rcv = 0
      /\ p.rcv = 0 => p.fin = FALSE
      /\ p.st # "closed" /\ c[2] \in Clients => c[1] = Port
  BY <1>1, PeerRow
<1>3. p.rcv \in Nat /\ p.nxt \in Nat /\ p.fin \in BOOLEAN /\ UNCHANGED <<kernelVars, toPeer>>
  BY <1>2 DEF PeerInput, PeerRows
<1>4. \/ /\ c[2] \in Servers /\ p.st = "closed"
         /\ peer' = [peer EXCEPT ![c] = [p EXCEPT !.st = "open", !.nxt = 1, !.rcv = rcv]]
      \/ /\ p.st = "syn_sent"
         /\ peer' = [peer EXCEPT ![c] = [p EXCEPT !.st = "open", !.rcv = rcv]]
      \/ /\ p.st = "open" /\ m.seq = p.rcv
         /\ peer' = [peer EXCEPT ![c].rcv = rcv]
  BY DEF PeerInput, EndOfSeg
<1>5. CASE /\ c[2] \in Servers /\ p.st = "closed"
           /\ peer' = [peer EXCEPT ![c] = [p EXCEPT !.st = "open", !.nxt = 1, !.rcv = rcv]]
  <2> DEFINE q == [p EXCEPT !.st = "open", !.nxt = 1, !.rcv = rcv]
  <2>1. peer' = [peer EXCEPT ![c] = q] BY <1>5
  <2>2. p.rcv = 0 /\ p.fin = FALSE /\ c[2] \notin Clients BY <1>2, <1>5, TcpAssumption DEF TcpAssumption
  <2> HIDE DEF p, rcv
  <2>3. q \in PeerRows /\ q.st = "open" /\ q.rcv = rcv BY <1>1, <1>2 DEF PeerRows
  <2> HIDE DEF q
  <2>4. p.rcv <= q.rcv /\ q.rcv # 0 BY <1>1, <2>2, <2>3
  <2> QED BY <1>1, <1>3, <2>1, <2>2, <2>3, <2>4, PeerMoves DEF p, rcv
<1>6. CASE /\ p.st = "syn_sent"
           /\ peer' = [peer EXCEPT ![c] = [p EXCEPT !.st = "open", !.rcv = rcv]]
  <2> DEFINE q == [p EXCEPT !.st = "open", !.rcv = rcv]
  <2>1. peer' = [peer EXCEPT ![c] = q] BY <1>6
  <2>2. p.rcv = 0 /\ p.fin = FALSE /\ (c[2] \in Clients => c[1] = Port) BY <1>2, <1>6
  <2> HIDE DEF p, rcv
  <2>3. q \in PeerRows /\ q.st = "open" /\ q.rcv = rcv BY <1>1, <1>2 DEF PeerRows
  <2> HIDE DEF q
  <2>4. p.rcv <= q.rcv /\ q.rcv # 0 BY <1>1, <2>2, <2>3
  <2> QED BY <1>1, <1>3, <2>1, <2>2, <2>3, <2>4, PeerMoves DEF p, rcv
<1>7. CASE p.st = "open" /\ m.seq = p.rcv /\ peer' = [peer EXCEPT ![c].rcv = rcv]
  <2> DEFINE q == [p EXCEPT !.rcv = rcv]
  <2>1. peer' = [peer EXCEPT ![c] = q] BY <1>1, <1>2, <1>7
  <2>2. p.st = "open" /\ m.seq = p.rcv /\ (c[2] \in Clients => c[1] = Port) BY <1>2, <1>7
  <2> HIDE DEF p, rcv
  <2>3. q \in PeerRows /\ q.st = "open" /\ q.rcv = rcv /\ q.fin = p.fin /\ q.nxt = p.nxt
    BY <1>1, <1>2, <2>2 DEF PeerRows
  <2> HIDE DEF q
  <2>4. p.rcv <= q.rcv /\ q.rcv # 0 /\ Gen(q.rcv) = Gen(p.rcv) BY <1>1, <1>3, <2>2, <2>3
  <2> QED BY <1>1, <1>3, <2>1, <2>2, <2>3, <2>4, PeerMoves DEF p, rcv
<1> QED BY <1>4, <1>5, <1>6, <1>7

(* A segment of an open connection: what becomes of its socket.              *)
Handled(q, r, queued) ==
    /\ q.used = TRUE /\ q.bound = r.bound /\ q.lport = r.lport /\ q.remote = r.remote
    /\ q.connected = r.connected /\ q.aq = r.aq
    /\ q.parent = IF queued = TRUE THEN NULL ELSE r.parent
    /\ q.state # "SYN_SENT" /\ (q.state = "SYN_RECV" => r.state = "SYN_RECV")

(* The three parts of InputConn, on one socket.                              *)
AckedOf(r, m) == IF "ACK" \in m.flags THEN Acked(r, m.ack) ELSE r
TakenOut(a, queued) == IF queued = TRUE THEN [a EXCEPT !.parent = NULL] ELSE a
AfterInput(r, m, queued, takes) ==
    LET r2 == Pushed(TakenOut(AckedOf(r, m), queued), m)
    IN  IF "FIN" \in m.flags /\ takes = TRUE THEN Finned(r2, m) ELSE r2

LEMMA InputRow ==
    ASSUME NEW s, NEW op, NEW pe, NEW tp, NEW g, NEW r, NEW m, NEW queued \in BOOLEAN, NEW takes \in BOOLEAN,
           RowSound(s, r, op, pe, tp, g), r.used = TRUE, r.state \notin {"LISTEN", "SYN_SENT"},
           pe[Ends(r)] \in PeerRows, FromPeer(m, pe[Ends(r)]),
           NEW heard, heard = AckedOf(r, m), queued = TRUE => heard.state = "ESTABLISHED",
           NEW r3, r3 = AfterInput(r, m, queued, takes)
    PROVE  RowSound(s, r3, op, pe, tp, g) /\ Handled(r3, r, queued)
<1> DEFINE r1 == TakenOut(heard, queued)
           r2 == Pushed(r1, m)
<1>9. r3 = (IF "FIN" \in m.flags /\ takes = TRUE THEN Finned(r2, m) ELSE r2) BY DEF AfterInput
<1> HIDE DEF r1, r2
<1>1. /\ RowSound(s, heard, op, pe, tp, g) /\ heard.used = TRUE
      /\ heard.bound = r.bound /\ heard.lport = r.lport /\ heard.remote = r.remote
      /\ heard.connected = r.connected /\ heard.parent = r.parent /\ heard.aq = r.aq
      /\ heard.state \notin {"LISTEN", "SYN_SENT"} /\ (heard.state = "SYN_RECV" => r.state = "SYN_RECV")
      /\ "ACK" \in m.flags => Unacked(heard, pe)
  <2>1. CASE "ACK" \in m.flags
    <3>1. heard = Acked(r, m.ack) BY <2>1 DEF AckedOf
    <3>2. RowSound(s, heard, op, pe, tp, g) /\ KeptEnds(heard, r) /\ PastSyn(heard, r) /\ Unacked(heard, pe)
      BY <2>1, <3>1, AckedLocal
    <3> QED BY <3>2 DEF KeptEnds, PastSyn
  <2>2. CASE "ACK" \notin m.flags
    <3>1. heard = r BY <2>2 DEF AckedOf
    <3> QED BY <2>2, <3>1
  <2> QED BY <2>1, <2>2
<1>3. /\ RowSound(s, r1, op, pe, tp, g) /\ r1.used = TRUE
      /\ r1.bound = r.bound /\ r1.lport = r.lport /\ r1.remote = r.remote
      /\ r1.connected = r.connected /\ r1.parent = (IF queued = TRUE THEN NULL ELSE r.parent) /\ r1.aq = r.aq
      /\ r1.state \notin {"LISTEN", "SYN_SENT"} /\ (r1.state = "SYN_RECV" => r.state = "SYN_RECV")
      /\ "ACK" \in m.flags => Unacked(r1, pe)
  <2>1. CASE queued = TRUE
    <3>1. r1 = [heard EXCEPT !.parent = NULL] BY <2>1 DEF r1, TakenOut
    <3>2. heard \in SockRows BY <1>1 DEF RowSound
    <3>3. /\ r1 \in SockRows /\ SameRow(r1, heard) /\ r1.parent = NULL /\ r1.aq = heard.aq
      BY <3>1, <3>2 DEF SockRows, SameRow
    <3>4. RowSound(s, r1, op, pe, tp, g) BY <1>1, <2>1, <3>3, SameLocal
    <3>5. r1.state = "ESTABLISHED" BY <2>1, <3>3 DEF SameRow
    <3> QED BY <1>1, <2>1, <3>3, <3>4, <3>5 DEF SameRow, Unacked
  <2>2. CASE queued # TRUE
    <3>1. r1 = heard BY <2>2 DEF r1, TakenOut
    <3> QED BY <1>1, <2>2, <3>1
  <2> QED BY <2>1, <2>2
<1>4. pe[Ends(r1)] \in PeerRows /\ FromPeer(m, pe[Ends(r1)]) BY <1>3 DEF Ends
<1>5. /\ RowSound(s, r2, op, pe, tp, g) /\ r2.used = TRUE
      /\ r2.bound = r1.bound /\ r2.lport = r1.lport /\ r2.remote = r1.remote
      /\ r2.connected = r1.connected /\ r2.parent = r1.parent /\ r2.aq = r1.aq /\ r2.state = r1.state
      /\ Unacked(r1, pe) => Unacked(r2, pe)
  <2>2. RowSound(s, r2, op, pe, tp, g) /\ KeptEnds(r2, r1) /\ TookSegment(r2, r1, pe)
    BY <1>3, <1>4, PushedLocal DEF r2
  <2> QED BY <2>2 DEF KeptEnds, TookSegment
<1>6. pe[Ends(r2)] \in PeerRows /\ FromPeer(m, pe[Ends(r2)]) BY <1>4, <1>5 DEF Ends
<1>7. CASE "FIN" \in m.flags /\ takes = TRUE
  <2>1. r3 = Finned(r2, m) BY <1>7, <1>9
  <2>2. "ACK" \in m.flags BY <1>4, <1>7 DEF FromPeer
  <2>3. Unacked(r2, pe) BY <1>3, <1>5, <2>2
  <2>4. RowSound(s, r3, op, pe, tp, g) /\ KeptEnds(r3, r2) /\ PastSyn(r3, r2)
    <3>1. r2.used = TRUE /\ r2.state \notin {"LISTEN", "SYN_SENT"} /\ "FIN" \in m.flags BY <1>3, <1>5, <1>7
    <3>2. RowSound(s, r2, op, pe, tp, g) BY <1>5
    <3> QED BY <1>6, <2>1, <2>3, <3>1, <3>2, FinnedLocal
  <2> QED BY <1>3, <1>5, <2>4 DEF KeptEnds, PastSyn, Handled
<1>8. CASE ~("FIN" \in m.flags /\ takes = TRUE)
  <2>1. r3 = r2 BY <1>8, <1>9
  <2> QED BY <1>3, <1>5, <2>1 DEF Handled
<1> QED BY <1>7, <1>8

(* Child s goes into the queue of its listener.                              *)
LEMMA QueueSound ==
    ASSUME NEW sk, NEW op, NEW pe, NEW tp, NEW g, NEW s \in Sids, NEW q, NEW nk \in [Sids -> SockRows],
           TcpSound(sk, op, pe, tp, g), RowSound(s, q, op, pe, tp, g), sk[s].used = TRUE,
           sk[s].parent # NULL, sk[sk[s].parent].used = TRUE,
           q.used = TRUE, q.bound = sk[s].bound, q.lport = sk[s].lport, q.remote = sk[s].remote,
           q.connected = TRUE, q.parent = NULL, q.aq = sk[s].aq,
           nk[s] = q, nk[sk[s].parent] = [sk[sk[s].parent] EXCEPT !.aq = Append(sk[sk[s].parent].aq, s)],
           \A u \in Sids \ {s, sk[s].parent} : nk[u] = sk[u]
    PROVE  TcpSound(nk, op, pe, tp, g) /\ \A cl : CallsSound(sk, op, cl) => CallsSound(nk, op, cl)
<1> DEFINE p == sk[s].parent
           l == sk[p]
           aq == Append(l.aq, s)
<1>1. /\ sk \in [Sids -> SockRows] /\ (\A u \in Sids : RowSound(u, sk[u], op, pe, tp, g))
      /\ Ports(sk) /\ Children(sk, op) /\ Queues(sk, op) /\ op \subseteq Sids
  BY DEF TcpSound
<1>2. /\ p \in op /\ p \in Sids /\ s \notin op /\ p # s /\ l \in SockRows
      /\ RowSound(p, l, op, pe, tp, g) /\ l.used = TRUE
  <2>1. p \in op BY <1>1 DEF Children
  <2>2. s \notin op BY <1>1 DEF RowSound, Kinds
  <2> QED BY <1>1, <2>1, <2>2
<1>3. l.aq \in Seq(Sids) /\ aq \in Seq(Sids) BY <1>2 DEF SockRows
<1> HIDE DEF aq, l
<1>4. nk[p] = [l EXCEPT !.aq = aq] BY DEF aq, l
<1>5. nk[p] \in SockRows /\ SameRow(nk[p], l) /\ nk[p].parent = l.parent /\ nk[p].aq = aq
  BY <1>2, <1>3, <1>4, ZenonT(60) DEF SockRows, SameRow
<1>6. RowSound(p, nk[p], op, pe, tp, g) BY <1>2, <1>5, SameLocal
<1> HIDE DEF p
<1>7. ASSUME NEW u \in Sids
      PROVE  /\ RowSound(u, nk[u], op, pe, tp, g)
             /\ nk[u].used = sk[u].used /\ nk[u].bound = sk[u].bound /\ nk[u].lport = sk[u].lport
             /\ nk[u].remote = sk[u].remote
             /\ nk[u].parent = sk[u].parent \/ nk[u].parent = NULL
             /\ u # s => nk[u].connected = sk[u].connected /\ nk[u].parent = sk[u].parent /\ nk[u].state = sk[u].state
             /\ u # p => nk[u].aq = sk[u].aq
  <2>1. CASE u = p BY <1>2, <1>5, <1>6, <2>1 DEF SameRow, l
  <2>2. CASE u = s BY <1>2, <2>2
  <2>3. CASE u \notin {s, p}
    <3>1. nk[u] = sk[u] BY <2>3 DEF p
    <3> QED BY <1>1, <3>1
  <2> QED BY <2>1, <2>2, <2>3
<1>8. Ports(nk) BY <1>1, <1>7 DEF Ports
<1>9. Children(nk, op)
  <2> SUFFICES ASSUME NEW u \in Sids, nk[u].parent # NULL
               PROVE  nk[u].parent \in op /\ nk[nk[u].parent].used = TRUE
    BY DEF Children
  <2>1. nk[u].parent = sk[u].parent BY <1>7
  <2>2. sk[u].parent \in op /\ sk[sk[u].parent].used = TRUE BY <1>1, <2>1 DEF Children
  <2> QED BY <1>1, <1>7, <2>1, <2>2
<1>10. ASSUME NEW v \in Sids, NEW i \in 1 .. Len(sk[v].aq)
       PROVE  /\ sk[v].aq[i] # s /\ nk[sk[v].aq[i]].used = TRUE /\ nk[sk[v].aq[i]].connected = TRUE
              /\ nk[sk[v].aq[i]].parent = NULL /\ sk[v].aq[i] \notin op
  <2> DEFINE child == sk[v].aq[i]
  <2>1. child \in Sids
    <3>1. sk[v].aq \in Seq(Sids) BY <1>1 DEF SockRows
    <3> QED BY <3>1
  <2>2. sk[child].used = TRUE /\ sk[child].connected = TRUE /\ sk[child].parent = NULL /\ child \notin op
    BY <1>1 DEF Queues
  <2> HIDE DEF child
  <2>3. child # s BY <2>2
  <2>4. nk[child].used = TRUE /\ nk[child].connected = TRUE /\ nk[child].parent = NULL
    BY <1>7, <2>1, <2>2, <2>3
  <2> QED BY <2>2, <2>3, <2>4 DEF child
<1>11. ASSUME NEW v \in Sids, NEW i \in 1 .. Len(nk[v].aq)
       PROVE  \/ v = p /\ i = Len(l.aq) + 1 /\ nk[v].aq[i] = s
              \/ i \in 1 .. Len(sk[v].aq) /\ nk[v].aq[i] = sk[v].aq[i]
  <2>1. CASE v # p BY <1>7, <2>1
  <2>2. CASE v = p
    <3>1. nk[v].aq = Append(l.aq, s) /\ l = sk[v] BY <1>5, <2>2 DEF aq, l
    <3>2. i \in 1 .. Len(l.aq) + 1 /\ Len(l.aq) \in Nat BY <1>2, <1>3, <3>1
    <3>3. CASE i = Len(l.aq) + 1 BY <1>2, <1>3, <2>2, <3>1, <3>3
    <3>4. CASE i \in 1 .. Len(l.aq)
      <4>1. Append(l.aq, s)[i] = l.aq[i] BY <1>2, <1>3, <3>4
      <4> QED BY <3>1, <3>4, <4>1
    <3> QED BY <3>2, <3>3, <3>4
  <2> QED BY <2>1, <2>2
<1>12. Queues(nk, op)
  <2>1. ASSUME NEW v \in Sids, NEW i \in 1 .. Len(nk[v].aq)
        PROVE  LET child == nk[v].aq[i] IN
               /\ nk[child].used = TRUE /\ nk[child].connected = TRUE /\ nk[child].parent = NULL
               /\ child \notin op
    <3>1. CASE nk[v].aq[i] = s BY <1>2, <3>1
    <3>2. CASE i \in 1 .. Len(sk[v].aq) /\ nk[v].aq[i] = sk[v].aq[i]
      <4> DEFINE child == sk[v].aq[i]
      <4>1. nk[child].used = TRUE /\ nk[child].connected = TRUE /\ nk[child].parent = NULL /\ child \notin op
        BY <1>10, <3>2
      <4>2. nk[v].aq[i] = child BY <3>2
      <4> HIDE DEF child
      <4> QED BY <4>1, <4>2
    <3> QED BY <1>11, <2>1, <3>1, <3>2
  <2>2. ASSUME NEW v \in Sids, NEW i \in 1 .. Len(nk[v].aq), NEW u \in Sids, NEW j \in 1 .. Len(nk[u].aq),
               nk[u].aq[j] = nk[v].aq[i]
        PROVE  u = v /\ j = i
    <3>1. CASE nk[v].aq[i] = s
      <4>1. v = p /\ i = Len(l.aq) + 1 BY <1>10, <1>11, <3>1
      <4>2. nk[u].aq[j] = s BY <2>2, <3>1
      <4>3. ~(j \in 1 .. Len(sk[u].aq) /\ nk[u].aq[j] = sk[u].aq[j]) BY <1>10, <4>2
      <4>4. u = p /\ j = Len(l.aq) + 1 BY <1>11, <2>2, <4>3
      <4> QED BY <4>1, <4>4
    <3>2. CASE nk[v].aq[i] # s
      <4>1. i \in 1 .. Len(sk[v].aq) /\ nk[v].aq[i] = sk[v].aq[i] BY <1>11, <3>2
      <4>2. j \in 1 .. Len(sk[u].aq) /\ nk[u].aq[j] = sk[u].aq[j] BY <1>11, <2>2, <3>2
      <4> QED BY <1>1, <2>2, <4>1, <4>2 DEF Queues
    <3> QED BY <3>1, <3>2
  <2> QED BY <2>1, <2>2, ZenonT(60) DEF Queues
<1>13. ASSUME NEW cl, CallsSound(sk, op, cl) PROVE CallsSound(nk, op, cl)
  <2> SUFFICES ASSUME NEW t \in Threads, cl[t].op = "send" PROVE Settled(cl[t].s, nk[cl[t].s], op)
    BY <1>13 DEF CallsSound
  <2> DEFINE z == cl[t].s
  <2>1. z \in op /\ Settled(z, sk[z], op) /\ z \in Sids BY <1>1, <1>13 DEF CallsSound
  <2> HIDE DEF z
  <2>2. nk[z].connected = sk[z].connected /\ nk[z].state = sk[z].state BY <1>2, <1>7, <2>1
  <2>3. Settled(z, nk[z], op) BY <2>1, <2>2 DEF Settled
  <2> QED BY <2>3 DEF z
<1> QED BY <1>1, <1>7, <1>8, <1>9, <1>12, <1>13 DEF TcpSound

LEMMA UsedRow == ASSUME TcpInv, NEW s \in Sids
                 PROVE  /\ socks[s] \in SockRows /\ RowSound(s, socks[s], open, peer, toPeer, g_tcp_iss)
                        /\ socks[s].used <=> socks[s].used = TRUE
                        /\ socks[s].bound <=> socks[s].bound = TRUE
                        /\ socks[s].connected <=> socks[s].connected = TRUE
                        /\ socks[s].shut_wr <=> socks[s].shut_wr = TRUE
BY DEF TcpInv, TcpSound, SockRows

LEMMA Rewoken ==
    ASSUME NEW S \in SUBSET Sids, NEW sk, UNCHANGED <<created, open, g_ephemeral, g_tcp_iss, netVars>>,
           TcpSound(sk, open, peer, toPeer, g_tcp_iss), CallsSound(sk, open, call),
           \A u \in S : sk[u].used = TRUE, WakeWaiters(S, sk)
    PROVE  TcpInv'
<1>1. TcpSound(socks', open, peer, toPeer, g_tcp_iss) /\ CallsSound(socks', open, call') BY WakeSound
<1>2. UNCHANGED <<open, peer, toPeer, g_tcp_iss>> BY DEF netVars
<1> QED BY <1>1, <1>2 DEF TcpInv

LEMMA InputConnKeeps ==
    ASSUME TcpInv, NEW c \in Conns, NEW m \in Sent(c), NEW s \in Sids, InputConn(m, s)
    PROVE  TcpInv'
<1> DEFINE r == socks[s]
           heard == IF "ACK" \in m.flags THEN Acked(r, m.ack) ELSE r
           queued == heard.state = "ESTABLISHED" /\ r.state = "SYN_RECV" /\ CanQueue(s)
           r1 == IF queued THEN [heard EXCEPT !.parent = NULL] ELSE heard
           takes == ~(m.len > 0 /\ m.seq # r1.rcv)
           r2 == Pushed(r1, m)
           r3 == IF "FIN" \in m.flags /\ takes THEN Finned(r2, m) ELSE r2
           sk == [socks EXCEPT ![s] = r3]
           L(q) == RowSound(s, q, open, peer, toPeer, g_tcp_iss)
<1>1. /\ FindConn(s, m.c)
      /\ \/ "RST" \in m.flags /\ WakeWaiters({s}, [socks EXCEPT ![s] = Failed(r, TRUE)])
         \/ /\ r.state = "SYN_SENT" /\ {"SYN", "ACK"} \subseteq m.flags /\ m.ack = r.nxt
            /\ WakeWaiters({s}, [socks EXCEPT ![s] =
                    [r EXCEPT !.rcv = m.seq + 1, !.read = m.seq + 1, !.una = m.ack,
                              !.state = "ESTABLISHED"]])
         \/ /\ r.state # "SYN_SENT"
            /\ IF queued
               THEN WakeWaiters({s, r.parent}, [sk EXCEPT ![r.parent].aq = Append(@, s)])
               ELSE WakeWaiters(IF "ACK" \in m.flags THEN {s} ELSE {}, sk)
      /\ UNCHANGED <<created, open, g_ephemeral, g_tcp_iss, netVars>>
  BY DEF InputConn
<1>2. /\ TcpSound(socks, open, peer, toPeer, g_tcp_iss) /\ CallsSound(socks, open, call)
      /\ socks \in [Sids -> SockRows]
  BY DEF TcpInv, TcpSound
<1>3. /\ r \in SockRows /\ L(r) /\ r.used = TRUE /\ r.bound = TRUE /\ r.state # "LISTEN" /\ Ends(r) = m.c
  BY <1>1, UsedRow DEF FindConn, Matches, Conn, Ends
<1>4. m.c = c /\ FromPeer(m, peer[c]) /\ peer[c] \in PeerRows
  <2>1. PeersSound(peer, g_tcp_iss) BY <1>2 DEF TcpSound
  <2> QED BY <2>1, SentIs
<1>5. peer[Ends(r)] \in PeerRows /\ FromPeer(m, peer[Ends(r)]) BY <1>3, <1>4
<1>6. ASSUME NEW q, L(q), LikeRow(q, r), q.used = TRUE, NEW S \in SUBSET {s}, WakeWaiters(S, [socks EXCEPT ![s] = q])
      PROVE  TcpInv'
  <2> DEFINE nk == [socks EXCEPT ![s] = q]
  <2>1. TcpSound(nk, open, peer, toPeer, g_tcp_iss) /\ CallsSound(nk, open, call) BY <1>2, <1>6, OneLike
  <2>2. \A u \in S : nk[u].used = TRUE BY <1>2, <1>6
  <2>3. WakeWaiters(S, nk) BY <1>6
  <2> HIDE DEF nk
  <2>4. S \in SUBSET Sids OBVIOUS
  <2> QED BY <1>1, <2>1, <2>2, <2>3, <2>4, Rewoken
<1> HIDE DEF r
<1>7. CASE "RST" \in m.flags /\ WakeWaiters({s}, [socks EXCEPT ![s] = Failed(r, TRUE)])
  <2> DEFINE q == Failed(r, TRUE)
  <2>0. q = Failed(r, TRUE) /\ TRUE \in BOOLEAN OBVIOUS
  <2> HIDE DEF q
  <2>1. L(q) /\ GaveUp(q, r) BY <1>3, <2>0, FailedLocal
  <2>4. q.used = TRUE BY <2>1 DEF GaveUp
  <2>2. LikeRow(q, r) BY <1>3, <2>1 DEF LikeRow, GaveUp
  <2>3. {s} \in SUBSET {s} /\ WakeWaiters({s}, [socks EXCEPT ![s] = q]) BY <1>7 DEF q
  <2> QED BY <1>6, <2>1, <2>2, <2>3, <2>4
<1>8. CASE /\ r.state = "SYN_SENT" /\ {"SYN", "ACK"} \subseteq m.flags /\ m.ack = r.nxt
           /\ WakeWaiters({s}, [socks EXCEPT ![s] =
                    [r EXCEPT !.rcv = m.seq + 1, !.read = m.seq + 1, !.una = m.ack,
                              !.state = "ESTABLISHED"]])
  <2> DEFINE q == [r EXCEPT !.rcv = m.seq + 1, !.read = m.seq + 1, !.una = m.ack, !.state = "ESTABLISHED"]
  <2>4. "ACK" \in m.flags BY <1>8
  <2>5. q = Synced(r, m) BY DEF Synced
  <2> HIDE DEF q
  <2>1. L(q) /\ LikeRow(q, r) BY <1>3, <1>5, <1>8, <2>4, <2>5, SyncedLocal
  <2>2. q.used = TRUE BY <1>3, <2>1 DEF LikeRow
  <2>3. {s} \in SUBSET {s} /\ WakeWaiters({s}, [socks EXCEPT ![s] = q]) BY <1>8 DEF q
  <2> QED BY <1>6, <2>1, <2>2, <2>3
<1>9. CASE /\ r.state # "SYN_SENT"
           /\ IF queued
              THEN WakeWaiters({s, r.parent}, [sk EXCEPT ![r.parent].aq = Append(@, s)])
              ELSE WakeWaiters(IF "ACK" \in m.flags THEN {s} ELSE {}, sk)
  <2> DEFINE b == queued
             tk == takes
  <2>0. b \in BOOLEAN /\ tk \in BOOLEAN /\ (b = TRUE => heard.state = "ESTABLISHED") OBVIOUS
  <2>4. /\ heard = AckedOf(r, m) /\ r3 = AfterInput(r, m, b, tk)
        /\ b = TRUE <=> queued
    BY DEF AfterInput, AckedOf, TakenOut
  <2> HIDE DEF r3, heard, r1, r2, b, tk
  <2>6. r.state \notin {"LISTEN", "SYN_SENT"} BY <1>3, <1>9
  <2>5. L(r3) /\ Handled(r3, r, b)
    <3> HIDE DEF queued, takes, sk
    <3> QED BY <1>3, <1>5, <2>0, <2>4, <2>6, InputRow
  <2>1. /\ L(r3) /\ r3.used = TRUE
        /\ r3.bound = r.bound /\ r3.lport = r.lport /\ r3.remote = r.remote
        /\ r3.connected = r.connected /\ r3.aq = r.aq
        /\ r3.parent = IF queued THEN NULL ELSE r.parent
        /\ r3.state # "SYN_SENT" /\ (r3.state = "SYN_RECV" => r.state = "SYN_RECV")
    BY <2>4, <2>5 DEF Handled
  <2>2. CASE ~queued
    <3>1. WakeWaiters(IF "ACK" \in m.flags THEN {s} ELSE {}, sk) BY <1>9, <2>2
    <3>2. LikeRow(r3, r) BY <1>3, <2>1, <2>2 DEF LikeRow
    <3> DEFINE S == IF "ACK" \in m.flags THEN {s} ELSE {}
    <3>3. S \in SUBSET {s} /\ WakeWaiters(S, [socks EXCEPT ![s] = r3]) BY <3>1
    <3> HIDE DEF S
    <3> QED BY <1>6, <2>1, <3>2, <3>3
  <2>3. CASE queued
    <3> DEFINE p == r.parent
               l == socks[p]
               aq == Append(l.aq, s)
               nk == [sk EXCEPT ![p] = [l EXCEPT !.aq = aq]]
    <3>1. /\ WakeWaiters({s, p}, [sk EXCEPT ![p].aq = Append(@, s)])
          /\ p # NULL /\ socks[p].used /\ r.state = "SYN_RECV"
      BY <1>9, <2>3 DEF CanQueue, r
    <3>2. p \in Sids /\ p \in open /\ s \notin open /\ p # s /\ r.connected = TRUE
      <4>1. p \in Sids BY <1>3, <3>1 DEF SockRows
      <4>2. s \notin open BY <1>3, <3>1 DEF RowSound, Kinds
      <4>3. p \in open BY <1>2, <3>1 DEF TcpSound, Children, r
      <4>4. r.connected = TRUE \/ r.connected = FALSE BY <1>3 DEF SockRows
      <4>5. r.connected = TRUE BY <1>3, <3>1, <4>4 DEF RowSound, Kinds
      <4> QED BY <4>1, <4>2, <4>3, <4>5
    <3>3. l.used = TRUE /\ l \in SockRows BY <3>1, <3>2, UsedRow
    <3>4. l.aq \in Seq(Sids) BY <3>3 DEF SockRows
    <3>5. aq \in Seq(Sids) BY <3>4
    <3>6. r3 \in SockRows BY <2>1 DEF RowSound
    <3>7. [l EXCEPT !.aq = aq] \in SockRows /\ [l EXCEPT !.aq = aq].used = TRUE
      <4> HIDE DEF l, aq
      <4> QED BY <3>3, <3>5 DEF SockRows
    <3>8. /\ nk \in [Sids -> SockRows] /\ nk[s] = r3 /\ nk[p] = [l EXCEPT !.aq = aq]
          /\ \A u \in Sids \ {s, p} : nk[u] = socks[u]
      <4> DEFINE x == [l EXCEPT !.aq = aq]
      <4>1. x \in SockRows BY <3>7
      <4> HIDE DEF x, p
      <4>2. /\ [sk EXCEPT ![p] = x] \in [Sids -> SockRows] /\ [sk EXCEPT ![p] = x][s] = r3
            /\ [sk EXCEPT ![p] = x][p] = x /\ \A u \in Sids \ {s, p} : [sk EXCEPT ![p] = x][u] = socks[u]
        BY <1>2, <3>2, <3>6, <4>1
      <4> QED BY <4>2 DEF x
    <3>9. [sk EXCEPT ![p].aq = Append(@, s)] = nk
      <4>1. sk[p] = l BY <1>2, <3>2
      <4> QED BY <4>1
    <3>10. WakeWaiters({s, p}, nk) BY <3>1, <3>9
    <3>11. nk[s].used = TRUE /\ nk[p].used = TRUE BY <2>1, <3>7, <3>8
    <3> HIDE DEF nk
    <3>12. TcpSound(nk, open, peer, toPeer, g_tcp_iss) /\ CallsSound(nk, open, call)
      <4>1. /\ socks[s].used = TRUE /\ socks[s].parent = p /\ p # NULL /\ socks[p].used = TRUE
            /\ r3.bound = socks[s].bound /\ r3.lport = socks[s].lport /\ r3.remote = socks[s].remote
            /\ r3.connected = TRUE /\ r3.parent = NULL /\ r3.aq = socks[s].aq
            /\ nk[p] = [socks[p] EXCEPT !.aq = Append(socks[p].aq, s)]
        BY <1>3, <2>1, <2>3, <3>1, <3>2, <3>3, <3>8 DEF r
      <4> HIDE DEF p
      <4> QED BY <1>2, <2>1, <3>8, <4>1, QueueSound, ZenonT(60)
    <3>13. {s, p} \in SUBSET Sids BY <3>2
    <3> QED BY <1>1, <3>10, <3>11, <3>12, <3>13, Rewoken
  <2> QED BY <2>2, <2>3
<1> QED BY <1>1, <1>7, <1>8, <1>9 DEF r

Waits(child, sk, op) ==
    /\ child \in Sids /\ child \notin op
    /\ sk[child].used = TRUE /\ sk[child].connected = TRUE /\ sk[child].parent = NULL

LEMMA QueuedIs ==
    ASSUME NEW sk \in [Sids -> SockRows], NEW op, Queues(sk, op), NEW v \in Sids, NEW i \in 1 .. Len(sk[v].aq),
           NEW child, child = sk[v].aq[i]
    PROVE  Waits(child, sk, op)
<1>1. sk[v].aq \in Seq(Sids) BY DEF SockRows
<1>2. child \in Sids BY <1>1
<1> QED BY <1>2 DEF Queues, Waits

PutOf(sk, s, q) == [sk EXCEPT ![s] = q]
IsFree(sk, s) == sk[s].used = FALSE

(* With q for socket s no segment would have two sockets to go to.           *)
NoClash(sk, s, q) == q.bound = TRUE => \A u \in Sids \ {s} :
    sk[u].used = TRUE /\ sk[u].bound = TRUE /\ sk[u].lport = q.lport
    => /\ sk[u].remote # q.remote /\ q.lport = Port
       /\ sk[u].remote \in Clients \/ q.remote \in Clients

(* What q has to be to take the place of socket s.                           *)
Fits(sk, op, cl, s, q) ==
    /\ q.used = TRUE /\ q.aq = sk[s].aq /\ NoClash(sk, s, q)
    /\ s \in op \/ IsFree(sk, s)
    /\ q.parent = NULL \/ (q.parent \in op /\ q.parent # s)
    /\ (\A t \in Threads : cl[t].op = "send" => cl[t].s # s) \/ Settled(s, q, op)

LEMMA PutShape ==
    ASSUME NEW sk, NEW op, NEW pe, NEW tp, NEW g, NEW s \in Sids, NEW q \in SockRows,
           TcpSound(sk, op, pe, tp, g),
           NEW nk, nk = PutOf(sk, s, q), NEW cl, CallsSound(sk, op, cl), Fits(sk, op, cl, s, q)
    PROVE  /\ nk \in [Sids -> SockRows] /\ nk[s] = q /\ (\A u \in Sids \ {s} : nk[u] = sk[u])
           /\ Ports(nk) /\ Children(nk, op) /\ Queues(nk, op) /\ CallsSound(nk, op, cl)
<1>0. /\ q.used = TRUE /\ q.aq = sk[s].aq /\ NoClash(sk, s, q) /\ (s \in op \/ IsFree(sk, s))
      /\ q.parent = NULL \/ (q.parent \in op /\ q.parent # s)
      /\ (\A t \in Threads : cl[t].op = "send" => cl[t].s # s) \/ Settled(s, q, op)
  BY DEF Fits
<1>1. /\ sk \in [Sids -> SockRows] /\ op \subseteq Sids
      /\ Ports(sk) /\ Children(sk, op) /\ Queues(sk, op)
  BY DEF TcpSound
<1>7. \A u \in op : sk[u].used = TRUE
  <2> TAKE u \in op
  <2>1. sk[u].used \in BOOLEAN /\ RowSound(u, sk[u], op, pe, tp, g) BY <1>1 DEF TcpSound, SockRows
  <2> QED BY <2>1 DEF RowSound
<1>2. nk \in [Sids -> SockRows] /\ nk[s] = q /\ (\A u \in Sids \ {s} : nk[u] = sk[u]) BY <1>1 DEF PutOf
<1>3. Ports(nk)
  <2> SUFFICES ASSUME NEW u \in Sids, NEW v \in Sids, u # v, nk[u].used = TRUE, nk[v].used = TRUE,
                      nk[u].bound = TRUE, nk[v].bound = TRUE, nk[u].lport = nk[v].lport
               PROVE  /\ nk[u].remote # nk[v].remote /\ nk[u].lport = Port
                      /\ nk[u].remote \in Clients \/ nk[v].remote \in Clients
    BY DEF Ports
  <2>1. CASE u # s /\ v # s
    <3>1. nk[u] = sk[u] /\ nk[v] = sk[v] BY <1>2, <2>1
    <3> QED BY <1>1, <3>1 DEF Ports
  <2>2. CASE u = s
    <3>1. nk[u] = q /\ nk[v] = sk[v] BY <1>2, <2>2
    <3> QED BY <1>0, <2>2, <3>1 DEF NoClash
  <2>3. CASE v = s
    <3>1. nk[v] = q /\ nk[u] = sk[u] BY <1>2, <2>3
    <3> QED BY <1>0, <2>3, <3>1 DEF NoClash
  <2> QED BY <2>1, <2>2, <2>3
<1>4. Children(nk, op)
  <2> SUFFICES ASSUME NEW u \in Sids, nk[u].parent # NULL
               PROVE  nk[u].parent \in op /\ nk[nk[u].parent].used = TRUE
    BY DEF Children
  <2>1. CASE u = s
    <3>1. q.parent \in op /\ q.parent # s /\ sk[q.parent].used = TRUE /\ nk[u] = q BY <1>0, <1>2, <1>7, <2>1
    <3>2. nk[q.parent] = sk[q.parent] BY <1>1, <1>2, <3>1
    <3> QED BY <3>1, <3>2
  <2>2. CASE u # s
    <3> DEFINE p == sk[u].parent
    <3>1. nk[u] = sk[u] BY <1>2, <2>2
    <3>2. p \in op /\ sk[p].used = TRUE /\ nk[u].parent = p BY <1>1, <3>1 DEF Children
    <3> HIDE DEF p
    <3>3. nk[p].used = TRUE BY <1>0, <1>1, <1>2, <3>2
    <3> QED BY <3>2, <3>3
  <2> QED BY <2>1, <2>2
<1>5. Queues(nk, op)
  <2>1. \A u \in Sids : nk[u].aq = sk[u].aq BY <1>0, <1>2
  <2>2. ASSUME NEW v \in Sids, NEW i \in 1 .. Len(nk[v].aq)
        PROVE  LET child == nk[v].aq[i] IN
               /\ nk[child].used = TRUE /\ nk[child].connected = TRUE /\ nk[child].parent = NULL
               /\ child \notin op
    <3> DEFINE child == sk[v].aq[i]
    <3>1. i \in 1 .. Len(sk[v].aq) /\ nk[v].aq[i] = child BY <2>1
    <3>2. /\ child \in Sids /\ child \notin op
          /\ sk[child].used = TRUE /\ sk[child].connected = TRUE /\ sk[child].parent = NULL
      <4>1. child = sk[v].aq[i] OBVIOUS
      <4> HIDE DEF child
      <4>2. Waits(child, sk, op) BY <1>1, <3>1, <4>1, QueuedIs
      <4> QED BY <4>2 DEF Waits
    <3> HIDE DEF child
    <3>3. child # s BY <1>0, <3>2 DEF IsFree
    <3>4. nk[child] = sk[child] BY <1>2, <3>2, <3>3
    <3> QED BY <3>1, <3>2, <3>4
  <2>3. ASSUME NEW v \in Sids, NEW i \in 1 .. Len(nk[v].aq), NEW u \in Sids, NEW j \in 1 .. Len(nk[u].aq),
               nk[u].aq[j] = nk[v].aq[i]
        PROVE  u = v /\ j = i
    <3>1. i \in 1 .. Len(sk[v].aq) /\ j \in 1 .. Len(sk[u].aq) /\ sk[u].aq[j] = sk[v].aq[i] BY <2>1, <2>3
    <3> QED BY <1>1, <3>1 DEF Queues
  <2>4. ASSUME NEW v \in Sids, NEW i \in 1 .. Len(nk[v].aq)
        PROVE  LET child == nk[v].aq[i] IN
               /\ nk[child].used = TRUE /\ nk[child].connected = TRUE /\ nk[child].parent = NULL
               /\ child \notin op
               /\ \A u \in Sids : \A j \in 1 .. Len(nk[u].aq) : nk[u].aq[j] = child => u = v /\ j = i
    BY <2>2, <2>3
  <2> QED BY <2>4 DEF Queues
<1>6. CallsSound(nk, op, cl)
  <2> SUFFICES ASSUME NEW t \in Threads, cl[t].op = "send" PROVE Settled(cl[t].s, nk[cl[t].s], op)
    BY DEF CallsSound
  <2> DEFINE z == cl[t].s
  <2>1. z \in op /\ z \in Sids /\ Settled(z, sk[z], op) /\ (z # s \/ Settled(s, q, op))
    BY <1>0, <1>1 DEF CallsSound
  <2> HIDE DEF z
  <2>2. CASE z = s
    <3>1. nk[z] = q /\ Settled(z, q, op) BY <1>2, <2>1, <2>2
    <3>2. Settled(z, nk[z], op) BY <3>1
    <3> QED BY <3>2 DEF z
  <2>3. CASE z # s
    <3>1. nk[z] = sk[z] BY <1>2, <2>1, <2>3
    <3>2. Settled(z, nk[z], op) BY <2>1, <3>1
    <3> QED BY <3>2 DEF z
  <2> QED BY <2>2, <2>3
<1> QED BY <1>2, <1>3, <1>4, <1>5, <1>6

(* The sockets of S are reset, and the program loses those it had.           *)
LEMMA ResetSound ==
    ASSUME NEW sk, NEW op, NEW more, NEW pe, NEW tp, NEW g, NEW S,
           TcpSound(sk, op, pe, tp, g), more \subseteq op,
           NEW nk, nk = [u \in Sids |-> IF u \in S THEN Unused ELSE sk[u]],
           \A u \in Sids : u \in S => u \notin more,
           \A u \in Sids : u \notin S => (u \in more <=> u \in op)
                                        /\ (sk[u].parent # NULL => sk[u].parent \notin S),
           \A v \in Sids : \A i \in 1 .. Len(sk[v].aq) : sk[v].aq[i] \notin S
    PROVE  /\ TcpSound(nk, more, pe, tp, g)
           /\ \A cl : CallsSound(sk, op, cl) /\ (\A t \in Threads : cl[t].op # "none" => cl[t].s \notin S)
                 => CallsSound(nk, more, cl)
<1>1. /\ sk \in [Sids -> SockRows] /\ op \subseteq Sids
      /\ Ports(sk) /\ Children(sk, op) /\ Queues(sk, op)
      /\ \A u \in Sids : RowSound(u, sk[u], op, pe, tp, g)
  BY DEF TcpSound
<1>2. /\ nk \in [Sids -> SockRows]
      /\ \A u \in Sids : (u \in S => nk[u] = Unused) /\ (u \notin S => nk[u] = sk[u])
  BY <1>1, RowTypes
<1>3. /\ Unused.used = FALSE /\ Unused.parent = NULL /\ Len(Unused.aq) = 0
  BY RowTypes
<1>4. Ports(nk)
  <2> SUFFICES ASSUME NEW u \in Sids, NEW v \in Sids, u # v, nk[u].used = TRUE, nk[v].used = TRUE,
                      nk[u].bound = TRUE, nk[v].bound = TRUE, nk[u].lport = nk[v].lport
               PROVE  /\ nk[u].remote # nk[v].remote /\ nk[u].lport = Port
                      /\ nk[u].remote \in Clients \/ nk[v].remote \in Clients
    BY DEF Ports
  <2>1. nk[u] = sk[u] /\ nk[v] = sk[v] BY <1>2, <1>3
  <2> QED BY <1>1, <2>1 DEF Ports
<1>5. Children(nk, more)
  <2> SUFFICES ASSUME NEW u \in Sids, nk[u].parent # NULL
               PROVE  nk[u].parent \in more /\ nk[nk[u].parent].used = TRUE
    BY DEF Children
  <2> DEFINE p == sk[u].parent
  <2>1. nk[u] = sk[u] /\ u \notin S BY <1>2, <1>3
  <2>2. p \in op /\ p \in Sids /\ sk[p].used = TRUE /\ nk[u].parent = p /\ p \notin S BY <1>1, <2>1 DEF Children
  <2> HIDE DEF p
  <2>3. p \in more /\ nk[p] = sk[p] BY <1>2, <2>2
  <2> QED BY <2>2, <2>3
<1>6. Queues(nk, more)
  <2>1. ASSUME NEW v \in Sids, NEW i \in 1 .. Len(nk[v].aq)
        PROVE  v \notin S /\ nk[v] = sk[v]
    <3>1. CASE v \in S
      <4>1. Len(nk[v].aq) = 0 BY <1>2, <1>3, <3>1
      <4> QED BY <2>1, <4>1
    <3> QED BY <1>2, <3>1
  <2>2. ASSUME NEW v \in Sids, NEW i \in 1 .. Len(nk[v].aq)
        PROVE  LET child == nk[v].aq[i] IN
               /\ nk[child].used = TRUE /\ nk[child].connected = TRUE /\ nk[child].parent = NULL
               /\ child \notin more
    <3> DEFINE child == sk[v].aq[i]
    <3>1. i \in 1 .. Len(sk[v].aq) /\ nk[v].aq[i] = child BY <2>1, <2>2
    <3>3. child \notin S BY <3>1
    <3>2. /\ child \in Sids /\ child \notin op
          /\ sk[child].used = TRUE /\ sk[child].connected = TRUE /\ sk[child].parent = NULL
      <4>1. child = sk[v].aq[i] OBVIOUS
      <4> HIDE DEF child
      <4>2. Waits(child, sk, op) BY <1>1, <3>1, <4>1, QueuedIs
      <4> QED BY <4>2 DEF Waits
    <3> HIDE DEF child
    <3>4. nk[child] = sk[child] BY <1>2, <3>2, <3>3
    <3> QED BY <3>1, <3>2, <3>4
  <2>3. ASSUME NEW v \in Sids, NEW i \in 1 .. Len(nk[v].aq), NEW u \in Sids, NEW j \in 1 .. Len(nk[u].aq),
               nk[u].aq[j] = nk[v].aq[i]
        PROVE  u = v /\ j = i
    <3>1. nk[v] = sk[v] /\ nk[u] = sk[u] BY <2>1, <2>3
    <3> QED BY <1>1, <2>3, <3>1 DEF Queues
  <2> HIDE DEF Unused
  <2>4. \A v \in Sids : \A i \in 1 .. Len(nk[v].aq) : \A u \in Sids : \A j \in 1 .. Len(nk[u].aq) :
           nk[u].aq[j] = nk[v].aq[i] => u = v /\ j = i
    BY <2>3
  <2>5. \A v \in Sids : \A i \in 1 .. Len(nk[v].aq) :
           LET child == nk[v].aq[i] IN
               /\ nk[child].used = TRUE /\ nk[child].connected = TRUE /\ nk[child].parent = NULL
               /\ child \notin more
    BY <2>2
  <2>6. ASSUME NEW v \in Sids, NEW i \in 1 .. Len(nk[v].aq)
        PROVE  LET child == nk[v].aq[i] IN
               /\ nk[child].used = TRUE /\ nk[child].connected = TRUE /\ nk[child].parent = NULL
               /\ child \notin more
               /\ \A u \in Sids : \A j \in 1 .. Len(nk[u].aq) : nk[u].aq[j] = child => u = v /\ j = i
    BY <2>4, <2>5
  <2> QED BY <2>6 DEF Queues
<1>7. ASSUME NEW u \in Sids PROVE RowSound(u, nk[u], more, pe, tp, g)
  <2>1. CASE u \in S
    <3>1. nk[u] = Unused /\ u \notin more BY <1>2, <2>1
    <3> QED BY <3>1, UnusedLocal
  <2>2. CASE u \notin S
    <3> DEFINE r == sk[u]
    <3>1. nk[u] = r /\ (u \in more <=> u \in op) /\ RowSound(u, r, op, pe, tp, g) BY <1>1, <1>2, <2>2
    <3> HIDE DEF r
    <3>2. RowSound(u, r, more, pe, tp, g) BY <3>1, OpenLocal
    <3> QED BY <3>1, <3>2
  <2> QED BY <2>1, <2>2
<1>8. ASSUME NEW cl, CallsSound(sk, op, cl), \A t \in Threads : cl[t].op # "none" => cl[t].s \notin S
      PROVE  CallsSound(nk, more, cl)
  <2> SUFFICES ASSUME NEW t \in Threads, cl[t].op # "none"
               PROVE  cl[t].s \in more /\ (cl[t].op = "send" => Settled(cl[t].s, nk[cl[t].s], more))
    BY <1>8 DEF CallsSound
  <2> DEFINE z == cl[t].s
  <2>1. z \in op /\ z \in Sids /\ z \notin S /\ (cl[t].op = "send" => Settled(z, sk[z], op))
    BY <1>1, <1>8 DEF CallsSound
  <2> HIDE DEF z
  <2>2. nk[z] = sk[z] /\ z \in more BY <1>2, <2>1
  <2>3. cl[t].op = "send" => Settled(z, nk[z], more) BY <2>1, <2>2 DEF Settled
  <2> QED BY <2>2, <2>3 DEF z
<1> QED BY <1>1, <1>2, <1>4, <1>5, <1>6, <1>7, <1>8 DEF TcpSound

(* The program gets a descriptor of a socket that is in no queue.            *)
LEMMA OpenSound ==
    ASSUME NEW sk, NEW op, NEW pe, NEW tp, NEW g, NEW s \in Sids,
           TcpSound(sk, op, pe, tp, g), RowSound(s, sk[s], op \cup {s}, pe, tp, g),
           \A v \in Sids : \A i \in 1 .. Len(sk[v].aq) : sk[v].aq[i] # s
    PROVE  /\ TcpSound(sk, op \cup {s}, pe, tp, g)
           /\ \A cl : CallsSound(sk, op, cl) => CallsSound(sk, op \cup {s}, cl)
<1> DEFINE more == op \cup {s}
<1>1. ASSUME NEW u \in Sids PROVE RowSound(u, sk[u], more, pe, tp, g)
  <2>1. CASE u = s BY <2>1
  <2>2. CASE u # s
    <3> DEFINE r == sk[u]
    <3>1. (u \in more <=> u \in op) /\ RowSound(u, r, op, pe, tp, g) BY <2>2 DEF TcpSound
    <3> HIDE DEF r, more
    <3>2. RowSound(u, r, more, pe, tp, g) BY <3>1, OpenLocal
    <3> QED BY <3>2 DEF r
  <2> QED BY <2>1, <2>2
<1>2. Queues(sk, more) BY DEF TcpSound, Queues
<1>3. Children(sk, more) BY DEF TcpSound, Children
<1>4. \A cl : CallsSound(sk, op, cl) => CallsSound(sk, more, cl) BY DEF CallsSound, Settled
<1> QED BY <1>1, <1>2, <1>3, <1>4 DEF TcpSound

(* The first connection leaves the queue of s.                               *)
PopOf(sk, s) == [sk EXCEPT ![s].aq = Tail(sk[s].aq)]
FirstOf(sk, s) == Head(sk[s].aq)
OffQueues(child, sk) == \A v \in Sids : \A i \in 1 .. Len(sk[v].aq) : sk[v].aq[i] # child

LEMMA PopSound ==
    ASSUME NEW sk, NEW op, NEW pe, NEW tp, NEW g, NEW s \in Sids, TcpSound(sk, op, pe, tp, g),
           s \in op, sk[s].aq # <<>>, NEW nk, nk = PopOf(sk, s),
           NEW taken, taken = FirstOf(sk, s), NEW cl, CallsSound(sk, op, cl)
    PROVE  /\ TcpSound(nk, op, pe, tp, g) /\ CallsSound(nk, op, cl)
           /\ OffQueues(taken, nk) /\ Waits(taken, nk, op)
<1> DEFINE r == sk[s]
           aq == Tail(r.aq)
           q == [r EXCEPT !.aq = aq]
<1>1. /\ sk \in [Sids -> SockRows] /\ op \subseteq Sids
      /\ Ports(sk) /\ Children(sk, op) /\ Queues(sk, op)
      /\ \A u \in Sids : RowSound(u, sk[u], op, pe, tp, g)
  BY DEF TcpSound
<1>2. /\ r \in SockRows /\ r.aq \in Seq(Sids) /\ aq \in Seq(Sids) /\ Len(aq) = Len(r.aq) - 1
      /\ Len(r.aq) \in Nat /\ 1 \in 1 .. Len(r.aq) /\ Head(r.aq) = r.aq[1]
      /\ \A i \in 1 .. Len(aq) : aq[i] = r.aq[i + 1] /\ i + 1 \in 1 .. Len(r.aq) /\ i + 1 # 1
  <2>1. r \in SockRows /\ r.aq \in Seq(Sids) BY <1>1 DEF SockRows
  <2> QED BY <2>1
<1>3. q = [r EXCEPT !.aq = aq] /\ nk = [sk EXCEPT ![s] = q] BY <1>1 DEF PopOf
<1> HIDE DEF r, aq, q
<1>4. q \in SockRows /\ SameRow(q, r) /\ q.parent = r.parent /\ q.aq = aq BY <1>2, <1>3 DEF SockRows, SameRow
<1>5. RowSound(s, r, op, pe, tp, g) /\ r.used = TRUE
  <2>1. RowSound(s, r, op, pe, tp, g) /\ r.used \in BOOLEAN BY <1>1, <1>2 DEF r, SockRows
  <2> QED BY <2>1 DEF RowSound
<1>6. RowSound(s, q, op, pe, tp, g) BY <1>4, <1>5, SameLocal
<1>7. /\ nk \in [Sids -> SockRows] /\ nk[s] = q /\ (\A u \in Sids \ {s} : nk[u] = sk[u]) /\ sk[s] = r
  BY <1>1, <1>3, <1>4 DEF r
<1>8. ASSUME NEW u \in Sids
      PROVE  /\ RowSound(u, nk[u], op, pe, tp, g)
             /\ nk[u].used = sk[u].used /\ nk[u].bound = sk[u].bound /\ nk[u].lport = sk[u].lport
             /\ nk[u].remote = sk[u].remote /\ nk[u].parent = sk[u].parent
             /\ nk[u].connected = sk[u].connected /\ nk[u].state = sk[u].state
             /\ u # s => nk[u].aq = sk[u].aq
  <2>1. CASE u = s BY <1>4, <1>6, <1>7, <2>1 DEF SameRow
  <2>2. CASE u # s BY <1>1, <1>7, <2>2
  <2> QED BY <2>1, <2>2
<1>9. Ports(nk) BY <1>1, <1>8 DEF Ports
<1>10. Children(nk, op)
  <2> SUFFICES ASSUME NEW u \in Sids, nk[u].parent # NULL
               PROVE  nk[u].parent \in op /\ nk[nk[u].parent].used = TRUE
    BY DEF Children
  <2>1. nk[u].parent = sk[u].parent BY <1>8
  <2>2. sk[u].parent \in op /\ sk[sk[u].parent].used = TRUE BY <1>1, <2>1 DEF Children
  <2> QED BY <1>1, <1>8, <2>1, <2>2
(* Where the elements of the queues were before.                             *)
<1>11. ASSUME NEW v \in Sids, NEW i \in 1 .. Len(nk[v].aq)
       PROVE  \/ v # s /\ i \in 1 .. Len(sk[v].aq) /\ nk[v].aq[i] = sk[v].aq[i]
              \/ v = s /\ i + 1 \in 1 .. Len(sk[v].aq) /\ i + 1 # 1 /\ nk[v].aq[i] = sk[v].aq[i + 1]
  <2>1. CASE v # s BY <1>8, <2>1
  <2>2. CASE v = s
    <3>1. nk[v].aq = aq /\ sk[v].aq = r.aq BY <1>4, <1>7, <2>2
    <3> QED BY <1>2, <2>2, <3>1
  <2> QED BY <2>1, <2>2
<1>12. Queues(nk, op)
  <2>2. ASSUME NEW v \in Sids, NEW i \in 1 .. Len(nk[v].aq)
        PROVE  Waits(nk[v].aq[i], nk, op)
    <3> DEFINE child == nk[v].aq[i]
    <3>2. child = nk[v].aq[i] OBVIOUS
    <3> HIDE DEF child
    <3>1. Waits(child, sk, op)
      <4>1. CASE i \in 1 .. Len(sk[v].aq) /\ child = sk[v].aq[i] BY <1>1, <4>1, QueuedIs
      <4>2. CASE i + 1 \in 1 .. Len(sk[v].aq) /\ child = sk[v].aq[i + 1] BY <1>1, <4>2, QueuedIs
      <4> QED BY <1>11, <2>2, <3>2, <4>1, <4>2
    <3>3. Waits(child, nk, op) BY <1>8, <3>1 DEF Waits
    <3> QED BY <3>3 DEF child
  <2>3. ASSUME NEW v \in Sids, NEW i \in 1 .. Len(nk[v].aq), NEW u \in Sids, NEW j \in 1 .. Len(nk[u].aq),
               nk[u].aq[j] = nk[v].aq[i]
        PROVE  u = v /\ j = i
    <3>1. \A x, y \in Sids : \A a \in 1 .. Len(sk[x].aq), b \in 1 .. Len(sk[y].aq) :
             sk[y].aq[b] = sk[x].aq[a] => y = x /\ b = a
      BY <1>1 DEF Queues
    <3> DEFINE old(x, a) == IF x = s THEN a + 1 ELSE a
    <3>2. old(v, i) \in 1 .. Len(sk[v].aq) /\ nk[v].aq[i] = sk[v].aq[old(v, i)] BY <1>11
    <3>3. old(u, j) \in 1 .. Len(sk[u].aq) /\ nk[u].aq[j] = sk[u].aq[old(u, j)] BY <1>11
    <3>4. u = v /\ old(u, j) = old(v, i) BY <2>3, <3>1, <3>2, <3>3, SMTT(30)
    <3> QED BY <3>4
  <2>4. ASSUME NEW v \in Sids, NEW i \in 1 .. Len(nk[v].aq)
        PROVE  LET child == nk[v].aq[i] IN
               /\ nk[child].used = TRUE /\ nk[child].connected = TRUE /\ nk[child].parent = NULL
               /\ child \notin op
               /\ \A u \in Sids : \A j \in 1 .. Len(nk[u].aq) : nk[u].aq[j] = child => u = v /\ j = i
    <3> DEFINE x == nk[v].aq[i]
    <3>1. x = nk[v].aq[i] OBVIOUS
    <3>2. \A u \in Sids : \A j \in 1 .. Len(nk[u].aq) : nk[u].aq[j] = x => u = v /\ j = i BY <2>3
    <3> HIDE DEF x
    <3>3. Waits(x, nk, op) BY <2>2, <3>1
    <3> QED BY <3>1, <3>2, <3>3 DEF Waits
  <2> QED BY <2>4 DEF Queues
<1>13. ASSUME NEW v \in Sids, NEW i \in 1 .. Len(nk[v].aq) PROVE nk[v].aq[i] # Head(r.aq)
  <2>1. \A x, y \in Sids : \A a \in 1 .. Len(sk[x].aq), b \in 1 .. Len(sk[y].aq) :
           sk[y].aq[b] = sk[x].aq[a] => y = x /\ b = a
    BY <1>1 DEF Queues
  <2>2. 1 \in 1 .. Len(sk[s].aq) /\ Head(r.aq) = sk[s].aq[1] BY <1>2, <1>7
  <2> DEFINE old == IF v = s THEN i + 1 ELSE i
  <2>3. old \in 1 .. Len(sk[v].aq) /\ nk[v].aq[i] = sk[v].aq[old] /\ (v = s => old # 1) BY <1>11
  <2> HIDE DEF old
  <2> QED BY <2>1, <2>2, <2>3
<1>14. Waits(Head(r.aq), sk, op)
  <2> DEFINE h == Head(r.aq)
  <2>1. 1 \in 1 .. Len(sk[s].aq) /\ h = sk[s].aq[1] BY <1>2, <1>7
  <2> HIDE DEF h
  <2>2. Waits(h, sk, op) BY <1>1, <2>1, QueuedIs
  <2> QED BY <2>2 DEF h
<1>15. CallsSound(nk, op, cl)
  <2> SUFFICES ASSUME NEW t \in Threads, cl[t].op = "send" PROVE Settled(cl[t].s, nk[cl[t].s], op)
    BY DEF CallsSound
  <2> DEFINE z == cl[t].s
  <2>1. z \in op /\ z \in Sids /\ Settled(z, sk[z], op) BY <1>1 DEF CallsSound
  <2> HIDE DEF z
  <2>3. Settled(z, nk[z], op) BY <1>8, <2>1 DEF Settled
  <2> QED BY <2>3 DEF z
<1>16. TcpSound(nk, op, pe, tp, g) BY <1>7, <1>8, <1>9, <1>10, <1>12 DEF TcpSound
<1>17. /\ nk[Head(r.aq)].state = sk[Head(r.aq)].state
       /\ Waits(Head(r.aq), nk, op)
  BY <1>8, <1>14 DEF Waits
<1>18. OffQueues(Head(r.aq), nk) BY <1>13 DEF OffQueues
<1> QED BY <1>15, <1>16, <1>17, <1>18 DEF r, FirstOf

LEMMA InvParts == ASSUME TcpInv
                  PROVE  /\ TcpSound(socks, open, peer, toPeer, g_tcp_iss) /\ CallsSound(socks, open, call)
                         /\ socks \in [Sids -> SockRows] /\ open \subseteq Sids /\ g_tcp_iss \in Nat
                         /\ call \in [Threads -> CallRows] /\ peer \in [Conns -> PeerRows]
                         /\ Ports(socks) /\ Children(socks, open) /\ Queues(socks, open)
                         /\ \A s \in open : socks[s].used
<1>1. \A s \in Sids : socks[s].used \in BOOLEAN BY DEF TcpInv, TcpSound, SockRows
<1>2. \A s \in open : socks[s].used BY <1>1 DEF TcpInv, TcpSound, RowSound
<1> QED BY <1>2 DEF TcpInv, TcpSound, CallsSound, PeersSound

LEMMA InvAgain ==
    ASSUME TcpSound(socks', open', peer, toPeer, g_tcp_iss), CallsSound(socks', open', call'),
           UNCHANGED <<g_tcp_iss, netVars>>
    PROVE  TcpInv'
<1>1. UNCHANGED <<peer, toPeer, g_tcp_iss>> BY DEF netVars
<1> QED BY <1>1 DEF TcpInv

(* The call of one thread goes on, is over, or begins.                       *)
LEMMA CallGoes ==
    ASSUME NEW sk, NEW op, CallsSound(sk, op, call), NEW t \in Threads, NEW c \in CallRows, Rests(c),
           call' = [call EXCEPT ![t] = c],
           \/ c.op = "none"
           \/ c.op = call[t].op /\ c.s = call[t].s
           \/ c.s \in op /\ (c.op = "send" => Settled(c.s, sk[c.s], op))
    PROVE  CallsSound(sk, op, call')
<1>1. call \in [Threads -> CallRows] BY DEF CallsSound
<1>2. call' \in [Threads -> CallRows] /\ call'[t] = c /\ \A u \in Threads \ {t} : call'[u] = call[u]
  BY <1>1
<1>4. \A u \in Threads : Rests(call'[u])
  <2> TAKE u \in Threads
  <2>1. CASE u = t BY <1>2, <2>1
  <2>2. CASE u # t
    <3>1. call'[u] = call[u] BY <1>2, <2>2
    <3> QED BY <3>1 DEF CallsSound
  <2> QED BY <2>1, <2>2
<1>3. \A u \in Threads :
              \/ call'[u].op = "none"
              \/ call'[u].op = call[u].op /\ call'[u].s = call[u].s
              \/ call'[u].s \in op /\ (call'[u].op = "send" => Settled(call'[u].s, sk[call'[u].s], op))
  <2> TAKE u \in Threads
  <2>1. CASE u = t BY <1>2, <2>1
  <2>2. CASE u # t BY <1>2, <2>2
  <2> QED BY <2>1, <2>2
<1> QED BY <1>2, <1>3, <1>4, CallsStep

LEMMA ZeroIsSid == 0 \in Sids
BY TcpAssumption DEF TcpAssumption, Sids

LEMMA Returns ==
    ASSUME NEW sk, NEW op, CallsSound(sk, op, call), NEW t \in Threads, Return(t)
    PROVE  CallsSound(sk, op, call')
<1>1. Idle \in CallRows /\ Idle.op = "none" /\ Rests(Idle) BY ZeroIsSid DEF Idle, CallRows, Rests
<1>2. call' = [call EXCEPT ![t] = Idle] BY DEF Return
<1> HIDE DEF Idle
<1> QED BY <1>1, <1>2, CallGoes

LEMMA Begins ==
    ASSUME NEW sk, NEW op, CallsSound(sk, op, call), NEW t \in Threads, NEW s \in Sids, s \in op,
           NEW o \in {"connect", "send", "accept", "recv"}, NEW want \in Nat,
           o = "send" => Settled(s, sk[s], op), Begin(t, o, s, want)
    PROVE  CallsSound(sk, op, call')
<1> DEFINE c == [op |-> o, s |-> s, want |-> want, tries |-> 0, at |-> "poll"]
<1>1. c \in CallRows /\ c.op = o /\ c.s = s /\ Rests(c) BY DEF CallRows, Rests
<1>2. call' = [call EXCEPT ![t] = c] BY DEF Begin
<1> HIDE DEF c
<1>3. c.s \in op /\ (c.op = "send" => Settled(c.s, sk[c.s], op)) BY <1>1
<1> QED BY <1>1, <1>2, <1>3, CallGoes

(* sock_accept with a connection in the queue.                               *)
LEMMA TakeChildKeeps ==
    ASSUME TcpInv, NEW t \in Threads, NEW s \in open, TakeChild(t, s), UNCHANGED <<g_tcp_iss, netVars>>
    PROVE  TcpInv'
<1> DEFINE child == Head(socks[s].aq)
           popped == [socks EXCEPT ![s].aq = Tail(socks[s].aq)]
<1>1. /\ socks[s].aq # <<>>
      /\ \/ socks' = popped /\ UNCHANGED open
         \/ popped[child].state = "ESTABLISHED" /\ socks' = popped /\ open' = open \cup {child}
         \/ socks' = [popped EXCEPT ![child] = Unused] /\ UNCHANGED open
      /\ Return(t)
  BY DEF TakeChild
<1>2. s \in Sids /\ TcpSound(socks, open, peer, toPeer, g_tcp_iss)
      /\ CallsSound(socks, open, call)
  BY InvParts
<1>3. popped = PopOf(socks, s) /\ child = FirstOf(socks, s) BY DEF PopOf, FirstOf
<1> HIDE DEF popped, child
<1>8. s \in Sids /\ socks[s].aq # <<>> BY <1>1, <1>2
<1>9. TcpSound(socks, open, peer, toPeer, g_tcp_iss) /\ CallsSound(socks, open, call) BY <1>2
<1>4. /\ TcpSound(popped, open, peer, toPeer, g_tcp_iss) /\ CallsSound(popped, open, call)
      /\ OffQueues(child, popped) /\ Waits(child, popped, open)
  BY <1>3, <1>8, <1>9, PopSound, ZenonT(60)
<1>5. CASE socks' = popped /\ UNCHANGED open
  <2>1. CallsSound(popped, open, call') BY <1>1, <1>4, Returns
  <2> QED BY <1>4, <1>5, <2>1, InvAgain
<1>6. CASE popped[child].state = "ESTABLISHED" /\ socks' = popped /\ open' = open \cup {child}
  <2> DEFINE r == popped[child]
             more == open \cup {child}
  <2>1. child \in Sids /\ RowSound(child, r, open, peer, toPeer, g_tcp_iss) BY <1>4 DEF Waits, TcpSound
  <2>2. r.used = TRUE /\ r.state = "ESTABLISHED" /\ r.parent = NULL /\ child \in more
    BY <1>4, <1>6 DEF Waits
  <2> HIDE DEF r, more
  <2>3. RowSound(child, r, more, peer, toPeer, g_tcp_iss) BY <2>1, <2>2, TakenLocal
  <2>4. RowSound(child, popped[child], open \cup {child}, peer, toPeer, g_tcp_iss) BY <2>3, Zenon DEF r, more
  <2>5. /\ TcpSound(popped, open \cup {child}, peer, toPeer, g_tcp_iss)
        /\ CallsSound(popped, open \cup {child}, call)
    BY <1>4, <2>1, <2>4, OpenSound DEF OffQueues
  <2>6. CallsSound(popped, open \cup {child}, call') BY <1>1, <2>5, Returns
  <2> QED BY <1>6, <2>5, <2>6, InvAgain
<1>7. CASE socks' = [popped EXCEPT ![child] = Unused] /\ UNCHANGED open
  <2> DEFINE S == {child}
             nk == [u \in Sids |-> IF u \in S THEN Unused ELSE popped[u]]
  <2>0. popped \in [Sids -> SockRows] /\ Children(popped, open) /\ open \subseteq Sids BY <1>4 DEF TcpSound
  <2>1. child \in Sids /\ child \notin open BY <1>4 DEF Waits
  <2>2. socks' = nk
    <3> HIDE DEF Unused
    <3> QED BY <1>7, <2>0, <2>1
  <2>3. \A u \in Sids : u \in S => u \notin open BY <2>1
  <2>4. \A u \in Sids : u \notin S => (u \in open <=> u \in open)
                                     /\ (popped[u].parent # NULL => popped[u].parent \notin S)
    BY <2>0, <2>1 DEF Children
  <2>5. \A v \in Sids : \A i \in 1 .. Len(popped[v].aq) : popped[v].aq[i] \notin S BY <1>4 DEF OffQueues
  <2>6. \A u \in Threads : call[u].op # "none" => call[u].s \notin S
    BY <1>4, <2>1 DEF CallsSound
  <2>7. nk = [u \in Sids |-> IF u \in S THEN Unused ELSE popped[u]] OBVIOUS
  <2> HIDE DEF nk, S
  <2>8. TcpSound(nk, open, peer, toPeer, g_tcp_iss) /\ CallsSound(nk, open, call)
    BY <1>4, <2>3, <2>4, <2>5, <2>6, <2>7, ResetSound
  <2>9. CallsSound(nk, open, call') BY <1>1, <2>8, Returns
  <2> QED BY <1>7, <2>2, <2>8, <2>9, InvAgain
<1> QED BY <1>1, <1>5, <1>6, <1>7

(* sock_recv with a byte, or with none to come.                              *)
LEMMA TakeByteKeeps ==
    ASSUME TcpInv, NEW t \in Threads, NEW s \in open, TakeByte(t, s), UNCHANGED <<g_tcp_iss, netVars>>
    PROVE  TcpInv'
<1> DEFINE r == socks[s]
<1>1. /\ s \in Sids /\ r.used /\ TcpSound(socks, open, peer, toPeer, g_tcp_iss)
      /\ CallsSound(socks, open, call) /\ RowSound(s, r, open, peer, toPeer, g_tcp_iss)
  BY InvParts DEF TcpSound
<1>2. UNCHANGED open /\ Return(t) BY DEF TakeByte
<1>3. CASE r.rx # <<>> /\ socks' = [socks EXCEPT ![s].rx = Tail(@), ![s].read = @ + 1]
  <2> DEFINE q == [r EXCEPT !.rx = Tail(r.rx), !.read = r.read + 1]
  <2>1. socks' = [socks EXCEPT ![s] = q] BY <1>1, <1>3, InvParts
  <2> HIDE DEF r
  <2>2. RowSound(s, q, open, peer, toPeer, g_tcp_iss) /\ LikeRow(q, r) BY <1>1, <1>3, TakeByteLocal
  <2> HIDE DEF q
  <2>3. TcpSound(socks', open, peer, toPeer, g_tcp_iss) /\ CallsSound(socks', open, call)
    BY <1>1, <2>1, <2>2, OneLike DEF r
  <2>4. CallsSound(socks', open, call') BY <1>2, <2>3, Returns
  <2> QED BY <1>2, <2>3, <2>4, InvAgain
<1>4. CASE UNCHANGED socks
  <2>1. CallsSound(socks, open, call') BY <1>1, <1>2, Returns
  <2> QED BY <1>1, <1>2, <1>4, <2>1, InvAgain
<1> QED BY <1>3, <1>4 DEF TakeByte

LEMMA AcceptKeeps == ASSUME TcpInv, NEW t \in Threads, NEW s \in Sids, Accept(t, s) PROVE TcpInv'
<1>1. /\ s \in open /\ UNCHANGED <<g_tcp_iss, netVars>>
      /\ TakeChild(t, s) \/ (Begin(t, "accept", s, 0) /\ UNCHANGED <<socks, open>>)
  BY DEF Accept
<1>2. CASE TakeChild(t, s) BY <1>1, <1>2, TakeChildKeeps
<1>3. CASE Begin(t, "accept", s, 0) /\ UNCHANGED <<socks, open>>
  <2>1. CallsSound(socks, open, call') BY <1>1, <1>3, InvParts, Begins
  <2> QED BY <1>1, <1>3, <2>1, InvParts, InvAgain
<1> QED BY <1>1, <1>2, <1>3

LEMMA RecvKeeps == ASSUME TcpInv, NEW t \in Threads, NEW s \in Sids, Recv(t, s) PROVE TcpInv'
<1>1. /\ s \in open /\ UNCHANGED <<g_tcp_iss, netVars>>
      /\ TakeByte(t, s) \/ (Begin(t, "recv", s, 0) /\ UNCHANGED <<socks, open>>)
  BY DEF Recv
<1>2. CASE TakeByte(t, s) BY <1>1, <1>2, TakeByteKeeps
<1>3. CASE Begin(t, "recv", s, 0) /\ UNCHANGED <<socks, open>>
  <2>1. CallsSound(socks, open, call') BY <1>1, <1>3, InvParts, Begins
  <2> QED BY <1>1, <1>3, <2>1, InvParts, InvAgain
<1> QED BY <1>1, <1>2, <1>3

(* What a thread does on a socket of its own that the others do not see.      *)
LEMMA RowMoves ==
    ASSUME TcpInv, NEW s \in open, NEW q, RowSound(s, q, open, peer, toPeer, g_tcp_iss), LikeRow(q, socks[s]),
           socks' = [socks EXCEPT ![s] = q],
           NEW t \in Threads, NEW c \in CallRows, Rests(c), call' = [call EXCEPT ![t] = c],
           \/ c.op = "none"
           \/ c.op = call[t].op /\ c.s = call[t].s,
           UNCHANGED <<open, g_tcp_iss, netVars>>
    PROVE  TcpInv'
<1>1. TcpSound(socks, open, peer, toPeer, g_tcp_iss) /\ CallsSound(socks, open, call) /\ s \in Sids
  BY InvParts
<1>2. TcpSound(socks', open, peer, toPeer, g_tcp_iss) /\ CallsSound(socks', open, call) BY <1>1, OneLike
<1>3. CallsSound(socks', open, call') BY <1>2, CallGoes
<1> QED BY <1>2, <1>3, InvAgain

LEMMA CallRow == ASSUME TcpInv, NEW t \in Threads
                 PROVE  /\ call[t] \in CallRows /\ Rests(call[t]) /\ call[t].tries \in Nat /\ call[t].want \in Nat
                        /\ call[t].op # "none" => call[t].s \in open
                        /\ call[t].op = "send" => Settled(call[t].s, socks[call[t].s], open)
<1>1. call[t] \in CallRows BY InvParts
<1>2. CallsSound(socks, open, call) BY InvParts
<1> QED BY <1>1, <1>2 DEF CallRows, CallsSound

LEMMA BlockKeeps == ASSUME TcpInv, NEW t \in Threads, Block(t) PROVE TcpInv'
<1> DEFINE r == socks[call[t].s]
           s == call[t].s
           c == [call[t] EXCEPT !.at = "sleep"]
           q == [r EXCEPT !.waiter = t]
<1>0. call[t].at = "poll" BY DEF Block
<1>1. s \in open /\ call[t] \in CallRows /\ call[t].op # "none" BY <1>0, CallRow DEF Rests
<1>2. /\ socks \in [Sids -> SockRows] /\ call \in [Threads -> CallRows] /\ s \in Sids
      /\ RowSound(s, r, open, peer, toPeer, g_tcp_iss) /\ r.used
  BY <1>1, InvParts DEF TcpSound
<1>3. /\ socks' = [socks EXCEPT ![s] = q] /\ call' = [call EXCEPT ![t] = c]
      /\ UNCHANGED <<open, g_tcp_iss, netVars>>
  BY <1>2 DEF Block
<1>4. c \in CallRows /\ Rests(c) /\ c.op = call[t].op /\ c.s = call[t].s BY <1>1 DEF CallRows, Rests
<1> HIDE DEF r
<1>5. RowSound(s, q, open, peer, toPeer, g_tcp_iss) /\ LikeRow(q, r) BY <1>2, WaiterLocal
<1> HIDE DEF s, c, q
<1> QED BY <1>1, <1>3, <1>4, <1>5, RowMoves DEF r, s

LEMMA TickKeeps == ASSUME TcpInv, NEW t \in Threads, Tick(t) PROVE TcpInv'
<1> DEFINE c == [call[t] EXCEPT !.at = "loop"]
<1>1. call[t] \in CallRows /\ call \in [Threads -> CallRows] BY CallRow, InvParts
<1>2. call' = [call EXCEPT ![t] = c] /\ UNCHANGED <<socks, open, g_tcp_iss, netVars>> BY <1>1 DEF Tick
<1>3. c \in CallRows /\ Rests(c) /\ c.op = call[t].op /\ c.s = call[t].s BY <1>1 DEF CallRows, Rests
<1> HIDE DEF c
<1>4. TcpSound(socks, open, peer, toPeer, g_tcp_iss) /\ CallsSound(socks, open, call) BY InvParts
<1>5. CallsSound(socks, open, call') BY <1>2, <1>3, <1>4, CallGoes
<1> QED BY <1>2, <1>4, <1>5, InvAgain

LEMMA AgainKeeps == ASSUME TcpInv, NEW t \in Threads, Again(t) \/ AgainForEver(t), call[t].op # "none",
                           UNCHANGED <<open, g_tcp_iss, netVars>>
                    PROVE  TcpInv'
<1> DEFINE n == IF Again(t) THEN call[t].tries + 1 ELSE call[t].tries
           c == [call[t] EXCEPT !.at = "poll", !.tries = n]
<1>1. call[t] \in CallRows /\ call \in [Threads -> CallRows] /\ n \in Nat BY CallRow, InvParts
<1>2. call' = [call EXCEPT ![t] = c] /\ UNCHANGED socks
  <2>1. CASE Again(t) BY <1>1, <2>1 DEF Again
  <2>2. CASE ~Again(t) /\ AgainForEver(t)
    <3>1. n = call[t].tries BY <2>2
    <3>2. c = [call[t] EXCEPT !.at = "poll"] BY <1>1, <3>1 DEF CallRows
    <3> QED BY <1>1, <2>2, <3>2 DEF AgainForEver
  <2> QED BY <2>1, <2>2
<1> HIDE DEF n
<1>3. c \in CallRows /\ Rests(c) /\ c.op = call[t].op /\ c.s = call[t].s BY <1>1 DEF CallRows, Rests
<1> HIDE DEF c
<1>4. TcpSound(socks, open, peer, toPeer, g_tcp_iss) /\ CallsSound(socks, open, call) BY InvParts
<1>5. CallsSound(socks, open, call') BY <1>2, <1>3, <1>4, CallGoes
<1> QED BY <1>2, <1>4, <1>5, InvAgain

LEMMA ReturnKeeps == ASSUME TcpInv, NEW t \in Threads, Return(t),
                            UNCHANGED <<socks, open, g_tcp_iss, netVars>>
                     PROVE  TcpInv'
BY InvParts, Returns, InvAgain

(* The error of sock_connect.                                                *)
LEMMA ConnectFailsKeeps ==
    ASSUME TcpInv, NEW t \in Threads, NEW s \in open, ConnectFails(t, s), UNCHANGED <<open, g_tcp_iss, netVars>>
    PROVE  TcpInv'
<1> DEFINE r == socks[s]
           f == Failed(r, TRUE)
           q == [f EXCEPT !.waiter = NULL]
<1>1. /\ socks \in [Sids -> SockRows] /\ call \in [Threads -> CallRows] /\ s \in Sids
      /\ RowSound(s, r, open, peer, toPeer, g_tcp_iss) /\ r.used
      /\ TcpSound(socks, open, peer, toPeer, g_tcp_iss) /\ CallsSound(socks, open, call)
  BY InvParts DEF TcpSound
<1>2. /\ socks' = [socks EXCEPT ![s] = q]
      /\ call' = [u \in Threads |->
                   CASE u = t -> Idle
                     [] u # t /\ u = r.waiter /\ call[u].at = "sleep" -> [call[u] EXCEPT !.at = "loop"]
                     [] OTHER -> call[u]]
  BY DEF ConnectFails
<1>3. RowSound(s, q, open, peer, toPeer, g_tcp_iss) /\ LikeRow(q, r)
  <2>0. RowSound(s, r, open, peer, toPeer, g_tcp_iss) /\ r.used BY <1>1
  <2> HIDE DEF r
  <2>1. f = Failed(r, TRUE) OBVIOUS
  <2> HIDE DEF f
  <2>2. RowSound(s, f, open, peer, toPeer, g_tcp_iss) /\ GaveUp(f, r) BY <2>0, <2>1, FailedLocal
  <2>3. f.used = TRUE /\ NULL \in Threads \cup {NULL} BY <2>2 DEF GaveUp
  <2>4. RowSound(s, q, open, peer, toPeer, g_tcp_iss) /\ LikeRow(q, f) BY <2>2, <2>3, WaiterLocal
  <2>5. LikeRow(f, r) BY <2>0, <2>2 DEF LikeRow, GaveUp
  <2> QED BY <2>4, <2>5, LikeTwice
<1> HIDE DEF q
<1>4. TcpSound(socks', open, peer, toPeer, g_tcp_iss) /\ CallsSound(socks', open, call)
  BY <1>1, <1>2, <1>3, OneLike
<1>5. ASSUME NEW u \in Threads
      PROVE  /\ call'[u] \in CallRows /\ Rests(call'[u])
             /\ call'[u].op = "none" \/ (call'[u].op = call[u].op /\ call'[u].s = call[u].s)
  <2>1. Idle \in CallRows /\ Idle.op = "none" /\ Rests(Idle) BY ZeroIsSid DEF Idle, CallRows, Rests
  <2>2. call[u] \in CallRows /\ Rests(call[u]) BY CallRow
  <2>3. call'[u] = Idle \/ call'[u] = call[u] \/ call'[u] = [call[u] EXCEPT !.at = "loop"] BY <1>2
  <2> HIDE DEF Idle
  <2> QED BY <2>1, <2>2, <2>3 DEF CallRows, Rests
<1>6. call' \in [Threads -> CallRows]
  <2>1. call' = [u \in Threads |-> call'[u]] BY <1>2
  <2> QED BY <1>5, <2>1
<1>7. CallsSound(socks', open, call') BY <1>4, <1>5, <1>6, CallsStep
<1> QED BY <1>4, <1>7, InvAgain

LEMMA ResumeSendKeeps ==
    ASSUME TcpInv, NEW t \in Threads, call[t].op = "send", ResumeSend(t, call[t].s),
           UNCHANGED <<open, g_tcp_iss, netVars>>
    PROVE  TcpInv'
<1> DEFINE s == call[t].s
           r == socks[s]
           want == call[t].want
           q == [r EXCEPT !.told = want]
<1>1. s \in open /\ call[t].op # "none" /\ want \in Nat /\ Settled(s, r, open) BY CallRow
<1>2. /\ TcpSound(socks, open, peer, toPeer, g_tcp_iss) /\ CallsSound(socks, open, call)
      /\ RowSound(s, r, open, peer, toPeer, g_tcp_iss) /\ r.used /\ s \in Sids /\ r \in SockRows
  BY <1>1, InvParts DEF TcpSound
<1>3. CASE r.una >= want /\ socks' = [socks EXCEPT ![s] = q] /\ Return(t)
  <2>1. peer[Ends(r)] \in PeerRows
    <3>1. r.connected = TRUE /\ Kinds(s, r, open)
      <4>1. r.used = TRUE BY <1>2 DEF SockRows
      <4> QED BY <1>1, <1>2, <4>1 DEF Settled, RowSound
    <3> HIDE DEF r
    <3>2. Ends(r) \in Conns BY <1>2, <3>1, EndsIn
    <3> QED BY <3>2, InvParts
  <2>2. socks' = [socks EXCEPT ![s] = q] /\ Return(t) /\ want <= r.una
    <3>1. r.una \in Nat BY <1>2 DEF SockRows
    <3> QED BY <1>1, <1>3, <3>1
  <2> HIDE DEF s, r, want
  <2>3. RowSound(s, q, open, peer, toPeer, g_tcp_iss) /\ LikeRow(q, r) BY <1>1, <1>2, <2>1, <2>2, ToldLocal
  <2> HIDE DEF q
  <2>4. TcpSound(socks', open, peer, toPeer, g_tcp_iss) /\ CallsSound(socks', open, call)
    BY <1>2, <2>2, <2>3, OneLike DEF r
  <2>5. CallsSound(socks', open, call') BY <2>2, <2>4, Returns
  <2> QED BY <2>4, <2>5, InvAgain
<1>4. CASE Return(t) /\ UNCHANGED socks BY <1>4, ReturnKeeps
<1>5. CASE Again(t)
  <2>1. call[t].op # "none" BY <1>1
  <2> QED BY <1>5, <2>1, AgainKeeps
<1> QED BY <1>3, <1>4, <1>5 DEF ResumeSend, AllAcked

LEMMA ResumeConnectKeeps ==
    ASSUME TcpInv, NEW t \in Threads, call[t].op = "connect", ResumeConnect(t, call[t].s),
           UNCHANGED <<open, g_tcp_iss, netVars>>
    PROVE  TcpInv'
<1> DEFINE s == call[t].s
<1>1. s \in open /\ call[t].op # "none" BY CallRow
<1>2. \/ Return(t) /\ UNCHANGED socks
      \/ ConnectFails(t, s)
      \/ Again(t)
  BY DEF ResumeConnect
<1> HIDE DEF s
<1>3. CASE Return(t) /\ UNCHANGED socks BY <1>3, ReturnKeeps
<1>4. CASE ConnectFails(t, s) BY <1>1, <1>4, ConnectFailsKeeps
<1>5. CASE Again(t) BY <1>1, <1>5, AgainKeeps
<1> QED BY <1>2, <1>3, <1>4, <1>5

LEMMA ResumeKeeps == ASSUME TcpInv, NEW t \in Threads, Resume(t) PROVE TcpInv'
<1> DEFINE s == call[t].s
<1>1. /\ call[t].op # "none" /\ UNCHANGED <<g_tcp_iss, netVars>>
      /\ \/ call[t].op = "connect" /\ ResumeConnect(t, s) /\ UNCHANGED open
         \/ call[t].op = "send" /\ ResumeSend(t, s) /\ UNCHANGED open
         \/ TakeChild(t, s)
         \/ AgainForEver(t) /\ UNCHANGED open
         \/ TakeByte(t, s)
  BY DEF Resume
<1>2. s \in open BY <1>1, CallRow
<1>3. CASE call[t].op = "connect" /\ ResumeConnect(t, s) /\ UNCHANGED open
  BY <1>1, <1>3, ResumeConnectKeeps
<1>4. CASE call[t].op = "send" /\ ResumeSend(t, s) /\ UNCHANGED open
  BY <1>1, <1>4, ResumeSendKeeps
<1> HIDE DEF s
<1>5. CASE TakeChild(t, s) BY <1>1, <1>2, <1>5, TakeChildKeeps
<1>6. CASE AgainForEver(t) /\ UNCHANGED open BY <1>1, <1>6, AgainKeeps
<1>7. CASE TakeByte(t, s) BY <1>1, <1>2, <1>7, TakeByteKeeps
<1> QED BY <1>1, <1>3, <1>4, <1>5, <1>6, <1>7
-----------------------------------------------------------------------------
LEMMA ListenKeeps == ASSUME TcpInv, NEW t \in Threads, NEW s \in Sids, NEW backlog \in BOOLEAN,
                            Listen(t, s, backlog)
                     PROVE  TcpInv'
<1> DEFINE r == socks[s]
           q == [r EXCEPT !.backlog = backlog, !.state = "LISTEN"]
<1>1. /\ s \in open /\ r.bound /\ r.state = "CLOSED" /\ ~r.connected
      /\ UNCHANGED <<open, call, g_tcp_iss, netVars>>
  BY DEF Listen
<1>2. /\ TcpSound(socks, open, peer, toPeer, g_tcp_iss) /\ CallsSound(socks, open, call)
      /\ RowSound(s, r, open, peer, toPeer, g_tcp_iss) /\ r.used /\ r \in SockRows
      /\ socks \in [Sids -> SockRows]
  BY <1>1, InvParts DEF TcpSound
<1>3. r.bound = TRUE /\ r.connected = FALSE /\ r.used = TRUE BY <1>1, <1>2 DEF SockRows
<1>4. socks' = [socks EXCEPT ![s] = q] BY <1>2 DEF Listen
<1> HIDE DEF r
<1>5. RowSound(s, q, open, peer, toPeer, g_tcp_iss) BY <1>1, <1>2, <1>3, ListenLocal
<1>6. LikeRow(q, r) BY <1>2, <1>3 DEF LikeRow, SockRows
<1> HIDE DEF q
<1>7. TcpSound(socks', open, peer, toPeer, g_tcp_iss) /\ CallsSound(socks', open, call)
  BY <1>2, <1>4, <1>5, <1>6, OneLike DEF r
<1>8. CallsSound(socks', open, call') BY <1>1, <1>7
<1> QED BY <1>1, <1>7, <1>8, InvAgain

(* sock_close of sockets of the program, with what becomes of their children. *)
LEMMA ResetKeeps ==
    ASSUME TcpInv, NEW gone \in SUBSET open, NEW cl, CallsSound(socks, open, cl),
           \A t \in Threads : cl[t].op # "none" => cl[t].s \notin gone
    PROVE  /\ TcpSound(Reset(gone), open \ gone, peer, toPeer, g_tcp_iss)
           /\ CallsSound(Reset(gone), open \ gone, cl)
<1> DEFINE S == {u \in Sids : u \in gone \/ (socks[u].used /\ socks[u].parent \in gone)}
           nk == [u \in Sids |-> IF u \in S THEN Unused ELSE socks[u]]
           more == open \ gone
<1>1. /\ TcpSound(socks, open, peer, toPeer, g_tcp_iss) /\ Children(socks, open) /\ Queues(socks, open)
      /\ socks \in [Sids -> SockRows] /\ open \subseteq Sids
  BY InvParts
<1>2. NULL \notin Sids BY TcpAssumption DEF TcpAssumption
<1>3. ASSUME NEW u \in Sids, socks[u].parent # NULL
      PROVE  socks[u].used /\ u \notin open /\ socks[u].parent \in open
  <2> DEFINE r == socks[u]
  <2>1. r \in SockRows /\ RowSound(u, r, open, peer, toPeer, g_tcp_iss) /\ r.parent # NULL BY <1>3, UsedRow
  <2>4. r.parent \in open BY <1>1, <1>3 DEF Children
  <2> HIDE DEF r
  <2>2. r.used
    <3>1. CASE r.used = FALSE BY <2>1, <3>1, RowTypes DEF RowSound
    <3> QED BY <2>1, <3>1 DEF SockRows
  <2>3. r.used = TRUE BY <2>1, <2>2 DEF SockRows
  <2>5. u \notin open BY <2>1, <2>3 DEF RowSound, Kinds
  <2> QED BY <2>2, <2>4, <2>5 DEF r
<1>4. \A u \in Sids : u \in S => u \notin more
  <2> TAKE u \in Sids
  <2>1. CASE u \in gone BY <2>1
  <2>2. CASE socks[u].parent \in gone
    <3>1. socks[u].parent # NULL BY <1>1, <1>2, <2>2
    <3> QED BY <1>3, <3>1
  <2> QED BY <2>1, <2>2
<1>5. \A u \in Sids : u \notin S => (u \in more <=> u \in open)
                                   /\ (socks[u].parent # NULL => socks[u].parent \notin S)
  <2> SUFFICES ASSUME NEW u \in Sids, u \notin S
               PROVE  (u \in more <=> u \in open) /\ (socks[u].parent # NULL => socks[u].parent \notin S)
    OBVIOUS
  <2>1. u \in more <=> u \in open OBVIOUS
  <2>2. ASSUME socks[u].parent # NULL PROVE socks[u].parent \notin S
    <3>1. socks[u].used /\ socks[u].parent \in open BY <1>3, <2>2
    <3>2. socks[u].parent \notin gone BY <3>1
    <3> DEFINE p == socks[u].parent
    <3>3. p \in open /\ p \notin gone /\ p \in Sids BY <1>1, <3>1, <3>2
    <3> HIDE DEF p
    <3>4. socks[p].parent \notin gone
      <4>1. CASE socks[p].parent = NULL BY <1>1, <1>2, <4>1
      <4>2. CASE socks[p].parent # NULL BY <1>3, <3>3, <4>2
      <4> QED BY <4>1, <4>2
    <3>5. p \notin S BY <3>3, <3>4
    <3> QED BY <3>5 DEF p
  <2> QED BY <2>1, <2>2
<1>6. \A v \in Sids : \A i \in 1 .. Len(socks[v].aq) : socks[v].aq[i] \notin S
  <2> SUFFICES ASSUME NEW v \in Sids, NEW i \in 1 .. Len(socks[v].aq) PROVE socks[v].aq[i] \notin S
    OBVIOUS
  <2> DEFINE child == socks[v].aq[i]
  <2>1. child = socks[v].aq[i] OBVIOUS
  <2> HIDE DEF child
  <2>2. Waits(child, socks, open) BY <1>1, <2>1, QueuedIs
  <2>3. child \notin open /\ socks[child].parent = NULL BY <2>2 DEF Waits
  <2>4. child \notin S BY <1>1, <1>2, <2>3
  <2> QED BY <2>4 DEF child
<1>7. \A t \in Threads : cl[t].op # "none" => cl[t].s \notin S
  <2> SUFFICES ASSUME NEW t \in Threads, cl[t].op # "none" PROVE cl[t].s \notin S
    OBVIOUS
  <2>1. cl[t].s \in open /\ cl[t].s \notin gone BY DEF CallsSound
  <2> DEFINE z == cl[t].s
  <2>2. z \in open /\ z \notin gone BY <2>1
  <2> HIDE DEF z
  <2>3. z \notin S BY <1>1, <1>4, <2>2
  <2> QED BY <2>3 DEF z
<1>8. Reset(gone) = nk BY DEF Reset
<1>9. more \subseteq open /\ nk = [u \in Sids |-> IF u \in S THEN Unused ELSE socks[u]] OBVIOUS
<1> HIDE DEF nk, S, more
<1>10. TcpSound(nk, more, peer, toPeer, g_tcp_iss) /\ CallsSound(nk, more, cl)
  BY <1>1, <1>4, <1>5, <1>6, <1>7, <1>9, ResetSound
<1> QED BY <1>8, <1>10 DEF more

LEMMA CloseKeeps == ASSUME TcpInv, NEW t \in Threads, NEW s \in Sids, Close(t, s) PROVE TcpInv'
<1> DEFINE gone == {s}
<1>1. /\ gone \in SUBSET open /\ socks' = Reset(gone) /\ open' = open \ gone
      /\ UNCHANGED <<call, g_tcp_iss, netVars>>
      /\ \A u \in Threads : call[u].op # "none" => call[u].s \notin gone
  BY DEF Close, InCall
<1> HIDE DEF gone
<1>2. /\ TcpSound(Reset(gone), open \ gone, peer, toPeer, g_tcp_iss)
      /\ CallsSound(Reset(gone), open \ gone, call)
  BY <1>1, InvParts, ResetKeeps
<1> QED BY <1>1, <1>2, InvAgain

LEMMA ExitKeeps == ASSUME TcpInv, Exit PROVE TcpInv'
<1> DEFINE cl == [t \in Threads |-> Idle]
<1>1. /\ open \in SUBSET open /\ socks' = Reset(open) /\ open' = open \ open /\ call' = cl
      /\ UNCHANGED <<g_tcp_iss, netVars>>
  BY DEF Exit
<1>2. Idle \in CallRows /\ Idle.op = "none" /\ Rests(Idle) BY ZeroIsSid DEF Idle, CallRows, Rests
<1> HIDE DEF Idle
<1>3. CallsSound(socks, open, cl) /\ \A t \in Threads : cl[t].op = "none" BY <1>2 DEF CallsSound
<1> HIDE DEF cl
<1>4. \A t \in Threads : cl[t].op # "none" => cl[t].s \notin open BY <1>3
<1>5. /\ TcpSound(Reset(open), open \ open, peer, toPeer, g_tcp_iss)
      /\ CallsSound(Reset(open), open \ open, cl)
  BY <1>1, <1>3, <1>4, ResetKeeps
<1> QED BY <1>1, <1>5, InvAgain

(* Socket s becomes q, and what is sent and the generation may go on.         *)
LEMMA PutSound ==
    ASSUME NEW sk, NEW op, NEW pe, NEW tp, NEW g, NEW s \in Sids, NEW q \in SockRows,
           TcpSound(sk, op, pe, tp, g),
           NEW nk, nk = PutOf(sk, s, q), NEW cl, CallsSound(sk, op, cl), Fits(sk, op, cl, s, q),
           NEW more, NEW h \in Nat, Offset(h) = 0, PeersSound(pe, h), SegsSound(more, h),
           RowSound(s, q, op, pe, more, h),
           \A u \in Sids \ {s} : RowSound(u, sk[u], op, pe, more, h)
    PROVE  TcpSound(nk, op, pe, more, h) /\ CallsSound(nk, op, cl)
<1>1. /\ nk \in [Sids -> SockRows] /\ nk[s] = q /\ (\A u \in Sids \ {s} : nk[u] = sk[u])
      /\ Ports(nk) /\ Children(nk, op) /\ Queues(nk, op) /\ CallsSound(nk, op, cl)
  BY PutShape
<1>2. op \subseteq Sids BY DEF TcpSound
<1>3. \A u \in Sids : RowSound(u, nk[u], op, pe, more, h)
  <2> TAKE u \in Sids
  <2>1. CASE u = s BY <1>1, <2>1
  <2>2. CASE u # s
    <3>1. nk[u] = sk[u] BY <1>1, <2>2
    <3> QED BY <2>2, <3>1
  <2> QED BY <2>1, <2>2
<1> QED BY <1>1, <1>2, <1>3 DEF TcpSound

LEMMA BindKeeps == ASSUME TcpInv, NEW t \in Threads, NEW s \in Sids, Bind(t, s) PROVE TcpInv'
<1> DEFINE r == socks[s]
           q == [r EXCEPT !.bound = TRUE, !.lport = Port]
<1>1. /\ s \in open /\ ~r.bound /\ ~PortInUse(Port) /\ UNCHANGED <<open, call, g_tcp_iss, netVars>>
  BY DEF Bind
<1>2. /\ TcpSound(socks, open, peer, toPeer, g_tcp_iss) /\ CallsSound(socks, open, call)
      /\ RowSound(s, r, open, peer, toPeer, g_tcp_iss) /\ r.used /\ r \in SockRows
      /\ socks \in [Sids -> SockRows]
      /\ PeersSound(peer, g_tcp_iss) /\ SegsSound(toPeer, g_tcp_iss) /\ g_tcp_iss \in Nat /\ Offset(g_tcp_iss) = 0
      /\ \A u \in Sids : RowSound(u, socks[u], open, peer, toPeer, g_tcp_iss)
  BY <1>1, InvParts DEF TcpSound
<1>3. r.bound = FALSE /\ r.used = TRUE BY <1>1, <1>2 DEF SockRows
<1>4. r.connected = FALSE BY <1>2, <1>3 DEF RowSound, Kinds
<1>5. socks' = PutOf(socks, s, q) BY <1>2 DEF Bind, PutOf
<1>6. \A c \in Threads : call[c].op = "send" => call[c].s # s
  <2> SUFFICES ASSUME NEW c \in Threads, call[c].op = "send", call[c].s = s PROVE FALSE
    OBVIOUS
  <2>1. Settled(s, r, open) BY CallRow
  <2> QED BY <1>4, <2>1 DEF Settled
<1>7. RowSound(s, q, open, peer, toPeer, g_tcp_iss) /\ q.aq = r.aq
  <2> HIDE DEF r
  <2>1. q.aq = r.aq BY <1>2 DEF SockRows
  <2>2. RowSound(s, q, open, peer, toPeer, g_tcp_iss) BY <1>2, <1>3, BindLocal
  <2> QED BY <2>1, <2>2
<1>8. q \in SockRows /\ q.used = TRUE /\ q.parent = r.parent /\ q.lport = Port /\ q.bound = TRUE
  <2> HIDE DEF r
  <2>1. Port \in Nat BY TcpAssumption DEF TcpAssumption
  <2> QED BY <1>2, <1>3, <2>1 DEF SockRows
<1>9. q.parent = NULL
  <2> HIDE DEF r
  <2>1. Kinds(s, r, open) BY <1>2, <1>3 DEF RowSound
  <2> QED BY <1>1, <1>8, <2>1 DEF Kinds
<1>10. NoClash(socks, s, q)
  <2>1. ASSUME NEW u \in Sids, socks[u].used = TRUE, socks[u].bound = TRUE PROVE socks[u].lport # Port
    BY <1>1, <2>1 DEF PortInUse
  <2> HIDE DEF q, r
  <2> QED BY <1>8, <2>1 DEF NoClash
<1>11. \A u \in Sids \ {s} : RowSound(u, socks[u], open, peer, toPeer, g_tcp_iss) BY <1>2
<1>12. q.aq = socks[s].aq BY <1>7
<1> HIDE DEF q, r
<1>15. Fits(socks, open, call, s, q) BY <1>1, <1>6, <1>8, <1>9, <1>10, <1>12 DEF Fits
<1>13. TcpSound(socks', open, peer, toPeer, g_tcp_iss) /\ CallsSound(socks', open, call)
  BY <1>2, <1>5, <1>7, <1>8, <1>11, <1>15, PutSound
<1>14. CallsSound(socks', open, call') BY <1>1, <1>13
<1> QED BY <1>1, <1>13, <1>14, InvAgain

LEMMA CreateKeeps == ASSUME TcpInv, NEW t \in Threads, NEW s \in Sids, Create(t, s) PROVE TcpInv'
<1> DEFINE q == Fresh
           more == open \cup {s}
<1>1. /\ ~socks[s].used /\ socks' = PutOf(socks, s, q) /\ open' = more
      /\ UNCHANGED <<call, g_tcp_iss, netVars>>
  BY DEF Create, FirstFree, PutOf
<1>2. /\ TcpSound(socks, open, peer, toPeer, g_tcp_iss) /\ CallsSound(socks, open, call)
      /\ socks \in [Sids -> SockRows]
      /\ PeersSound(peer, g_tcp_iss) /\ SegsSound(toPeer, g_tcp_iss) /\ g_tcp_iss \in Nat /\ Offset(g_tcp_iss) = 0
      /\ \A u \in Sids : RowSound(u, socks[u], open, peer, toPeer, g_tcp_iss)
  BY InvParts DEF TcpSound
<1>3. socks[s].used = FALSE /\ IsFree(socks, s) BY <1>1, <1>2 DEF SockRows, IsFree
<1>4. socks[s] = Unused /\ s \notin open BY <1>2, <1>3 DEF RowSound
<1>5. /\ q \in SockRows /\ q.used = TRUE /\ q.parent = NULL /\ q.bound = FALSE /\ q.aq = Unused.aq
      /\ q.connected = FALSE
  <2>1. q.parent = NULL /\ q.bound = FALSE /\ q.aq = <<>> /\ q.connected = FALSE BY DEF Fresh
  <2> HIDE DEF q
  <2> QED BY <2>1, RowTypes DEF q
<1>6. RowSound(s, q, open, peer, toPeer, g_tcp_iss) /\ RowSound(s, q, more, peer, toPeer, g_tcp_iss)
  BY FreshLocal
<1> HIDE DEF q
<1>7. NoClash(socks, s, q) BY <1>5 DEF NoClash
<1>8. \A u \in Sids \ {s} : RowSound(u, socks[u], open, peer, toPeer, g_tcp_iss) BY <1>2
<1>9. \A c \in Threads : call[c].op = "send" => call[c].s # s
  <2> TAKE c \in Threads
  <2>1. call[c].op # "none" => call[c].s \in open BY CallRow
  <2> QED BY <1>4, <2>1
<1>10. q.aq = socks[s].aq BY <1>4, <1>5
<1>16. Fits(socks, open, call, s, q) BY <1>3, <1>5, <1>7, <1>9, <1>10 DEF Fits
<1>11. TcpSound(socks', open, peer, toPeer, g_tcp_iss) /\ CallsSound(socks', open, call)
  BY <1>1, <1>2, <1>5, <1>6, <1>8, <1>16, PutSound
<1>12. socks'[s] = q BY <1>1, <1>2 DEF PutOf
<1>13. \A v \in Sids : \A i \in 1 .. Len(socks'[v].aq) : socks'[v].aq[i] # s
  <2> SUFFICES ASSUME NEW v \in Sids, NEW i \in 1 .. Len(socks'[v].aq) PROVE socks'[v].aq[i] # s
    OBVIOUS
  <2> DEFINE child == socks'[v].aq[i]
  <2>1. child = socks'[v].aq[i] OBVIOUS
  <2>2. socks' \in [Sids -> SockRows] /\ Queues(socks', open) BY <1>11 DEF TcpSound
  <2> HIDE DEF child
  <2>3. Waits(child, socks', open) BY <2>1, <2>2, QueuedIs
  <2>4. child # s BY <1>5, <1>12, <2>3 DEF Waits
  <2> QED BY <2>4 DEF child
<1>14. RowSound(s, socks'[s], open \cup {s}, peer, toPeer, g_tcp_iss) BY <1>6, <1>12
<1> HIDE DEF more
<1>15. /\ TcpSound(socks', open \cup {s}, peer, toPeer, g_tcp_iss)
       /\ CallsSound(socks', open \cup {s}, call)
  BY <1>11, <1>13, <1>14, OpenSound
<1>17. TcpSound(socks', open', peer, toPeer, g_tcp_iss) /\ CallsSound(socks', open', call')
  BY <1>1, <1>15 DEF more
<1> QED BY <1>1, <1>17, InvAgain

(* What the other sockets are to a connection that sends, or begins.         *)
Adds(more, tp, q) == \A x \in more : x \in tp \/ x.c = Ends(q)

LEMMA OthersLocal ==
    ASSUME NEW sk, NEW op, NEW pe, NEW tp, NEW g, NEW s \in Sids, NEW q \in SockRows, TcpSound(sk, op, pe, tp, g),
           NoClash(sk, s, q), q.bound, NEW h \in Nat, g <= h, NEW more,
           Adds(more, tp, q)
    PROVE  \A u \in Sids \ {s} : RowSound(u, sk[u], op, pe, more, h)
<1> SUFFICES ASSUME NEW u \in Sids \ {s} PROVE RowSound(u, sk[u], op, pe, more, h)
  OBVIOUS
<1> DEFINE r == sk[u]
<1>1. RowSound(u, r, op, pe, tp, g) /\ r \in SockRows /\ g \in Nat BY DEF TcpSound
<1>2. q.bound = TRUE BY DEF SockRows
<1>3. ASSUME r.used = TRUE, r.connected = TRUE PROVE Ends(q) # Ends(r)
  <2>1. r.bound = TRUE
    <3> HIDE DEF r
    <3> QED BY <1>1, <1>3 DEF RowSound, Kinds
  <2>2. r.lport = q.lport => r.remote # q.remote BY <1>2, <1>3, <2>1 DEF NoClash
  <2> HIDE DEF r
  <2> QED BY <2>2 DEF Ends
<1> HIDE DEF r
<1>4. \A x \in more : x \in tp \/ ~IsOf(x, r) BY <1>3 DEF IsOf, Adds
<1>5. RowSound(u, r, op, pe, more, h) BY <1>1, <1>4, OtherLocal
<1> QED BY <1>5 DEF r

(* A socket that keeps its ends has no clash.                                *)
LEMMA EndsKept ==
    ASSUME NEW sk, NEW s \in Sids, NEW q, Ports(sk), LikeRow(q, sk[s]), sk[s].used = TRUE
    PROVE  NoClash(sk, s, q)
BY DEF Ports, NoClash, LikeRow

(* The row of a socket the program has.                                      *)
LEMMA OpenRow ==
    ASSUME TcpInv, NEW s \in open, NEW r, r = socks[s]
    PROVE  /\ RowSound(s, r, open, peer, toPeer, g_tcp_iss) /\ r \in SockRows /\ r.used = TRUE /\ s \in Sids
           /\ Kinds(s, r, open) /\ r.parent = NULL
<1>1. /\ RowSound(s, r, open, peer, toPeer, g_tcp_iss) /\ s \in Sids /\ r \in SockRows /\ r.used
  BY InvParts DEF TcpSound
<1>2. r.used = TRUE BY <1>1 DEF SockRows
<1>3. Kinds(s, r, open) BY <1>1, <1>2 DEF RowSound
<1> QED BY <1>1, <1>2, <1>3 DEF Kinds

(* One of them sends m and becomes q.                                        *)
LEMMA SendsSound ==
    ASSUME TcpInv, NEW s \in open, NEW r, r = socks[s], NEW q, LikeRow(q, r), NEW m,
           RowSound(s, q, open, peer, toPeer \cup {m}, g_tcp_iss), m.c = Ends(r),
           r.connected = TRUE, Settled(s, q, open), SegsSound(toPeer \cup {m}, g_tcp_iss)
    PROVE  LET nk == PutOf(socks, s, q)
           IN  TcpSound(nk, open, peer, toPeer \cup {m}, g_tcp_iss) /\ CallsSound(nk, open, call)
<1> DEFINE nk == PutOf(socks, s, q)
           more == toPeer \cup {m}
           g == g_tcp_iss
<1>1. /\ r \in SockRows /\ r.used = TRUE /\ s \in Sids /\ Kinds(s, r, open) /\ r.parent = NULL
  BY OpenRow
<1>2. /\ TcpSound(socks, open, peer, toPeer, g) /\ CallsSound(socks, open, call)
      /\ PeersSound(peer, g) /\ g \in Nat /\ Offset(g) = 0 /\ Ports(socks)
  BY InvParts DEF TcpSound
<1>3. /\ q \in SockRows /\ q.used = TRUE /\ q.parent = NULL /\ q.aq = r.aq /\ Ends(q) = Ends(r)
      /\ q.bound = TRUE
  BY <1>1 DEF RowSound, LikeRow, Ends, Kinds
<1>4. NoClash(socks, s, q) BY <1>1, <1>2, EndsKept
<1>5. q.aq = socks[s].aq BY <1>3
<1>6. Fits(socks, open, call, s, q) BY <1>3, <1>4, <1>5 DEF Fits
<1>7. Adds(more, toPeer, q) BY <1>3 DEF Adds
<1>8. g <= g BY <1>2
<1>12. q.bound BY <1>3
<1> HIDE DEF g
<1>9. \A u \in Sids \ {s} : RowSound(u, socks[u], open, peer, more, g)
  <2> HIDE DEF more
  <2> QED BY <1>1, <1>2, <1>3, <1>4, <1>7, <1>8, <1>12, OthersLocal
<1>10. RowSound(s, q, open, peer, more, g) /\ SegsSound(more, g) BY DEF g
<1> HIDE DEF more, nk
<1>13. nk = PutOf(socks, s, q) BY DEF nk
<1>11. TcpSound(nk, open, peer, more, g) /\ CallsSound(nk, open, call)
  BY <1>1, <1>2, <1>3, <1>6, <1>9, <1>10, <1>13, PutSound
<1> QED BY <1>11 DEF more, nk, g

LEMMA SegIs ==
    ASSUME NEW c \in Conns, NEW flags \in SUBSET TcpFlags, NEW seq \in Nat, NEW ack \in Nat, NEW len \in Nat,
           NEW m, m = Seg(c, flags, seq, ack, len)
    PROVE  /\ m \in Segs /\ m.c = c /\ m.seq = seq
           /\ EndOfSeg(m) = seq + len + (IF flags \cap {"SYN", "FIN"} # {} THEN 1 ELSE 0)
BY DEF Seg, Segs, EndOfSeg

LEMMA SendKeeps == ASSUME TcpInv, NEW t \in Threads, NEW s \in Sids, Send(t, s) PROVE TcpInv'
<1> DEFINE r == socks[s]
           n == r.nxt + 1
           q == [r EXCEPT !.nxt = n]
           m == Seg(Ends(r), {"ACK"}, r.nxt, 0, 1)
<1>1. /\ s \in open /\ r.connected /\ ~r.shut_wr /\ r.state \in {"ESTABLISHED", "CLOSE_WAIT"}
      /\ Offset(r.nxt) <= DataOut /\ UNCHANGED <<open, g_tcp_iss, peer>>
      /\ toPeer' = toPeer \cup {m} /\ Begin(t, "send", s, n)
  BY DEF Send, Conn, Ends, Offset
<1>2. socks' = PutOf(socks, s, q) BY InvParts DEF Send, PutOf
<1>3. /\ RowSound(s, r, open, peer, toPeer, g_tcp_iss) /\ r \in SockRows /\ r.used = TRUE
      /\ Kinds(s, r, open) /\ r.parent = NULL
  <2>1. r = socks[s] OBVIOUS
  <2> HIDE DEF r
  <2> QED BY <1>1, <2>1, OpenRow
<1>4. r = socks[s] OBVIOUS
<1> HIDE DEF r
<1>5. r.connected = TRUE /\ r.shut_wr = FALSE /\ r.nxt \in Nat /\ n \in Nat BY <1>1, <1>3 DEF SockRows
<1>6. /\ peer[Ends(r)] \in PeerRows /\ Offset(g_tcp_iss) = 0 /\ toPeer \subseteq Segs /\ g_tcp_iss \in Nat
      /\ SegsSound(toPeer, g_tcp_iss) /\ Ends(r) \in Conns
  <2>1. Ends(r) \in Conns BY <1>3, <1>5, EndsIn
  <2> QED BY <2>1, InvParts DEF TcpSound, SegsSound
<1>7. m \in Segs /\ m.c = Ends(r) /\ m.seq = r.nxt /\ EndOfSeg(m) = r.nxt + 1
  <2>1. {"ACK"} \in SUBSET TcpFlags /\ {"ACK"} \cap {"SYN", "FIN"} = {} BY DEF TcpFlags
  <2>2. /\ m \in Segs /\ m.c = Ends(r) /\ m.seq = r.nxt
        /\ EndOfSeg(m) = r.nxt + 1 + (IF {"ACK"} \cap {"SYN", "FIN"} # {} THEN 1 ELSE 0)
    BY <1>5, <1>6, <2>1, SegIs
  <2> HIDE DEF m
  <2> QED BY <1>5, <2>1, <2>2
<1>8. /\ q \in SockRows /\ q.used = TRUE /\ q.bound = r.bound /\ q.parent = r.parent
      /\ q.aq = r.aq /\ q.lport = r.lport /\ q.remote = r.remote
      /\ q.una = r.una /\ q.nxt = r.nxt + 1 /\ q.rcv = r.rcv /\ q.rx = r.rx /\ q.read = r.read /\ q.told = r.told
      /\ q.shut_rd = r.shut_rd /\ q.connected = TRUE /\ q.state = r.state
  <2>1. q \in SockRows
    <3> HIDE DEF n
    <3> QED BY <1>3, <1>5 DEF SockRows
  <2> QED BY <1>3, <1>5, <2>1 DEF SockRows
<1>9. Offset(r.nxt) <= ISS - 3
  <2>1. DataOut \in Nat /\ DataOut <= ISS - 3 BY TcpAssumption DEF TcpAssumption, ISS
  <2>2. Offset(r.nxt) \in Nat BY <1>5, GenIs DEF ISS
  <2> HIDE DEF q, m, n
  <2> QED BY <1>1, <2>1, <2>2 DEF ISS
<1> HIDE DEF m, q
<1>10. /\ RowSound(s, q, open, peer, toPeer \cup {m}, g_tcp_iss) /\ LikeRow(q, r)
       /\ Gen(m.seq) = Gen(EndOfSeg(m)) /\ EndOfSeg(m) < g_tcp_iss + ISS /\ m.seq < EndOfSeg(m)
  BY <1>1, <1>3, <1>5, <1>6, <1>7, <1>8, <1>9, SentLocal
<1>11. SegsSound(toPeer \cup {m}, g_tcp_iss) BY <1>6, <1>7, <1>10 DEF SegsSound
<1>12. Settled(s, q, open) BY <1>1, <1>8 DEF Settled
<1> DEFINE more == toPeer \cup {m}
<1> HIDE DEF n
<1>13. TcpSound(socks', open, peer, more, g_tcp_iss) /\ CallsSound(socks', open, call)
  BY <1>1, <1>2, <1>4, <1>5, <1>7, <1>10, <1>11, <1>12, SendsSound
<1>14. socks'[s] = q BY <1>2, InvParts DEF PutOf
<1> HIDE DEF more
<1>15. CallsSound(socks', open, call')
  <2>1. Settled(s, socks'[s], open) BY <1>12, <1>14
  <2> QED BY <1>1, <1>5, <1>13, <2>1, Begins
<1>16. toPeer' = more /\ UNCHANGED <<open, g_tcp_iss, peer>> BY <1>1 DEF more
<1> QED BY <1>13, <1>15, <1>16 DEF TcpInv

(* What sock_shutdown does but for the FIN.                                  *)
Shut(r, how) == IF "RD" \in how THEN [r EXCEPT !.shut_rd = TRUE, !.rx = <<>>] ELSE r

LEMMA ShutRow ==
    ASSUME NEW s, NEW op, NEW pe, NEW tp, NEW g, NEW r, RowSound(s, r, op, pe, tp, g), r.used = TRUE,
           NEW how, NEW q, q = Shut(r, how) \/ q = [Shut(r, how) EXCEPT !.shut_wr = TRUE]
    PROVE  RowSound(s, q, op, pe, tp, g) /\ LikeRow(q, r)
<1>1. r \in SockRows /\ <<>> \in Seq(Nat) BY DEF RowSound
<1>2. Shut(r, how) = r \/ Shut(r, how) = [r EXCEPT !.shut_rd = TRUE, !.rx = <<>>] BY DEF Shut
<1>3. /\ q \in SockRows
      /\ q.used = r.used /\ q.bound = r.bound /\ q.parent = r.parent
      /\ q.aq = r.aq /\ q.lport = r.lport /\ q.remote = r.remote
      /\ q.una = r.una /\ q.nxt = r.nxt /\ q.rcv = r.rcv /\ q.read = r.read /\ q.told = r.told
      /\ q.state = r.state /\ q.connected = r.connected
      /\ q.shut_wr = r.shut_wr \/ q.shut_wr = TRUE
      /\ (q.shut_rd = r.shut_rd /\ q.rx = r.rx) \/ (q.shut_rd = TRUE /\ q.rx = <<>>)
  <2>1. CASE q = r BY <1>1, <2>1
  <2>2. CASE q = [r EXCEPT !.shut_rd = TRUE, !.rx = <<>>] BY <1>1, <2>2 DEF SockRows
  <2>3. CASE q = [r EXCEPT !.shut_wr = TRUE] BY <1>1, <2>3 DEF SockRows
  <2>4. CASE q = [[r EXCEPT !.shut_rd = TRUE, !.rx = <<>>] EXCEPT !.shut_wr = TRUE]
    BY <1>1, <2>4 DEF SockRows
  <2> QED BY <1>2, <2>1, <2>2, <2>3, <2>4
<1> QED BY <1>3, ShutLocal

(* The FIN that sock_shutdown sends.                                         *)
Finishes(r1, r) == [r1 EXCEPT !.shut_wr = TRUE, !.nxt = r.nxt + 1,
                       !.state = IF r.state = "ESTABLISHED" THEN "FIN_WAIT1" ELSE "LAST_ACK"]

LEMMA ShutdownIs ==
    ASSUME NEW t, NEW s, NEW how, Shutdown(t, s, how), socks \in [Sids -> SockRows], s \in Sids,
           NEW r, r = socks[s], NEW r1, r1 = Shut(r, how)
    PROVE  /\ s \in open /\ r.connected /\ UNCHANGED <<open, call, g_tcp_iss, peer>>
           /\ \/ /\ ~r.shut_wr /\ r.state \in {"ESTABLISHED", "CLOSE_WAIT"}
                 /\ socks' = PutOf(socks, s, Finishes(r1, r))
                 /\ toPeer' = toPeer \cup {Seg(Ends(r), {"ACK", "FIN"}, r.nxt, 0, 0)}
              \/ /\ \E q \in {r1, [r1 EXCEPT !.shut_wr = TRUE]} : socks' = PutOf(socks, s, q)
                 /\ UNCHANGED toPeer
BY DEF Shutdown, Shut, Finishes, PutOf, Conn, Ends

LEMMA ShutdownKeeps == ASSUME TcpInv, NEW t \in Threads, NEW s \in Sids, NEW how, Shutdown(t, s, how)
                       PROVE  TcpInv'
<1> DEFINE r == socks[s]
           r1 == Shut(r, how)
           q == Finishes(r1, r)
           m == Seg(Ends(r), {"ACK", "FIN"}, r.nxt, 0, 0)
<1>1. /\ s \in open /\ r.connected /\ UNCHANGED <<open, call, g_tcp_iss, peer>>
      /\ \/ /\ ~r.shut_wr /\ r.state \in {"ESTABLISHED", "CLOSE_WAIT"}
            /\ socks' = PutOf(socks, s, q) /\ toPeer' = toPeer \cup {m}
         \/ /\ \E x \in {r1, [r1 EXCEPT !.shut_wr = TRUE]} : socks' = PutOf(socks, s, x)
            /\ UNCHANGED toPeer
  <2>1. socks \in [Sids -> SockRows] BY InvParts
  <2> QED BY <2>1, ShutdownIs
<1>2. r = socks[s] /\ r1 = Shut(r, how) /\ q = Finishes(r1, r) OBVIOUS
<1> HIDE DEF r
<1>3. /\ RowSound(s, r, open, peer, toPeer, g_tcp_iss) /\ r \in SockRows /\ r.used = TRUE
      /\ Kinds(s, r, open) /\ r.parent = NULL
  BY <1>1, <1>2, OpenRow
<1>4. /\ TcpSound(socks, open, peer, toPeer, g_tcp_iss) /\ CallsSound(socks, open, call)
  BY InvParts
<1> HIDE DEF r1, q
<1>5. RowSound(s, r1, open, peer, toPeer, g_tcp_iss) /\ LikeRow(r1, r) BY <1>2, <1>3, ShutRow
<1>6. CASE /\ \E x \in {r1, [r1 EXCEPT !.shut_wr = TRUE]} : socks' = PutOf(socks, s, x)
           /\ UNCHANGED toPeer
  <2>1. PICK x \in {r1, [r1 EXCEPT !.shut_wr = TRUE]} : socks' = PutOf(socks, s, x) BY <1>6
  <2>2. x = Shut(r, how) \/ x = [Shut(r, how) EXCEPT !.shut_wr = TRUE] BY <1>2
  <2>3. RowSound(s, x, open, peer, toPeer, g_tcp_iss) /\ LikeRow(x, r) BY <1>3, <2>2, ShutRow
  <2>4. TcpSound(socks', open, peer, toPeer, g_tcp_iss) /\ CallsSound(socks', open, call)
    BY <1>2, <1>4, <2>1, <2>3, OneLike DEF PutOf
  <2> QED BY <1>1, <1>6, <2>4 DEF TcpInv
<1>7. CASE /\ ~r.shut_wr /\ r.state \in {"ESTABLISHED", "CLOSE_WAIT"}
           /\ socks' = PutOf(socks, s, q) /\ toPeer' = toPeer \cup {m}
  <2>1. r.connected = TRUE /\ r.shut_wr = FALSE /\ r.nxt \in Nat BY <1>1, <1>3, <1>7 DEF SockRows
  <2>2. /\ Ends(r) \in Conns /\ peer[Ends(r)] \in PeerRows /\ Offset(g_tcp_iss) = 0 /\ toPeer \subseteq Segs
        /\ SegsSound(toPeer, g_tcp_iss) /\ g_tcp_iss \in Nat
    <3>1. Ends(r) \in Conns BY <1>3, <2>1, EndsIn
    <3> QED BY <3>1, InvParts DEF TcpSound, SegsSound
  <2>3. m \in Segs /\ m.c = Ends(r) /\ m.seq = r.nxt /\ EndOfSeg(m) = r.nxt + 1
    <3>1. {"ACK", "FIN"} \in SUBSET TcpFlags /\ {"ACK", "FIN"} \cap {"SYN", "FIN"} # {} BY DEF TcpFlags
    <3>2. /\ m \in Segs /\ m.c = Ends(r) /\ m.seq = r.nxt
          /\ EndOfSeg(m) = r.nxt + 0 + (IF {"ACK", "FIN"} \cap {"SYN", "FIN"} # {} THEN 1 ELSE 0)
      BY <2>1, <2>2, <3>1, SegIs
    <3> HIDE DEF m
    <3> QED BY <2>1, <3>1, <3>2
  <2>4. r1 = r \/ r1 = [r EXCEPT !.shut_rd = TRUE, !.rx = <<>>] BY <1>2 DEF Shut
  <2>5. /\ r1 \in SockRows /\ r1.used = TRUE /\ r1.connected = TRUE /\ r1.shut_wr = FALSE /\ Ends(r1) = Ends(r)
        /\ r1.nxt = r.nxt /\ r1.state = r.state
    BY <1>3, <1>5, <2>1, <2>4, ZenonT(60) DEF Ends, RowSound, SockRows
  <2>6. /\ q \in SockRows /\ q.used = TRUE /\ q.bound = r1.bound /\ q.parent = r1.parent
        /\ q.aq = r1.aq /\ q.lport = r1.lport /\ q.remote = r1.remote
        /\ q.una = r1.una /\ q.nxt = r1.nxt + 1 /\ q.rcv = r1.rcv /\ q.rx = r1.rx /\ q.read = r1.read
        /\ q.told = r1.told /\ q.shut_rd = r1.shut_rd /\ q.connected = TRUE /\ q.shut_wr = TRUE
        /\ q.state = IF r1.state = "ESTABLISHED" THEN "FIN_WAIT1" ELSE "LAST_ACK"
    <3> DEFINE n == r.nxt + 1
               st == IF r.state = "ESTABLISHED" THEN "FIN_WAIT1" ELSE "LAST_ACK"
    <3>1. n \in Nat /\ st \in States /\ n = r1.nxt + 1
          /\ st = IF r1.state = "ESTABLISHED" THEN "FIN_WAIT1" ELSE "LAST_ACK" BY <2>1, <2>5 DEF States
    <3>2. q = [r1 EXCEPT !.shut_wr = TRUE, !.nxt = n, !.state = st] BY <1>2 DEF Finishes
    <3> HIDE DEF n, st
    <3> QED BY <2>5, <3>1, <3>2 DEF SockRows
  <2> HIDE DEF m
  <2>7. /\ \/ r1.state = "ESTABLISHED" /\ q.state = "FIN_WAIT1"
           \/ r1.state = "CLOSE_WAIT" /\ q.state = "LAST_ACK"
        /\ m.c = Ends(r1) /\ m.seq = r1.nxt /\ EndOfSeg(m) = r1.nxt + 1 /\ peer[Ends(r1)] \in PeerRows
    BY <1>7, <2>2, <2>3, <2>5, <2>6
  <2>8. /\ RowSound(s, q, open, peer, toPeer \cup {m}, g_tcp_iss) /\ LikeRow(q, r1)
        /\ Gen(m.seq) = Gen(EndOfSeg(m)) /\ EndOfSeg(m) < g_tcp_iss + ISS /\ m.seq < EndOfSeg(m)
    BY <1>5, <2>2, <2>5, <2>6, <2>7, SentLocal
  <2>9. LikeRow(q, r) BY <1>5, <2>8, LikeTwice
  <2>10. SegsSound(toPeer \cup {m}, g_tcp_iss) BY <2>2, <2>3, <2>8 DEF SegsSound
  <2>11. Settled(s, q, open) BY <1>1, <2>6 DEF Settled
  <2> DEFINE more == toPeer \cup {m}
  <2>12. TcpSound(socks', open, peer, more, g_tcp_iss) /\ CallsSound(socks', open, call)
    BY <1>1, <1>2, <1>7, <2>1, <2>3, <2>8, <2>9, <2>10, <2>11, SendsSound
  <2> QED BY <1>1, <1>7, <2>12 DEF TcpInv
<1> QED BY <1>1, <1>6, <1>7

(* The row of a socket that calls out from port p, with h its number.        *)
CallsOut(r, p, to, h) == [r EXCEPT !.bound = TRUE, !.lport = p, !.remote = to,
                             !.connected = TRUE, !.error = FALSE, !.state = "SYN_SENT",
                             !.una = h, !.nxt = h, !.rcv = 0, !.read = 0, !.told = 0]
Said(r, h) == [r EXCEPT !.nxt = h + 1]

(* The call of t gets out, or not.                                           *)
GetsOut(t, s, p, to, q, h) ==
    /\ socks' = PutOf(socks, s, Said(q, h))
    /\ toPeer' = toPeer \cup {Seg(<<p, to>>, {"SYN"}, h, 0, 0)}
    /\ Begin(t, "connect", s, 0)
NotOut(s, q) == WakeWaiters({s}, PutOf(socks, s, Failed(q, TRUE))) /\ UNCHANGED toPeer
PortOf(r, p) == (r.bound /\ p = r.lport) \/ (~r.bound /\ ~PortInUse(p))

LEMMA ConnectIs ==
    ASSUME NEW t, NEW s, NEW to, Connect(t, s, to)
    PROVE  /\ s \in open /\ socks[s].state # "LISTEN" /\ ~socks[s].connected /\ ~InCall(s)
           /\ g_tcp_iss' = g_tcp_iss + ISS /\ UNCHANGED <<open, peer>>
           /\ \E p \in {Port} \cup Ephemeral : PortOf(socks[s], p) /\
                 LET q == CallsOut(socks[s], p, to, g_tcp_iss + ISS)
                 IN  GetsOut(t, s, p, to, q, g_tcp_iss + ISS) \/ NotOut(s, q)
BY DEF Connect, AllocEphemeral, CallsOut, Said, PutOf, PortOf, GetsOut, NotOut

(* q is r, but calls out from p to another end, and what it sends next is n.  *)
Called(q, r, p, to, n) ==
    /\ q \in SockRows /\ q.used = r.used /\ q.bound = TRUE /\ q.lport = p /\ q.remote = to
    /\ q.connected = TRUE /\ q.state = "SYN_SENT" /\ q.nxt = n /\ q.rcv = 0
    /\ q.read = 0 /\ q.told = 0 /\ q.parent = r.parent /\ q.aq = r.aq /\ q.rx = r.rx

LEMMA CallsOutRow ==
    ASSUME NEW r \in SockRows, NEW p \in {Port} \cup Ephemeral, NEW to \in Servers, NEW h \in Nat,
           NEW q, q = CallsOut(r, p, to, h)
    PROVE  Called(q, r, p, to, h)
<1>1. p \in Nat /\ to \in RemoteEnds \cup {NULL} /\ "SYN_SENT" \in States
  BY TcpAssumption DEF TcpAssumption, RemoteEnds, States
<1> QED BY <1>1, ZenonT(60) DEF CallsOut, SockRows, Called

LEMMA SaidRow ==
    ASSUME NEW x, NEW r, NEW p, NEW to, NEW h \in Nat, Called(x, r, p, to, h), NEW q, q = Said(x, h),
           NEW n, n = h + 1
    PROVE  Called(q, r, p, to, n)
<1>1. n \in Nat /\ q = [x EXCEPT !.nxt = n] BY DEF Said
<1> QED BY <1>1 DEF SockRows, Called

LEMMA GaveUpRow ==
    ASSUME NEW r \in SockRows, r.state = "SYN_SENT", NEW q, q = Failed(r, TRUE)
    PROVE  /\ q \in SockRows /\ q.used = r.used /\ q.bound = r.bound /\ q.lport = r.lport /\ q.remote = r.remote
           /\ q.connected = FALSE /\ q.state = "CLOSED" /\ q.una = r.una /\ q.nxt = r.nxt /\ q.rcv = r.rcv
           /\ q.read = r.read /\ q.told = r.told /\ q.parent = r.parent /\ q.aq = r.aq /\ q.rx = r.rx
BY ZenonT(60) DEF Failed, SockRows, States

(* A socket whose call did not get out.                                      *)
LEMMA NotOutLocal ==
    ASSUME NEW s, NEW op, NEW pe, NEW tp, NEW g, NEW q \in SockRows, q.used = TRUE, q.bound = TRUE,
           q.lport \in {Port} \cup Ephemeral, q.remote \in Servers, q.connected = FALSE, q.state = "CLOSED",
           q.rcv = 0, q.read = 0, q.rx = <<>>, q.parent = NULL
    PROVE  RowSound(s, q, op, pe, tp, g)
<1>1. Kinds(s, q, op) BY TcpAssumption DEF TcpAssumption, Kinds
<1>2. Hears(q, pe)
  <2>1. Len(q.rx) = 0 OBVIOUS
  <2> QED BY <2>1 DEF Hears
<1> QED BY <1>1, <1>2 DEF RowSound, SentBy, Knows, Settled, Covers

(* The port a socket calls out from, and the others.                         *)
LEMMA OutNoClash ==
    ASSUME TcpInv, NEW s \in Sids, NEW r, r = socks[s], r.used = TRUE, r.connected = FALSE, Kinds(s, r, open),
           r.bound \in BOOLEAN, NEW q, NEW to \in Servers, q.remote = to,
           (r.bound /\ q.lport = r.lport) \/ (~r.bound /\ ~PortInUse(q.lport))
    PROVE  NoClash(socks, s, q)
<1> SUFFICES ASSUME NEW u \in Sids \ {s}, socks[u].used = TRUE, socks[u].bound = TRUE,
                    socks[u].lport = q.lport
             PROVE  /\ socks[u].remote # q.remote /\ q.lport = Port
                    /\ socks[u].remote \in Clients \/ q.remote \in Clients
  BY DEF NoClash
<1>1. PortInUse(q.lport)
  <2>1. socks[u].used /\ socks[u].bound OBVIOUS
  <2> QED BY <2>1 DEF PortInUse
<1>2. r.bound = TRUE /\ q.lport = r.lport BY <1>1
<1>3. Ports(socks) BY InvParts
<1>4. r.remote \notin Clients BY DEF Kinds
<1>5. socks[u].remote \in Clients /\ q.lport = Port BY <1>2, <1>3, <1>4 DEF Ports
<1> QED BY <1>5, TcpAssumption DEF TcpAssumption

(* What sock_connect finds and makes.                                        *)
LEMMA CallsOutFits ==
    ASSUME TcpInv, NEW s \in open, NEW r, r = socks[s], ~r.connected, ~InCall(s), r.state # "LISTEN",
           NEW to \in Servers, NEW p \in {Port} \cup Ephemeral,
           PortOf(r, p),
           NEW q \in SockRows, q.used = TRUE, q.parent = r.parent, q.aq = r.aq, q.lport = p, q.remote = to
    PROVE  Fits(socks, open, call, s, q) /\ NoClash(socks, s, q) /\ r.parent = NULL /\ r.rx = <<>>
<1>1. /\ RowSound(s, r, open, peer, toPeer, g_tcp_iss) /\ r \in SockRows /\ r.used = TRUE /\ s \in Sids
      /\ Kinds(s, r, open) /\ r.parent = NULL
  BY OpenRow
<1>2. r.connected = FALSE /\ r.bound \in BOOLEAN BY <1>1 DEF SockRows
<1>3. NoClash(socks, s, q) BY <1>1, <1>2, OutNoClash DEF PortOf
<1>4. \A u \in Threads : call[u].op = "send" => call[u].s # s BY DEF InCall
<1>5. Fits(socks, open, call, s, q) BY <1>1, <1>3, <1>4 DEF Fits
<1>6. r.rx = <<>> BY <1>1, <1>2 DEF RowSound, Hears
<1> QED BY <1>1, <1>3, <1>5, <1>6

LEMMA ConnectKeeps == ASSUME TcpInv, NEW t \in Threads, NEW s \in Sids, NEW to \in Servers, Connect(t, s, to)
                      PROVE  TcpInv'
<1> DEFINE r == socks[s]
           h == g_tcp_iss + ISS
           n == h + 1
<1>0. /\ TcpSound(socks, open, peer, toPeer, g_tcp_iss) /\ CallsSound(socks, open, call)
      /\ socks \in [Sids -> SockRows] /\ g_tcp_iss \in Nat /\ Offset(g_tcp_iss) = 0
      /\ PeersSound(peer, g_tcp_iss) /\ SegsSound(toPeer, g_tcp_iss)
  BY InvParts DEF TcpSound
<1>1. h \in Nat /\ g_tcp_iss <= h /\ Offset(h) = 0 /\ h = g_tcp_iss + ISS /\ n \in Nat /\ n = h + 1
  BY <1>0, GenNew DEF ISS
<1>2. r = socks[s] OBVIOUS
<1> HIDE DEF h, r, n
<1>3. /\ s \in open /\ r.state # "LISTEN" /\ ~r.connected /\ ~InCall(s)
      /\ g_tcp_iss' = h /\ UNCHANGED <<open, peer>>
      /\ \E p \in {Port} \cup Ephemeral : PortOf(r, p) /\
            (GetsOut(t, s, p, to, CallsOut(r, p, to, h), h) \/ NotOut(s, CallsOut(r, p, to, h)))
  BY ConnectIs DEF r, h
<1>4. PICK p \in {Port} \cup Ephemeral : PortOf(r, p) /\
         (GetsOut(t, s, p, to, CallsOut(r, p, to, h), h) \/ NotOut(s, CallsOut(r, p, to, h)))
  BY <1>3
<1>5. /\ RowSound(s, r, open, peer, toPeer, g_tcp_iss) /\ r \in SockRows /\ r.used = TRUE
      /\ Kinds(s, r, open)
  BY <1>2, <1>3, OpenRow
<1> DEFINE out == CallsOut(r, p, to, h)
<1>6. out = CallsOut(r, p, to, h) OBVIOUS
<1> HIDE DEF out
<1>7. Called(out, r, p, to, h) BY <1>1, <1>5, <1>6, CallsOutRow
<1>8. CASE GetsOut(t, s, p, to, out, h)
  <2> DEFINE q == Said(out, h)
             m == Seg(<<p, to>>, {"SYN"}, h, 0, 0)
             more == toPeer \cup {m}
  <2>1. q = Said(out, h) OBVIOUS
  <2> HIDE DEF q
  <2>0. Called(q, r, p, to, n) BY <1>1, <1>7, <2>1, SaidRow
  <2>17. q \in SockRows BY <2>0 DEF Called
  <2>2. /\ q \in SockRows /\ q.used = TRUE /\ q.bound = TRUE /\ q.lport = p /\ q.remote = to
        /\ q.connected = TRUE /\ q.state = "SYN_SENT" /\ q.nxt = n /\ q.rcv = 0
        /\ q.read = 0 /\ q.told = 0 /\ q.parent = r.parent /\ q.aq = r.aq /\ q.rx = r.rx
    BY <1>5, <2>0 DEF Called
  <2>3. Fits(socks, open, call, s, q) /\ NoClash(socks, s, q) /\ r.parent = NULL /\ r.rx = <<>>
    BY <1>2, <1>3, <1>4, <2>2, CallsOutFits
  <2>4. Kinds(s, q, open) BY <1>3, <2>2, <2>3, TcpAssumption DEF Kinds, TcpAssumption, RemoteEnds
  <2>5. Hears(q, peer)
    <3>1. Len(q.rx) = 0 BY <2>2, <2>3
    <3> QED BY <2>2, <2>3, <3>1 DEF Hears
  <2>6. <<p, to>> \in Conns /\ Ends(q) = <<p, to>> BY <2>2 DEF Conns, Ends
  <2>7. m \in Segs /\ m.c = Ends(q) /\ m.seq = h /\ EndOfSeg(m) = h + 1
    <3>1. {"SYN"} \in SUBSET TcpFlags /\ {"SYN"} \cap {"SYN", "FIN"} # {} BY DEF TcpFlags
    <3>2. /\ m \in Segs /\ m.c = <<p, to>> /\ m.seq = h
          /\ EndOfSeg(m) = h + 0 + (IF {"SYN"} \cap {"SYN", "FIN"} # {} THEN 1 ELSE 0)
      BY <1>1, <2>6, <3>1, SegIs
    <3> HIDE DEF m
    <3> QED BY <1>1, <2>6, <3>1, <3>2
  <2> HIDE DEF m
  <2>8. RowSound(s, q, open, peer, more, h) /\ SegsSound(more, h)
    <3>1. q.nxt = g_tcp_iss + ISS + 1 /\ m.seq = g_tcp_iss + ISS /\ EndOfSeg(m) = g_tcp_iss + ISS + 1
      BY <1>1, <2>2, <2>7
    <3>3. Opens(q, g_tcp_iss + ISS) BY <2>2, <2>0 DEF Opens
    <3>2. RowSound(s, q, open, peer, toPeer \cup {m}, g_tcp_iss + ISS) /\ SegsSound(toPeer \cup {m}, g_tcp_iss + ISS)
      BY <1>0, <2>17, <2>4, <2>5, <2>7, <3>1, <3>3, NewLocal
    <3> QED BY <1>1, <3>2
  <2>9. PeersSound(peer, h) BY <1>0, <1>1, LaterSound
  <2>10. Adds(more, toPeer, q) BY <2>7 DEF Adds
  <2> HIDE DEF more
  <2>11. q.bound BY <2>2
  <2>12. \A u \in Sids \ {s} : RowSound(u, socks[u], open, peer, more, h)
    BY <1>0, <1>1, <2>17, <2>3, <2>10, <2>11, OthersLocal
  <2>13. socks' = PutOf(socks, s, q) BY <1>8, <2>1 DEF GetsOut
  <2>14. TcpSound(socks', open, peer, more, h) /\ CallsSound(socks', open, call)
    BY <1>0, <1>1, <2>2, <2>3, <2>8, <2>9, <2>12, <2>13, PutSound
  <2>15. CallsSound(socks', open, call')
    <3>1. "connect" \in {"connect", "send", "accept", "recv"} /\ "connect" # "send" /\ 0 \in Nat OBVIOUS
    <3>2. Begin(t, "connect", s, 0) BY <1>8 DEF GetsOut
    <3> QED BY <1>3, <3>2, <2>14, <3>1, Begins
  <2>16. toPeer' = more BY <1>8 DEF more, m, GetsOut
  <2> QED BY <1>3, <2>14, <2>15, <2>16 DEF TcpInv
<1>9. CASE NotOut(s, out)
  <2> DEFINE q == Failed(out, TRUE)
             nk == PutOf(socks, s, q)
  <2>1. q = Failed(out, TRUE) OBVIOUS
  <2> HIDE DEF q
  <2>2. /\ q \in SockRows /\ q.used = TRUE /\ q.bound = TRUE /\ q.lport = p /\ q.remote = to
        /\ q.connected = FALSE /\ q.state = "CLOSED" /\ q.rcv = 0
        /\ q.read = 0 /\ q.told = 0 /\ q.parent = r.parent /\ q.aq = r.aq /\ q.rx = r.rx
    <3>1. out \in SockRows /\ out.state = "SYN_SENT" BY <1>7 DEF Called
    <3>2. /\ q \in SockRows /\ q.used = out.used /\ q.bound = out.bound /\ q.lport = out.lport
          /\ q.remote = out.remote /\ q.connected = FALSE /\ q.state = "CLOSED" /\ q.rcv = out.rcv
          /\ q.read = out.read /\ q.told = out.told /\ q.parent = out.parent /\ q.aq = out.aq /\ q.rx = out.rx
      BY <2>1, <3>1, GaveUpRow
    <3> QED BY <1>5, <1>7, <3>2 DEF Called
  <2>3. Fits(socks, open, call, s, q) /\ NoClash(socks, s, q) /\ r.parent = NULL /\ r.rx = <<>>
    BY <1>2, <1>3, <1>4, <2>2, CallsOutFits
  <2>4. q.parent = NULL /\ q.rx = <<>> /\ q.lport \in {Port} \cup Ephemeral /\ q.remote \in Servers
    BY <2>2, <2>3
  <2>5. RowSound(s, q, open, peer, toPeer, h) BY <2>2, <2>4, NotOutLocal
  <2>6. PeersSound(peer, h) /\ SegsSound(toPeer, h) BY <1>0, <1>1, LaterSound
  <2>7. Adds(toPeer, toPeer, q) BY DEF Adds
  <2>8. q.bound BY <2>2
  <2>9. \A u \in Sids \ {s} : RowSound(u, socks[u], open, peer, toPeer, h)
    BY <1>0, <1>1, <2>2, <2>3, <2>7, <2>8, OthersLocal
  <2>10. nk = PutOf(socks, s, q) /\ WakeWaiters({s}, nk) /\ UNCHANGED toPeer BY <1>9, <2>1 DEF NotOut
  <2>11. nk[s] = q BY <1>0 DEF PutOf
  <2> HIDE DEF nk
  <2>12. TcpSound(nk, open, peer, toPeer, h) /\ CallsSound(nk, open, call)
    BY <1>0, <1>1, <2>2, <2>3, <2>5, <2>6, <2>9, <2>10, PutSound
  <2>13. {s} \in SUBSET Sids /\ \A x \in {s} : nk[x].used = TRUE BY <2>2, <2>11
  <2>14. TcpSound(socks', open, peer, toPeer, h) /\ CallsSound(socks', open, call')
    BY <2>10, <2>12, <2>13, WakeSound
  <2> QED BY <1>3, <2>10, <2>14 DEF TcpInv
<1> QED BY <1>4, <1>6, <1>8, <1>9

(* The child of listener s that a SYN makes, with h its number.              *)
ChildOf(s, c, h, i) == [Fresh EXCEPT !.bound = TRUE, !.connected = TRUE, !.lport = c[1],
                          !.remote = c[2], !.state = "SYN_RECV", !.parent = s,
                          !.una = h, !.nxt = h + 1, !.rcv = i, !.read = i]
SynAnswered(child, c, q, h, i) == /\ socks' = PutOf(socks, child, q)
                              /\ toPeer' = toPeer \cup {Seg(c, {"SYN", "ACK"}, h, i, 0)}
Listens(s, child) == socks[s].used /\ socks[s].state = "LISTEN" /\ ~socks[child].used

LEMMA InputSynIs ==
    ASSUME NEW m, InputSyn(m)
    PROVE  /\ NoConn(m.c) /\ g_tcp_iss' = g_tcp_iss + ISS /\ UNCHANGED <<open, call, peer>>
           /\ \E s, child \in Sids : Listens(s, child) /\
                 LET h == g_tcp_iss + ISS
                     i == m.seq + 1
                 IN  SynAnswered(child, m.c, ChildOf(s, m.c, h, i), h, i) \/ UNCHANGED <<socks, toPeer>>
BY ZenonT(60) DEF InputSyn, FindListener, IsListener, FirstFree, SynAnswered, ChildOf, PutOf, Listens

(* The row of it.                                                            *)
Born(q, s, c, h, n) ==
    /\ q \in SockRows /\ q.used = TRUE /\ q.bound = TRUE /\ q.lport = c[1] /\ q.remote = c[2]
    /\ q.connected = TRUE /\ q.state = "SYN_RECV" /\ q.una = h /\ q.nxt = n /\ q.rcv = 1
    /\ q.read = 1 /\ q.told = 0 /\ q.parent = s /\ q.aq = <<>> /\ q.rx = <<>>

LEMMA ChildRow ==
    ASSUME NEW s \in Sids, NEW c \in Conns, NEW h \in Nat, NEW n, n = h + 1, NEW q, q = ChildOf(s, c, h, 1)
    PROVE  Born(q, s, c, h, n)
<1> DEFINE p == c[1]
           to == c[2]
<1>1. p \in Nat /\ to \in RemoteEnds \cup {NULL} /\ "SYN_RECV" \in States /\ n \in Nat /\ s \in Sids \cup {NULL}
  BY TcpAssumption DEF TcpAssumption, RemoteEnds, States, Conns
<1>2. /\ Fresh \in SockRows /\ Fresh.used = TRUE /\ Fresh.told = 0 /\ Fresh.aq = <<>> /\ Fresh.rx = <<>>
  BY RowTypes DEF Fresh
<1>3. q = [Fresh EXCEPT !.bound = TRUE, !.connected = TRUE, !.lport = p,
                        !.remote = to, !.state = "SYN_RECV", !.parent = s,
                        !.una = h, !.nxt = n, !.rcv = 1, !.read = 1]
  BY DEF ChildOf
<1> HIDE DEF Fresh, p, to
<1>4. /\ q \in SockRows /\ q.used = TRUE /\ q.bound = TRUE /\ q.lport = p /\ q.remote = to
      /\ q.connected = TRUE /\ q.state = "SYN_RECV" /\ q.una = h /\ q.nxt = n /\ q.rcv = 1
      /\ q.read = 1 /\ q.told = 0 /\ q.parent = s /\ q.aq = <<>> /\ q.rx = <<>>
  <2> DEFINE f == Fresh
  <2>1. f \in SockRows /\ f.used = TRUE /\ f.told = 0 /\ f.aq = <<>> /\ f.rx = <<>> BY <1>2
  <2>2. q = [f EXCEPT !.bound = TRUE, !.connected = TRUE, !.lport = p,
                        !.remote = to, !.state = "SYN_RECV", !.parent = s,
                        !.una = h, !.nxt = n, !.rcv = 1, !.read = 1]
    BY <1>3
  <2> HIDE DEF f
  <2>3. /\ 1 \in Nat /\ p \in Nat /\ to \in RemoteEnds \cup {NULL}
        /\ "SYN_RECV" \in States /\ n \in Nat /\ s \in Sids \cup {NULL}
    BY <1>1
  <2> DEFINE e == [f EXCEPT !.bound = TRUE, !.connected = TRUE, !.lport = p, !.remote = to, !.parent = s]
  <2>6. e \in SockRows BY <2>1, <2>3 DEF SockRows
  <2>7. q = [e EXCEPT !.state = "SYN_RECV", !.una = h, !.nxt = n, !.rcv = 1, !.read = 1]
    BY <2>1, <2>2 DEF SockRows
  <2> HIDE DEF e
  <2>4. q \in SockRows BY <2>3, <2>6, <2>7, ZenonT(60) DEF SockRows
  <2>5. /\ q.used = TRUE /\ q.bound = TRUE /\ q.lport = p /\ q.remote = to
        /\ q.connected = TRUE /\ q.state = "SYN_RECV" /\ q.una = h /\ q.nxt = n /\ q.rcv = 1
        /\ q.read = 1 /\ q.told = 0 /\ q.parent = s /\ q.aq = <<>> /\ q.rx = <<>>
    BY <2>1, <2>2, ZenonT(60) DEF SockRows
  <2> QED BY <2>4, <2>5
<1> QED BY <1>4 DEF Born, p, to

(* No other socket of the port has the remote end of a SYN.                  *)
LEMMA BornNoClash ==
    ASSUME TcpInv, NEW c \in Conns, c[1] = Port, c[2] \in Clients, NoConn(c), NEW child \in Sids,
           NEW q, q.lport = c[1], q.remote = c[2]
    PROVE  NoClash(socks, child, q)
<1> SUFFICES ASSUME NEW u \in Sids \ {child}, socks[u].used = TRUE, socks[u].bound = TRUE,
                    socks[u].lport = q.lport
             PROVE  socks[u].remote # q.remote
  BY DEF NoClash
<1> DEFINE r == socks[u]
<1>1. ~Matches(u, c) /\ r.used /\ r.bound BY DEF NoConn
<1>2. CASE r.state = "LISTEN"
  <2>1. RowSound(u, r, open, peer, toPeer, g_tcp_iss) /\ r.used = TRUE /\ r \in SockRows BY UsedRow
  <2> HIDE DEF r
  <2>2. Kinds(u, r, open) /\ r.connected \in BOOLEAN BY <2>1 DEF RowSound, SockRows
  <2>3. r.remote \notin Clients BY <1>2, <2>2 DEF Kinds
  <2> QED BY <2>3 DEF r
<1>3. CASE r.state # "LISTEN"
  <2>1. <<r.lport, r.remote>> # c BY <1>1, <1>3 DEF Matches, Conn
  <2>2. c = <<c[1], c[2]>> BY DEF Conns
  <2> QED BY <2>1, <2>2
<1> QED BY <1>2, <1>3

LEMMA LaterTcpSound ==
    ASSUME NEW sk, NEW op, NEW pe, NEW tp, NEW g, TcpSound(sk, op, pe, tp, g), NEW h \in Nat, g <= h, Offset(h) = 0
    PROVE  TcpSound(sk, op, pe, tp, h)
<1>1. g \in Nat /\ PeersSound(pe, g) /\ SegsSound(tp, g) BY DEF TcpSound
<1>2. PeersSound(pe, h) /\ SegsSound(tp, h) BY <1>1, LaterSound
<1>3. ASSUME NEW u \in Sids PROVE RowSound(u, sk[u], op, pe, tp, h)
  <2> DEFINE r == sk[u]
  <2>1. RowSound(u, r, op, pe, tp, g) BY DEF TcpSound
  <2> HIDE DEF r
  <2>2. RowSound(u, r, op, pe, tp, h) BY <1>1, <2>1, OtherLocal
  <2> QED BY <2>2 DEF r
<1> QED BY <1>2, <1>3 DEF TcpSound

LEMMA InputSynKeeps == ASSUME TcpInv, NEW c \in Conns, NEW m \in Sent(c), InputSyn(m) PROVE TcpInv'
<1> DEFINE h == g_tcp_iss + ISS
           n == h + 1
<1>0. /\ TcpSound(socks, open, peer, toPeer, g_tcp_iss) /\ CallsSound(socks, open, call)
      /\ socks \in [Sids -> SockRows] /\ g_tcp_iss \in Nat /\ Offset(g_tcp_iss) = 0
      /\ PeersSound(peer, g_tcp_iss) /\ SegsSound(toPeer, g_tcp_iss)
  BY InvParts DEF TcpSound
<1>1. h \in Nat /\ g_tcp_iss <= h /\ Offset(h) = 0 /\ h = g_tcp_iss + ISS /\ n \in Nat /\ n = h + 1
  BY <1>0, GenNew DEF ISS
<1> HIDE DEF h, n
<1>2. m.flags = {"SYN"} BY DEF InputSyn
<1>3. m.c = c /\ m.seq = 0 /\ c[2] \in Clients /\ peer[c].st # "closed"
  <2>1. m.c = c /\ FromPeer(m, peer[c]) /\ c[2] \in Clients /\ peer[c].st # "closed" BY <1>0, <1>2, SentIs
  <2> QED BY <1>2, <2>1 DEF FromPeer
<1>4. c[1] = Port BY <1>3, PeerRow
<1>5. /\ NoConn(c) /\ g_tcp_iss' = h /\ UNCHANGED <<open, call, peer>>
      /\ \E s, child \in Sids : Listens(s, child) /\
            (SynAnswered(child, c, ChildOf(s, c, h, 1), h, 1) \/ UNCHANGED <<socks, toPeer>>)
  <2>1. m.seq + 1 = 1 BY <1>3
  <2> QED BY <1>3, <2>1, InputSynIs DEF h
<1>6. PICK s \in Sids, child \in Sids : Listens(s, child) /\
            (SynAnswered(child, c, ChildOf(s, c, h, 1), h, 1) \/ UNCHANGED <<socks, toPeer>>)
  BY <1>5
<1>7. CASE UNCHANGED <<socks, toPeer>>
  <2>1. TcpSound(socks, open, peer, toPeer, h) BY <1>0, <1>1, LaterTcpSound
  <2> QED BY <1>0, <1>5, <1>7, <2>1 DEF TcpInv
<1>8. CASE SynAnswered(child, c, ChildOf(s, c, h, 1), h, 1)
  <2> DEFINE q == ChildOf(s, c, h, 1)
             seg == Seg(c, {"SYN", "ACK"}, h, 1, 0)
             more == toPeer \cup {seg}
  <2>1. q = ChildOf(s, c, h, 1) OBVIOUS
  <2> HIDE DEF q
  <2>2. Born(q, s, c, h, n) BY <1>1, <2>1, ChildRow
  <2>3. /\ q \in SockRows /\ q.used = TRUE /\ q.bound = TRUE /\ q.lport = c[1] /\ q.remote = c[2]
        /\ q.connected = TRUE /\ q.state = "SYN_RECV" /\ q.una = h /\ q.nxt = n /\ q.rcv = 1
        /\ q.read = 1 /\ q.told = 0 /\ q.parent = s /\ q.aq = <<>> /\ q.rx = <<>>
    BY <2>2 DEF Born
  <2>17. q \in SockRows BY <2>3
  <2>4. NoClash(socks, child, q) BY <1>3, <1>4, <1>5, <2>3, BornNoClash
  <2>5. s \in open /\ s # child
    <3> DEFINE r == socks[s]
    <3>1. RowSound(s, r, open, peer, toPeer, g_tcp_iss) /\ r.used = TRUE /\ r.state = "LISTEN"
      BY <1>6, UsedRow DEF Listens
    <3> HIDE DEF r
    <3>2. s \in open BY <3>1 DEF RowSound, Kinds
    <3> QED BY <1>6, <3>2 DEF Listens
  <2>6. socks[child] = Unused /\ child \notin open /\ IsFree(socks, child)
    <3>1. RowSound(child, socks[child], open, peer, toPeer, g_tcp_iss) /\ socks[child].used = FALSE
      BY <1>6, UsedRow, <1>0 DEF SockRows, Listens
    <3> QED BY <3>1 DEF RowSound, IsFree
  <2>7. q.aq = socks[child].aq BY <2>3, <2>6, RowTypes
  <2>8. \A t \in Threads : call[t].op = "send" => call[t].s # child
    <3> TAKE t \in Threads
    <3>1. call[t].op # "none" => call[t].s \in open BY CallRow
    <3> QED BY <2>6, <3>1
  <2>9. Fits(socks, open, call, child, q) BY <2>3, <2>4, <2>5, <2>6, <2>7, <2>8 DEF Fits
  <2>10. Kinds(child, q, open)
    <3>1. q.lport = Port /\ q.remote \in Clients /\ q.remote \in RemoteEnds BY <1>3, <1>4, <2>3 DEF RemoteEnds
    <3>2. /\ q.bound = TRUE /\ q.connected = TRUE /\ q.state = "SYN_RECV" /\ q.parent = s BY <2>3
    <3>3. q.parent # NULL BY <3>2, TcpAssumption DEF TcpAssumption
    <3> QED BY <2>6, <3>1, <3>2, <3>3 DEF Kinds
  <2>11. Hears(q, peer)
    <3>1. Len(q.rx) = 0 BY <2>3
    <3> QED BY <2>3, <3>1 DEF Hears
  <2>12. Ends(q) = c BY <2>3 DEF Ends, Conns
  <2>13. seg \in Segs /\ seg.c = Ends(q) /\ seg.seq = h /\ EndOfSeg(seg) = n
    <3>1. {"SYN", "ACK"} \in SUBSET TcpFlags /\ {"SYN", "ACK"} \cap {"SYN", "FIN"} # {} BY DEF TcpFlags
    <3>2. /\ seg \in Segs /\ seg.c = c /\ seg.seq = h
          /\ EndOfSeg(seg) = h + 0 + (IF {"SYN", "ACK"} \cap {"SYN", "FIN"} # {} THEN 1 ELSE 0)
      BY <1>1, <3>1, SegIs
    <3> HIDE DEF seg
    <3> QED BY <1>1, <2>12, <3>1, <3>2
  <2> HIDE DEF seg
  <2>14. RowSound(child, q, open, peer, more, h) /\ SegsSound(more, h)
    <3>1. /\ q.nxt = g_tcp_iss + ISS + 1 /\ seg.seq = g_tcp_iss + ISS /\ EndOfSeg(seg) = g_tcp_iss + ISS + 1
          /\ q.una = g_tcp_iss + ISS
      BY <1>1, <2>3, <2>13
    <3>3. Opens(q, g_tcp_iss + ISS) BY <1>1, <2>3 DEF Opens
    <3>2. RowSound(child, q, open, peer, toPeer \cup {seg}, g_tcp_iss + ISS)
          /\ SegsSound(toPeer \cup {seg}, g_tcp_iss + ISS)
      BY <1>0, <2>17, <2>10, <2>11, <2>13, <3>1, <3>3, NewLocal
    <3> QED BY <1>1, <3>2
  <2>15. PeersSound(peer, h) BY <1>0, <1>1, LaterSound
  <2>16. Adds(more, toPeer, q) BY <2>13 DEF Adds
  <2> HIDE DEF more
  <2>22. q.bound BY <2>3
  <2>18. \A u \in Sids \ {child} : RowSound(u, socks[u], open, peer, more, h)
    <3>1. TcpSound(socks, open, peer, toPeer, g_tcp_iss) /\ h \in Nat /\ g_tcp_iss <= h BY <1>0, <1>1
    <3> QED BY <2>4, <2>16, <2>17, <2>22, <3>1, OthersLocal
  <2>19. socks' = PutOf(socks, child, q) BY <1>8, <2>1 DEF SynAnswered
  <2>20. TcpSound(socks', open, peer, more, h) /\ CallsSound(socks', open, call)
    BY <1>0, <1>1, <2>9, <2>14, <2>15, <2>17, <2>18, <2>19, PutSound
  <2>21. toPeer' = more BY <1>8 DEF more, seg, SynAnswered
  <2> QED BY <1>5, <2>20, <2>21 DEF TcpInv
<1> QED BY <1>6, <1>7, <1>8

LEMMA CallsKeep == ASSUME TcpInv, NEW t \in Threads, Calls(t) PROVE TcpInv'
<1>1. ASSUME NEW s \in Sids, Create(t, s) PROVE TcpInv' BY <1>1, CreateKeeps
<1>2. ASSUME NEW s \in Sids, Bind(t, s) PROVE TcpInv' BY <1>2, BindKeeps
<1>3. ASSUME NEW s \in Sids, Close(t, s) PROVE TcpInv' BY <1>3, CloseKeeps
<1>4. ASSUME NEW s \in Sids, Accept(t, s) PROVE TcpInv' BY <1>4, AcceptKeeps
<1>5. ASSUME NEW s \in Sids, Recv(t, s) PROVE TcpInv' BY <1>5, RecvKeeps
<1>6. ASSUME NEW s \in Sids, Send(t, s) PROVE TcpInv' BY <1>6, SendKeeps
<1>7. ASSUME NEW s \in Sids, NEW backlog \in BOOLEAN, Listen(t, s, backlog) PROVE TcpInv' BY <1>7, ListenKeeps
<1>8. ASSUME NEW s \in Sids, NEW to \in Servers, Connect(t, s, to) PROVE TcpInv' BY <1>8, ConnectKeeps
<1>9. ASSUME NEW s \in Sids, NEW how, Shutdown(t, s, how) PROVE TcpInv' BY <1>9, ShutdownKeeps
<1>10. CASE Block(t) BY <1>10, BlockKeeps
<1>11. CASE Tick(t) BY <1>11, TickKeeps
<1>12. CASE Resume(t) BY <1>12, ResumeKeeps
<1> QED BY <1>1, <1>2, <1>3, <1>4, <1>5, <1>6, <1>7, <1>8, <1>9, <1>10, <1>11, <1>12 DEF Calls

LEMMA InputKeeps == ASSUME TcpInv, Input PROVE TcpInv'
<1>1. PICK c \in Conns : \E m \in Sent(c) : InputSyn(m) \/ \E s \in Sids : InputConn(m, s) BY DEF Input
<1>2. PICK m \in Sent(c) : InputSyn(m) \/ \E s \in Sids : InputConn(m, s) BY <1>1
<1>3. CASE InputSyn(m) BY <1>3, InputSynKeeps
<1>4. ASSUME NEW s \in Sids, InputConn(m, s) PROVE TcpInv' BY <1>4, InputConnKeeps
<1> QED BY <1>2, <1>3, <1>4

LEMMA TcpStep == TcpInv /\ [Next]_vars => TcpInv'
<1> SUFFICES ASSUME TcpInv, [Next]_vars PROVE TcpInv'
  OBVIOUS
<1>1. ASSUME NEW t \in Threads, Calls(t) PROVE TcpInv' BY <1>1, CallsKeep
<1>2. CASE Exit BY <1>2, ExitKeeps
<1>3. CASE Input BY <1>3, InputKeeps
<1>4. CASE Peers
  <2>1. ASSUME NEW c \in Conns, PeerStep(c) PROVE TcpInv' BY <2>1, PeerStepKeeps
  <2>2. ASSUME NEW m \in toPeer, PeerInput(m) PROVE TcpInv' BY <2>2, PeerInputKeeps
  <2> QED BY <1>4, <2>1, <2>2 DEF Peers
<1>5. CASE UNCHANGED vars
  <2>1. UNCHANGED <<socks, open, call, g_tcp_iss, peer, toPeer>> BY <1>5 DEF vars
  <2> QED BY <2>1 DEF TcpInv
<1> QED BY <1>1, <1>2, <1>3, <1>4, <1>5 DEF Next

LEMMA TcpInit == Init => TcpInv
<1> SUFFICES ASSUME Init PROVE TcpInv
  OBVIOUS
<1>1. /\ socks = [s \in Sids |-> Unused] /\ open = {} /\ call = [t \in Threads |-> Idle] /\ g_tcp_iss = 0
      /\ peer = [c \in Conns |-> [st |-> "closed", nxt |-> 0, rcv |-> 0, fin |-> FALSE]] /\ toPeer = {}
  BY DEF Init
<1>2. /\ Unused \in SockRows /\ Unused.used = FALSE /\ Unused.parent = NULL /\ Unused.aq = <<>>
  BY RowTypes
<1> HIDE DEF Unused
<1>3. socks \in [Sids -> SockRows] /\ \A s \in Sids : socks[s] = Unused BY <1>1, <1>2
<1>4. \A s \in Sids : RowSound(s, socks[s], open, peer, toPeer, g_tcp_iss)
  <2> TAKE s \in Sids
  <2>1. s \notin open BY <1>1
  <2> QED BY <1>3, <2>1, UnusedLocal
<1>5. Ports(socks) BY <1>2, <1>3 DEF Ports
<1>6. Children(socks, open) BY <1>2, <1>3 DEF Children
<1>7. Queues(socks, open)
  <2>1. \A s \in Sids : Len(socks[s].aq) = 0 BY <1>2, <1>3
  <2>2. ASSUME NEW s \in Sids, NEW i \in 1 .. Len(socks[s].aq) PROVE FALSE
    <3>1. i \in 1 .. 0 BY <2>1, <2>2
    <3> QED BY <3>1
  <2> QED BY <2>2 DEF Queues
<1>8. PeersSound(peer, g_tcp_iss)
  <2>1. 0 < 0 + ISS BY DEF ISS
  <2> DEFINE p == [st |-> "closed", nxt |-> 0, rcv |-> 0, fin |-> FALSE]
  <2>2. p \in PeerRows /\ p.st = "closed" /\ p.rcv = 0 /\ p.fin = FALSE BY DEF PeerRows
  <2> HIDE DEF p
  <2>3. peer = [c \in Conns |-> p] BY <1>1 DEF p
  <2> QED BY <1>1, <2>1, <2>2, <2>3 DEF PeersSound
<1>9. SegsSound(toPeer, g_tcp_iss) BY <1>1 DEF SegsSound
<1>10. g_tcp_iss \in Nat /\ Offset(g_tcp_iss) = 0 /\ open \subseteq Sids BY <1>1 DEF Offset, ISS
<1>11. TcpSound(socks, open, peer, toPeer, g_tcp_iss) BY <1>3, <1>4, <1>5, <1>6, <1>7, <1>8, <1>9, <1>10 DEF TcpSound
<1>12. CallsSound(socks, open, call)
  <2>1. Idle \in CallRows /\ Idle.op = "none" /\ Rests(Idle) BY ZeroIsSid DEF Idle, CallRows, Rests
  <2> HIDE DEF Idle
  <2>2. call \in [Threads -> CallRows] /\ \A t \in Threads : call[t] = Idle BY <1>1, <2>1
  <2> QED BY <2>1, <2>2 DEF CallsSound
<1> QED BY <1>11, <1>12 DEF TcpInv

LEMMA InvInOrder == TcpInv => StreamInOrder
<1> SUFFICES ASSUME TcpInv, NEW s \in Sids, socks[s].used, ~socks[s].shut_rd
             PROVE  LET r == socks[s] IN
                    /\ \A i \in 1 .. Len(r.rx) : r.rx[i] = r.read + i - 1
                    /\ r.state \in {"ESTABLISHED", "FIN_WAIT1", "FIN_WAIT2"} => r.rcv = r.read + Len(r.rx)
  BY DEF StreamInOrder
<1> DEFINE r == socks[s]
<1>1. r \in SockRows /\ RowSound(s, r, open, peer, toPeer, g_tcp_iss) /\ r.used = TRUE BY UsedRow
<1>2. ~r.shut_rd OBVIOUS
<1> HIDE DEF r
<1>3. r.shut_rd = FALSE BY <1>1, <1>2 DEF SockRows
<1>4. Hears(r, peer) BY <1>1 DEF RowSound
<1>5. /\ \A i \in 1 .. Len(r.rx) : r.rx[i] = r.read + i - 1
      /\ r.state \in {"ESTABLISHED", "FIN_WAIT1", "FIN_WAIT2"} => r.rcv = r.read + Len(r.rx)
  BY <1>3, <1>4 DEF Hears
<1> QED BY <1>5 DEF r

LEMMA InvReceived == TcpInv => SentIsReceived
<1> SUFFICES ASSUME TcpInv, NEW s \in Sids, socks[s].used, socks[s].connected
             PROVE  LET r == socks[s] IN
                    /\ r.told <= peer[Conn(s)].rcv
                    /\ r.state \notin {"SYN_SENT", "SYN_RECV", "CLOSED"} => r.una <= peer[Conn(s)].rcv
  BY DEF SentIsReceived
<1> DEFINE r == socks[s]
<1>1. RowSound(s, r, open, peer, toPeer, g_tcp_iss) /\ r.used = TRUE /\ r.connected = TRUE BY UsedRow
<1>2. Conn(s) = Ends(r) BY DEF Conn, Ends
<1> HIDE DEF r
<1>3. Knows(s, r, open, peer) BY <1>1 DEF RowSound
<1>4. /\ r.told <= peer[Ends(r)].rcv
      /\ r.state \notin {"SYN_SENT", "SYN_RECV", "CLOSED"} => r.una <= peer[Ends(r)].rcv
  BY <1>1, <1>3 DEF Knows, Settled
<1> QED BY <1>2, <1>4 DEF r

LEMMA InvConnections == TcpInv => ConnectionsSound
<1> SUFFICES ASSUME TcpInv PROVE ConnectionsSound
  OBVIOUS
<1>1. /\ Ports(socks) /\ Children(socks, open) /\ Queues(socks, open) /\ socks \in [Sids -> SockRows]
  BY InvParts
<1>2. \A s \in Sids : /\ socks[s].used <=> socks[s].used = TRUE
                      /\ socks[s].bound <=> socks[s].bound = TRUE
                      /\ socks[s].connected <=> socks[s].connected = TRUE
  BY UsedRow
<1>3. OneOwnerOfPort BY <1>1, <1>2 DEF OneOwnerOfPort, Ports
<1>4. ASSUME NEW s \in Sids, socks[s].used, socks[s].parent # NULL
      PROVE  socks[socks[s].parent].used /\ socks[s].parent \in open /\ s \notin open
  <2> DEFINE r == socks[s]
             p == r.parent
  <2>1. p \in open /\ socks[p].used = TRUE BY <1>1, <1>4 DEF Children
  <2>2. RowSound(s, r, open, peer, toPeer, g_tcp_iss) /\ r.used = TRUE BY <1>4, UsedRow
  <2>3. r.parent # NULL BY <1>4
  <2> HIDE DEF r
  <2>4. s \notin open BY <2>2, <2>3 DEF RowSound, Kinds
  <2> QED BY <2>1, <2>4 DEF r
<1>5. ASSUME NEW s \in Sids, NEW i \in 1 .. Len(socks[s].aq)
      PROVE  LET child == socks[s].aq[i]
             IN  /\ socks[child].used /\ socks[child].connected /\ socks[child].parent = NULL
                 /\ child \notin open
                 /\ \A u \in Sids : \A j \in 1 .. Len(socks[u].aq) : socks[u].aq[j] = child => u = s /\ j = i
  BY <1>1, <1>5 DEF Queues
<1> QED BY <1>3, <1>4, <1>5 DEF ConnectionsSound, QueuesSound

LEMMA TcpAlways == Spec => []TcpInv
BY TcpInit, TcpStep, PTL DEF Spec

(* What sock_input_tcp acknowledged comes to the program once and in order:    *)
(* what stream_push put in the buffer follows what sock_recv has taken, and   *)
(* from the handshake to the remote end's FIN rcv_nxt follows it, for any     *)
(* number of sockets and clients and however segments are lost or repeated.   *)
THEOREM StreamsAreInOrder == Spec => []StreamInOrder
BY TcpAlways, InvInOrder, PTL

(* What sock_send has counted as sent the remote stack has taken, and a        *)
(* connection past its handshake is one both ends were in (socket.c), though  *)
(* ports, ends and sockets are used again and old segments are still about.   *)
THEOREM SentWasReceived == Spec => []SentIsReceived
BY TcpAlways, InvReceived, PTL

(* A child in an accept queue is connected and in no other, one still in its   *)
(* handshake has an open listener, which sock_close of that one relies on, and *)
(* no two sockets of a port have the same remote end (port_in_use).          *)
THEOREM ConnectionsAreSound == Spec => []ConnectionsSound
BY TcpAlways, InvConnections, PTL

-----------------------------------------------------------------------------
(* VirtioNet. Every receive buffer is posted once or in the descriptor of a    *)
(* frame that is not handled yet; one frame at a time is with the device.      *)

UsedRows == [desc : Descs, from : Hosts, kind : FrameKinds, frame : Nat]
RxRings == [free : Seq(Descs), slot : [Descs -> 0 .. RX_BUFS], avail : Seq(Descs), used : Seq(UsedRows),
            last : Nat]

(* The descriptors that hold a buffer: those the device may fill, and those   *)
(* filled that are not handled.                                             *)
Unhandled(q) == q.last + 1 .. Len(q.used)
Filled(q) == {q.used[i].desc : i \in Unhandled(q)}
Posted(q) == {q.avail[i] : i \in 1 .. Len(q.avail)} \cup Filled(q)

Once(q) ==
    /\ \A i, j \in 1 .. Len(q.avail) : q.avail[i] = q.avail[j] => i = j
    /\ \A i, j \in Unhandled(q) : q.used[i].desc = q.used[j].desc => i = j
    /\ \A i \in 1 .. Len(q.avail), j \in Unhandled(q) : q.avail[i] # q.used[j].desc

RxSound(q) ==
    /\ q \in RxRings
    /\ q.last <= Len(q.used) /\ Len(q.avail) + (Len(q.used) - q.last) = RX_BUFS
    /\ Once(q)
    /\ {q.slot[d] : d \in Posted(q)} = Bufs
    /\ \A i \in 1 .. Len(q.used) : q.used[i].frame = i

-----------------------------------------------------------------------------
(* A buffer is posted in the descriptor it was in.                           *)
LEMMA RefillIs ==
    ASSUME NEW q \in RxRings, NEW d \in Descs
    PROVE  Refill(q, d) = [free |-> q.free, slot |-> q.slot, avail |-> Append(q.avail, d), used |-> q.used,
                           last |-> q.last + 1]
<1> DEFINE f == <<d>> \o q.free
           q1 == [q EXCEPT !.slot[d] = NoBuf, !.free = f, !.last = q.last + 1]
           b == q.slot[d]
<1>1. f \in Seq(Descs) /\ f # <<>> /\ Head(f) = d /\ Tail(f) = q.free BY DEF RxRings
<1>2. q1 = [free |-> f, slot |-> [q.slot EXCEPT ![d] = NoBuf], avail |-> q.avail, used |-> q.used,
            last |-> q.last + 1]
  <2>1. q = [free |-> q.free, slot |-> q.slot, avail |-> q.avail, used |-> q.used, last |-> q.last]
    BY DEF RxRings
  <2>2. q1 = [[[q EXCEPT !.slot = [q.slot EXCEPT ![d] = NoBuf]] EXCEPT !.free = f] EXCEPT !.last = q.last + 1]
    BY DEF RxRings
  <2> HIDE DEF q1, f
  <2> QED BY <2>1, <2>2
<1>3. Refill(q, d) = Post(q1, b) BY DEF Refill
<1>5. [[q.slot EXCEPT ![d] = NoBuf] EXCEPT ![d] = b] = q.slot BY DEF RxRings
<1> HIDE DEF f, q1
<1>4. Post(q1, b) = [free |-> q.free, slot |-> [[q.slot EXCEPT ![d] = NoBuf] EXCEPT ![d] = b],
                     avail |-> Append(q.avail, d), used |-> q.used, last |-> q.last + 1]
  BY <1>1, <1>2 DEF Post
<1>6. Post(q1, b) = [free |-> q.free, slot |-> q.slot, avail |-> Append(q.avail, d), used |-> q.used,
                     last |-> q.last + 1]
  BY <1>4, <1>5
<1> HIDE DEF b
<1> QED BY <1>3, <1>6

LEMMA RefillSound ==
    ASSUME NEW q, RxSound(q), q.last < Len(q.used), NEW d, d = q.used[q.last + 1].desc,
           NEW q2, q2 = Refill(q, d)
    PROVE  RxSound(q2) /\ q2.last = q.last + 1 /\ q2.used = q.used
<1> DEFINE n == Len(q.avail)
           m == Len(q.used)
<1>1. q \in RxRings /\ q.last \in Nat /\ m \in Nat /\ n \in Nat /\ q.last + 1 \in 1 .. m /\ q.used \in Seq(UsedRows)
      /\ q.avail \in Seq(Descs)
  BY DEF RxSound, RxRings
<1>2. q.used[q.last + 1] \in UsedRows /\ d \in Descs
  <2>1. q.used[q.last + 1] \in UsedRows BY <1>1
  <2> QED BY <2>1 DEF UsedRows
<1>3. /\ q2.avail = Append(q.avail, d) /\ q2.used = q.used /\ q2.last = q.last + 1 /\ q2.slot = q.slot
      /\ q2 \in RxRings
  <2>1. q2 = [free |-> q.free, slot |-> q.slot, avail |-> Append(q.avail, d), used |-> q.used,
              last |-> q.last + 1]
    BY <1>1, <1>2, RefillIs
  <2>2. Append(q.avail, d) \in Seq(Descs) /\ q.last + 1 \in Nat BY <1>1, <1>2
  <2> QED BY <1>1, <2>1, <2>2 DEF RxRings
<1>4. /\ Len(q2.avail) = n + 1 /\ q2.avail[n + 1] = d
      /\ \A i \in 1 .. n : q2.avail[i] = q.avail[i]
  BY <1>1, <1>2, <1>3
<1>5. /\ q.last + 1 \in Unhandled(q)
      /\ \A i : i \in Unhandled(q2) <=> i \in Unhandled(q) /\ i # q.last + 1
  BY <1>1, <1>3 DEF Unhandled
<1>6. /\ \A i, j \in 1 .. n : q.avail[i] = q.avail[j] => i = j
      /\ \A i, j \in Unhandled(q) : q.used[i].desc = q.used[j].desc => i = j
      /\ \A i \in 1 .. n, j \in Unhandled(q) : q.avail[i] # q.used[j].desc
  BY DEF RxSound, Once
<1> HIDE DEF n, m
<1>7. Once(q2)
  <2>1. \A i, j \in 1 .. Len(q2.avail) : q2.avail[i] = q2.avail[j] => i = j
    <3>1. \A i \in 1 .. n : q2.avail[i] # d BY <1>4, <1>5, <1>6
    <3>2. \A i \in 1 .. n + 1 : i \in 1 .. n \/ i = n + 1 BY <1>1
    <3>3. ASSUME NEW i \in 1 .. n + 1, NEW j \in 1 .. n + 1, q2.avail[i] = q2.avail[j] PROVE i = j
      <4>1. CASE i \in 1 .. n /\ j \in 1 .. n BY <1>4, <1>6, <3>3, <4>1
      <4>2. CASE i \in 1 .. n /\ j = n + 1 BY <1>4, <3>1, <3>3, <4>2
      <4>3. CASE i = n + 1 /\ j \in 1 .. n BY <1>4, <3>1, <3>3, <4>3
      <4> QED BY <3>2, <4>1, <4>2, <4>3
    <3> QED BY <1>4, <3>3
  <2>2. \A i, j \in Unhandled(q2) : q2.used[i].desc = q2.used[j].desc => i = j
    BY <1>3, <1>5, <1>6
  <2>3. ASSUME NEW i \in 1 .. Len(q2.avail), NEW j \in Unhandled(q2) PROVE q2.avail[i] # q2.used[j].desc
    <3>1. j \in Unhandled(q) /\ j # q.last + 1 BY <1>5
    <3>2. CASE i \in 1 .. n
      <4>1. q2.avail[i] = q.avail[i] BY <1>4, <3>2
      <4>2. q.avail[i] # q.used[j].desc BY <1>6, <3>1, <3>2
      <4> QED BY <1>3, <4>1, <4>2
    <3>3. CASE i = n + 1 BY <1>3, <1>4, <1>5, <1>6, <3>1, <3>3
    <3> QED BY <1>1, <1>4, <3>2, <3>3
  <2> QED BY <2>1, <2>2, <2>3 DEF Once
<1>8. Posted(q2) = Posted(q)
  <2>1. Filled(q) = Filled(q2) \cup {d} BY <1>3, <1>5 DEF Filled
  <2>2. {q2.avail[i] : i \in 1 .. n + 1} = {q.avail[i] : i \in 1 .. n} \cup {d}
    <3>1. \A i : i \in 1 .. n + 1 <=> i \in 1 .. n \/ i = n + 1 BY <1>1
    <3> QED BY <1>4, <3>1
  <2> QED BY <1>4, <2>1, <2>2 DEF Posted, n
<1>9. q2.last <= Len(q2.used) /\ Len(q2.avail) + (Len(q2.used) - q2.last) = RX_BUFS
  <2>1. n + (m - q.last) = RX_BUFS BY DEF RxSound, n, m
  <2> DEFINE l == q.last
  <2>3. l \in Nat /\ n \in Nat /\ m \in Nat /\ l + 1 <= m BY <1>1
  <2> HIDE DEF l, n, m
  <2>2. (n + 1) + (m - (l + 1)) = n + (m - l) /\ l + 1 <= m BY <2>3
  <2> USE DEF l, n, m
  <2> QED BY <1>3, <1>4, <2>1, <2>2
<1>10. {q2.slot[e] : e \in Posted(q2)} = Bufs BY <1>3, <1>8 DEF RxSound
<1> QED BY <1>3, <1>7, <1>9, <1>10 DEF RxSound

Filling(q, u) == [q EXCEPT !.avail = Tail(@), !.used = Append(@, u)]

(* The device fills the oldest buffer posted.                                *)
LEMMA FillSound ==
    ASSUME NEW q, RxSound(q), q.avail # <<>>, NEW h \in Hosts, NEW kind \in FrameKinds,
           NEW u, u = [desc |-> Head(q.avail), from |-> h, kind |-> kind, frame |-> Len(q.used) + 1],
           NEW q2, q2 = Filling(q, u)
    PROVE  RxSound(q2) /\ q2.last = q.last /\ \A i \in 1 .. Len(q.used) : q2.used[i] = q.used[i]
<1> DEFINE n == Len(q.avail)
           m == Len(q.used)
<1>1. q \in RxRings /\ q.last \in Nat /\ m \in Nat /\ n \in Nat /\ n > 0 /\ q.last <= m
      /\ q.used \in Seq(UsedRows) /\ q.avail \in Seq(Descs)
  BY DEF RxSound, RxRings
<1>2. Head(q.avail) = q.avail[1] /\ q.avail[1] \in Descs /\ Tail(q.avail) \in Seq(Descs) /\ Len(Tail(q.avail)) = n - 1
      /\ \A i \in 1 .. n - 1 : Tail(q.avail)[i] = q.avail[i + 1]
  BY <1>1
<1>3. u \in UsedRows /\ u.desc = q.avail[1] /\ u.frame = m + 1 BY <1>1, <1>2 DEF UsedRows
<1>4. /\ q2.avail = Tail(q.avail) /\ q2.used = Append(q.used, u) /\ q2.last = q.last /\ q2.slot = q.slot
      /\ q2 \in RxRings
  <2>1. Append(q.used, u) \in Seq(UsedRows) BY <1>1, <1>3
  <2> QED BY <1>1, <1>2, <2>1 DEF RxRings, Filling
<1>5. /\ Len(q2.used) = m + 1 /\ q2.used[m + 1] = u
      /\ \A i \in 1 .. m : q2.used[i] = q.used[i]
  <2>1. Len(Append(q.used, u)) = m + 1 /\ Append(q.used, u)[m + 1] = u
        /\ \A i \in 1 .. m : Append(q.used, u)[i] = q.used[i]
    BY <1>1, <1>3
  <2> QED BY <1>4, <2>1
<1>6. Len(q2.avail) = n - 1 /\ \A i \in 1 .. n - 1 : q2.avail[i] = q.avail[i + 1] BY <1>2, <1>4
<1>7. \A i : i \in Unhandled(q2) <=> i \in Unhandled(q) \/ i = m + 1
  BY <1>1, <1>4, <1>5 DEF Unhandled
<1>8. Unhandled(q) \subseteq 1 .. m BY <1>1 DEF Unhandled
<1>9. Once(q) BY DEF RxSound
<1>10. 1 \in 1 .. n /\ \A i \in 1 .. n - 1 : i + 1 \in 1 .. n /\ i + 1 # 1 BY <1>1
<1>11. Once(q2)
  <2>1. \A i, j \in 1 .. n - 1 : q2.avail[i] = q2.avail[j] => i = j
    <3> SUFFICES ASSUME NEW i \in 1 .. n - 1, NEW j \in 1 .. n - 1, q2.avail[i] = q2.avail[j] PROVE i = j
      OBVIOUS
    <3>1. i + 1 = j + 1 BY <1>6, <1>9, <1>10 DEF Once
    <3> QED BY <3>1
  <2>2. \A i \in Unhandled(q) : q2.used[i].desc = q.used[i].desc /\ q.used[i].desc # q.avail[1] /\ i # m + 1
    <3>1. \A i \in Unhandled(q) : q2.used[i] = q.used[i] BY <1>5, <1>8
    <3>2. \A i \in Unhandled(q) : q.used[i].desc # q.avail[1] BY <1>9, <1>10 DEF Once
    <3>3. \A i \in Unhandled(q) : i # m + 1 BY <1>1, <1>8
    <3> QED BY <3>1, <3>2, <3>3
  <2>3. \A i, j \in Unhandled(q2) : q2.used[i].desc = q2.used[j].desc => i = j
    <3>1. q2.used[m + 1].desc = q.avail[1] BY <1>3, <1>5
    <3>2. \A i, j \in Unhandled(q) : q.used[i].desc = q.used[j].desc => i = j BY <1>9 DEF Once
    <3>3. \A i \in Unhandled(q) : q2.used[i].desc = q.used[i].desc /\ q.used[i].desc # q.avail[1] BY <2>2
    <3> SUFFICES ASSUME NEW i \in Unhandled(q2), NEW j \in Unhandled(q2),
                        q2.used[i].desc = q2.used[j].desc
                 PROVE  i = j
      OBVIOUS
    <3>4. (i \in Unhandled(q) \/ i = m + 1) /\ (j \in Unhandled(q) \/ j = m + 1) BY <1>7
    <3>5. CASE i \in Unhandled(q) /\ j \in Unhandled(q) BY <3>2, <3>3, <3>5
    <3>6. CASE i = m + 1 /\ j \in Unhandled(q) BY <3>1, <3>3, <3>6
    <3>7. CASE j = m + 1 /\ i \in Unhandled(q) BY <3>1, <3>3, <3>7
    <3> QED BY <3>4, <3>5, <3>6, <3>7
  <2>4. ASSUME NEW i \in 1 .. n - 1, NEW j \in Unhandled(q2) PROVE q2.avail[i] # q2.used[j].desc
    <3>1. CASE j \in Unhandled(q)
      <4>1. q.avail[i + 1] # q.used[j].desc BY <1>9, <1>10, <3>1 DEF Once
      <4> QED BY <1>6, <2>2, <3>1, <4>1
    <3>2. CASE j = m + 1
      <4>1. q2.used[j].desc = q.avail[1] BY <1>3, <1>5, <3>2
      <4> QED BY <1>6, <1>9, <1>10, <4>1 DEF Once
    <3> QED BY <1>7, <3>1, <3>2
  <2>5. n - 1 = Len(q2.avail) BY <1>6
  <2> HIDE DEF n
  <2> DEFINE k == n - 1
  <2>6. /\ \A i, j \in 1 .. k : q2.avail[i] = q2.avail[j] => i = j
        /\ \A i \in 1 .. k, j \in Unhandled(q2) : q2.avail[i] # q2.used[j].desc
    BY <2>1, <2>4
  <2>7. k = Len(q2.avail) BY <2>5
  <2> HIDE DEF k
  <2> QED BY <2>3, <2>6, <2>7 DEF Once
<1>12. Posted(q2) = Posted(q)
  <2>1. Filled(q2) = Filled(q) \cup {q.avail[1]}
    <3>1. \A i \in Unhandled(q) : q2.used[i].desc = q.used[i].desc BY <1>5, <1>8
    <3>2. q2.used[m + 1].desc = q.avail[1] BY <1>3, <1>5
    <3> QED BY <1>7, <3>1, <3>2 DEF Filled
  <2>2. {q.avail[i] : i \in 1 .. n} = {q2.avail[i] : i \in 1 .. n - 1} \cup {q.avail[1]}
    <3>1. ASSUME NEW i \in 1 .. n, i # 1 PROVE i - 1 \in 1 .. n - 1 /\ q2.avail[i - 1] = q.avail[i]
      <4>1. i - 1 \in 1 .. n - 1 /\ (i - 1) + 1 = i BY <1>1, <3>1
      <4> QED BY <1>6, <4>1
    <3>2. \A i \in 1 .. n - 1 : i + 1 \in 1 .. n /\ q2.avail[i] = q.avail[i + 1] BY <1>6, <1>10
    <3>3. \A i \in 1 .. n : i = 1 \/ \E j \in 1 .. n - 1 : q.avail[i] = q2.avail[j] BY <3>1
    <3>4. {q.avail[i] : i \in 1 .. n} \subseteq {q2.avail[i] : i \in 1 .. n - 1} \cup {q.avail[1]}
      <4> SUFFICES ASSUME NEW i \in 1 .. n, i # 1 PROVE q.avail[i] \in {q2.avail[j] : j \in 1 .. n - 1}
        OBVIOUS
      <4>1. PICK j \in 1 .. n - 1 : q.avail[i] = q2.avail[j] BY <3>3
      <4> QED BY <4>1
    <3>5. {q2.avail[i] : i \in 1 .. n - 1} \subseteq {q.avail[i] : i \in 1 .. n} BY <3>2
    <3>6. q.avail[1] \in {q.avail[i] : i \in 1 .. n} BY <1>10
    <3> QED BY <3>4, <3>5, <3>6
  <2> QED BY <1>6, <2>1, <2>2 DEF Posted
<1>13. q2.last <= Len(q2.used) /\ Len(q2.avail) + (Len(q2.used) - q2.last) = RX_BUFS
  <2>1. n + (m - q.last) = RX_BUFS BY DEF RxSound
  <2> DEFINE l == q.last
  <2>3. l \in Nat /\ n \in Nat /\ m \in Nat /\ l <= m BY <1>1
  <2> HIDE DEF l, n, m
  <2>2. (n - 1) + ((m + 1) - l) = n + (m - l) /\ l <= m + 1 BY <2>3
  <2> USE DEF l, n, m
  <2> QED BY <1>4, <1>5, <1>6, <2>1, <2>2
<1>14. {q2.slot[e] : e \in Posted(q2)} = Bufs BY <1>4, <1>12 DEF RxSound
<1>15. \A i \in 1 .. m + 1 : q2.used[i].frame = i
  <2>1. \A i \in 1 .. m : q.used[i].frame = i BY DEF RxSound
  <2>2. \A i \in 1 .. m + 1 : i \in 1 .. m \/ i = m + 1 BY <1>1
  <2> QED BY <1>3, <1>5, <2>1, <2>2
<1> QED BY <1>4, <1>5, <1>11, <1>13, <1>14, <1>15 DEF RxSound

TxRings == [free : Int, avail : Seq(Nat), done : Nat, last : Nat, pending : BOOLEAN]
Transmits == [frame : Nat, from : {"nobody", "handler", "request", "call"},
              at : {"none", "claim", "compare", "drain", "last"}]

(* One frame is with the device or done and not seen yet, and then tx_pending *)
(* says so; it is the last one given, and the device has not another in pkt.  *)
TxSound(q, p, w, g, cl) ==
    /\ q \in TxRings /\ w \in Seq(Nat) /\ g \in Seq(Nat)
    /\ q.last <= q.done /\ q.done = Len(w) /\ q.done + Len(q.avail) = Len(g)
    /\ Len(q.avail) + (q.done - q.last) = (IF q.pending = TRUE THEN 1 ELSE 0)
    /\ q.avail # <<>> => p = Len(g)
    /\ \A i \in 1 .. Len(g) : g[i] = i
    /\ \A i \in 1 .. Len(w) : w[i] = i
    /\ cl \subseteq 1 .. Len(w)

CallSound(x, n, st, q) ==
    /\ x \in Transmits
    /\ x.at = "none" => x = NoTx
    /\ x.at = "claim" => x.frame = n + 1
    /\ x.at \in {"compare", "drain", "last"} => x.frame = n /\ n > 0
    /\ x.from = "handler" => st = "poll" /\ q.last < Len(q.used)

HandledSound(hs, x, q, re) ==
    /\ hs \in Seq(Nat) /\ \A i \in 1 .. Len(hs) : hs[i] = i
    /\ re \in BOOLEAN
    /\ re = FALSE => Len(hs) = q.last + (IF x.from = "handler" THEN 1 ELSE 0)

NicInv ==
    /\ RxSound(rxq)
    /\ TxSound(txq, pkt, wire, given, claimed)
    /\ CallSound(tx, Len(given), stage, rxq)
    /\ HandledSound(handled, tx, rxq, reentered)

-----------------------------------------------------------------------------
LEMMA TxRingIs ==
    ASSUME NEW f \in Int, NEW a \in Seq(Nat), NEW d \in Nat, NEW l \in Nat, NEW b \in BOOLEAN,
           NEW q, q = [free |-> f, avail |-> a, done |-> d, last |-> l, pending |-> b]
    PROVE  q \in TxRings /\ q.avail = a /\ q.done = d /\ q.last = l /\ q.pending = b
BY DEF TxRings

LEMMA DrainSound ==
    ASSUME NEW q, NEW p, NEW w, NEW g, NEW cl, TxSound(q, p, w, g, cl), NEW q2, q2 = Drain(q)
    PROVE  TxSound(q2, p, w, g, cl) /\ q2.last = q2.done
<1> DEFINE b == IF q.done # q.last THEN FALSE ELSE q.pending
           v == q.free + 2 * (q.done - q.last)
<1>1. q \in TxRings BY DEF TxSound
<1>2. b \in BOOLEAN /\ (q.done # q.last => b = FALSE) /\ (q.done = q.last => b = q.pending) BY <1>1 DEF TxRings
<1>3. v \in Int BY <1>1 DEF TxRings
<1>4. q2 = [free |-> v, avail |-> q.avail, done |-> q.done, last |-> q.done, pending |-> b]
  BY <1>1 DEF Drain, TxRings
<1> HIDE DEF b, v
<1>5. q2 \in TxRings /\ q2.avail = q.avail /\ q2.done = q.done /\ q2.last = q.done /\ q2.pending = b
  BY <1>1, <1>2, <1>3, <1>4 DEF TxRings
<1>6. q.done \in Nat /\ q.last \in Nat /\ Len(q.avail) \in Nat BY <1>1 DEF TxRings
<1>7. Len(q.avail) + (q.done - q.last) = (IF q.pending = TRUE THEN 1 ELSE 0) /\ q.last <= q.done BY DEF TxSound
<1>8. Len(q.avail) + (q.done - q.done) = (IF b = TRUE THEN 1 ELSE 0) /\ q.done <= q.done
  <2>1. CASE q.done = q.last BY <1>2, <1>6, <1>7, <2>1
  <2>2. CASE q.done # q.last
    <3>1. q.done - q.last >= 1 BY <1>6, <1>7, <2>2
    <3>2. Len(q.avail) + (q.done - q.last) <= 1 BY <1>7
    <3>3. Len(q.avail) = 0 BY <1>6, <3>1, <3>2
    <3> QED BY <1>2, <1>6, <2>2, <3>3
  <2> QED BY <2>1, <2>2
<1> QED BY <1>5, <1>8 DEF TxSound

Gave(q, f) == [q EXCEPT !.free = @ - 2, !.avail = Append(@, f), !.pending = TRUE]
Did(q) == [q EXCEPT !.avail = Tail(@), !.done = @ + 1]

(* A frame is given to the device when none is pending.                      *)
LEMMA ClaimSound ==
    ASSUME NEW q, NEW p, NEW w, NEW g, NEW cl, TxSound(q, p, w, g, cl), q.last = q.done, MayClaim(q),
           NEW f, f = Len(g) + 1
    PROVE  TxSound(Gave(q, f), f, w, Append(g, f), cl) /\ Len(Append(g, f)) = f
<1> DEFINE g2 == Append(g, f)
           q2 == Gave(q, f)
<1>1. q \in TxRings /\ w \in Seq(Nat) /\ g \in Seq(Nat) BY DEF TxSound
<1>2. q.done \in Nat /\ Len(q.avail) \in Nat /\ Len(g) \in Nat /\ q.avail \in Seq(Nat) /\ q.pending \in BOOLEAN
  BY <1>1 DEF TxRings
<1>3. q.pending # TRUE BY DEF MayClaim
<1>4. Len(q.avail) = 0
  <2>1. Len(q.avail) + (q.done - q.last) = 0 BY <1>3 DEF TxSound
  <2> QED BY <1>2, <2>1
<1>5. f \in Nat /\ g2 \in Seq(Nat) /\ Len(g2) = f /\ g2[f] = f /\ \A i \in 1 .. Len(g) : g2[i] = g[i]
  BY <1>1, <1>2
<1>6. Append(q.avail, f) \in Seq(Nat) /\ Len(Append(q.avail, f)) = 1 BY <1>2, <1>4, <1>5
<1> HIDE DEF g2
<1>7. /\ q2 \in TxRings /\ Len(q2.avail) = 1 /\ q2.done = q.done /\ q2.last = q.done /\ q2.pending = TRUE
  <2> DEFINE a == Append(q.avail, f)
             v == q.free - 2
             b == TRUE
  <2>1. q2 = [free |-> v, avail |-> a, done |-> q.done, last |-> q.done, pending |-> b]
    <3>1. q = [free |-> q.free, avail |-> q.avail, done |-> q.done, last |-> q.done, pending |-> q.pending]
      BY <1>1 DEF TxRings
    <3>2. q2 = [[[q EXCEPT !.free = v] EXCEPT !.avail = a] EXCEPT !.pending = b] BY DEF Gave
    <3> HIDE DEF q2, v, a, b
    <3> QED BY <3>1, <3>2
  <2> HIDE DEF q2
  <2>2. v \in Int /\ a \in Seq(Nat) /\ Len(a) = 1 BY <1>1, <1>6 DEF TxRings
  <2>3. b \in BOOLEAN OBVIOUS
  <2> HIDE DEF a, v, b
  <2>4. q2 \in TxRings /\ q2.avail = a /\ q2.done = q.done /\ q2.last = q.done /\ q2.pending = b
    BY <1>2, <2>1, <2>2, <2>3, TxRingIs
  <2> QED BY <2>2, <2>4 DEF b
<1>8. q2.last <= q2.done /\ q2.done = Len(w) /\ q2.done + Len(q2.avail) = Len(g2)
      /\ Len(q2.avail) + (q2.done - q2.last) = 1
  <2>1. q.done = Len(w) /\ q.done + Len(q.avail) = Len(g) BY DEF TxSound
  <2> DEFINE d == q.done
             n == Len(g)
  <2>2. d \in Nat /\ d = n /\ Len(g2) = n + 1 /\ q2.done = d /\ q2.last = d BY <1>2, <1>4, <1>5, <1>7, <2>1
  <2> HIDE DEF d, n
  <2>3. d <= d /\ d + 1 = n + 1 /\ 1 + (d - d) = 1 BY <2>2
  <2> QED BY <1>7, <2>1, <2>2, <2>3 DEF d
<1>9. \A i \in 1 .. f : g2[i] = i
  <2>1. \A i \in 1 .. Len(g) : g[i] = i BY DEF TxSound
  <2>2. \A i \in 1 .. f : i \in 1 .. Len(g) \/ i = f BY <1>2
  <2> QED BY <1>5, <2>1, <2>2
<1>10. (\A i \in 1 .. Len(w) : w[i] = i) /\ cl \subseteq 1 .. Len(w) BY DEF TxSound
<1> HIDE DEF q2
<1>11. TxSound(q2, f, w, g2, cl) BY <1>1, <1>5, <1>7, <1>8, <1>9, <1>10 DEF TxSound
<1> QED BY <1>5, <1>11 DEF g2, q2

(* What the device reads from pkt is the frame it was given.                 *)
LEMMA CompleteSound ==
    ASSUME NEW q, NEW p, NEW w, NEW g, NEW cl, TxSound(q, p, w, g, cl), q.avail # <<>>,
           NEW w2, w2 = Append(w, p),
           NEW q2, q2 = Did(q)
    PROVE  TxSound(q2, p, w2, g, cl)
<1>1. q \in TxRings /\ w \in Seq(Nat) /\ g \in Seq(Nat) BY DEF TxSound
<1>2. /\ q.done \in Nat /\ q.last \in Nat /\ Len(q.avail) \in Nat /\ Len(q.avail) > 0
      /\ Tail(q.avail) \in Seq(Nat) /\ Len(Tail(q.avail)) = Len(q.avail) - 1 /\ q.pending \in BOOLEAN
  BY <1>1 DEF TxRings
<1>3. /\ q.last <= q.done /\ q.done = Len(w) /\ q.done + Len(q.avail) = Len(g) /\ p = Len(g)
      /\ Len(q.avail) + (q.done - q.last) = (IF q.pending = TRUE THEN 1 ELSE 0)
  BY DEF TxSound
<1>4. Len(q.avail) = 1 /\ q.pending = TRUE /\ q.done = q.last
  <2>1. q.done - q.last >= 0 BY <1>2, <1>3
  <2>2. Len(q.avail) + (q.done - q.last) >= 1 BY <1>2, <2>1
  <2>3. q.pending = TRUE BY <1>3, <2>2
  <2>4. Len(q.avail) + (q.done - q.last) = 1 BY <1>3, <2>3
  <2> DEFINE n == Len(q.avail)
             d == q.done
             l == q.last
  <2>5. n \in Nat /\ n > 0 /\ d \in Nat /\ l \in Nat /\ d - l >= 0 /\ n + (d - l) = 1 BY <1>2, <2>1, <2>4
  <2> HIDE DEF n, d, l
  <2>6. n = 1 /\ d = l BY <2>5
  <2> QED BY <2>3, <2>6 DEF n, d, l
<1>5. p \in Nat /\ p = Len(w) + 1 BY <1>2, <1>3, <1>4
<1>6. w2 \in Seq(Nat) /\ Len(w2) = p /\ w2[p] = p /\ \A i \in 1 .. Len(w) : w2[i] = w[i] BY <1>1, <1>5
<1>7. /\ q2 \in TxRings /\ q2.avail = Tail(q.avail) /\ q2.done = q.done + 1 /\ q2.last = q.last
      /\ q2.pending = q.pending
  <2> DEFINE a == Tail(q.avail)
             v == q.done + 1
  <2>1. q2 = [free |-> q.free, avail |-> a, done |-> v, last |-> q.last, pending |-> q.pending]
    BY <1>1 DEF TxRings, Did
  <2>2. v \in Nat /\ a \in Seq(Nat) /\ q.free \in Int BY <1>1, <1>2 DEF TxRings
  <2> HIDE DEF a, v
  <2>3. q2 \in TxRings /\ q2.avail = a /\ q2.done = v /\ q2.last = q.last /\ q2.pending = q.pending
    BY <1>2, <2>1, <2>2, TxRingIs
  <2> QED BY <2>3 DEF a, v
<1>8. /\ q2.last <= q2.done /\ q2.done = Len(w2) /\ q2.done + Len(q2.avail) = Len(g)
      /\ Len(q2.avail) + (q2.done - q2.last) = 1
  <2>1. Len(q2.avail) = 0 BY <1>2, <1>4, <1>7
  <2> DEFINE d == q.done
  <2>2. d \in Nat /\ d = Len(w) /\ Len(w2) = d + 1 /\ Len(g) = d + 1 BY <1>2, <1>3, <1>5, <1>6
  <2>3. q2.done = d + 1 /\ q2.last = d BY <1>4, <1>7
  <2> HIDE DEF d
  <2>4. d + 1 + 0 = d + 1 /\ 0 + (d + 1 - d) = 1 /\ d <= d + 1 BY <2>2
  <2> QED BY <2>1, <2>2, <2>3, <2>4
<1>9. \A i \in 1 .. p : w2[i] = i
  <2>1. \A i \in 1 .. Len(w) : w[i] = i BY DEF TxSound
  <2>2. \A i \in 1 .. p : i \in 1 .. Len(w) \/ i = p BY <1>2, <1>3, <1>5
  <2> QED BY <1>6, <2>1, <2>2
<1>10. (\A i \in 1 .. Len(g) : g[i] = i) /\ cl \subseteq 1 .. p
  <2>1. cl \subseteq 1 .. Len(w) /\ \A i \in 1 .. Len(g) : g[i] = i BY DEF TxSound
  <2>2. 1 .. Len(w) \subseteq 1 .. p BY <1>2, <1>3, <1>5
  <2> QED BY <2>1, <2>2
<1> QED BY <1>1, <1>3, <1>4, <1>6, <1>7, <1>8, <1>9, <1>10 DEF TxSound

(* A completion that is seen after the frame was given is the frame's own.    *)
LEMMA SeenSound ==
    ASSUME NEW q, NEW p, NEW w, NEW g, NEW cl, TxSound(q, p, w, g, cl), q.last # q.done,
           NEW f, f = Len(g), f > 0
    PROVE  TxSound(q, p, w, g, cl \cup {f})
<1>1. q \in TxRings /\ g \in Seq(Nat) BY DEF TxSound
<1>2. q.done \in Nat /\ q.last \in Nat /\ Len(q.avail) \in Nat BY <1>1 DEF TxRings
<1>3. /\ q.last <= q.done /\ q.done = Len(w) /\ q.done + Len(q.avail) = Len(g)
      /\ Len(q.avail) + (q.done - q.last) <= 1
  BY DEF TxSound
<1>4. f \in 1 .. Len(w) BY <1>2, <1>3
<1> QED BY <1>4 DEF TxSound

LEMMA IdleCall == \A n, st, q : CallSound(NoTx, n, st, q)
BY DEF CallSound, NoTx, Transmits

LEMMA CallLater ==
    ASSUME NEW x, NEW n, NEW st, NEW q, CallSound(x, n, st, q), NEW q2, q2.last = q.last,
           NEW k, k = Len(q.used), NEW k2, k2 = Len(q2.used), k \in Nat, k2 \in Nat, k <= k2, q.last \in Nat
    PROVE  CallSound(x, n, st, q2)
BY DEF CallSound

LEMMA CallAt ==
    ASSUME NEW x, NEW n, NEW st, NEW q, CallSound(x, n, st, q), NEW n2, NEW at,
           \/ at = "compare" /\ x.at = "claim" /\ x.frame = n2 /\ n2 > 0
           \/ at \in {"compare", "drain", "last"} /\ x.at \in {"compare", "drain", "last"} /\ n2 = n,
           NEW x2, x2 = [x EXCEPT !.at = at]
    PROVE  CallSound(x2, n2, st, q) /\ x2.from = x.from
<1>1. /\ x2 \in Transmits /\ x2.at = at /\ x2.from = x.from /\ x2.frame = x.frame
  BY DEF CallSound, Transmits
<1> QED BY <1>1 DEF CallSound

LEMMA CallNew ==
    ASSUME NEW n \in Nat, NEW st, NEW q, NEW from \in {"handler", "request", "call"},
           from = "handler" => st = "poll" /\ q.last < Len(q.used),
           NEW x, x = [frame |-> n + 1, from |-> from, at |-> "claim"]
    PROVE  CallSound(x, n, st, q) /\ x.from = from
<1>1. x \in Transmits /\ x.at = "claim" /\ x.from = from /\ x.frame = n + 1 BY DEF Transmits
<1> QED BY <1>1 DEF CallSound

LEMMA HandledLater ==
    ASSUME NEW hs, NEW x, NEW q, NEW re, HandledSound(hs, x, q, re), NEW x2, NEW q2,
           (x2.from = "handler") = (x.from = "handler"), q2.last = q.last
    PROVE  HandledSound(hs, x2, q2, re)
BY DEF HandledSound

LEMMA ReturnSound ==
    ASSUME NicInv, tx.at # "none", reentered = FALSE, UNCHANGED <<handled, reentered>>, NEW ok, NetReturn(ok)
    PROVE  /\ RxSound(rxq') /\ CallSound(tx', Len(given'), stage', rxq')
           /\ HandledSound(handled', tx', rxq', reentered')
<1>1. RxSound(rxq) /\ CallSound(tx, Len(given), stage, rxq) /\ HandledSound(handled, tx, rxq, reentered)
  BY DEF NicInv
<1>2. tx' = NoTx /\ tx'.from = "nobody" BY DEF NetReturn, NoTx
<1>3. CallSound(tx', Len(given'), stage', rxq') BY <1>2, IdleCall
<1>4. /\ handled \in Seq(Nat) /\ (\A i \in 1 .. Len(handled) : handled[i] = i)
      /\ Len(handled) = rxq.last + (IF tx.from = "handler" THEN 1 ELSE 0)
  BY <1>1 DEF HandledSound
<1>5. CASE tx.from = "handler"
  <2>1. rxq.last < Len(rxq.used) BY <1>1, <1>5 DEF CallSound
  <2>2. rxq' = Refill(rxq, Current.desc) BY <1>5 DEF NetReturn
  <2>3. Current.desc = rxq.used[rxq.last + 1].desc BY DEF Current
  <2>4. RxSound(rxq') /\ rxq'.last = rxq.last + 1 BY <1>1, <2>1, <2>2, <2>3, RefillSound
  <2>5. HandledSound(handled, tx', rxq', reentered) BY <1>1, <1>2, <1>4, <1>5, <2>4 DEF HandledSound
  <2> QED BY <1>3, <2>4, <2>5
<1>6. CASE tx.from # "handler"
  <2>1. rxq' = rxq BY <1>6 DEF NetReturn
  <2>2. HandledSound(handled, tx', rxq, reentered) BY <1>1, <1>2, <1>6, HandledLater
  <2> QED BY <1>1, <1>3, <2>1, <2>2
<1> QED BY <1>5, <1>6

(* What is reported as sent.                                                 *)
LEMMA ReturnClaims ==
    ASSUME NEW ok, NetReturn(ok)
    PROVE  claimed' = IF ok THEN claimed \cup {tx.frame} ELSE claimed
BY DEF NetReturn

LEMMA NextSound ==
    ASSUME NicInv, NetNext
    PROVE  NicInv'
<1>1. /\ RxSound(rxq) /\ TxSound(txq, pkt, wire, given, claimed) /\ CallSound(tx, Len(given), stage, rxq)
      /\ HandledSound(handled, tx, rxq, reentered)
  BY DEF NicInv
<1>2. reentered = FALSE
  <2>1. ~reentered BY DEF NetNext
  <2>2. reentered \in BOOLEAN BY <1>1 DEF HandledSound
  <2> QED BY <2>1, <2>2
<1>3. /\ rxq \in RxRings /\ rxq.last \in Nat /\ Len(rxq.used) \in Nat /\ rxq.last <= Len(rxq.used)
      /\ Len(given) \in Nat
  BY <1>1 DEF RxSound, RxRings, TxSound
<1>4. tx.at = "none" => tx = NoTx /\ tx.from # "handler" BY <1>1 DEF CallSound, NoTx
<1>5. stage # "poll" => tx.from # "handler" BY <1>1 DEF CallSound
<1>6. tx.from # "handler" => Len(handled) = rxq.last BY <1>1, <1>2, <1>3 DEF HandledSound
<1>7. LET q == Drain(txq) IN TxSound(q, pkt, wire, given, claimed) /\ q.last = q.done BY <1>1, DrainSound
<1>8. CASE Receive
  <2>1. /\ stage = "idle" /\ txq' = Drain(txq) /\ stage' = "poll"
        /\ UNCHANGED <<rxq, pkt, tx, wire, given, handled, claimed, reentered>>
    BY <1>8 DEF Receive
  <2>2. CallSound(tx, Len(given), "poll", rxq) BY <1>1, <1>5, <2>1 DEF CallSound
  <2> QED BY <1>1, <1>7, <2>1, <2>2 DEF NicInv
<1>9. ASSUME NEW h \in Hosts, SendTo(h) PROVE NicInv'
  <2>1. /\ stage = "idle" /\ UNCHANGED <<rxq, txq, pkt, wire, given, handled, claimed, reentered>>
        /\ \E from \in {"request", "call"} : Transmit(from)
    BY <1>9 DEF SendTo
  <2>2. PICK from \in {"request", "call"} : tx' = [frame |-> Len(given) + 1, from |-> from, at |-> "claim"]
    BY <2>1 DEF Transmit, Sends
  <2>3. CallSound(tx', Len(given), stage', rxq) /\ tx'.from = from BY <1>3, <2>2, CallNew
  <2>4. HandledSound(handled, tx', rxq, reentered) BY <1>1, <1>5, <2>1, <2>3, HandledLater
  <2> QED BY <1>1, <2>1, <2>3, <2>4 DEF NicInv
<1>10. CASE TxClaim
  <2> DEFINE q == Drain(txq)
  <2>1. tx.at = "claim" /\ UNCHANGED <<wire, handled, reentered>> BY <1>10 DEF TxClaim
  <2>2. CASE /\ MayClaim(q)
             /\ txq' = [q EXCEPT !.free = @ - 2, !.avail = Append(@, tx.frame), !.pending = TRUE]
             /\ pkt' = tx.frame
             /\ given' = Append(given, tx.frame)
             /\ tx' = [tx EXCEPT !.at = "compare"]
             /\ UNCHANGED <<rxq, netCall, stage, claimed>>
    <3>1. txq' = Gave(q, tx.frame) /\ MayClaim(q) BY <2>2 DEF Gave
    <3>2. tx.frame = Len(given) + 1 BY <1>1, <2>1 DEF CallSound
    <3>3. given' = Append(given, tx.frame) /\ pkt' = tx.frame /\ UNCHANGED <<rxq, stage, claimed>> BY <2>2
    <3>9. TxSound(q, pkt, wire, given, claimed) /\ q.last = q.done BY <1>7
    <3>10. given' = Append(given, tx.frame) BY <2>2
    <3> HIDE DEF q
    <3>11. LET f == tx.frame
           IN  TxSound(Gave(q, f), f, wire, Append(given, f), claimed) /\ Len(Append(given, f)) = f
      BY <3>1, <3>2, <3>9, ClaimSound
    <3>4. TxSound(txq', tx.frame, wire, given', claimed) /\ Len(given') = tx.frame
      BY <3>1, <3>10, <3>11
    <3>5. tx.frame > 0 BY <1>3, <3>2
    <3>6. tx' = [tx EXCEPT !.at = "compare"] BY <2>2
    <3>7. CallSound(tx', Len(given'), stage, rxq) /\ tx'.from = tx.from
      BY <1>1, <2>1, <3>4, <3>5, <3>6, CallAt
    <3>8. HandledSound(handled, tx', rxq, reentered) BY <1>1, <3>7, HandledLater
    <3> QED BY <1>1, <2>1, <3>3, <3>4, <3>7, <3>8 DEF NicInv
  <2>3. CASE txq' = q /\ NetReturn(FALSE) /\ UNCHANGED <<pkt, given>>
    <3>1. claimed' = claimed BY <2>3, ReturnClaims
    <3>2. /\ RxSound(rxq') /\ CallSound(tx', Len(given'), stage', rxq')
          /\ HandledSound(handled', tx', rxq', reentered')
      BY <1>2, <2>1, <2>3, ReturnSound
    <3> QED BY <1>7, <2>1, <2>3, <3>1, <3>2 DEF NicInv
  <2> QED BY <1>10, <2>2, <2>3 DEF TxClaim
<1>11. ASSUME tx.at \in {"compare", "drain", "last"}, NetReturn(txq.last # txq.done),
              txq' \in {txq, Drain(txq)}, UNCHANGED <<pkt, wire, given, handled, reentered>>
       PROVE  NicInv'
  <2>1. /\ RxSound(rxq') /\ CallSound(tx', Len(given'), stage', rxq')
        /\ HandledSound(handled', tx', rxq', reentered')
    BY <1>2, <1>11, ReturnSound
  <2>2. tx.frame = Len(given) /\ Len(given) > 0 BY <1>1, <1>11 DEF CallSound
  <2>3. TxSound(txq, pkt, wire, given, claimed')
    <3>1. CASE txq.last # txq.done
      <4>1. claimed' = claimed \cup {tx.frame} BY <1>11, <3>1, ReturnClaims
      <4> QED BY <1>1, <2>2, <3>1, <4>1, SeenSound
    <3>2. CASE txq.last = txq.done
      <4>1. claimed' = claimed BY <1>11, <3>2, ReturnClaims
      <4> QED BY <1>1, <4>1
    <3> QED BY <3>1, <3>2
  <2>4. TxSound(Drain(txq), pkt, wire, given, claimed') BY <2>3, DrainSound
  <2> QED BY <1>11, <2>1, <2>3, <2>4 DEF NicInv
<1>12. ASSUME tx.at \in {"compare", "drain", "last"}, NEW at \in {"compare", "drain", "last"},
              tx' = [tx EXCEPT !.at = at], txq' \in {txq, Drain(txq)},
              UNCHANGED <<rxq, stage, claimed, pkt, wire, given, handled, reentered>>
       PROVE  NicInv'
  <2>1. CallSound(tx', Len(given), stage, rxq) /\ tx'.from = tx.from BY <1>1, <1>12, CallAt
  <2>2. HandledSound(handled, tx', rxq, reentered) BY <1>1, <2>1, HandledLater
  <2> QED BY <1>1, <1>7, <1>12, <2>1, <2>2 DEF NicInv
<1>13. CASE TxCompare
  <2>1. tx.at = "compare" /\ UNCHANGED <<pkt, wire, given, handled, reentered>> BY <1>13 DEF TxCompare
  <2>2. CASE txq.last # txq.done
    <3>1. txq' = Drain(txq) /\ NetReturn(TRUE) BY <1>13, <2>2 DEF TxCompare
    <3>2. (txq.last # txq.done) = TRUE BY <2>2
    <3> QED BY <1>11, <2>1, <3>1, <3>2
  <2>3. CASE txq.last = txq.done
    <3>1. tx' = [tx EXCEPT !.at = "drain"] /\ UNCHANGED <<txq, rxq, stage, claimed>>
      BY <1>13, <2>3 DEF TxCompare
    <3> QED BY <1>12, <2>1, <3>1
  <2> QED BY <2>2, <2>3
<1>14. CASE TxDrain
  <2>1. tx.at = "drain" /\ UNCHANGED <<pkt, wire, given, handled, reentered, rxq, stage, claimed>> /\ txq' = Drain(txq)
    BY <1>14 DEF TxDrain
  <2>2. \E at \in {"compare", "last"} : tx' = [tx EXCEPT !.at = at] BY <1>14 DEF TxDrain
  <2> QED BY <1>12, <2>1, <2>2
<1>15. CASE TxLast
  <2>1. tx.at = "last" /\ UNCHANGED <<pkt, wire, given, handled, reentered>> BY <1>15 DEF TxLast
  <2>2. txq' \in {txq, Drain(txq)} /\ NetReturn(txq.last # txq.done) BY <1>15 DEF TxLast
  <2> QED BY <1>11, <2>1, <2>2
<1>16. CASE PollDone
  <2>1. tx.at = "none" /\ stage = "poll" /\ UNCHANGED <<rxq, txq, pkt, wire, given, handled, claimed, reentered>>
    BY <1>16 DEF PollDone
  <2>2. \/ tx' = tx
        \/ \E from \in {"request", "call"} : Transmit(from)
    BY <1>16 DEF PollDone
  <2>3. CASE tx' = tx
    <3>1. CallSound(tx', Len(given), stage', rxq) BY <1>4, <2>1, <2>3, IdleCall
    <3> QED BY <1>1, <2>1, <2>3, <3>1 DEF NicInv
  <2>4. CASE \E from \in {"request", "call"} : Transmit(from)
    <3>1. PICK from \in {"request", "call"} : tx' = [frame |-> Len(given) + 1, from |-> from, at |-> "claim"]
      BY <2>4 DEF Transmit, Sends
    <3>2. CallSound(tx', Len(given), stage', rxq) /\ tx'.from = from BY <1>3, <3>1, CallNew
    <3>3. HandledSound(handled, tx', rxq, reentered) BY <1>1, <1>4, <2>1, <3>2, HandledLater
    <3> QED BY <1>1, <2>1, <3>2, <3>3 DEF NicInv
  <2> QED BY <2>2, <2>3, <2>4
<1>17. CASE Handle
  <2>1. /\ stage = "poll" /\ tx.at = "none" /\ rxq.last < Len(rxq.used)
        /\ handled' = Append(handled, Current.frame)
        /\ UNCHANGED <<txq, pkt, stage, wire, given, claimed>>
    BY <1>17 DEF Handle
  <2> DEFINE n == rxq.last + 1
  <2>2. Current.frame = n
    <3>1. n \in 1 .. Len(rxq.used) BY <1>3, <2>1
    <3> QED BY <1>1, <3>1 DEF Current, RxSound
  <2>3. Len(handled) = rxq.last /\ tx = NoTx /\ tx.from # "handler" BY <1>4, <1>6, <2>1
  <2>4. /\ handled' \in Seq(Nat) /\ (\A i \in 1 .. Len(handled') : handled'[i] = i) /\ Len(handled') = n
    <3>1. handled \in Seq(Nat) /\ \A i \in 1 .. Len(handled) : handled[i] = i BY <1>1 DEF HandledSound
    <3>2. n \in Nat /\ handled' = Append(handled, n) BY <1>3, <2>1, <2>2
    <3>3. handled' \in Seq(Nat) /\ Len(handled') = n /\ handled'[n] = n
          /\ \A i \in 1 .. Len(handled) : handled'[i] = handled[i]
      BY <1>3, <2>3, <3>1, <3>2
    <3>4. \A i \in 1 .. n : i \in 1 .. Len(handled) \/ i = n BY <1>3, <2>3
    <3> QED BY <3>1, <3>3, <3>4
  <2>5. \/ rxq' = Refill(rxq, Current.desc) /\ UNCHANGED <<tx, reentered>>
        \/ Transmit("handler") /\ UNCHANGED <<rxq, reentered>>
        \/ reentered' = TRUE /\ UNCHANGED <<tx, rxq>>
    BY <1>17 DEF Handle
  <2>6. CASE rxq' = Refill(rxq, Current.desc) /\ UNCHANGED <<tx, reentered>>
    <3>1. Current.desc = rxq.used[rxq.last + 1].desc BY DEF Current
    <3>2. RxSound(rxq') /\ rxq'.last = n BY <1>1, <2>1, <2>6, <3>1, RefillSound
    <3>3. CallSound(tx', Len(given), stage, rxq') BY <2>3, <2>6, IdleCall
    <3>4. tx'.from # "handler" /\ reentered' \in BOOLEAN BY <1>2, <2>3, <2>6
    <3>5. HandledSound(handled', tx', rxq', reentered') BY <1>3, <2>4, <3>2, <3>4 DEF HandledSound
    <3> QED BY <1>1, <2>1, <2>6, <3>2, <3>3, <3>5 DEF NicInv
  <2>7. CASE Transmit("handler") /\ UNCHANGED <<rxq, reentered>>
    <3>1. tx' = [frame |-> Len(given) + 1, from |-> "handler", at |-> "claim"] BY <2>7 DEF Transmit, Sends
    <3>2. CallSound(tx', Len(given), stage, rxq) /\ tx'.from = "handler" BY <1>3, <2>1, <3>1, CallNew
    <3>3. HandledSound(handled', tx', rxq, reentered) BY <1>2, <2>4, <3>2 DEF HandledSound
    <3> QED BY <1>1, <2>1, <2>7, <3>2, <3>3 DEF NicInv
  <2>8. CASE reentered' = TRUE /\ UNCHANGED <<tx, rxq>>
    <3>1. HandledSound(handled', tx, rxq, reentered') BY <2>4, <2>8 DEF HandledSound
    <3> QED BY <1>1, <2>1, <2>8, <3>1 DEF NicInv
  <2> QED BY <2>5, <2>6, <2>7, <2>8
<1>18. CASE ResetArp
  BY <1>1, <1>18 DEF ResetArp, NicInv
<1>19. ASSUME NEW h \in Hosts, NEW kind \in FrameKinds, Fill(h, kind) PROVE NicInv'
  <2> DEFINE u == [desc |-> Head(rxq.avail), from |-> h, kind |-> kind, frame |-> Len(rxq.used) + 1]
  <2>1. /\ rxq.avail # <<>> /\ UNCHANGED <<txq, pkt, stage, tx, wire, given, handled, claimed, reentered>>
        /\ rxq' = Filling(rxq, u)
    BY <1>19 DEF Fill, Filling
  <2> HIDE DEF u
  <2>2. RxSound(rxq') /\ rxq'.last = rxq.last BY <1>1, <2>1, FillSound DEF u
  <2>3. Len(rxq'.used) = Len(rxq.used) + 1
    <3>1. rxq'.used = Append(rxq.used, u) BY <1>3, <2>1 DEF RxRings, Filling
    <3>2. rxq.used \in Seq(UsedRows) /\ rxq'.used \in Seq(UsedRows) BY <1>3, <2>2 DEF RxSound, RxRings
    <3> QED BY <3>1, <3>2
  <2>4. CallSound(tx, Len(given), stage, rxq') BY <1>1, <1>3, <2>2, <2>3, CallLater
  <2>5. HandledSound(handled, tx, rxq', reentered) BY <1>1, <2>2, HandledLater
  <2> QED BY <1>1, <2>1, <2>2, <2>4, <2>5 DEF NicInv
<1>20. CASE Complete
  <2>1. /\ txq.avail # <<>> /\ txq' = Did(txq) /\ wire' = Append(wire, pkt)
        /\ UNCHANGED <<rxq, pkt, stage, tx, given, handled, claimed, reentered>>
    BY <1>20 DEF Complete, Did
  <2>2. TxSound(txq', pkt, wire', given, claimed) BY <1>1, <2>1, CompleteSound
  <2> QED BY <1>1, <2>1, <2>2 DEF NicInv
<1> QED BY <1>8, <1>9, <1>10, <1>13, <1>14, <1>15, <1>16, <1>17, <1>18, <1>19, <1>20 DEF NetNext

(* The ring with the first b buffers posted, each in the descriptor of its own number. *)
StartFree(b) == [i \in 1 .. RXQ_SIZE - b |-> i + b]
StartSlot(b) == [d \in Descs |-> IF d <= b THEN d ELSE NoBuf]
StartAvail(b) == [i \in 1 .. b |-> i]
Start(b) == [free |-> StartFree(b), slot |-> StartSlot(b), avail |-> StartAvail(b), used |-> <<>>, last |-> 0]

LEMMA SameSeq ==
    ASSUME NEW n \in Nat, NEW s \in Seq(Nat), Len(s) = n, NEW g \in [1 .. n -> Nat],
           \A i \in 1 .. n : s[i] = g[i]
    PROVE  s = g
<1>1. s \in [1 .. n -> Nat] OBVIOUS
<1> QED BY <1>1

LEMMA PostsNext ==
    ASSUME NEW b \in 1 .. RX_BUFS
    PROVE  Post(Start(b - 1), b) = Start(b)
<1> DEFINE q == Start(b - 1)
           f == StartFree(b - 1)
           a == StartAvail(b - 1)
<1>1. b \in Nat /\ b - 1 \in Nat /\ RXQ_SIZE \in Nat /\ b <= RXQ_SIZE /\ b \in Descs BY NetAssumption DEF NetAssumption, Descs
<1>2. f \in Seq(Nat) /\ Len(f) = RXQ_SIZE - (b - 1) /\ Len(f) >= 1 /\ \A i \in 1 .. Len(f) : f[i] = i + (b - 1)
  <2> DEFINE n == RXQ_SIZE - (b - 1)
  <2>1. n \in Nat /\ n >= 1 BY <1>1
  <2>2. f \in [1 .. n -> Nat] BY <1>1 DEF StartFree
  <2>3. \A i \in 1 .. n : f[i] = i + (b - 1) BY DEF StartFree
  <2> HIDE DEF f, n
  <2>4. f \in Seq(Nat) /\ Len(f) = n BY <2>1, <2>2
  <2> QED BY <2>1, <2>3, <2>4 DEF n
<1>3. Head(f) = b /\ f # <<>>
  <2> HIDE DEF f
  <2>1. Head(f) = f[1] /\ f # <<>> /\ 1 \in 1 .. Len(f) BY <1>2
  <2> QED BY <1>1, <1>2, <2>1
<1>4. Tail(f) = StartFree(b)
  <2> HIDE DEF f
  <2>1. Tail(f) \in Seq(Nat) /\ Len(Tail(f)) = RXQ_SIZE - b /\ \A i \in 1 .. RXQ_SIZE - b : Tail(f)[i] = f[i + 1]
    BY <1>1, <1>2
  <2>2. \A i \in 1 .. RXQ_SIZE - b : i + 1 \in 1 .. Len(f) /\ (i + 1) + (b - 1) = i + b BY <1>1, <1>2
  <2> DEFINE n == RXQ_SIZE - b
             g == StartFree(b)
  <2>3. n \in Nat /\ g \in [1 .. n -> Nat] /\ \A i \in 1 .. n : Tail(f)[i] = g[i]
    <3>1. n \in Nat BY <1>1
    <3>2. \A i \in 1 .. n : g[i] = i + b BY DEF StartFree
    <3>3. g \in [1 .. n -> Nat] BY <1>1 DEF StartFree
    <3>4. \A i \in 1 .. n : Tail(f)[i] = i + b BY <1>2, <2>1, <2>2
    <3> QED BY <3>1, <3>2, <3>3, <3>4
  <2>4. Tail(f) \in Seq(Nat) /\ Len(Tail(f)) = n BY <2>1
  <2> HIDE DEF n, g
  <2>5. Tail(f) = g BY <2>3, <2>4, SameSeq
  <2> QED BY <2>5 DEF g
<1>5. [StartSlot(b - 1) EXCEPT ![b] = b] = StartSlot(b)
  <2>1. \A d \in Descs : d # b => (d <= b - 1 <=> d <= b) BY <1>1 DEF Descs
  <2> DEFINE u == StartSlot(b - 1)
             v == StartSlot(b)
             w == [u EXCEPT ![b] = b]
  <2>2. u \in [Descs -> Nat] /\ v \in [Descs -> Nat] BY DEF StartSlot, Descs, NoBuf
  <2>3. \A d \in Descs : d # b => u[d] = v[d] BY <2>1 DEF StartSlot
  <2>4. v[b] = b BY <1>1 DEF StartSlot
  <2> HIDE DEF u, v
  <2>5. w \in [Descs -> Nat] /\ \A d \in Descs : w[d] = v[d] BY <1>1, <2>2, <2>3, <2>4
  <2> HIDE DEF w
  <2>6. w = v BY <2>2, <2>5
  <2> QED BY <2>6 DEF u, v, w
<1>6. Append(a, b) = StartAvail(b)
  <2>1. a \in Seq(Nat) /\ Len(a) = b - 1 /\ \A i \in 1 .. b - 1 : a[i] = i
    <3>1. a \in [1 .. b - 1 -> Nat] /\ \A i \in 1 .. b - 1 : a[i] = i BY DEF StartAvail
    <3> HIDE DEF a
    <3> QED BY <1>1, <3>1
  <2> HIDE DEF a
  <2>2. Append(a, b) \in Seq(Nat) /\ Len(Append(a, b)) = b /\ \A i \in 1 .. b : Append(a, b)[i] = i BY <1>1, <2>1
  <2> DEFINE s == Append(a, b)
             g == StartAvail(b)
  <2>3. g \in [1 .. b -> Nat] /\ \A i \in 1 .. b : g[i] = i BY DEF StartAvail
  <2>4. s \in Seq(Nat) /\ Len(s) = b /\ \A i \in 1 .. b : s[i] = g[i] BY <2>2, <2>3
  <2> HIDE DEF s, g
  <2>5. s = g BY <1>1, <2>3, <2>4, SameSeq
  <2> QED BY <2>5 DEF s, g
<1>7. q = [free |-> f, slot |-> StartSlot(b - 1), avail |-> a, used |-> <<>>, last |-> 0] BY DEF Start
<1> HIDE DEF q, f, a
<1>8. Post(q, b) = [free |-> Tail(f), slot |-> [StartSlot(b - 1) EXCEPT ![b] = b], avail |-> Append(a, b),
                    used |-> <<>>, last |-> 0]
  BY <1>3, <1>7 DEF Post
<1> QED BY <1>4, <1>5, <1>6, <1>8 DEF Start, q

LEMMA StartSound == RxSound(Start(RX_BUFS))
<1> DEFINE q == Start(RX_BUFS)
           a == StartAvail(RX_BUFS)
<1>1. RX_BUFS \in Nat /\ RXQ_SIZE \in Nat /\ RX_BUFS <= RXQ_SIZE /\ Bufs \subseteq Descs
  BY NetAssumption DEF NetAssumption, Bufs, Descs
<1>2. a \in Seq(Descs) /\ Len(a) = RX_BUFS /\ \A i \in 1 .. RX_BUFS : a[i] = i
  <2>1. a \in [1 .. RX_BUFS -> Descs] /\ \A i \in 1 .. RX_BUFS : a[i] = i BY <1>1 DEF StartAvail, Bufs
  <2> HIDE DEF a
  <2> QED BY <1>1, <2>1
<1>3. StartFree(RX_BUFS) \in Seq(Descs)
  <2> DEFINE n == RXQ_SIZE - RX_BUFS
  <2>1. n \in Nat /\ \A i \in 1 .. n : i + RX_BUFS \in Descs BY <1>1 DEF Descs
  <2>2. StartFree(RX_BUFS) \in [1 .. n -> Descs] BY <2>1 DEF StartFree
  <2> HIDE DEF n
  <2> QED BY <2>1, <2>2
<1>4. StartSlot(RX_BUFS) \in [Descs -> 0 .. RX_BUFS] /\ \A d \in Bufs : StartSlot(RX_BUFS)[d] = d
  BY <1>1 DEF StartSlot, NoBuf, Descs, Bufs
<1>5. q = [free |-> StartFree(RX_BUFS), slot |-> StartSlot(RX_BUFS), avail |-> a, used |-> <<>>, last |-> 0] BY DEF Start
<1> HIDE DEF q, a
<1>6. /\ q.slot = StartSlot(RX_BUFS) /\ q.avail = a /\ q.used = <<>> /\ q.last = 0 /\ q \in RxRings
  BY <1>2, <1>3, <1>4, <1>5 DEF RxRings
<1>7. Len(q.used) = 0 /\ Unhandled(q) = {} BY <1>6 DEF Unhandled
<1>8. Once(q) BY <1>2, <1>6, <1>7 DEF Once
<1>9. Posted(q) = Bufs
  <2>1. {a[i] : i \in 1 .. RX_BUFS} = Bufs BY <1>2 DEF Bufs
  <2> QED BY <1>2, <1>6, <1>7, <2>1 DEF Posted, Filled
<1>10. {q.slot[d] : d \in Posted(q)} = Bufs BY <1>4, <1>6, <1>9
<1>11. q.last <= Len(q.used) /\ Len(q.avail) + (Len(q.used) - q.last) = RX_BUFS BY <1>1, <1>2, <1>6, <1>7
<1>12. \A i \in 1 .. Len(q.used) : q.used[i].frame = i BY <1>7
<1> QED BY <1>6, <1>8, <1>10, <1>11, <1>12 DEF RxSound, q

LEMMA NicInit == NetInit => NicInv
<1> SUFFICES ASSUME NetInit PROVE NicInv OBVIOUS
<1> DEFINE empty == [free |-> [i \in Descs |-> i], slot |-> [d \in Descs |-> NoBuf], avail |-> <<>>,
                     used |-> <<>>, last |-> 0]
           Is(f) == f = [b \in 0 .. RX_BUFS |-> IF b = 0 THEN empty ELSE Post(f[b - 1], b)]
           post == CHOOSE f : Is(f)
           g == [b \in 0 .. RX_BUFS |-> Start(b)]
<1>1. RX_BUFS \in Nat /\ RXQ_SIZE \in Nat BY NetAssumption DEF NetAssumption
<1>2. empty = Start(0)
  <2>1. StartFree(0) = [i \in Descs |-> i] BY <1>1 DEF StartFree, Descs
  <2>2. StartSlot(0) = [d \in Descs |-> NoBuf] BY <1>1 DEF StartSlot, Descs
  <2>3. StartAvail(0) = <<>> BY DEF StartAvail
  <2> QED BY <2>1, <2>2, <2>3 DEF Start
<1>3. rxq = post[RX_BUFS] BY DEF NetInit
<1>4. Is(g)
  <2>1. \A b \in 1 .. RX_BUFS : b - 1 \in 0 .. RX_BUFS /\ g[b - 1] = Start(b - 1) BY <1>1
  <2>2. \A b \in 0 .. RX_BUFS : g[b] = IF b = 0 THEN empty ELSE Post(g[b - 1], b) BY <1>1, <1>2, <2>1, PostsNext
  <2> QED BY <2>2
<1> HIDE DEF empty
<1>5. Is(post)
  <2> HIDE DEF Is, g
  <2> QED BY <1>4
<1>6. \A k \in 0 .. RX_BUFS : k \in {j \in 0 .. RX_BUFS : post[j] = Start(j)}
  <2> DEFINE S == {j \in 0 .. RX_BUFS : post[j] = Start(j)}
  <2> HIDE DEF post
  <2>1. 0 \in S BY <1>1, <1>2, <1>5
  <2>2. ASSUME NEW k \in 1 .. RX_BUFS, k - 1 \in S PROVE k \in S
    <3>1. k \in 0 .. RX_BUFS /\ k # 0 BY <1>1
    <3>2. post[k] = Post(post[k - 1], k) BY <1>5, <3>1
    <3>3. post[k - 1] = Start(k - 1) BY <2>2
    <3> QED BY <3>1, <3>2, <3>3, PostsNext
  <2> HIDE DEF S
  <2>3. \A k \in 0 .. RX_BUFS : k \in S BY <1>1, <2>1, <2>2, UpTo
  <2> QED BY <2>3 DEF S
<1>7. RX_BUFS \in 0 .. RX_BUFS BY <1>1
<1>8. rxq = Start(RX_BUFS) BY <1>3, <1>6, <1>7
<1>9. RxSound(rxq) BY <1>8, StartSound
<1>10. TxSound(txq, pkt, wire, given, claimed)
  <2> DEFINE b == FALSE
             q == [free |-> TXQ_SIZE, avail |-> <<>>, done |-> 0, last |-> 0, pending |-> b]
  <2>1. b \in BOOLEAN /\ b # TRUE OBVIOUS
  <2>2. txq = q BY Zenon DEF NetInit
  <2>3. wire = <<>> /\ given = <<>> /\ claimed = {} BY Zenon DEF NetInit
  <2>4. TXQ_SIZE \in Int BY NetAssumption DEF NetAssumption
  <2> HIDE DEF b
  <2>5. <<>> \in Seq(Nat) /\ Len(<<>>) = 0 /\ 0 \in Nat OBVIOUS
  <2>6. q = [free |-> TXQ_SIZE, avail |-> <<>>, done |-> 0, last |-> 0, pending |-> b] OBVIOUS
  <2> HIDE DEF q
  <2>7. q \in TxRings /\ q.avail = <<>> /\ q.done = 0 /\ q.last = 0 /\ q.pending = b
    BY <2>1, <2>4, <2>5, <2>6 DEF TxRings
  <2>8. q.pending # TRUE BY <2>1, <2>7, Zenon
  <2>9. /\ Len(q.avail) = 0 /\ q.done = 0 /\ q.last = 0 /\ q.last <= q.done
        /\ Len(q.avail) + (q.done - q.last) = 0
    BY <2>5, <2>7
  <2>10. Len(q.avail) + (q.done - q.last) = (IF q.pending = TRUE THEN 1 ELSE 0) BY <2>8, <2>9, Zenon
  <2>11. \A x \in Seq(Nat) : Len(x) = 0 => /\ q.done = Len(x) /\ q.done + Len(q.avail) = Len(x)
                                            /\ 1 .. Len(x) = {}
    BY <2>9
  <2>12. TxSound(q, pkt, <<>>, <<>>, {})
    <3>1. q.avail = <<>> BY <2>7
    <3>2. \A i \in 1 .. Len(<<>>) : <<>>[i] = i BY <2>5, <2>11
    <3> QED BY <2>5, <2>7, <2>9, <2>10, <2>11, <3>1, <3>2, Zenon DEF TxSound
  <2> QED BY <2>2, <2>3, <2>12 DEF q
<1>11. CallSound(tx, Len(given), stage, rxq) BY IdleCall DEF NetInit
<1>12. HandledSound(handled, tx, rxq, reentered)
  <2>1. handled = <<>> /\ tx.from # "handler"
    <3>1. handled = <<>> /\ tx = NoTx BY Zenon DEF NetInit
    <3> QED BY <3>1 DEF NoTx
  <2>3. reentered \in BOOLEAN BY Zenon DEF NetInit
  <2>2. rxq.last = 0 BY <1>8 DEF Start
  <2>4. Len(handled) = rxq.last + (IF tx.from = "handler" THEN 1 ELSE 0) BY <2>1, <2>2
  <2>5. handled \in Seq(Nat) /\ \A i \in 1 .. Len(handled) : handled[i] = i BY <2>1
  <2> QED BY <2>3, <2>4, <2>5 DEF HandledSound
<1> QED BY <1>9, <1>10, <1>11, <1>12 DEF NicInv

LEMMA NicAlways == NetSpec => []NicInv
<1>1. NicInv /\ UNCHANGED nicVars => NicInv' BY DEF NicInv, nicVars
<1> QED BY <1>1, NicInit, NextSound, PTL DEF NetSpec

LEMMA RxBuffers == NicInv => BuffersKept
<1> SUFFICES ASSUME NicInv PROVE BuffersKept OBVIOUS
<1> DEFINE U == Unhandled(rxq)
           n == Len(rxq.used) - rxq.last
           F == [i \in U |-> rxq.used[i].desc]
<1>1. RxSound(rxq) /\ HandledSound(handled, tx, rxq, reentered) BY DEF NicInv
<1>2. /\ rxq \in RxRings /\ rxq.last \in Nat /\ Len(rxq.used) \in Nat /\ rxq.last <= Len(rxq.used)
  BY <1>1 DEF RxSound, RxRings
<1>3. IsFiniteSet(U) /\ Cardinality(U) = n
  <2> DEFINE l == rxq.last + 1
             m == Len(rxq.used)
  <2>1. l \in Int /\ m \in Int BY <1>2
  <2>2. U = l .. m BY DEF Unhandled
  <2>3. n = IF l > m THEN 0 ELSE m - l + 1 BY <1>2
  <2> HIDE DEF l, m, U, n
  <2> QED BY <2>1, <2>2, <2>3, FS_Interval
<1>4. Waiting = Filled(rxq) BY DEF Waiting, Filled, Unhandled
<1>5. F \in Bijection(U, Waiting)
  <2>1. \A i, j \in U : rxq.used[i].desc = rxq.used[j].desc => i = j BY <1>1 DEF RxSound, Once
  <2>2. F \in [U -> Waiting] BY <1>4 DEF Filled
  <2>3. F \in Injection(U, Waiting) BY <2>1, <2>2 DEF Injection, IsInjective
  <2>4. F \in Surjection(U, Waiting) BY <1>4, <2>2 DEF Surjection, Filled
  <2> QED BY <2>3, <2>4 DEF Bijection
<1>6. Cardinality(Waiting) = n
  <2> HIDE DEF F, U, n
  <2>1. ExistsBijection(U, Waiting) BY <1>5 DEF ExistsBijection
  <2> QED BY <1>3, <2>1, FS_Bijection
<1>7. Len(rxq.avail) + Cardinality(Waiting) = RX_BUFS BY <1>1, <1>6 DEF RxSound
<1>8. {rxq.slot[d] : d \in Waiting \cup {rxq.avail[i] : i \in DOMAIN rxq.avail}} = Bufs
  <2>1. DOMAIN rxq.avail = 1 .. Len(rxq.avail) BY <1>2 DEF RxRings
  <2>2. Posted(rxq) = Waiting \cup {rxq.avail[i] : i \in DOMAIN rxq.avail} BY <1>4, <2>1 DEF Posted
  <2> QED BY <1>1, <2>2 DEF RxSound
<1>9. \A i \in DOMAIN handled : handled[i] = i
  <2>1. DOMAIN handled = 1 .. Len(handled) BY <1>1 DEF HandledSound
  <2> QED BY <1>1, <2>1 DEF HandledSound
<1> QED BY <1>7, <1>8, <1>9 DEF BuffersKept

LEMMA TxWire == NicInv => WireIsGiven
<1> SUFFICES ASSUME NicInv PROVE WireIsGiven OBVIOUS
<1>1. TxSound(txq, pkt, wire, given, claimed) BY DEF NicInv
<1>2. wire \in Seq(Nat) /\ given \in Seq(Nat) /\ txq \in TxRings BY <1>1 DEF TxSound
<1>3. Len(wire) <= Len(given)
  <2>1. txq.done = Len(wire) /\ txq.done + Len(txq.avail) = Len(given) BY <1>1 DEF TxSound
  <2>2. txq.done \in Nat /\ Len(txq.avail) \in Nat BY <1>2 DEF TxRings
  <2> QED BY <2>1, <2>2
<1>4. DOMAIN wire = 1 .. Len(wire) /\ \A i \in 1 .. Len(wire) : i \in 1 .. Len(given) BY <1>2, <1>3
<1>5. \A i \in 1 .. Len(wire) : wire[i] = i /\ given[i] = i BY <1>1, <1>4 DEF TxSound
<1>6. claimed \subseteq 1 .. Len(wire) BY <1>1 DEF TxSound
<1> QED BY <1>4, <1>5, <1>6 DEF WireIsGiven

(* The wire carries what vnet_tx was given, in order and whole, a 0 from it      *)
(* means the frame is there, and no receive buffer is lost or filled twice, for   *)
(* rings, buffers and ARP caches of any sizes (virtio_net.c:270-358).           *)
THEOREM FramesArrive == NetSpec => []RingsSound
<1>1. NicInv => RingsSound BY RxBuffers, TxWire DEF RingsSound
<1> QED BY <1>1, NicAlways, PTL
=============================================================================
