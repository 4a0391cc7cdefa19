------------------------------ MODULE VirtioNet ------------------------------
(***************************************************************************)
(* The virtio network driver (drivers/net/virtio_net/virtio_net.c) under   *)
(* the part of kernel/netstack.c that calls back into it: the frames       *)
(* rx_poll hands up may be answered at once, and an answer or a datagram   *)
(* whose next hop is not in the ARP cache polls the driver again.          *)
(*                                                                         *)
(* The kernel's side runs with interrupts off; the device fills and        *)
(* completes descriptors between any two of its steps.  How long the spins *)
(* of vnet_tx take is left open, as are the numbers of ARP rounds.         *)
(***************************************************************************)
EXTENDS Naturals, Sequences, FiniteSets

CONSTANTS
    Hosts,          \* neighbours
    NoHost,
    RXQ_SIZE,       \* descriptors of the two queues, as the device has them: VQ_MAX at most
    TXQ_SIZE,
    RX_BUFS,
    ARP_CACHE_MAX,
    MaxFrames,      \* bound on the frames that come in
    MaxSends        \* bound on the frames that go out

ASSUME NetAssumption ==
    /\ NoHost \notin Hosts /\ RXQ_SIZE \in Nat /\ TXQ_SIZE \in Nat /\ TXQ_SIZE >= 2
    /\ RX_BUFS \in 1..RXQ_SIZE /\ ARP_CACHE_MAX \in Nat \ {0}
    /\ MaxFrames \in Nat /\ MaxSends \in Nat

VARIABLES
    arp,        \* g_arp: the host in each slot
    rxq,        \* [free, slot, avail, used, last]: free list, rx_desc_slot, rings
    txq,        \* [free, avail, done, last, pending]: free descriptors, frames the device
                \* has not read yet, completions it made and the driver saw, tx_pending
    pkt,        \* the frame in tx_pkt
    netCall,    \* the system call: [op, to]
    stage,      \* where the kernel is
    tx,         \* the frame vnet_tx was called with, its caller, where it is
    wire,       \* frames the device put on the wire
    given,      \* frames vnet_tx gave to the device
    handled,    \* frames handed to netif_input
    claimed,    \* frames vnet_tx returned 0 for
    reentered   \* a handler polled from within rx_poll

nicVars == <<arp, rxq, txq, pkt, netCall, stage, tx, wire, given, handled, claimed, reentered>>

Bufs  == 1..RX_BUFS
Descs == 1..RXQ_SIZE
NoBuf == 0
NoTx  == [frame |-> 0, from |-> "nobody", at |-> "none"]
NicIdle  == [op |-> "idle", to |-> NoHost]

\* -------------------------------------------------- the receive ring

\* rx_post: the buffer b in the first free descriptor, if there is one.
Post(q, b) ==
    IF q.free = <<>> THEN q
    ELSE [q EXCEPT !.free = Tail(@), !.slot[Head(q.free)] = b, !.avail = Append(@, Head(q.free))]

\* The element of descriptor d is done with: free_desc, and its buffer posted again.
Refill(q, d) == Post([q EXCEPT !.slot[d] = NoBuf, !.free = <<d>> \o @, !.last = @ + 1], q.slot[d])

Current == rxq.used[rxq.last + 1]

NetInit ==
    LET empty == [free |-> [i \in Descs |-> i], slot |-> [d \in Descs |-> NoBuf], avail |-> <<>>,
                  used |-> <<>>, last |-> 0]
        post[b \in 0..RX_BUFS] == IF b = 0 THEN empty ELSE Post(post[b - 1], b)
    IN  /\ arp = [i \in 1..ARP_CACHE_MAX |-> NoHost]
        /\ rxq = post[RX_BUFS]
        /\ txq = [free |-> TXQ_SIZE, avail |-> <<>>, done |-> 0, last |-> 0, pending |-> FALSE]
        /\ pkt = 0 /\ netCall = NicIdle /\ stage = "idle" /\ tx = NoTx
        /\ wire = <<>> /\ given = <<>> /\ handled = <<>> /\ claimed = {}
        /\ reentered = FALSE

\* ------------------------------------------------------------- vnet_tx

Sends == Len(given)

\* tx_drain: every completion gives two descriptors back.
Drain(q) == [q EXCEPT !.free = @ + 2 * (q.done - q.last), !.last = q.done,
                      !.pending = IF q.done # q.last THEN FALSE ELSE @]

\* A frame is known by the number of the call.
Transmit(from) == tx' = [frame |-> Sends + 1, from |-> from, at |-> "claim"]

MayClaimRoom(q) == q.free >= 2

\* One frame at a time: there is one tx_pkt.
MayClaim(q) == ~q.pending /\ q.free >= 2

\* Back from vnet_tx into the handler, the ARP loop or the system call.
NetReturn(ok) ==
    /\ tx' = NoTx
    /\ claimed' = IF ok THEN claimed \cup {tx.frame} ELSE claimed
    /\ IF tx.from = "handler" THEN rxq' = Refill(rxq, Current.desc) ELSE UNCHANGED rxq
    /\ IF tx.from = "call" THEN netCall' = NicIdle /\ stage' = "idle" ELSE UNCHANGED <<netCall, stage>>

TxClaim ==
    LET q == Drain(txq)
    IN  /\ tx.at = "claim"
        /\ \/ /\ MayClaim(q)
              /\ txq' = [q EXCEPT !.free = @ - 2, !.avail = Append(@, tx.frame), !.pending = TRUE]
              /\ pkt' = tx.frame
              /\ given' = Append(given, tx.frame)
              /\ tx' = [tx EXCEPT !.at = "compare"]
              /\ UNCHANGED <<rxq, netCall, stage, claimed>>
           \/ /\ ~MayClaim(q)          \* the 10000 spins are over: -EAGAIN
              /\ txq' = q
              /\ NetReturn(FALSE)
              /\ UNCHANGED <<pkt, given>>
        /\ UNCHANGED <<arp, wire, handled, reentered>>

\* The loop behind the notification: compare, drain, compare.
TxCompare ==
    /\ tx.at = "compare"
    /\ IF txq.last # txq.done
       THEN txq' = Drain(txq) /\ NetReturn(TRUE)
       ELSE /\ tx' = [tx EXCEPT !.at = "drain"]
            /\ UNCHANGED <<txq, rxq, netCall, stage, claimed>>
    /\ UNCHANGED <<arp, pkt, wire, given, handled, reentered>>

TxDrain ==
    /\ tx.at = "drain"
    /\ txq' = Drain(txq)
    /\ \/ tx' = [tx EXCEPT !.at = "compare"] /\ UNCHANGED <<rxq, netCall, stage, claimed>>
       \/ tx' = [tx EXCEPT !.at = "last"] /\ UNCHANGED <<rxq, netCall, stage, claimed>>
    /\ UNCHANGED <<arp, pkt, wire, given, handled, reentered>>

\* After the 20000 spins: a frame whose completion the loop itself drained looks unsent.
TxLast ==
    /\ tx.at = "last"
    /\ txq' = IF txq.last = txq.done THEN txq ELSE Drain(txq)
    /\ NetReturn(txq.last # txq.done)
    /\ UNCHANGED <<arp, pkt, wire, given, handled, reentered>>

\* ------------------------------------------------------- the kernel

Cached(h) == \E i \in DOMAIN arp : arp[i] = h

\* arp_cache_put: the slot of the host, else the first free one, else the first one.
Put(h) ==
    LET least(s) == CHOOSE i \in s : \A j \in s : i <= j
        mine == {i \in DOMAIN arp : arp[i] = h}
        free == {i \in DOMAIN arp : arp[i] = NoHost}
    IN  IF mine # {} THEN arp ELSE [arp EXCEPT ![IF free # {} THEN least(free) ELSE 1] = h]

\* recvfrom, accept, a wait for an answer: net_poll(), and away.
Receive ==
    /\ stage = "idle"
    /\ netCall' = [op |-> "receive", to |-> NoHost] /\ stage' = "poll"
    /\ txq' = Drain(txq)
    /\ UNCHANGED <<arp, rxq, pkt, tx, wire, given, handled, claimed, reentered>>

\* sendto and what else the programs send: at once to a known neighbour.
SendTo(h) ==
    /\ stage = "idle" /\ Sends < MaxSends
    /\ netCall' = [op |-> "send", to |-> h]
    /\ IF Cached(h) THEN stage' = "sending" /\ Transmit("call")
                    ELSE stage' = "poll" /\ Transmit("request")
    /\ UNCHANGED <<arp, rxq, txq, pkt, wire, given, handled, claimed, reentered>>

\* The ring is empty: back to the caller of net_poll(), which looks in the cache.
PollDone ==
    /\ stage = "poll" /\ tx.at = "none" /\ rxq.last = Len(rxq.used)
    /\ \/ /\ netCall.op = "receive" \/ ~Cached(netCall.to)       \* EHOSTUNREACH after 40 requests
          /\ netCall' = NicIdle /\ stage' = "idle"
          /\ UNCHANGED tx
       \/ /\ netCall.op = "send" /\ Cached(netCall.to)
          /\ stage' = "sending" /\ Transmit("call")
          /\ UNCHANGED netCall
       \/ /\ netCall.op = "send" /\ ~Cached(netCall.to) /\ Sends < MaxSends
          /\ Transmit("request")
          /\ UNCHANGED <<netCall, stage>>
    /\ UNCHANGED <<arp, rxq, txq, pkt, wire, given, handled, claimed, reentered>>

\* netif_input of the next used element.  A frame that must be answered to a host that is not
\* in the cache polls the driver from here; last_used has not moved, so the inner poll finds the
\* same element, which is where this model stops.
Handle ==
    /\ stage = "poll" /\ tx.at = "none" /\ rxq.last < Len(rxq.used)
    /\ handled' = Append(handled, Current.frame)
    /\ \/ /\ Current.kind = "arp reply"
          /\ arp' = Put(Current.from)
          /\ rxq' = Refill(rxq, Current.desc)
          /\ UNCHANGED <<tx, reentered>>
       \/ /\ Current.kind = "arp request"
          /\ arp' = Put(Current.from)
          /\ Transmit("handler")
          /\ UNCHANGED <<rxq, reentered>>
       \/ /\ Current.kind = "to be answered"
          /\ IF Cached(Current.from) THEN Transmit("handler") /\ UNCHANGED reentered
             ELSE reentered' = TRUE /\ UNCHANGED tx
          /\ UNCHANGED <<arp, rxq>>
    /\ UNCHANGED <<txq, pkt, netCall, stage, wire, given, claimed>>

\* netstack_reset_arp: after dhcp_configure and netif_set_info.
ResetArp ==
    /\ stage = "idle"
    /\ arp' = [i \in DOMAIN arp |-> NoHost]
    /\ UNCHANGED <<rxq, txq, pkt, netCall, stage, tx, wire, given, handled, claimed, reentered>>

\* ------------------------------------------------------- the device

\* A frame arrives in the oldest buffer posted.
Fill(h, kind) ==
    /\ rxq.avail # <<>> /\ Len(rxq.used) < MaxFrames
    /\ rxq' = [rxq EXCEPT !.avail = Tail(@),
                          !.used = Append(@, [desc |-> Head(rxq.avail), from |-> h, kind |-> kind,
                                              frame |-> Len(@) + 1])]
    /\ UNCHANGED <<arp, txq, pkt, netCall, stage, tx, wire, given, handled, claimed, reentered>>

\* The device reads tx_pkt when it gets there, and completes.
Complete ==
    /\ txq.avail # <<>>
    /\ txq' = [txq EXCEPT !.avail = Tail(@), !.done = @ + 1]
    /\ wire' = Append(wire, pkt)
    /\ UNCHANGED <<arp, rxq, pkt, netCall, stage, tx, given, handled, claimed, reentered>>

FrameKinds == {"arp reply", "arp request", "to be answered"}

NetNext ==
    /\ ~reentered
    /\ \/ Receive
       \/ \E h \in Hosts : SendTo(h)
       \/ TxClaim
       \/ TxCompare
       \/ TxDrain
       \/ TxLast
       \/ PollDone
       \/ Handle
       \/ ResetArp
       \/ \E h \in Hosts, kind \in FrameKinds : Fill(h, kind)
       \/ Complete

NetSpec == NetInit /\ [][NetNext]_nicVars

\* -------------------------------------------------------- properties

\* What goes out is what was given, in order and unspoilt, although one buffer serves all
\* frames, vnet_tx gives up on a slow device and later comes back, and its callers interleave:
\* the handlers of a poll, the ARP loop around a poll and the calls; a 0 means the frame is on
\* the wire (virtio_net.c:270-333).  And every receive buffer is posted once or holds a frame
\* that is not handled yet, and frames are handled once and in order (virtio_net.c:335-358).
WireIsGiven ==
    /\ \A i \in DOMAIN wire : wire[i] = given[i]
    /\ claimed \subseteq {wire[i] : i \in DOMAIN wire}

Waiting == {rxq.used[i].desc : i \in (rxq.last + 1)..Len(rxq.used)}
BuffersKept ==
    /\ Len(rxq.avail) + Cardinality(Waiting) = RX_BUFS
    /\ {rxq.slot[d] : d \in Waiting \cup {rxq.avail[i] : i \in DOMAIN rxq.avail}} = Bufs
    /\ \A i \in DOMAIN handled : handled[i] = i

RingsSound == WireIsGiven /\ BuffersKept

=============================================================================
