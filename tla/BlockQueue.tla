------------------------------ MODULE BlockQueue ------------------------------
(***************************************************************************)
(* The block layer's synchronous calls (drivers/block/block.c) over the    *)
(* queue of the virtio disk (drivers/block/virtio_blk/virtio_blk.c).       *)
(*                                                                         *)
(* A call puts a bio of its own stack on the queue and polls until it is   *)
(* done or a million polls have passed; the queue keeps a request whose    *)
(* caller has given up, and the device may still complete it. Callers run  *)
(* with interrupts off, one at a time; the device runs beside them. A call *)
(* of a partition goes through a second bio, of part_submit's stack.       *)
(***************************************************************************)
EXTENDS Integers, Sequences, FiniteSets

CONSTANTS
    QSize,      \* descriptors of the queue
    PEND_MAX,   \* places of vblk_t.pend
    Bios,       \* the stack addresses a caller's bio may have
    Nested,     \* the address of part_submit's bio
    MaxCalls    \* bound: calls made

ASSUME BlockAssumption ==
    /\ QSize \in Nat \ {0} /\ PEND_MAX \in Nat \ {0} /\ MaxCalls \in Nat
    /\ Nested \notin Bios

Descs == 0 .. QSize - 1
NoDesc == QSize             \* 0xFFFF, the end of the free list
Places == 1 .. PEND_MAX
NoRequest == [bio |-> Nested, head |-> NoDesc, req |-> 0]
NoCall == [bio |-> Nested, part |-> FALSE, first |-> FALSE, req |-> 0]

VARIABLES
    next,       \* desc[i].next
    more,       \* the descriptors whose flags have VRING_DESC_F_NEXT
    freeHead, numFree,
    pend,       \* vblk_t.pend: the bio, the head in hdr.reserved; req is a ghost
    avail,      \* the heads the device has been given and not completed
    used,       \* the completed heads that were not polled yet: [id, ok]
    memory,     \* bio address -> [done, error]
    call,       \* the call that runs
    calls,      \* calls made so far
    answer,     \* what the last call returned, and for which request
    completed,  \* the requests the device did, well
    crossed     \* the requests whose bio a request given up before has written

blockVars == <<next, more, freeHead, numFree, pend, avail, used, memory, call, calls,
               answer, completed, crossed>>

BlockInit ==
    /\ next = [i \in Descs |-> i + 1]
    /\ more = {}
    /\ freeHead = 0 /\ numFree = QSize
    /\ pend = [p \in Places |-> NoRequest]
    /\ avail = {}
    /\ used = <<>>
    /\ memory = [b \in Bios \cup {Nested} |-> [done |-> FALSE, error |-> FALSE]]
    /\ call = NoCall
    /\ calls = 0
    /\ answer = [result |-> "none", req |-> 0]
    /\ completed = {}
    /\ crossed = {}

-----------------------------------------------------------------------------
InUse(p) == pend[p].req # 0
FreePlaces == {p \in Places : ~InUse(p)}

(* The first k descriptors of the free list.                               *)
FreeList(k) ==
    LET at[i \in 1 .. k] == IF i = 1 THEN freeHead ELSE next[at[i - 1]] IN [i \in 1 .. k |-> at[i]]

(* vblk_submit: three descriptors or none; those taken before the list     *)
(* ended are not given back.                                               *)
TakeDescs ==
    LET n == IF numFree < 3 THEN numFree ELSE 3 IN
    /\ numFree' = numFree - n
    /\ freeHead' = IF n = 0 THEN freeHead ELSE next[FreeList(n)[n]]

Refused ==
    /\ answer' = [result |-> "EAGAIN", req |-> 0]
    /\ UNCHANGED <<next, more, pend, avail, memory, call>>

Submit(b, part) ==
    LET p == CHOOSE q \in FreePlaces : \A r \in FreePlaces : q <= r
        h == FreeList(3)
        bio == IF part THEN Nested ELSE b
    IN  /\ call.req = 0
        /\ calls < MaxCalls
        /\ calls' = calls + 1
        /\ IF FreePlaces = {} THEN Refused /\ UNCHANGED <<freeHead, numFree>>
           ELSE /\ TakeDescs
                /\ IF numFree < 3 THEN Refused
                   ELSE /\ pend' = [pend EXCEPT ![p] = [bio |-> bio, head |-> h[1], req |-> calls']]
                        /\ next' = [next EXCEPT ![h[1]] = h[2], ![h[2]] = h[3], ![h[3]] = 0]
                        /\ more' = (more \cup {h[1], h[2]}) \ {h[3]}
                        /\ avail' = avail \cup {h[1]}
                        /\ memory' = [memory EXCEPT ![b] = [done |-> FALSE, error |-> FALSE],
                                                    ![bio] = [done |-> FALSE, error |-> FALSE]]
                        /\ call' = [bio |-> b, part |-> part, first |-> TRUE, req |-> calls']
                        /\ answer' = [result |-> "none", req |-> 0]
        /\ UNCHANGED <<used, completed, crossed>>

(* The device does a request, in any order, well or not.                   *)
DeviceCompletes(h, ok) ==
    /\ h \in avail
    /\ avail' = avail \ {h}
    /\ used' = Append(used, [id |-> h, ok |-> ok])
    /\ completed' = completed \cup {pend[p].req : p \in {q \in Places : ok /\ InUse(q) /\ pend[q].head = h}}
    /\ UNCHANGED <<next, more, freeHead, numFree, pend, memory, call, calls, answer, crossed>>

-----------------------------------------------------------------------------
(* vblk_poll: each used element completes the bio of the place that holds  *)
(* its head (the first place in use if none does), and its chain is put    *)
(* on the free list from its head on.                                      *)
PlaceOf(s, id) ==
    LET inUse == {p \in Places : s.pend[p].req # 0}
        hits == {p \in inUse : s.pend[p].head = id}
        from == IF hits # {} THEN hits ELSE inUse
    IN  CHOOSE p \in from : \A q \in from : p <= q

FreeOne(s, i) == [s EXCEPT !.next[i] = s.freeHead, !.freeHead = i, !.numFree = @ + 1]

FreeDescChain(s, head) ==
    LET f[i \in Nat] ==
          LET prev == f[i - 1] IN
          IF i = 0 THEN [at |-> head, s |-> s, last |-> FALSE]
          ELSE IF prev.last THEN prev
          ELSE [at |-> prev.s.next[prev.at], s |-> FreeOne(prev.s, prev.at), last |-> prev.at \notin more]
    IN  f[QSize].s

(* The bio whose completion the call looks at.                            *)
Awaited == IF call.part /\ call.first THEN Nested ELSE call.bio

(* A mutant: the completion is taken for the oldest request.               *)
FinishFirst(s, u) ==
    LET p == PlaceOf(s, NoDesc)
    IN  FreeDescChain([s EXCEPT !.pend[p] = NoRequest,
                                !.memory[s.pend[p].bio] = [done |-> TRUE, error |-> ~u.ok]], u.id)

Finish(s, u) ==
    LET p == PlaceOf(s, u.id)
        b == s.pend[p].bio
    IN  FreeDescChain([s EXCEPT !.pend[p] = NoRequest,
                                !.memory[b] = [done |-> TRUE, error |-> ~u.ok],
                                !.crossed = IF b = Awaited /\ s.pend[p].req # call.req
                                            THEN @ \cup {call.req} ELSE @], u.id)

Polled ==
    LET s == [next |-> next, freeHead |-> freeHead, numFree |-> numFree, pend |-> pend,
              memory |-> memory, crossed |-> crossed]
        go[k \in 0 .. Len(used)] == IF k = 0 THEN s ELSE Finish(go[k - 1], used[k])
    IN  go[Len(used)]

(* A poll: the one that ends a submit, after which part_submit copies what *)
(* its own bio says, and those of the waiting loop.                        *)
Poll ==
    LET s == Polled
        copied == IF call.part /\ call.first
                  THEN [s.memory EXCEPT ![call.bio] = s.memory[Nested]] ELSE s.memory
        done == copied[call.bio].done
    IN  /\ call.req # 0
        /\ call.first \/ used # <<>>
        /\ next' = s.next /\ freeHead' = s.freeHead /\ numFree' = s.numFree
        /\ pend' = s.pend /\ crossed' = s.crossed
        /\ used' = <<>>
        /\ memory' = copied
        /\ call' = IF done THEN NoCall ELSE [call EXCEPT !.first = FALSE]
        /\ answer' = IF ~done THEN answer
                     ELSE [result |-> IF copied[call.bio].error THEN "failed" ELSE "ok", req |-> call.req]
        /\ UNCHANGED <<more, avail, calls, completed>>

(* A million polls found nothing.                                          *)
GiveUp ==
    /\ call.req # 0 /\ ~call.first
    /\ call' = NoCall
    /\ answer' = [result |-> "EIO", req |-> call.req]
    /\ UNCHANGED <<next, more, freeHead, numFree, pend, avail, used, memory, calls, completed, crossed>>

BlockNext ==
    \/ \E b \in Bios, part \in BOOLEAN : Submit(b, part)
    \/ \E h \in Descs, ok \in BOOLEAN : DeviceCompletes(h, ok)
    \/ Poll
    \/ GiveUp

BlockSpec == BlockInit /\ [][BlockNext]_blockVars

-----------------------------------------------------------------------------
(* A call is told that all went well only when the device did its request: *)
(* completions come in any order, descriptors and places are used again,   *)
(* and requests of callers that gave up are completed among the others.    *)
(* Only a request that was given up and whose bio had the same stack       *)
(* address as the caller's can answer in its place (virtio_blk.c, vblk_    *)
(* poll; block.c, submit_bio_sync).                                        *)
OwnAnswer ==
    answer.result = "ok" => answer.req \in completed \/ answer.req \in crossed

(* The descriptors are never given out twice and never dwindle: the free   *)
(* list and the chains of the requests in flight share none, and at most   *)
(* two of the others are lost to submits that found less than three.       *)
Flying == {pend[p].head : p \in {q \in Places : InUse(q)}}
Chain(h) == {h, next[h], next[next[h]]}
FreeDescs == {FreeList(numFree)[i] : i \in 1 .. numFree}
QueueSound ==
    /\ Cardinality(FreeDescs) = numFree
    /\ \A h \in Flying : Cardinality(Chain(h)) = 3 /\ Chain(h) \cap FreeDescs = {}
    /\ \A g, h \in Flying : g # h => Chain(g) \cap Chain(h) = {}
    /\ QSize - numFree - 3 * Cardinality(Flying) \in 0 .. 2

(* A caller is answered by its own request, through descriptors that are   *)
(* its own while it waits (virtio_blk.c:180-340, block.c:97-150).          *)
RequestsSound == OwnAnswer /\ QueueSound
=============================================================================
