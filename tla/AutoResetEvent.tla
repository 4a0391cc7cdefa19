--------------------------- MODULE AutoResetEvent ---------------------------
(***************************************************************************)
(* What the kernel promises of an Event (include/user/sdk/sync.hpp: "Kernel *)
(* auto-reset Event. wait() leaves Ready until signal/broadcast or timeout")*)
(* with none of the mechanism: no waiter list, no process states, no ticks. *)
(* An event holds at most one token.  A signal hands the token to a waiter  *)
(* if there is one and otherwise leaves it; a wait that returns success has *)
(* consumed exactly one grant or one token.                                 *)
(***************************************************************************)
CONSTANTS Threads,     \* process-table slots that make the calls
          Events,      \* event ids
          Leader,      \* Leader[t]: the process t belongs to
          NoThread,    \* "no owner"
          NoEvent      \* "waits for nothing"

VARIABLES owner,       \* owner[e]: the process that created e, or NoThread
          token,       \* events with a pending signal nobody has consumed
          waiting,     \* waiting[t]: the event t waits for, or NoEvent
          granted,     \* threads whose wait has been granted, not yet returned
          result       \* result[t]: what the last wait of t returned

vars == <<owner, token, waiting, granted, result>>

Live == {e \in Events : owner[e] # NoThread}
Idle(t) == waiting[t] = NoEvent /\ t \notin granted
WaitersOf(e) == {t \in Threads : waiting[t] = e}

Init == /\ owner = [e \in Events |-> NoThread]
        /\ token = {}
        /\ waiting = [t \in Threads |-> NoEvent]
        /\ granted = {}
        /\ result = [t \in Threads |-> "none"]

Create(t, e) == /\ Idle(t)
                /\ e \notin Live
                /\ owner' = [owner EXCEPT ![e] = Leader[t]]
                /\ UNCHANGED <<token, waiting, granted, result>>

(* Every waiter of a set of events is let go with success. *)
Grant(S) == /\ waiting' = [t \in Threads |-> IF t \in S THEN NoEvent ELSE waiting[t]]
            /\ granted' = granted \cup S

Destroy(t, e) == /\ Idle(t)
                 /\ owner[e] = Leader[t]
                 /\ owner' = [owner EXCEPT ![e] = NoThread]
                 /\ token' = token \ {e}
                 /\ Grant(WaitersOf(e))
                 /\ UNCHANGED result

Signal(t, e) == /\ Idle(t)
                /\ e \in Live
                /\ \/ /\ WaitersOf(e) = {}
                      /\ token' = token \cup {e}
                      /\ UNCHANGED <<waiting, granted>>
                   \/ /\ \E w \in WaitersOf(e) : Grant({w})
                      /\ UNCHANGED token
                /\ UNCHANGED <<owner, result>>

Broadcast(t, e) == /\ Idle(t)
                   /\ e \in Live
                   /\ \/ /\ WaitersOf(e) = {}
                         /\ token' = token \cup {e}
                      \/ /\ WaitersOf(e) # {}
                         /\ UNCHANGED token
                   /\ Grant(WaitersOf(e))
                   /\ UNCHANGED <<owner, result>>

(* The caller takes the token there is. *)
Take(t, e) == /\ Idle(t)
              /\ e \in token
              /\ token' = token \ {e}
              /\ result' = [result EXCEPT ![t] = "OK"]
              /\ UNCHANGED <<owner, waiting, granted>>

(* No such event, or nothing to take and the caller would not wait. *)
Refuse(t, e) == /\ Idle(t)
                /\ \/ e \notin Live /\ result' = [result EXCEPT ![t] = "EBADF"]
                   \/ e \in Live \ token /\ result' = [result EXCEPT ![t] = "EAGAIN"]
                /\ UNCHANGED <<owner, token, waiting, granted>>

Block(t, e) == /\ Idle(t)
               /\ e \in Live \ token
               /\ waiting' = [waiting EXCEPT ![t] = e]
               /\ result' = [result EXCEPT ![t] = "none"]
               /\ UNCHANGED <<owner, token, granted>>

Return(t) == /\ t \in granted
             /\ granted' = granted \ {t}
             /\ result' = [result EXCEPT ![t] = "OK"]
             /\ UNCHANGED <<owner, token, waiting>>

Timeout(t) == /\ waiting[t] # NoEvent
              /\ waiting' = [waiting EXCEPT ![t] = NoEvent]
              /\ result' = [result EXCEPT ![t] = "ETIMEDOUT"]
              /\ UNCHANGED <<owner, token, granted>>

(* A process ends: its threads stop waiting, its events go and let the     *)
(* waiters of other processes through.                                     *)
Exit(l) ==
    LET group == {t \in Threads : Leader[t] = l}
        freed == {e \in Events : owner[e] = l}
        let   == {t \in Threads \ group : waiting[t] \in freed}
    IN  /\ owner' = [e \in Events |-> IF e \in freed THEN NoThread ELSE owner[e]]
        /\ token' = token \ freed
        /\ waiting' = [t \in Threads |->
                          IF t \in group \cup let THEN NoEvent ELSE waiting[t]]
        /\ granted' = (granted \cup let) \ group
        /\ UNCHANGED result

Next == \/ \E t \in Threads, e \in Events :
              \/ Create(t, e) \/ Destroy(t, e) \/ Signal(t, e) \/ Broadcast(t, e)
              \/ Take(t, e) \/ Refuse(t, e) \/ Block(t, e)
        \/ \E t \in Threads : Return(t) \/ Timeout(t)
        \/ \E l \in Threads : Exit(l)

Spec == Init /\ [][Next]_vars
=============================================================================
