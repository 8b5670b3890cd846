-------------------------- MODULE AtLeastOnceQueue --------------------------
(***************************************************************************)
(* What pkg/outbox promises its users, without replicas, locks, batches or *)
(* failures: an event that was accepted is delivered to its partition at   *)
(* least once, never ahead of an event it has to wait for, and is retired  *)
(* only after it was delivered.  What is delivered is not safe: a          *)
(* partition may lose its newest messages.                                 *)
(***************************************************************************)
EXTENDS Sequences, Functions, Naturals

CONSTANTS
    Changes,        \* the menu changes a behaviour may announce, one event each
    Keys,           \* Kafka message keys: a restaurant id or "all"
    KeyOf           \* the key of each change's event, in [Changes -> Keys]

VARIABLES
    status,         \* status[c]: absent, accepted or retired
    behind,         \* behind[c]: the events c may not overtake
    topic,          \* topic[k]: the messages with key k, in partition order
    dropped         \* the events a partition has lost

queueVars == <<status, behind, topic, dropped>>

Delivered(c) == c \in Range(topic[KeyOf[c]])

\* Nobody waits any longer for an event that was delivered once.
Reached(c) == Delivered(c) \/ c \in dropped

Init ==
    /\ status = [c \in Changes |-> "absent"]
    /\ behind = [c \in Changes |-> {}]
    /\ topic  = [k \in Keys |-> <<>>]
    /\ dropped = {}

\* An event enters the queue behind some of the events already in it.
Accept(c) ==
    /\ status[c] = "absent"
    /\ status' = [status EXCEPT ![c] = "accepted"]
    /\ \E B \in SUBSET {b \in Changes : /\ status[b] # "absent"
                                        /\ KeyOf[b] = KeyOf[c]} :
          behind' = [behind EXCEPT ![c] = B]
    /\ UNCHANGED <<topic, dropped>>

\* Delivery may repeat, also after the event was retired.
Deliver(c) ==
    /\ status[c] # "absent"
    /\ \A b \in behind[c] : Reached(b)
    /\ topic' = [topic EXCEPT ![KeyOf[c]] = Append(@, c)]
    /\ UNCHANGED <<status, behind, dropped>>

\* Of the messages with key k only the first n are left.
Drop(k, n) ==
    /\ topic' = [topic EXCEPT ![k] = SubSeq(@, 1, n)]
    /\ dropped' = dropped \cup Range(SubSeq(topic[k], n + 1, Len(topic[k])))
    /\ UNCHANGED <<status, behind>>

\* Events are retired a batch at a time.
Retire(S) ==
    /\ S # {}
    /\ \A c \in S : status[c] = "accepted" /\ Reached(c)
    /\ status' = [c \in Changes |-> IF c \in S THEN "retired" ELSE status[c]]
    /\ UNCHANGED <<behind, topic, dropped>>

Next ==
    \/ \E c \in Changes : Accept(c) \/ Deliver(c)
    \/ \E k \in Keys : \E n \in 0..(Len(topic[k]) - 1) : Drop(k, n)
    \/ \E S \in SUBSET Changes : Retire(S)

Spec == Init /\ [][Next]_queueVars

\* An accepted event is delivered once, and retired, in the end.
Fairness ==
    \A c \in Changes :
        /\ WF_queueVars(~Reached(c) /\ Deliver(c))
        /\ WF_queueVars(\E S \in SUBSET Changes : c \in S /\ Retire(S))

FairSpec == Spec /\ Fairness
=============================================================================
