------------------------------- MODULE Outbox -------------------------------
(***************************************************************************)
(* The event path of the CRM: a service commits a menu change, the         *)
(* publisher (internal/events) then inserts an event into the outbox       *)
(* table, and the relays (pkg/outbox, one per CRM replica) elect a leader  *)
(* with a PostgreSQL advisory lock, write the oldest unpublished rows to   *)
(* Kafka and mark them published.                                          *)
(*                                                                         *)
(* One event per change, so a row is named by its change.  Failures (of    *)
(* PostgreSQL, of Kafka, of a process) take from the budget MaxFaults.     *)
(* The leader of a partition answers for it alone (RequireOne), so what it *)
(* acknowledged may be lost with it.                                       *)
(* The row's payload, attempts and last_error columns and the counters of  *)
(* Pending are read by no step and are left out.                           *)
(***************************************************************************)
EXTENDS Naturals, Sequences, FiniteSets, Functions

CONSTANTS
    Changes,        \* menu changes, each announced by at most one event
    Keys,           \* Kafka message keys: a restaurant id or "all"
    Relays,         \* CRM replicas; each runs one relay and serves requests
    KeyOf,          \* the key of each change's event
    HostOf,         \* the replica that serves the request making the change
    Batch,          \* rows per publishBatch (Relay.batch, 100 in the code)
    MaxFaults,      \* bound: failures and crashes in a behaviour
    NoRelay         \* the advisory lock is free

ASSUME OutboxAssumption ==
    /\ KeyOf \in [Changes -> Keys]
    /\ HostOf \in [Changes -> Relays]
    /\ IsFiniteSet(Changes)
    /\ Batch \in Nat \ {0}
    /\ MaxFaults \in Nat
    /\ NoRelay \notin Relays

VARIABLES
    row,            \* row[c]: how far change c and its outbox row have come
    id,             \* id[c]: the BIGSERIAL id of c's row, 0 if none was drawn
    lastId,         \* the outbox id sequence
    behind,         \* history: rows with c's key and a smaller id that were
                    \* committed when c's row was
    topic,          \* topic[k]: the messages with key k, in partition order
    late,           \* messages still on their way to a partition when the
                    \* writer that sent them gave up or died
    dropped,        \* history: events that were in a partition and that a
                    \* failing leader took with it
    lock,           \* the session's owner that holds the advisory lock
    pc,             \* pc[r]: where relay r stands in Run / publishBatch
    delay,          \* delay[r]: Run's backoff, in seconds
    batch,          \* batch[r]: the rows publishBatch selected
    acked,          \* acked[r]: those whose partition acknowledged them
    faults          \* failures so far

tableVars == <<row, id, lastId, behind>>
kafkaVars == <<topic, late, dropped>>
relayVars == <<lock, pc, delay, batch, acked>>
vars == <<row, id, lastId, behind, topic, late, dropped, lock, pc, delay, batch, acked, faults>>

\* "applied": the change is committed, its event is not written;
\* "drawn": the INSERT took an id from the sequence, not committed;
\* "lost": the publisher gave up or died, no row will ever be written.
RowState == {"none", "applied", "drawn", "lost", "pending", "sent", "purged"}
Committed == {c \in Changes : row[c] \in {"pending", "sent", "purged"}}
Pending == {c \in Changes : row[c] = "pending"}

RelayState == {"wait", "backoff", "publish", "leader", "writing", "written", "down"}

Delivered(c) == c \in Range(topic[KeyOf[c]])

\* A leader has had c in its partition and may have acknowledged it, whether
\* or not it is still there.
Reached(c) == Delivered(c) \/ c \in dropped

TypeOK ==
    /\ row \in [Changes -> RowState]
    /\ id \in [Changes -> Nat]
    /\ lastId \in Nat
    /\ behind \in [Changes -> SUBSET Changes]
    /\ topic \in [Keys -> Seq(Changes)]
    /\ late \subseteq Changes
    /\ dropped \subseteq Changes
    /\ lock \in Relays \cup {NoRelay}
    /\ pc \in [Relays -> RelayState]
    /\ delay \in [Relays -> 0..30]
    /\ batch \in [Relays -> SUBSET Changes]
    /\ acked \in [Relays -> SUBSET Changes]
    /\ faults \in 0..MaxFaults

Init ==
    /\ row = [c \in Changes |-> "none"]
    /\ id = [c \in Changes |-> 0]
    /\ lastId = 0
    /\ behind = [c \in Changes |-> {}]
    /\ topic = [k \in Keys |-> <<>>]
    /\ late = {}
    /\ dropped = {}
    /\ lock = NoRelay
    /\ pc = [r \in Relays |-> "wait"]
    /\ delay = [r \in Relays |-> 0]
    /\ batch = [r \in Relays |-> {}]
    /\ acked = [r \in Relays |-> {}]
    /\ faults = 0

Fault == faults < MaxFaults /\ faults' = faults + 1

-----------------------------------------------------------------------------
(* The request: a service commits the change, then PublishMenuUpdated.     *)

ApplyChange(c) ==
    /\ row[c] = "none"
    /\ pc[HostOf[c]] # "down"
    /\ row' = [row EXCEPT ![c] = "applied"]
    /\ UNCHANGED <<id, lastId, behind, kafkaVars, relayVars, faults>>

\* The INSERT starts: its default id is drawn outside any transaction order.
DrawId(c) ==
    /\ row[c] = "applied"
    /\ row' = [row EXCEPT ![c] = "drawn"]
    /\ lastId' = lastId + 1
    /\ id' = [id EXCEPT ![c] = lastId + 1]
    /\ UNCHANGED <<behind, kafkaVars, relayVars, faults>>

\* The INSERT commits and becomes visible to the relays' SELECT.
CommitInsert(c) ==
    /\ row[c] = "drawn"
    /\ row' = [row EXCEPT ![c] = "pending"]
    /\ behind' = [behind EXCEPT ![c] =
                     {b \in Committed : KeyOf[b] = KeyOf[c] /\ id[b] < id[c]}]
    /\ UNCHANGED <<id, lastId, kafkaVars, relayVars, faults>>

\* The error is logged and the request still succeeds.
InsertFails(c) ==
    /\ row[c] \in {"applied", "drawn"}
    /\ Fault
    /\ row' = [row EXCEPT ![c] = "lost"]
    /\ UNCHANGED <<id, lastId, behind, kafkaVars, relayVars>>

-----------------------------------------------------------------------------
(* The relay: Run and publishBatch.                                        *)

\* min(max(backoff*2, 1s), 30s)
NextDelay(d) == IF d = 0 THEN 1 ELSE IF d > 15 THEN 30 ELSE 2 * d

\* Mutant: no deferred Rollback, so an early return keeps the lock.
LeaveBatchLocked(r, next, d) ==
    /\ lock' = lock
    /\ pc' = [pc EXCEPT ![r] = next]
    /\ delay' = [delay EXCEPT ![r] = d]
    /\ batch' = [batch EXCEPT ![r] = {}]
    /\ acked' = [acked EXCEPT ![r] = {}]

\* publishBatch returns: its transaction ends, releasing the lock if its
\* session still holds it, and Run goes on at `next` with backoff d.
LeaveBatch(r, next, d) ==
    /\ lock' = IF lock = r THEN NoRelay ELSE lock
    /\ pc' = [pc EXCEPT ![r] = next]
    /\ delay' = [delay EXCEPT ![r] = d]
    /\ batch' = [batch EXCEPT ![r] = {}]
    /\ acked' = [acked EXCEPT ![r] = {}]

\* publishBatch returns an error: the drain loop stops, the backoff grows.
LeaveFailed(r) == LeaveBatch(r, "wait", NextDelay(delay[r]))

\* ticker.C or notify; both lead to the same place.
Wake(r) ==
    /\ pc[r] = "wait"
    /\ pc' = [pc EXCEPT ![r] = IF delay[r] > 0 THEN "backoff" ELSE "publish"]
    /\ UNCHANGED <<tableVars, kafkaVars, lock, delay, batch, acked, faults>>

BackoffOver(r) ==
    /\ pc[r] = "backoff"
    /\ pc' = [pc EXCEPT ![r] = "publish"]
    /\ UNCHANGED <<tableVars, kafkaVars, lock, delay, batch, acked, faults>>

\* cleanup.C: rows published more than three days ago are deleted.
Purge(r) ==
    /\ pc[r] = "wait"
    /\ \E S \in SUBSET {c \in Changes : row[c] = "sent"} :
          /\ S # {}
          /\ row' = [c \in Changes |-> IF c \in S THEN "purged" ELSE row[c]]
    /\ UNCHANGED <<id, lastId, behind, kafkaVars, relayVars, faults>>

\* Mutant: the advisory lock is not taken.
CanLockAlways(r) == TRUE

\* pg_try_advisory_xact_lock: granted only if no other session has it.
CanLock(r) == lock = NoRelay

TryLock(r) ==
    /\ pc[r] = "publish"
    /\ CanLock(r)
    /\ lock' = r
    /\ pc' = [pc EXCEPT ![r] = "leader"]
    /\ UNCHANGED <<tableVars, kafkaVars, delay, batch, acked, faults>>

\* Not the leader: (0, nil), which is a success to Run.
NotLeader(r) ==
    /\ pc[r] = "publish"
    /\ ~CanLock(r)
    /\ LeaveBatch(r, "wait", 0)
    /\ UNCHANGED <<tableVars, kafkaVars, faults>>

BeginFails(r) ==
    /\ pc[r] = "publish"
    /\ Fault
    /\ LeaveFailed(r)
    /\ UNCHANGED <<tableVars, kafkaVars>>

\* The rows a SELECT may return: those it sees, unpublished.
Selectable == Pending

\* ... ORDER BY id LIMIT batch
OldestPending ==
    {c \in Selectable : Cardinality({b \in Selectable : id[b] < id[c]}) < Batch}

\* Mutant: statements go to the pool instead of the transaction.
AnySession(r) == TRUE

\* The transaction is still open on a session that holds the lock.
SessionAlive(r) == lock = r

SelectRows(r) ==
    /\ pc[r] = "leader"
    /\ SessionAlive(r)
    /\ OldestPending # {}
    /\ batch' = [batch EXCEPT ![r] = OldestPending]
    /\ pc' = [pc EXCEPT ![r] = "writing"]
    /\ UNCHANGED <<tableVars, kafkaVars, lock, delay, acked, faults>>

NothingPending(r) ==
    /\ pc[r] = "leader"
    /\ SessionAlive(r)
    /\ OldestPending = {}
    /\ LeaveBatch(r, "wait", 0)
    /\ UNCHANGED <<tableVars, kafkaVars, faults>>

\* The SELECT fails, for sure on a session that was lost.
SelectFails(r) ==
    /\ pc[r] = "leader"
    /\ IF lock = r THEN Fault ELSE UNCHANGED faults
    /\ LeaveFailed(r)
    /\ UNCHANGED <<tableVars, kafkaVars>>

\* Mutant: messages of one partition are written in any order.
WriteAnyOrder(r, c) == c \in batch[r] \ acked[r]

\* WriteMessages hands each partition its messages in batch order.
NextToWrite(r, c) ==
    /\ c \in batch[r] \ acked[r]
    /\ \A b \in batch[r] : KeyOf[b] = KeyOf[c] /\ id[b] < id[c] => b \in acked[r]

\* The partition's leader has appended the message and answers; its
\* followers may not have it yet.
WriteMessage(r, c) ==
    /\ pc[r] = "writing"
    /\ NextToWrite(r, c)
    /\ topic' = [topic EXCEPT ![KeyOf[c]] = Append(@, c)]
    /\ acked' = [acked EXCEPT ![r] = @ \cup {c}]
    /\ UNCHANGED <<tableVars, late, dropped, lock, pc, delay, batch, faults>>

\* The message is appended and the answer lost; the writer sends it again
\* (MaxAttempts) or gives up.
AckLost(r, c) ==
    /\ pc[r] = "writing"
    /\ NextToWrite(r, c)
    /\ Fault
    /\ topic' = [topic EXCEPT ![KeyOf[c]] = Append(@, c)]
    /\ UNCHANGED <<tableVars, late, dropped, lock, pc, delay, batch, acked>>

\* Async is false and RequiredAcks is RequireOne: WriteMessages waits for the
\* answer of each partition's leader, and of nobody else.
AllAcked(r) == acked[r] = batch[r]

WriteDone(r) ==
    /\ pc[r] = "writing"
    /\ AllAcked(r)
    /\ pc' = [pc EXCEPT ![r] = "written"]
    /\ UNCHANGED <<tableVars, kafkaVars, lock, delay, batch, acked, faults>>

\* What r has sent and was not answered may still arrive.
LeaveInFlight(r) ==
    /\ \E S \in SUBSET {c \in Changes : NextToWrite(r, c)} : late' = late \cup S
    /\ UNCHANGED <<topic, dropped>>

\* WriteMessages returns an error, whatever part of the batch was written.
WriteFails(r) ==
    /\ pc[r] = "writing"
    /\ Fault
    /\ LeaveInFlight(r)
    /\ LeaveFailed(r)
    /\ UNCHANGED tableVars

LateArrival(c) ==
    /\ c \in late
    /\ late' = late \ {c}
    /\ topic' = [topic EXCEPT ![KeyOf[c]] = Append(@, c)]
    /\ UNCHANGED <<tableVars, dropped, relayVars, faults>>

\* Mutant: UPDATE ... WHERE published_at IS NULL.
MarkAllPending(r) ==
    row' = [c \in Changes |-> IF row[c] = "pending" THEN "sent" ELSE row[c]]

\* UPDATE outbox SET published_at = NOW() WHERE id = ANY(ids)
MarkPublished(r) ==
    row' = [c \in Changes |-> IF c \in batch[r] THEN "sent" ELSE row[c]]

\* A full batch keeps the drain loop going, anything less waits.
AfterBatch(r) == IF Cardinality(batch[r]) < Batch THEN "wait" ELSE "publish"

\* The UPDATE and the COMMIT, which also releases the lock.
MarkSent(r) ==
    /\ pc[r] = "written"
    /\ SessionAlive(r)
    /\ MarkPublished(r)
    /\ LeaveBatch(r, AfterBatch(r), 0)
    /\ UNCHANGED <<id, lastId, behind, kafkaVars, faults>>

\* The UPDATE or the COMMIT returns an error: on a lost session nothing was
\* applied; on a live one the commit may have been.
MarkFails(r) ==
    /\ pc[r] = "written"
    /\ \/ lock # r /\ UNCHANGED <<row, faults>>
       \/ lock = r /\ Fault /\ UNCHANGED row
       \/ lock = r /\ Fault /\ MarkPublished(r)
    /\ LeaveFailed(r)
    /\ UNCHANGED <<id, lastId, behind, kafkaVars>>

-----------------------------------------------------------------------------
(* Sessions, processes and brokers fail.                                   *)

\* The database drops the session of a leader that is still running.
LoseSession(r) ==
    /\ lock = r
    /\ Fault
    /\ lock' = NoRelay
    /\ UNCHANGED <<tableVars, kafkaVars, pc, delay, batch, acked>>

\* The process dies or is shut down, and with it the requests it serves.
Crash(r) ==
    /\ pc[r] # "down"
    /\ Fault
    /\ LeaveBatch(r, "down", 0)
    /\ row' = [c \in Changes |->
                 IF HostOf[c] = r /\ row[c] \in {"applied", "drawn"}
                 THEN "lost" ELSE row[c]]
    /\ LeaveInFlight(r)
    /\ UNCHANGED <<id, lastId, behind>>

Restart(r) ==
    /\ pc[r] = "down"
    /\ pc' = [pc EXCEPT ![r] = "wait"]
    /\ UNCHANGED <<tableVars, kafkaVars, lock, delay, batch, acked, faults>>

\* The leader of k's partition fails, and the follower that takes over has
\* only the first n messages.  RequireOne has waited for no follower, so the
\* others are gone, acknowledged or not.
LeaderFails(k) ==
    /\ Fault
    /\ \E n \in 0..(Len(topic[k]) - 1) :
          /\ topic' = [topic EXCEPT ![k] = SubSeq(@, 1, n)]
          /\ dropped' = dropped \cup Range(SubSeq(topic[k], n + 1, Len(topic[k])))
    /\ UNCHANGED <<tableVars, late, relayVars>>

-----------------------------------------------------------------------------
Publish(c) == DrawId(c) \/ CommitInsert(c)

\* The steps a relay takes by itself, failures of the environment excluded
\* except for the errors that a lost session makes certain.
RelayStep(r) ==
    \/ Wake(r) \/ BackoffOver(r) \/ TryLock(r) \/ NotLeader(r)
    \/ SelectRows(r) \/ NothingPending(r)
    \/ \E c \in Changes : WriteMessage(r, c)
    \/ WriteDone(r) \/ MarkSent(r)
    \/ lock # r /\ (SelectFails(r) \/ MarkFails(r))

Failure(r) ==
    \/ BeginFails(r) \/ SelectFails(r) \/ WriteFails(r) \/ MarkFails(r)
    \/ \E c \in Changes : AckLost(r, c)
    \/ LoseSession(r) \/ Crash(r)

Next ==
    \/ \E c \in Changes : ApplyChange(c) \/ Publish(c) \/ InsertFails(c) \/ LateArrival(c)
    \/ \E r \in Relays : RelayStep(r) \/ Purge(r) \/ Failure(r) \/ Restart(r)
    \/ \E k \in Keys : LeaderFails(k)

Spec == Init /\ [][Next]_vars

\* A request that started to publish goes on, a relay keeps running (its
\* ticker fires every second) and a stopped process is started again.
Fairness ==
    /\ \A c \in Changes : WF_vars(Publish(c))
    /\ \A r \in Relays : WF_vars(RelayStep(r)) /\ WF_vars(Restart(r))

FairSpec == Spec /\ Fairness

-----------------------------------------------------------------------------
(* Properties                                                              *)

\* A row that is marked published, or was purged, has reached Kafka: marking
\* and purging never drop an event, whatever fails in between.  What drops it
\* is a leader that acknowledged it and fails before its followers have it.
SentReachedKafka ==
    \A c \in Changes : row[c] \in {"sent", "purged"} => Reached(c)

\* Within a key no event overtakes one whose row has the smaller id and was
\* committed first, whichever replicas publish them and however often, unless
\* Kafka has lost the one that was ahead.
NoOvertaking ==
    \A c \in Changes : \A n \in DOMAIN topic[KeyOf[c]] :
        topic[KeyOf[c]][n] = c =>
            \A b \in behind[c] :
                b \in dropped \/ \E m \in 1..(n - 1) : topic[KeyOf[c]][m] = b

\* Duplicates come from failures only: two replicas that both poll the table
\* do not publish a row twice by themselves.
DuplicatesNeedFaults ==
    faults = 0 =>
        \A k \in Keys : \A m, n \in DOMAIN topic[k] :
            topic[k][m] = topic[k][n] => m = n

\* The rows in the hands of the lock's holder stay unpublished until it marks
\* them itself: no purge, no deposed leader and no other replica takes them.
LeaderOwnsBatch ==
    \A r \in Relays : lock = r => batch[r] \subseteq Pending

-----------------------------------------------------------------------------
(* The inductive invariant behind the safety properties.                   *)

\* Only committed rows have rows ahead of them, and those are committed too.
TableInv ==
    \A c \in Changes : \A b \in behind[c] :
        /\ {b, c} \subseteq Committed
        /\ KeyOf[b] = KeyOf[c]
        /\ id[b] < id[c]

\* Kafka holds, and has lost, committed rows under their key; nothing still on
\* its way can overtake.
TopicInv ==
    /\ \A k \in Keys : \A n \in DOMAIN topic[k] :
          topic[k][n] \in Committed /\ KeyOf[topic[k][n]] = k
    /\ dropped \subseteq Committed
    /\ \A c \in late : c \in Committed /\ \A b \in behind[c] : Reached(b)

\* What a relay holds while it writes, also one that lost its session: a row
\* comes with every row ahead of it that has not reached Kafka yet.
HoldsBatch(r) ==
    /\ pc[r] \notin {"writing", "written"} => batch[r] = {}
    /\ batch[r] \subseteq Committed
    /\ acked[r] \subseteq batch[r]
    /\ \A c \in acked[r] : Reached(c)
    /\ pc[r] = "written" => acked[r] = batch[r]
    /\ \A c \in batch[r] : \A b \in behind[c] : b \in batch[r] \/ Reached(b)

BatchInv == \A r \in Relays : HoldsBatch(r)

IInv ==
    /\ TypeOK /\ TableInv /\ TopicInv /\ BatchInv
    /\ LeaderOwnsBatch /\ SentReachedKafka /\ NoOvertaking

-----------------------------------------------------------------------------
(* What a comment says of the path and the code does not do.               *)

\* outbox.go:3: an event is not lost when the process dies after the commit of
\* the change, because both are written in one transaction.
NoChangeUnannounced == \A c \in Changes : row[c] # "lost"

-----------------------------------------------------------------------------
(* The outbox implements an at-least-once queue.                           *)

Status ==
    [c \in Changes |-> CASE row[c] = "pending" -> "accepted"
                         [] row[c] \in {"sent", "purged"} -> "retired"
                         [] OTHER -> "absent"]

Queue == INSTANCE AtLeastOnceQueue WITH status <- Status

\* Each step of the outbox is a step of the queue or invisible to it: events
\* are delivered in their turn and retired only after delivery, under every
\* mix of replicas, lost sessions, partial writes, crashes and brokers that
\* fail with what they acknowledged.
ImplementsQueue == Queue!Spec

\* With the outbox's fairness every event whose row was committed reaches
\* Kafka and is marked in the end: no backoff, lost lock, exit of the drain
\* loop or restart strands it.  It is not promised to stay in Kafka.
ImplementsFairQueue == Queue!FairSpec
=============================================================================
