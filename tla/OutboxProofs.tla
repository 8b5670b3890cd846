----------------------------- MODULE OutboxProofs -----------------------------
(* Proofs about the outbox for any number of changes, keys and replicas.     *)
EXTENDS Outbox, FiniteSetTheorems, TLAPS

-------------------------------------------------------------------------------
(* Lemmas about the topic and the sequence operators it is built from.       *)

\* Appending keeps every position and adds one.
LEMMA AppendFacts ==
    ASSUME NEW S, NEW s \in Seq(S), NEW e \in S
    PROVE  /\ Append(s, e) \in Seq(S)
           /\ DOMAIN s = 1..Len(s) /\ Len(s) \in Nat
           /\ DOMAIN Append(s, e) = 1..(Len(s) + 1)
           /\ \A n \in 1..Len(s) : Append(s, e)[n] = s[n]
           /\ Append(s, e)[Len(s) + 1] = e
  OBVIOUS

\* The range of an extended sequence.
LEMMA AppendRange ==
    ASSUME NEW S, NEW s \in Seq(S), NEW e \in S
    PROVE  Range(Append(s, e)) = Range(s) \cup {e}
  BY AppendFacts DEF Range

\* What is left of a sequence when it is cut after n, and what is cut off.
LEMMA CutFacts ==
    ASSUME NEW S, NEW s \in Seq(S), NEW n \in 0..(Len(s) - 1)
    PROVE  /\ SubSeq(s, 1, n) \in Seq(S)
           /\ DOMAIN SubSeq(s, 1, n) = 1..n /\ DOMAIN s = 1..Len(s)
           /\ \A i \in 1..n : i \in DOMAIN s /\ SubSeq(s, 1, n)[i] = s[i]
           /\ Range(SubSeq(s, n + 1, Len(s))) \subseteq Range(s)
           /\ Range(s) = Range(SubSeq(s, 1, n)) \cup Range(SubSeq(s, n + 1, Len(s)))
<1> DEFINE l == Len(s)
           a == SubSeq(s, 1, n)
           b == SubSeq(s, n + 1, l)
<1>1. n \in Nat /\ l \in Nat /\ n < l /\ DOMAIN s = 1..l
  OBVIOUS
<1>2. a \in Seq(S) /\ DOMAIN a = 1..n /\ \A i \in 1..n : a[i] = s[i]
  BY <1>1
<1>3. DOMAIN b = 1..(l - n) /\ \A i \in 1..(l - n) : b[i] = s[i + n]
  BY <1>1
<1>4. \A i \in 1..n : i \in 1..l
  BY <1>1
<1>5. \A i \in 1..(l - n) : i + n \in 1..l
  BY <1>1
<1> HIDE DEF a, b, l
<1>6. Range(a) \subseteq Range(s)
  BY <1>1, <1>2, <1>4 DEF Range
<1>7. Range(b) \subseteq Range(s)
  BY <1>1, <1>3, <1>5 DEF Range
<1>8. ASSUME NEW i \in 1..l PROVE s[i] \in Range(a) \cup Range(b)
  <2>1. CASE i \leq n
    <3>1. i \in 1..n
      BY <1>1, <2>1
    <3>2. QED
      BY <3>1, <1>2 DEF Range
  <2>2. CASE ~(i \leq n)
    <3>1. i - n \in 1..(l - n) /\ (i - n) + n = i
      BY <1>1, <2>2
    <3>2. b[i - n] = s[i]
      BY <3>1, <1>3
    <3>3. QED
      BY <3>1, <3>2, <1>3 DEF Range
  <2>3. QED
    BY <2>1, <2>2
<1>9. Range(s) \subseteq Range(a) \cup Range(b)
  BY <1>1, <1>8 DEF Range
<1>10. QED
  BY <1>1, <1>2, <1>4, <1>6, <1>7, <1>9 DEF a, b, l

\* Partition k keeps its first n messages.
Cut(k, n) ==
    /\ topic' = [topic EXCEPT ![k] = SubSeq(topic[k], 1, n)]
    /\ dropped' = dropped \cup Range(SubSeq(topic[k], n + 1, Len(topic[k])))

\* A failing leader cuts its partition.
LEMMA LeaderCuts ==
    ASSUME NEW k \in Keys, LeaderFails(k)
    PROVE  \E n \in 0..(Len(topic[k]) - 1) : Cut(k, n)
  BY DEF LeaderFails, Cut

\* Every action keeps the types.
LEMMA TypeStep == ASSUME TypeOK, [Next]_vars PROVE TypeOK'
<1> USE OutboxAssumption DEF TypeOK, RowState, RelayState, tableVars, relayVars, kafkaVars
<1>1. ASSUME NEW c \in Changes, ApplyChange(c) PROVE TypeOK'
  BY <1>1 DEF ApplyChange
<1>2. ASSUME NEW c \in Changes, DrawId(c) PROVE TypeOK'
  BY <1>2 DEF DrawId
<1>3. ASSUME NEW c \in Changes, CommitInsert(c) PROVE TypeOK'
  BY <1>3 DEF CommitInsert, Committed
<1>4. ASSUME NEW c \in Changes, InsertFails(c) PROVE TypeOK'
  BY <1>4 DEF InsertFails, Fault
<1>5. ASSUME NEW c \in Changes, LateArrival(c) PROVE TypeOK'
  BY <1>5, AppendFacts DEF LateArrival
<1>6. ASSUME NEW r \in Relays, NEW next \in RelayState, NEW d \in 0..30,
             LeaveBatch(r, next, d)
      PROVE  /\ lock' \in Relays \cup {NoRelay}
             /\ pc' \in [Relays -> RelayState]
             /\ delay' \in [Relays -> 0..30]
             /\ batch' \in [Relays -> SUBSET Changes]
             /\ acked' \in [Relays -> SUBSET Changes]
  BY <1>6 DEF LeaveBatch
<1>7. /\ \A r \in Relays : NextDelay(delay[r]) \in 0..30
      /\ Fault => faults' \in 0..MaxFaults
  <2>1. ASSUME NEW d \in 0..30 PROVE NextDelay(d) \in 0..30
    BY <2>1 DEF NextDelay
  <2>2. ASSUME Fault PROVE faults' \in 0..MaxFaults
    BY <2>2 DEF Fault
  <2>3. QED
    BY <2>1, <2>2
<1>8. ASSUME NEW r \in Relays, Wake(r) \/ BackoffOver(r) \/ TryLock(r) \/ Restart(r)
      PROVE  TypeOK'
  <2>1. CASE Wake(r)
    BY <2>1 DEF Wake
  <2>2. CASE BackoffOver(r)
    BY <2>2 DEF BackoffOver
  <2>3. CASE TryLock(r)
    BY <2>3 DEF TryLock
  <2>4. CASE Restart(r)
    BY <2>4 DEF Restart
  <2>5. QED
    BY <1>8, <2>1, <2>2, <2>3, <2>4
<1>9. ASSUME NEW r \in Relays, NotLeader(r) \/ NothingPending(r) PROVE TypeOK'
  <2>1. LeaveBatch(r, "wait", 0) /\ "wait" \in RelayState /\ 0 \in 0..30
    BY <1>9 DEF NotLeader, NothingPending, RelayState
  <2>2. /\ lock' \in Relays \cup {NoRelay}
        /\ pc' \in [Relays -> RelayState]
        /\ delay' \in [Relays -> 0..30]
        /\ batch' \in [Relays -> SUBSET Changes]
        /\ acked' \in [Relays -> SUBSET Changes]
    BY <2>1, <1>6
  <2>3. QED
    BY <1>9, <2>2 DEF NotLeader, NothingPending
<1>10. ASSUME NEW r \in Relays, BeginFails(r) \/ SelectFails(r) PROVE TypeOK'
  BY <1>10, <1>6, <1>7 DEF BeginFails, SelectFails, LeaveFailed
<1>11. ASSUME NEW r \in Relays, Purge(r) PROVE TypeOK'
  BY <1>11 DEF Purge
<1>12. ASSUME NEW r \in Relays, SelectRows(r) PROVE TypeOK'
  BY <1>12 DEF SelectRows, OldestPending, Selectable, Pending
<1>13. ASSUME NEW r \in Relays, NEW c \in Changes, WriteMessage(r, c) \/ AckLost(r, c)
       PROVE  TypeOK'
  <2>1. topic' = [topic EXCEPT ![KeyOf[c]] = Append(@, c)]
    BY <1>13 DEF WriteMessage, AckLost
  <2>2. Append(topic[KeyOf[c]], c) \in Seq(Changes)
    BY AppendFacts
  <2>3. topic' \in [Keys -> Seq(Changes)]
    BY <2>1, <2>2
  <2>4. acked' \in [Relays -> SUBSET Changes]
    <3>1. CASE WriteMessage(r, c)
      BY <3>1 DEF WriteMessage
    <3>2. CASE AckLost(r, c)
      BY <3>2 DEF AckLost
    <3>3. QED
      BY <1>13, <3>1, <3>2
  <2>5. QED
    BY <1>13, <1>7, <2>3, <2>4 DEF WriteMessage, AckLost
<1>14. ASSUME NEW r \in Relays, WriteDone(r) \/ LoseSession(r) PROVE TypeOK'
  BY <1>14, <1>7 DEF WriteDone, LoseSession
<1>15. ASSUME NEW r \in Relays, WriteFails(r) PROVE TypeOK'
  BY <1>15, <1>6, <1>7 DEF WriteFails, LeaveFailed, LeaveInFlight
<1>16. ASSUME NEW r \in Relays, MarkPublished(r) PROVE row' \in [Changes -> RowState]
  BY <1>16 DEF MarkPublished
<1>17. ASSUME NEW r \in Relays, MarkSent(r) PROVE TypeOK'
  <2>1. AfterBatch(r) \in RelayState
    BY DEF AfterBatch
  <2>2. 0 \in 0..30 /\ LeaveBatch(r, AfterBatch(r), 0) /\ MarkPublished(r)
    BY <1>17 DEF MarkSent
  <2>3. row' \in [Changes -> RowState]
    BY <2>2, <1>16
  <2>4. /\ lock' \in Relays \cup {NoRelay}
        /\ pc' \in [Relays -> RelayState]
        /\ delay' \in [Relays -> 0..30]
        /\ batch' \in [Relays -> SUBSET Changes]
        /\ acked' \in [Relays -> SUBSET Changes]
    BY <2>1, <2>2, <1>6
  <2>5. QED
    BY <1>17, <2>3, <2>4 DEF MarkSent
<1>18. ASSUME NEW r \in Relays, MarkFails(r) PROVE TypeOK'
  <2>1. LeaveBatch(r, "wait", NextDelay(delay[r])) /\ NextDelay(delay[r]) \in 0..30
    BY <1>18, <1>7 DEF MarkFails, LeaveFailed
  <2>2. /\ lock' \in Relays \cup {NoRelay}
        /\ pc' \in [Relays -> RelayState]
        /\ delay' \in [Relays -> 0..30]
        /\ batch' \in [Relays -> SUBSET Changes]
        /\ acked' \in [Relays -> SUBSET Changes]
    BY <2>1, <1>6 DEF RelayState
  <2>3. row' \in [Changes -> RowState] /\ faults' \in 0..MaxFaults
    BY <1>18, <1>7, <1>16 DEF MarkFails
  <2>4. QED
    BY <1>18, <2>2, <2>3 DEF MarkFails
<1>19. ASSUME NEW r \in Relays, Crash(r) PROVE TypeOK'
  <2>1. LeaveBatch(r, "down", 0) /\ "down" \in RelayState /\ 0 \in 0..30
    BY <1>19 DEF Crash, RelayState
  <2>2. /\ lock' \in Relays \cup {NoRelay}
        /\ pc' \in [Relays -> RelayState]
        /\ delay' \in [Relays -> 0..30]
        /\ batch' \in [Relays -> SUBSET Changes]
        /\ acked' \in [Relays -> SUBSET Changes]
    BY <2>1, <1>6
  <2>3. row' \in [Changes -> RowState]
    BY <1>19 DEF Crash
  <2>4. late' \in SUBSET Changes /\ UNCHANGED <<topic, dropped>> /\ faults' \in 0..MaxFaults
    BY <1>19, <1>7 DEF Crash, LeaveInFlight
  <2>5. QED
    BY <1>19, <2>2, <2>3, <2>4 DEF Crash
<1>20. ASSUME NEW k \in Keys, LeaderFails(k) PROVE TypeOK'
  <2>1. PICK n \in 0..(Len(topic[k]) - 1) : Cut(k, n)
    BY <1>20, LeaderCuts
  <2>2. topic[k] \in Seq(Changes) /\ SubSeq(topic[k], 1, n) \in Seq(Changes)
    BY CutFacts
  <2>3. topic' \in [Keys -> Seq(Changes)]
    BY <2>1, <2>2 DEF Cut
  <2>4. Range(SubSeq(topic[k], n + 1, Len(topic[k]))) \subseteq Range(topic[k])
    BY <2>2, CutFacts
  <2>5. Range(topic[k]) \subseteq Changes
    BY <2>2 DEF Range
  <2>6. dropped' \subseteq Changes
    BY <2>1, <2>4, <2>5 DEF Cut
  <2>7. QED
    BY <1>20, <1>7, <2>3, <2>6 DEF LeaderFails
<1>21. CASE UNCHANGED vars
  BY <1>21 DEF vars
<1>22. QED
  BY <1>1, <1>2, <1>3, <1>4, <1>5, <1>8, <1>9, <1>10, <1>11, <1>12, <1>13, <1>14,
     <1>15, <1>17, <1>18, <1>19, <1>20, <1>21 DEF Next, Publish, RelayStep, Failure

LEMMA TypeInit == Init => TypeOK
  BY OutboxAssumption DEF Init, TypeOK, RowState, RelayState

THEOREM TypeCorrect == Spec => []TypeOK
  BY TypeInit, TypeStep, PTL DEF Spec

-------------------------------------------------------------------------------
(* Stability: what no step takes back.                                       *)

\* A step leaves the partitions alone, appends a message to one or is the
\* failure of a leader.
LEMMA TopicStep ==
    ASSUME TypeOK, [Next]_vars
    PROVE  \/ topic' = topic /\ dropped' = dropped
           \/ /\ \E c \in Changes : topic' = [topic EXCEPT ![KeyOf[c]] = Append(@, c)]
              /\ dropped' = dropped
           \/ \E k \in Keys : LeaderFails(k)
  BY DEF Next, vars, Publish, RelayStep, Failure, kafkaVars, relayVars, tableVars,
         ApplyChange, DrawId, CommitInsert, InsertFails, LateArrival, Wake, BackoffOver,
         Purge, TryLock, NotLeader, BeginFails, SelectRows, NothingPending, SelectFails,
         WriteMessage, AckLost, WriteDone, WriteFails, LeaveInFlight, MarkSent, MarkFails,
         LoseSession, Crash, Restart

\* What a failing leader takes with it is recorded.
LEMMA CutKeepsReached ==
    ASSUME TypeOK, NEW k \in Keys, NEW n \in 0..(Len(topic[k]) - 1), Cut(k, n),
           NEW c \in Changes, Reached(c)
    PROVE  Reached(c)'
<1>1. topic[k] \in Seq(Changes) /\ KeyOf[c] \in Keys /\ topic \in [Keys -> Seq(Changes)]
  BY OutboxAssumption DEF TypeOK
<1>2. CASE c \in dropped
  BY <1>2 DEF Cut, Reached
<1>3. CASE c \in Range(topic[KeyOf[c]]) /\ KeyOf[c] = k
  <2>1. \/ c \in Range(SubSeq(topic[k], 1, n))
        \/ c \in Range(SubSeq(topic[k], n + 1, Len(topic[k])))
    BY <1>1, <1>3, CutFacts
  <2>2. topic'[k] = SubSeq(topic[k], 1, n)
    BY <1>1 DEF Cut
  <2>3. QED
    BY <1>3, <2>1, <2>2 DEF Cut, Reached, Delivered
<1>4. CASE c \in Range(topic[KeyOf[c]]) /\ KeyOf[c] # k
  <2>1. topic'[KeyOf[c]] = topic[KeyOf[c]]
    BY <1>1, <1>4 DEF Cut
  <2>2. QED
    BY <1>4, <2>1 DEF Reached, Delivered
<1>5. QED
  BY <1>2, <1>3, <1>4 DEF Reached, Delivered

\* An event that has reached Kafka has reached it for good.
LEMMA ReachedStays ==
    ASSUME TypeOK, [Next]_vars
    PROVE  \A c \in Changes : Reached(c) => Reached(c)'
<1> SUFFICES ASSUME NEW c \in Changes, Reached(c) PROVE Reached(c)'
  OBVIOUS
<1>1. KeyOf[c] \in Keys /\ topic \in [Keys -> Seq(Changes)]
  BY OutboxAssumption DEF TypeOK
<1>2. CASE topic' = topic /\ dropped' = dropped
  BY <1>2 DEF Reached, Delivered
<1>3. ASSUME NEW d \in Changes, topic' = [topic EXCEPT ![KeyOf[d]] = Append(@, d)],
             dropped' = dropped
      PROVE  Reached(c)'
  <2>1. CASE KeyOf[c] = KeyOf[d]
    <3>1. topic'[KeyOf[c]] = Append(topic[KeyOf[c]], d) /\ topic[KeyOf[c]] \in Seq(Changes)
      BY <1>1, <1>3, <2>1
    <3>2. Range(topic'[KeyOf[c]]) = Range(topic[KeyOf[c]]) \cup {d}
      BY <3>1, AppendRange
    <3>3. QED
      BY <1>3, <3>2 DEF Reached, Delivered
  <2>2. CASE KeyOf[c] # KeyOf[d]
    <3>1. topic'[KeyOf[c]] = topic[KeyOf[c]]
      BY <1>1, <1>3, <2>2
    <3>2. QED
      BY <1>3, <3>1 DEF Reached, Delivered
  <2>3. QED
    BY <2>1, <2>2
<1>4. ASSUME NEW k \in Keys, LeaderFails(k) PROVE Reached(c)'
  BY <1>4, LeaderCuts, CutKeepsReached
<1>5. QED
  BY <1>2, <1>3, <1>4, TopicStep

\* A committed row stays committed and keeps its id and what is ahead of it.
LEMMA RowsStable ==
    ASSUME TypeOK, IInv, [Next]_vars
    PROVE  \A c \in Committed :
               c \in Committed' /\ id'[c] = id[c] /\ behind'[c] = behind[c]
<1> USE DEF TypeOK, RowState, Committed, tableVars
<1>1. ASSUME NEW r \in Relays, MarkPublished(r), UNCHANGED <<id, behind>>
      PROVE  \A c \in Committed :
                 c \in Committed' /\ id'[c] = id[c] /\ behind'[c] = behind[c]
  BY <1>1 DEF MarkPublished
<1>2. CASE UNCHANGED tableVars
  BY <1>2
<1>3. ASSUME NEW d \in Changes,
             ApplyChange(d) \/ Publish(d) \/ InsertFails(d) \/ LateArrival(d)
      PROVE  \A c \in Committed :
                 c \in Committed' /\ id'[c] = id[c] /\ behind'[c] = behind[c]
  <2>1. CASE ApplyChange(d)
    BY <2>1 DEF ApplyChange
  <2>2. CASE DrawId(d)
    BY <2>2 DEF DrawId
  <2>3. CASE CommitInsert(d)
    BY <2>3 DEF CommitInsert
  <2>4. CASE InsertFails(d)
    BY <2>4 DEF InsertFails
  <2>5. CASE LateArrival(d)
    BY <2>5, <1>2 DEF LateArrival
  <2>6. QED
    BY <1>3, <2>1, <2>2, <2>3, <2>4, <2>5 DEF Publish
<1>4. ASSUME NEW r \in Relays, Purge(r) \/ Crash(r)
      PROVE  \A c \in Committed :
                 c \in Committed' /\ id'[c] = id[c] /\ behind'[c] = behind[c]
  <2>1. CASE Purge(r)
    BY <2>1 DEF Purge
  <2>2. CASE Crash(r)
    BY <2>2 DEF Crash
  <2>3. QED
    BY <1>4, <2>1, <2>2
<1>5. ASSUME NEW r \in Relays, MarkSent(r) \/ MarkFails(r)
      PROVE  \A c \in Committed :
                 c \in Committed' /\ id'[c] = id[c] /\ behind'[c] = behind[c]
  BY <1>5, <1>1, <1>2 DEF MarkSent, MarkFails
<1>6. ASSUME NEW r \in Relays,
             \/ Wake(r) \/ BackoffOver(r) \/ TryLock(r) \/ NotLeader(r) \/ BeginFails(r)
             \/ SelectRows(r) \/ NothingPending(r) \/ SelectFails(r)
             \/ \E c \in Changes : WriteMessage(r, c) \/ AckLost(r, c)
             \/ WriteDone(r) \/ WriteFails(r) \/ LoseSession(r) \/ Restart(r)
      PROVE  UNCHANGED tableVars
  BY <1>6 DEF Wake, BackoffOver, TryLock, NotLeader, BeginFails, SelectRows, NothingPending,
              SelectFails, WriteMessage, AckLost, WriteDone, WriteFails, LoseSession, Restart
<1>7. ASSUME NEW k \in Keys, LeaderFails(k) PROVE UNCHANGED tableVars
  BY <1>7 DEF LeaderFails
<1>8. CASE UNCHANGED vars
  BY <1>2, <1>8 DEF vars
<1>9. QED
  BY <1>2, <1>3, <1>4, <1>5, <1>6, <1>7, <1>8 DEF Next, RelayStep, Failure

-------------------------------------------------------------------------------
(* The inductive invariant, one conjunct at a time.                          *)

\* A message appended after everything it has to wait for keeps TopicInv and
\* NoOvertaking.
LEMMA AppendKeepsOrder ==
    ASSUME TypeOK, IInv, [Next]_vars, NEW c \in Committed,
           topic' = [topic EXCEPT ![KeyOf[c]] = Append(@, c)],
           \A b \in behind[c] : Reached(b),
           late' \subseteq late, dropped' = dropped
    PROVE  TopicInv' /\ NoOvertaking'
<1> DEFINE k == KeyOf[c]
<1>1. c \in Changes /\ k \in Keys /\ topic[k] \in Seq(Changes)
  BY OutboxAssumption DEF TypeOK, Committed
<1>2. /\ topic'[k] = Append(topic[k], c)
      /\ \A j \in Keys : j # k => topic'[j] = topic[j]
  BY <1>1 DEF TypeOK
<1>3. /\ DOMAIN topic'[k] = 1..(Len(topic[k]) + 1)
      /\ DOMAIN topic[k] = 1..Len(topic[k]) /\ Len(topic[k]) \in Nat
      /\ \A n \in 1..Len(topic[k]) : topic'[k][n] = topic[k][n]
      /\ topic'[k][Len(topic[k]) + 1] = c
  BY <1>1, <1>2, AppendFacts
<1> HIDE DEF k
<1>4. \A d \in Committed : d \in Committed' /\ behind'[d] = behind[d]
  BY RowsStable
<1>5. TopicInv'
  <2>1. ASSUME NEW j \in Keys, NEW n \in DOMAIN topic'[j]
        PROVE  topic'[j][n] \in Committed' /\ KeyOf[topic'[j][n]] = j
    <3>1. CASE j # k
      BY <3>1, <1>2, <1>4 DEF IInv, TopicInv
    <3>2. CASE j = k /\ n = Len(topic[k]) + 1
      BY <3>2, <1>3, <1>4 DEF k
    <3>3. CASE j = k /\ n # Len(topic[k]) + 1
      <4>1. n \in 1..Len(topic[k])
        BY <3>3, <1>3
      <4>2. QED
        BY <4>1, <3>3, <1>3, <1>4 DEF IInv, TopicInv
    <3>4. QED
      BY <3>1, <3>2, <3>3
  <2>2. ASSUME NEW d \in late'
        PROVE  d \in Committed' /\ \A b \in behind'[d] : Reached(b)'
    BY <1>4, ReachedStays DEF IInv, TopicInv, TypeOK
  <2>3. dropped' \subseteq Committed'
    BY <1>4 DEF IInv, TopicInv
  <2>4. QED
    BY <2>1, <2>2, <2>3 DEF TopicInv
<1>6. NoOvertaking'
  <2> SUFFICES ASSUME NEW d \in Changes, NEW n \in DOMAIN topic'[KeyOf[d]],
                      topic'[KeyOf[d]][n] = d, NEW b \in behind'[d], b \notin dropped
               PROVE  \E m \in 1..(n - 1) : topic'[KeyOf[d]][m] = b
    BY DEF NoOvertaking
  <2>1. KeyOf[d] \in Keys
    BY OutboxAssumption
  <2>2. CASE KeyOf[d] # k
    <3>1. topic'[KeyOf[d]] = topic[KeyOf[d]]
      BY <2>1, <2>2, <1>2
    <3>2. d \in Committed
      BY <3>1, <2>1 DEF IInv, TopicInv
    <3>3. b \in behind[d] /\ n \in DOMAIN topic[KeyOf[d]] /\ topic[KeyOf[d]][n] = d
      BY <3>1, <3>2, <1>4
    <3>4. \E m \in 1..(n - 1) : topic[KeyOf[d]][m] = b
      BY <3>3 DEF IInv, NoOvertaking
    <3>5. QED
      BY <3>1, <3>4
  <2>3. CASE KeyOf[d] = k /\ n \in 1..Len(topic[k])
    <3>1. topic[k][n] = d /\ n \in DOMAIN topic[k]
      BY <2>3, <1>3
    <3>2. d \in Committed
      BY <3>1, <1>1 DEF IInv, TopicInv
    <3>3. PICK m \in 1..(n - 1) : topic[k][m] = b
      BY <3>1, <3>2, <2>3, <1>4 DEF IInv, NoOvertaking
    <3>4. m \in 1..Len(topic[k])
      BY <2>3, <1>3
    <3>5. topic'[KeyOf[d]][m] = b
      BY <3>3, <3>4, <2>3, <1>3
    <3>6. QED
      BY <3>5
  <2>4. CASE KeyOf[d] = k /\ n = Len(topic[k]) + 1
    <3>1. d = c
      BY <2>4, <1>3
    <3>2. b \in behind[c] /\ b \in Changes
      BY <3>1, <1>4 DEF TypeOK, Committed
    <3>3. Delivered(b) /\ KeyOf[b] = k
      BY <3>2, <1>1 DEF IInv, TableInv, Reached, k
    <3>4. PICK m \in DOMAIN topic[k] : topic[k][m] = b
      BY <3>3 DEF Delivered, Range
    <3>5. m \in 1..(n - 1) /\ topic'[KeyOf[d]][m] = b
      BY <3>4, <2>4, <1>3
    <3>6. QED
      BY <3>5
  <2>5. QED
    BY <2>2, <2>3, <2>4, <1>3
<1>7. QED
  BY <1>5, <1>6

\* Rows that no step appends to the topic: the order is kept.
LEMMA SameTopicKeepsOrder ==
    ASSUME TypeOK, IInv, [Next]_vars, topic' = topic, dropped' = dropped,
           \A c \in late' : c \in late \/ (c \in Committed /\ \A b \in behind[c] : Reached(b))
    PROVE  TopicInv' /\ NoOvertaking'
<1>1. \A d \in Committed : d \in Committed' /\ behind'[d] = behind[d]
  BY RowsStable
<1>2. \A d \in Changes : Reached(d)' <=> Reached(d)
  BY DEF Reached, Delivered
<1>3. TopicInv'
  <2>1. \A j \in Keys : \A n \in DOMAIN topic'[j] :
            topic'[j][n] \in Committed' /\ KeyOf[topic'[j][n]] = j
    BY <1>1 DEF IInv, TopicInv
  <2>2. ASSUME NEW d \in late'
        PROVE  d \in Committed' /\ \A b \in behind'[d] : Reached(b)'
    <3>1. d \in Committed /\ \A b \in behind[d] : b \in Changes /\ Reached(b)
      BY DEF IInv, TopicInv, TypeOK, Committed
    <3>2. QED
      BY <3>1, <1>1, <1>2
  <2>3. dropped' \subseteq Committed'
    BY <1>1 DEF IInv, TopicInv
  <2>4. QED
    BY <2>1, <2>2, <2>3 DEF TopicInv
<1>4. NoOvertaking'
  <2> SUFFICES ASSUME NEW d \in Changes, NEW n \in DOMAIN topic[KeyOf[d]],
                      topic[KeyOf[d]][n] = d
               PROVE  \A b \in behind'[d] :
                          b \in dropped \/ \E m \in 1..(n - 1) : topic[KeyOf[d]][m] = b
    BY DEF NoOvertaking
  <2>1. d \in Committed
    BY OutboxAssumption DEF IInv, TopicInv
  <2>2. QED
    BY <2>1, <1>1 DEF IInv, NoOvertaking
<1>5. QED
  BY <1>3, <1>4

\* A failing leader takes the newest messages and leaves the order of the others.
LEMMA CutKeepsOrder ==
    ASSUME TypeOK, IInv, [Next]_vars, NEW k \in Keys, LeaderFails(k)
    PROVE  TopicInv' /\ NoOvertaking'
<1>1. PICK l \in 0..(Len(topic[k]) - 1) : Cut(k, l)
  BY LeaderCuts
<1>2. topic[k] \in Seq(Changes) /\ topic \in [Keys -> Seq(Changes)]
  BY DEF TypeOK
<1>3. /\ topic'[k] = SubSeq(topic[k], 1, l)
      /\ \A j \in Keys : j # k => topic'[j] = topic[j]
      /\ dropped' = dropped \cup Range(SubSeq(topic[k], l + 1, Len(topic[k])))
  BY <1>1, <1>2 DEF Cut
<1>4. /\ DOMAIN topic'[k] = 1..l /\ l \in Nat
      /\ \A n \in 1..l : n \in DOMAIN topic[k] /\ topic'[k][n] = topic[k][n]
  BY <1>2, <1>3, CutFacts
<1>5. \A d \in Committed : d \in Committed' /\ behind'[d] = behind[d]
  BY RowsStable
<1>6. \A j \in Keys : \A n \in DOMAIN topic'[j] :
          n \in DOMAIN topic[j] /\ topic'[j][n] = topic[j][n]
  BY <1>3, <1>4
<1>7. TopicInv'
  <2>1. \A j \in Keys : \A n \in DOMAIN topic'[j] :
            topic'[j][n] \in Committed' /\ KeyOf[topic'[j][n]] = j
    BY <1>5, <1>6 DEF IInv, TopicInv
  <2>2. Range(SubSeq(topic[k], l + 1, Len(topic[k]))) \subseteq Range(topic[k])
    BY <1>2, CutFacts
  <2>3. Range(topic[k]) \subseteq Committed
    BY DEF Range, IInv, TopicInv
  <2>4. dropped' \subseteq Committed'
    BY <1>3, <1>5, <2>2, <2>3 DEF IInv, TopicInv
  <2>5. ASSUME NEW d \in late'
        PROVE  d \in Committed' /\ \A b \in behind'[d] : Reached(b)'
    <3>1. d \in late
      BY DEF LeaderFails
    <3>2. d \in Committed /\ \A b \in behind[d] : b \in Changes /\ Reached(b)
      BY <3>1 DEF IInv, TopicInv, TypeOK, Committed
    <3>3. QED
      BY <3>2, <1>5, ReachedStays
  <2>6. QED
    BY <2>1, <2>4, <2>5 DEF TopicInv
<1>8. NoOvertaking'
  <2> SUFFICES ASSUME NEW d \in Changes, NEW n \in DOMAIN topic'[KeyOf[d]],
                      topic'[KeyOf[d]][n] = d, NEW b \in behind'[d], b \notin dropped'
               PROVE  \E m \in 1..(n - 1) : topic'[KeyOf[d]][m] = b
    BY DEF NoOvertaking
  <2>1. KeyOf[d] \in Keys
    BY OutboxAssumption
  <2>2. n \in DOMAIN topic[KeyOf[d]] /\ topic[KeyOf[d]][n] = d
    BY <2>1, <1>6
  <2>3. d \in Committed
    BY <2>1, <2>2 DEF IInv, TopicInv
  <2>4. b \in behind[d] /\ b \notin dropped
    BY <2>3, <1>3, <1>5
  <2>5. PICK m \in 1..(n - 1) : topic[KeyOf[d]][m] = b
    BY <2>2, <2>4 DEF IInv, NoOvertaking
  <2>6. CASE KeyOf[d] = k
    <3>1. n \in 1..l
      BY <2>6, <1>4
    <3>2. m \in 1..l
      BY <3>1, <1>4
    <3>3. topic'[KeyOf[d]][m] = b
      BY <2>5, <2>6, <3>2, <1>4
    <3>4. QED
      BY <3>3
  <2>7. CASE KeyOf[d] # k
    BY <2>1, <2>5, <2>7, <1>3
  <2>8. QED
    BY <2>6, <2>7
<1>9. QED
  BY <1>7, <1>8

LEMMA TableStep == ASSUME TypeOK, IInv, [Next]_vars PROVE TableInv'
<1>1. CASE behind' = behind
  <2> SUFFICES ASSUME NEW c \in Changes, NEW b \in behind[c]
               PROVE  {b, c} \subseteq Committed' /\ KeyOf[b] = KeyOf[c] /\ id'[b] < id'[c]
    BY <1>1 DEF TableInv
  <2>1. {b, c} \subseteq Committed /\ KeyOf[b] = KeyOf[c] /\ id[b] < id[c]
    BY DEF IInv, TableInv
  <2>2. QED
    BY <2>1, RowsStable
<1>2. ASSUME NEW d \in Changes, CommitInsert(d) PROVE TableInv'
  <2> SUFFICES ASSUME NEW c \in Changes, NEW b \in behind'[c]
               PROVE  {b, c} \subseteq Committed' /\ KeyOf[b] = KeyOf[c] /\ id'[b] < id'[c]
    BY DEF TableInv
  <2>1. CASE c = d
    <3>1. b \in Committed /\ KeyOf[b] = KeyOf[d] /\ id[b] < id[d]
      BY <1>2, <2>1 DEF CommitInsert, TypeOK
    <3>2. d \in Committed' /\ id' = id
      BY <1>2 DEF CommitInsert, Committed, TypeOK
    <3>3. QED
      BY <3>1, <3>2, <2>1, RowsStable
  <2>2. CASE c # d
    <3>1. b \in behind[c]
      BY <1>2, <2>2 DEF CommitInsert, TypeOK
    <3>2. {b, c} \subseteq Committed /\ KeyOf[b] = KeyOf[c] /\ id[b] < id[c]
      BY <3>1 DEF IInv, TableInv
    <3>3. QED
      BY <3>2, RowsStable
  <2>3. QED
    BY <2>1, <2>2
<1>3. QED
  BY <1>1, <1>2 DEF Next, vars, Publish, RelayStep, Failure, tableVars,
     ApplyChange, DrawId, InsertFails, LateArrival, Wake, BackoffOver, Purge, TryLock,
     NotLeader, BeginFails, SelectRows, NothingPending, SelectFails, WriteMessage, AckLost,
     WriteDone, WriteFails, MarkSent, MarkFails, LoseSession, Crash, Restart, LeaderFails

\* The SELECT returns, with a row, every pending row with a smaller id.
LEMMA OldestIsClosed ==
    ASSUME TypeOK, NEW c \in OldestPending, NEW b \in Pending, id[b] < id[c]
    PROVE  b \in OldestPending
<1> DEFINE Below(d) == {a \in Pending : id[a] < id[d]}
<1>1. c \in Pending /\ Cardinality(Below(c)) < Batch
  BY DEF OldestPending, Selectable
<1>2. Below(b) \subseteq Below(c)
  BY <1>1 DEF Pending, TypeOK
<1>3. IsFiniteSet(Below(c)) /\ IsFiniteSet(Below(b))
  BY OutboxAssumption, FS_Subset DEF Pending
<1>4. /\ Cardinality(Below(b)) \leq Cardinality(Below(c))
      /\ Cardinality(Below(b)) \in Nat /\ Cardinality(Below(c)) \in Nat
  BY <1>2, <1>3, FS_Subset, FS_CardinalityType
<1>5. Cardinality(Below(b)) < Batch
  BY <1>1, <1>4, OutboxAssumption
<1>6. QED
  BY <1>5 DEF OldestPending, Selectable

\* A relay whose own state a step leaves alone still holds its batch.
LEMMA OthersHold ==
    ASSUME TypeOK, IInv, [Next]_vars, NEW q \in Relays,
           batch'[q] = batch[q], acked'[q] = acked[q], pc'[q] = pc[q]
    PROVE  HoldsBatch(q)'
<1>1. HoldsBatch(q) /\ batch[q] \subseteq Changes
  BY DEF IInv, BatchInv, TypeOK
<1>2. \A c \in batch[q] : c \in Committed' /\ behind'[c] = behind[c]
  BY <1>1, RowsStable DEF HoldsBatch
<1>3. \A c \in batch[q] : \A b \in behind[c] : b \in Changes
  BY <1>1 DEF TypeOK
<1>4. QED
  BY <1>1, <1>2, <1>3, ReachedStays DEF HoldsBatch

\* Leaving publishBatch forgets the batch and touches no other relay.
LEMMA LeavingHolds ==
    ASSUME TypeOK, IInv, [Next]_vars, NEW r \in Relays, NEW next \in RelayState, NEW d,
           next \notin {"writing", "written"}, LeaveBatch(r, next, d)
    PROVE  BatchInv'
<1> SUFFICES ASSUME NEW q \in Relays PROVE HoldsBatch(q)'
  BY DEF BatchInv
<1>1. CASE q = r
  <2>1. batch'[q] = {} /\ acked'[q] = {} /\ pc'[q] = next
    BY <1>1 DEF LeaveBatch, TypeOK
  <2>2. QED
    BY <2>1 DEF HoldsBatch
<1>2. CASE q # r
  BY <1>2, OthersHold DEF LeaveBatch, TypeOK
<1>3. QED
  BY <1>1, <1>2

LEMMA BatchStep == ASSUME TypeOK, IInv, [Next]_vars PROVE BatchInv'
<1>1. ASSUME UNCHANGED <<batch, acked, pc>> PROVE BatchInv'
  BY <1>1, OthersHold DEF BatchInv
<1>2. ASSUME NEW r \in Relays, Wake(r) \/ BackoffOver(r) \/ TryLock(r) \/ Restart(r)
      PROVE  BatchInv'
  <2> SUFFICES ASSUME NEW q \in Relays PROVE HoldsBatch(q)'
    BY DEF BatchInv
  <2>1. CASE q = r
    <3>1. pc[r] \notin {"writing", "written"} /\ pc'[r] \notin {"writing", "written"}
          /\ batch' = batch /\ acked' = acked
      BY <1>2 DEF Wake, BackoffOver, TryLock, Restart, TypeOK
    <3>2. batch[r] = {} /\ acked[r] = {}
      BY <3>1 DEF IInv, BatchInv, HoldsBatch
    <3>3. QED
      BY <3>1, <3>2, <2>1 DEF HoldsBatch
  <2>2. CASE q # r
    BY <1>2, <2>2, OthersHold DEF Wake, BackoffOver, TryLock, Restart, TypeOK
  <2>3. QED
    BY <2>1, <2>2
<1>3. ASSUME NEW r \in Relays, SelectRows(r) PROVE BatchInv'
  <2> SUFFICES ASSUME NEW q \in Relays PROVE HoldsBatch(q)'
    BY DEF BatchInv
  <2>1. CASE q = r
    <3>1. batch'[r] = OldestPending /\ pc'[r] = "writing" /\ acked' = acked
          /\ UNCHANGED <<row, id, behind, topic, dropped>>
      BY <1>3 DEF SelectRows, TypeOK, tableVars, kafkaVars
    <3>2. acked[r] = {}
      BY <1>3 DEF SelectRows, IInv, BatchInv, HoldsBatch
    <3>3. OldestPending \subseteq Pending /\ Pending \subseteq Committed
      BY DEF OldestPending, Selectable, Pending, Committed
    <3>4. ASSUME NEW c \in OldestPending, NEW b \in behind[c]
          PROVE  b \in OldestPending \/ Reached(b)
      <4>1. c \in Changes /\ b \in Committed /\ id[b] < id[c]
        BY <3>3 DEF IInv, TableInv, Committed
      <4>2. CASE b \in Pending
        BY <4>1, <4>2, OldestIsClosed
      <4>3. CASE b \notin Pending
        BY <4>1, <4>3 DEF IInv, SentReachedKafka, Committed, Pending
      <4>4. QED
        BY <4>2, <4>3
    <3>5. Committed' = Committed /\ \A b \in Changes : Reached(b)' <=> Reached(b)
      BY <3>1 DEF Committed, Reached, Delivered
    <3>6. \A c \in OldestPending : \A b \in behind[c] : b \in Changes
      BY <3>3 DEF Committed, TypeOK
    <3>7. QED
      BY <2>1, <3>1, <3>2, <3>3, <3>4, <3>5, <3>6 DEF HoldsBatch
  <2>2. CASE q # r
    BY <1>3, <2>2, OthersHold DEF SelectRows, TypeOK
  <2>3. QED
    BY <2>1, <2>2
<1>4. ASSUME NEW r \in Relays, NEW c \in Changes, WriteMessage(r, c) PROVE BatchInv'
  <2> SUFFICES ASSUME NEW q \in Relays PROVE HoldsBatch(q)'
    BY DEF BatchInv
  <2>1. CASE q = r
    <3>1. /\ acked'[r] = acked[r] \cup {c} /\ batch' = batch /\ pc' = pc
          /\ pc[r] = "writing" /\ c \in batch[r] /\ behind' = behind
      BY <1>4 DEF WriteMessage, NextToWrite, TypeOK, tableVars
    <3>2. Reached(c)'
      <4>1. KeyOf[c] \in Keys /\ topic[KeyOf[c]] \in Seq(Changes)
        BY OutboxAssumption DEF TypeOK
      <4>2. topic'[KeyOf[c]] = Append(topic[KeyOf[c]], c)
        BY <1>4, <4>1 DEF WriteMessage, TypeOK
      <4>3. QED
        BY <4>1, <4>2, AppendRange DEF Reached, Delivered
    <3>3. HoldsBatch(r) /\ batch[r] \subseteq Changes
      BY DEF IInv, BatchInv, TypeOK
    <3>4. \A d \in batch[r] : d \in Committed' /\ \A b \in behind[d] : b \in Changes
      BY <3>3, RowsStable DEF HoldsBatch, TypeOK
    <3>5. QED
      BY <2>1, <3>1, <3>2, <3>3, <3>4, ReachedStays DEF HoldsBatch
  <2>2. CASE q # r
    BY <1>4, <2>2, OthersHold DEF WriteMessage, TypeOK
  <2>3. QED
    BY <2>1, <2>2
<1>5. ASSUME NEW r \in Relays, WriteDone(r) PROVE BatchInv'
  <2> SUFFICES ASSUME NEW q \in Relays PROVE HoldsBatch(q)'
    BY DEF BatchInv
  <2>1. CASE q = r
    <3>1. /\ pc'[r] = "written" /\ acked[r] = batch[r]
          /\ UNCHANGED <<batch, acked, row, behind, topic, dropped>>
      BY <1>5 DEF WriteDone, AllAcked, TypeOK, tableVars, kafkaVars
    <3>2. HoldsBatch(r)
      BY DEF IInv, BatchInv
    <3>3. QED
      BY <2>1, <3>1, <3>2 DEF HoldsBatch, Committed, Reached, Delivered
  <2>2. CASE q # r
    BY <1>5, <2>2, OthersHold DEF WriteDone, TypeOK
  <2>3. QED
    BY <2>1, <2>2
<1>6. ASSUME NEW r \in Relays,
             \/ NotLeader(r) \/ NothingPending(r) \/ BeginFails(r) \/ SelectFails(r)
             \/ WriteFails(r) \/ MarkSent(r) \/ MarkFails(r) \/ Crash(r)
      PROVE  BatchInv'
  <2>1. \E next \in RelayState \ {"writing", "written"}, d \in Nat : LeaveBatch(r, next, d)
    <3>1. NextDelay(delay[r]) \in Nat
      <4>1. delay[r] \in 0..30
        BY DEF TypeOK
      <4>2. QED
        BY <4>1 DEF NextDelay
    <3>2. AfterBatch(r) \in {"wait", "publish"}
      BY DEF AfterBatch
    <3>3. \E next \in {"wait", "publish", "down"}, d \in Nat : LeaveBatch(r, next, d)
      BY <1>6, <3>1, <3>2 DEF NotLeader, NothingPending, BeginFails, SelectFails, WriteFails,
         MarkSent, MarkFails, Crash, LeaveFailed
    <3>4. QED
      BY <3>3 DEF RelayState
  <2>2. QED
    BY <2>1, LeavingHolds
<1>7. CASE UNCHANGED vars
  BY <1>1, <1>7 DEF vars
<1>8. QED
  BY <1>1, <1>2, <1>3, <1>4, <1>5, <1>6, <1>7 DEF Next, Publish, RelayStep, Failure, relayVars,
     ApplyChange, DrawId, CommitInsert, InsertFails, LateArrival, Purge, AckLost, LoseSession, LeaderFails

\* What a live leader holds stays pending: only the session that holds the
\* lock marks rows, and a purge takes none that is unpublished.
LEMMA LeaderStep == ASSUME TypeOK, IInv, [Next]_vars PROVE LeaderOwnsBatch'
<1> SUFFICES ASSUME NEW s \in Relays, lock' = s PROVE batch'[s] \subseteq Pending'
  BY DEF LeaderOwnsBatch
<1> USE DEF TypeOK, Pending
<1>1. CASE lock = s /\ batch' = batch /\ Pending \subseteq Pending'
  BY <1>1 DEF IInv, LeaderOwnsBatch
<1>2. ASSUME NEW r \in Relays, NEW next, NEW d, LeaveBatch(r, next, d)
      PROVE  lock = s /\ s # r /\ batch'[s] = batch[s]
  BY <1>2, OutboxAssumption DEF LeaveBatch
<1>3. ASSUME NEW r \in Relays, NotLeader(r) \/ NothingPending(r) \/ BeginFails(r)
                               \/ SelectFails(r) \/ WriteFails(r)
      PROVE  batch'[s] \subseteq Pending'
  <2>1. lock = s /\ batch'[s] = batch[s]
    BY <1>3, <1>2 DEF NotLeader, NothingPending, BeginFails, SelectFails, WriteFails, LeaveFailed
  <2>2. row' = row
    BY <1>3 DEF NotLeader, NothingPending, BeginFails, SelectFails, WriteFails, tableVars
  <2>3. QED
    BY <2>1, <2>2 DEF IInv, LeaderOwnsBatch
<1>4. ASSUME NEW r \in Relays, MarkSent(r) \/ MarkFails(r) \/ Crash(r)
      PROVE  batch'[s] \subseteq Pending'
  <2>1. lock = s /\ s # r /\ batch'[s] = batch[s]
    BY <1>4, <1>2 DEF MarkSent, MarkFails, Crash, LeaveFailed
  <2>2. \A c \in Pending : c \in Pending'
    BY <1>4, <2>1 DEF MarkSent, MarkFails, SessionAlive, Crash
  <2>3. QED
    BY <2>1, <2>2 DEF IInv, LeaderOwnsBatch
<1>5. ASSUME NEW r \in Relays, TryLock(r) PROVE batch'[s] \subseteq Pending'
  <2>1. s = r /\ batch' = batch /\ pc[r] = "publish"
    BY <1>5 DEF TryLock
  <2>2. batch[r] = {}
    BY <2>1 DEF IInv, BatchInv, HoldsBatch
  <2>3. QED
    BY <2>1, <2>2
<1>6. ASSUME NEW r \in Relays, SelectRows(r) PROVE batch'[s] \subseteq Pending'
  BY <1>6 DEF SelectRows, OldestPending, Selectable, tableVars, IInv, LeaderOwnsBatch
<1>7. ASSUME NEW c \in Changes,
             ApplyChange(c) \/ DrawId(c) \/ CommitInsert(c) \/ InsertFails(c) \/ LateArrival(c)
      PROVE  batch'[s] \subseteq Pending'
  BY <1>7, <1>1 DEF ApplyChange, DrawId, CommitInsert, InsertFails, LateArrival, tableVars, relayVars
<1>8. ASSUME NEW r \in Relays, Purge(r) \/ Wake(r) \/ BackoffOver(r) \/ WriteDone(r)
                               \/ LoseSession(r) \/ Restart(r)
      PROVE  batch'[s] \subseteq Pending'
  BY <1>8, <1>1, OutboxAssumption
     DEF Purge, Wake, BackoffOver, WriteDone, LoseSession, Restart, tableVars, relayVars
<1>9. ASSUME NEW r \in Relays, NEW c \in Changes, WriteMessage(r, c) \/ AckLost(r, c)
      PROVE  batch'[s] \subseteq Pending'
  BY <1>9, <1>1 DEF WriteMessage, AckLost, tableVars
<1>10. ASSUME NEW k \in Keys, LeaderFails(k) PROVE batch'[s] \subseteq Pending'
  BY <1>10, <1>1 DEF LeaderFails, tableVars, relayVars
<1>11. CASE UNCHANGED vars
  BY <1>11, <1>1 DEF vars
<1>12. QED
  BY <1>3, <1>4, <1>5, <1>6, <1>7, <1>8, <1>9, <1>10, <1>11 DEF Next, Publish, RelayStep, Failure

\* Rows become sent only by a leader whose whole batch was acknowledged.
LEMMA SentStep == ASSUME TypeOK, IInv, [Next]_vars PROVE SentReachedKafka'
<1> SUFFICES ASSUME NEW c \in Changes, row'[c] \in {"sent", "purged"} PROVE Reached(c)'
  BY DEF SentReachedKafka
<1>1. CASE row[c] \in {"sent", "purged"}
  BY <1>1, ReachedStays DEF IInv, SentReachedKafka
<1>2. ASSUME NEW r \in Relays, pc[r] = "written", c \in batch[r] PROVE Reached(c)'
  <2>1. Reached(c)
    BY <1>2 DEF IInv, BatchInv, HoldsBatch
  <2>2. QED
    BY <2>1, ReachedStays
<1>3. ASSUME NEW r \in Relays, MarkSent(r) \/ MarkFails(r) PROVE Reached(c)'
  <2>1. CASE c \in batch[r]
    BY <1>3, <2>1, <1>2 DEF MarkSent, MarkFails
  <2>2. CASE c \notin batch[r]
    <3>1. row'[c] = row[c]
      BY <1>3, <2>2 DEF MarkSent, MarkFails, MarkPublished, TypeOK
    <3>2. QED
      BY <3>1, <1>1
  <2>3. QED
    BY <2>1, <2>2
<1>4. ASSUME NEW r \in Relays, Purge(r) PROVE Reached(c)'
  BY <1>4, <1>1 DEF Purge, TypeOK
<1>5. QED
  BY <1>1, <1>3, <1>4 DEF Next, vars, Publish, RelayStep, Failure, tableVars, TypeOK,
     ApplyChange, DrawId, CommitInsert, InsertFails, LateArrival, Wake, BackoffOver, TryLock,
     NotLeader, BeginFails, SelectRows, NothingPending, SelectFails, WriteMessage, AckLost,
     WriteDone, WriteFails, LoseSession, Crash, Restart, LeaderFails

\* The message a writer may send next has nothing left to wait for.
LEMMA TurnComes ==
    ASSUME IInv, NEW r \in Relays, NEW c \in Changes, NextToWrite(r, c)
    PROVE  c \in Committed /\ \A b \in behind[c] : Reached(b)
<1>1. c \in batch[r] /\ HoldsBatch(r)
  BY DEF NextToWrite, IInv, BatchInv
<1>2. ASSUME NEW b \in behind[c], b \in batch[r] PROVE Reached(b)
  <2>1. KeyOf[b] = KeyOf[c] /\ id[b] < id[c]
    BY DEF IInv, TableInv
  <2>2. b \in acked[r]
    BY <1>2, <2>1 DEF NextToWrite
  <2>3. QED
    BY <1>1, <2>2 DEF HoldsBatch
<1>3. QED
  BY <1>1, <1>2 DEF HoldsBatch

\* Every message is appended behind those it has to wait for.
LEMMA OrderStep == ASSUME TypeOK, IInv, [Next]_vars PROVE TopicInv' /\ NoOvertaking'
<1>1. ASSUME NEW r \in Relays, NEW c \in Changes, WriteMessage(r, c) \/ AckLost(r, c)
      PROVE  TopicInv' /\ NoOvertaking'
  <2>1. /\ topic' = [topic EXCEPT ![KeyOf[c]] = Append(@, c)]
        /\ NextToWrite(r, c) /\ late' = late /\ dropped' = dropped
    BY <1>1 DEF WriteMessage, AckLost
  <2>2. QED
    BY <2>1, TurnComes, AppendKeepsOrder
<1>2. ASSUME NEW c \in Changes, LateArrival(c) PROVE TopicInv' /\ NoOvertaking'
  <2>1. /\ topic' = [topic EXCEPT ![KeyOf[c]] = Append(@, c)]
        /\ c \in Committed /\ \A b \in behind[c] : Reached(b)
        /\ late' \subseteq late /\ dropped' = dropped
    BY <1>2 DEF LateArrival, IInv, TopicInv
  <2>2. QED
    BY <2>1, AppendKeepsOrder
<1>3. ASSUME NEW r \in Relays, LeaveInFlight(r) PROVE TopicInv' /\ NoOvertaking'
  <2>1. topic' = topic /\ dropped' = dropped
    BY <1>3 DEF LeaveInFlight
  <2>2. \A c \in late' : c \in late \/ (c \in Changes /\ NextToWrite(r, c))
    BY <1>3 DEF LeaveInFlight
  <2>3. QED
    BY <2>1, <2>2, TurnComes, SameTopicKeepsOrder
<1>4. ASSUME topic' = topic, late' = late, dropped' = dropped
      PROVE  TopicInv' /\ NoOvertaking'
  BY <1>4, SameTopicKeepsOrder
<1>5. QED
  BY <1>1, <1>2, <1>3, <1>4, CutKeepsOrder
     DEF Next, vars, Publish, RelayStep, Failure, kafkaVars,
     ApplyChange, DrawId, CommitInsert, InsertFails, Wake, BackoffOver, Purge, TryLock,
     NotLeader, BeginFails, SelectRows, NothingPending, SelectFails, WriteDone, WriteFails,
     MarkSent, MarkFails, LoseSession, Crash, Restart

-------------------------------------------------------------------------------
(* The theorems.                                                             *)

\* The inductive invariant holds in every reachable state, for any number of
\* changes, keys, replicas and failures and any batch size.
THEOREM InductiveInvariant == Spec => []IInv
<1>1. Init => IInv
  <2> SUFFICES ASSUME Init PROVE IInv
    OBVIOUS
  <2>1. TypeOK
    BY TypeInit
  <2>2. TableInv /\ BatchInv /\ LeaderOwnsBatch /\ SentReachedKafka
    BY OutboxAssumption
       DEF Init, TableInv, BatchInv, HoldsBatch, LeaderOwnsBatch, SentReachedKafka
  <2>3. TopicInv /\ NoOvertaking
    BY OutboxAssumption DEF Init, TopicInv, NoOvertaking
  <2>4. QED
    BY <2>1, <2>2, <2>3 DEF IInv
<1>2. IInv /\ [Next]_vars => IInv'
  <2> SUFFICES ASSUME IInv, [Next]_vars PROVE IInv'
    OBVIOUS
  <2>1. TypeOK
    BY DEF IInv
  <2>2. QED
    BY <2>1, TypeStep, TableStep, BatchStep, LeaderStep, SentStep, OrderStep DEF IInv
<1>3. QED
  BY <1>1, <1>2, PTL DEF Spec

\* An event marked published or purged has reached Kafka: it is there, or the
\* leader that had acknowledged it failed with it.
THEOREM PublishedReachedKafka == Spec => []SentReachedKafka
<1>1. IInv => SentReachedKafka
  BY DEF IInv
<1>2. QED
  BY <1>1, InductiveInvariant, PTL

\* Within a key, no event overtakes an earlier committed one with a smaller id
\* that Kafka has not lost.
THEOREM KeyOrderKept == Spec => []NoOvertaking
<1>1. IInv => NoOvertaking
  BY DEF IInv
<1>2. QED
  BY <1>1, InductiveInvariant, PTL

\* The rows in the lock holder's hands stay unpublished until it marks them.
THEOREM LeaderKeepsItsRows == Spec => []LeaderOwnsBatch
<1>1. IInv => LeaderOwnsBatch
  BY DEF IInv
<1>2. QED
  BY <1>1, InductiveInvariant, PTL

-------------------------------------------------------------------------------
(* No message twice while nothing has failed.                                *)

NoDuplicates ==
    \A k \in Keys : \A m, n \in DOMAIN topic[k] : topic[k][m] = topic[k][n] => m = n

\* Until something fails, nothing is on its way without a writer, whoever is in
\* publishBatch past the lock still has it, and an event that is in Kafka but
\* not marked is one that this relay has in hand as acknowledged.
Undisturbed ==
    /\ late = {}
    /\ \A r \in Relays : pc[r] \in {"leader", "writing", "written"} => lock = r
    /\ \A c \in Pending : Delivered(c) => \E r \in Relays : c \in acked[r]
    /\ NoDuplicates

\* Who has acknowledged rows in hand is writing, or about to mark them.
LEMMA AckedByLeader ==
    ASSUME IInv, Undisturbed, NEW r \in Relays, acked[r] # {}
    PROVE  pc[r] \in {"writing", "written"} /\ lock = r
BY DEF IInv, BatchInv, HoldsBatch, Undisturbed

LEMMA FaultShows == ASSUME TypeOK, Fault PROVE faults' # 0
<1>1. faults \in Nat
  BY OutboxAssumption DEF TypeOK
<1>2. QED
  BY <1>1 DEF Fault

LEMMA QuietTopic ==
    ASSUME Undisturbed, topic' = topic, late' = late, acked' = acked,
           Pending' \subseteq Pending,
           \A r \in Relays : pc'[r] \in {"leader", "writing", "written"} => lock' = r
    PROVE  Undisturbed'
<1>1. \A c \in Changes : Delivered(c)' <=> Delivered(c)
  BY DEF Delivered
<1>2. Pending' \subseteq Changes
  BY DEF Pending
<1>3. QED
  BY <1>1, <1>2 DEF Undisturbed, NoDuplicates

\* A relay that leaves publishBatch has marked what it had in hand, or had
\* nothing.
LEMMA LeavingQuietly ==
    ASSUME IInv, Undisturbed, topic' = topic, late' = late,
           NEW r \in Relays, NEW next \in {"wait", "publish"}, NEW d, LeaveBatch(r, next, d),
           Pending' \subseteq Pending, \A c \in acked[r] : c \notin Pending'
    PROVE  Undisturbed'
<1>1. \A c \in Changes : Delivered(c)' <=> Delivered(c)
  BY DEF Delivered
<1>2. \A s \in Relays \ {r} : acked'[s] = acked[s] /\ pc'[s] = pc[s]
  BY DEF LeaveBatch, IInv, TypeOK
<1>3. pc'[r] = next
  BY DEF LeaveBatch, IInv, TypeOK
<1>4. \A s \in Relays : pc'[s] \in {"leader", "writing", "written"} => lock' = s
  BY <1>2, <1>3 DEF LeaveBatch, Undisturbed
<1>5. ASSUME NEW c \in Pending', Delivered(c)' PROVE \E s \in Relays : c \in acked'[s]
  <2>1. c \in Pending /\ Delivered(c)
    BY <1>1, <1>5 DEF Pending
  <2>2. PICK s \in Relays : c \in acked[s]
    BY <2>1 DEF Undisturbed
  <2>3. s # r
    BY <1>5, <2>2
  <2>4. QED
    BY <1>2, <2>2, <2>3
<1>6. QED
  BY <1>4, <1>5 DEF Undisturbed, NoDuplicates

\* A message that is written for the first time.
LEMMA FirstWrite ==
    ASSUME IInv, Undisturbed, NEW r \in Relays, NEW c \in Changes, WriteMessage(r, c)
    PROVE  Undisturbed'
<1>1. /\ pc[r] = "writing" /\ c \in batch[r] \ acked[r]
      /\ topic' = [topic EXCEPT ![KeyOf[c]] = Append(@, c)]
      /\ acked' = [acked EXCEPT ![r] = @ \cup {c}]
      /\ UNCHANGED <<row, late, lock, pc>>
  BY DEF WriteMessage, NextToWrite, tableVars
<1>2. lock = r
  BY <1>1 DEF Undisturbed
<1>3. c \in Pending
  BY <1>1, <1>2 DEF IInv, LeaderOwnsBatch
<1>4. ~Delivered(c)
  <2>1. SUFFICES ASSUME NEW s \in Relays, c \in acked[s] PROVE FALSE
    BY <1>3 DEF Undisturbed
  <2>2. lock = s
    BY <2>1, AckedByLeader
  <2>3. QED
    BY <1>1, <1>2, <2>1, <2>2
<1> DEFINE k0 == KeyOf[c]
<1>5. k0 \in Keys /\ topic[k0] \in Seq(Changes) /\ topic \in [Keys -> Seq(Changes)]
  BY OutboxAssumption DEF IInv, TypeOK
<1>6. topic'[k0] = Append(topic[k0], c) /\ \A k \in Keys \ {k0} : topic'[k] = topic[k]
  BY <1>1, <1>5
<1>7. \A n \in 1..Len(topic[k0]) : topic[k0][n] # c
  <2>1. DOMAIN topic[k0] = 1..Len(topic[k0])
    BY <1>5, AppendFacts
  <2>2. QED
    BY <1>4, <2>1 DEF Delivered, Range
<1> HIDE DEF k0
<1>8. NoDuplicates'
  <2> SUFFICES ASSUME NEW k \in Keys, NEW m \in DOMAIN topic'[k], NEW n \in DOMAIN topic'[k],
                      topic'[k][m] = topic'[k][n]
               PROVE  m = n
    BY DEF NoDuplicates
  <2>1. CASE k # k0
    BY <1>6, <2>1 DEF Undisturbed, NoDuplicates
  <2>2. CASE k = k0
    <3> DEFINE s == topic[k0]
               l == Len(s)
    <3>1. /\ l \in Nat /\ DOMAIN s = 1..l /\ m \in 1..(l + 1) /\ n \in 1..(l + 1)
          /\ \A i \in 1..l : topic'[k][i] = s[i]
          /\ topic'[k][l + 1] = c
      BY <1>5, <1>6, <2>2, AppendFacts
    <3>2. \A i, j \in 1..l : s[i] = s[j] => i = j
      BY <1>5, <3>1 DEF Undisturbed, NoDuplicates
    <3>3. \A i \in 1..l : s[i] # c
      BY <1>7
    <3> HIDE DEF s, l
    <3>4. QED
      BY <3>1, <3>2, <3>3
  <2>3. QED
    BY <2>1, <2>2
<1>9. ASSUME NEW b \in Pending', Delivered(b)' PROVE \E s \in Relays : b \in acked'[s]
  <2>1. acked \in [Relays -> SUBSET Changes]
    BY DEF IInv, TypeOK
  <2>2. \A s \in Relays : acked[s] \subseteq acked'[s]
    BY <1>1, <2>1
  <2>3. c \in acked'[r]
    BY <1>1, <2>1
  <2>4. CASE b = c
    BY <2>3, <2>4
  <2>5. CASE b # c
    <3>1. b \in Pending /\ KeyOf[b] \in Keys
      BY <1>1, <1>9, OutboxAssumption DEF Pending
    <3>2. Delivered(b)
      <4>1. CASE KeyOf[b] = k0
        <5>1. Range(topic'[k0]) = Range(topic[k0]) \cup {c}
          BY <1>5, <1>6, AppendRange
        <5>2. b \in Range(topic'[k0])
          BY <1>9, <4>1 DEF Delivered
        <5>3. b \in Range(topic[k0])
          BY <2>5, <5>1, <5>2
        <5>4. QED
          BY <4>1, <5>3 DEF Delivered
      <4>2. CASE KeyOf[b] # k0
        BY <1>6, <1>9, <3>1, <4>2 DEF Delivered
      <4>3. QED
        BY <4>1, <4>2
    <3>3. QED
      BY <2>2, <3>1, <3>2 DEF Undisturbed
  <2>6. QED
    BY <2>4, <2>5
<1>10. QED
  BY <1>1, <1>8, <1>9 DEF Undisturbed

\* Steps that are no failures keep it so.
LEMMA UndisturbedStep ==
    ASSUME IInv, Undisturbed, [Next]_vars, faults' = 0
    PROVE  Undisturbed'
<1>1. TypeOK
  BY DEF IInv
<1>2. ~Fault
  BY <1>1, FaultShows
<1> USE DEF tableVars, kafkaVars, relayVars
<1>3. ASSUME NEW c \in Changes, ApplyChange(c) \/ DrawId(c) PROVE Undisturbed'
  <2>1. Pending' \subseteq Pending
    BY <1>1, <1>3 DEF ApplyChange, DrawId, Pending, TypeOK
  <2>2. topic' = topic /\ late' = late /\ acked' = acked /\ pc' = pc /\ lock' = lock
    BY <1>3 DEF ApplyChange, DrawId
  <2>3. QED
    BY <2>1, <2>2, QuietTopic DEF Undisturbed
<1>4. ASSUME NEW c \in Changes, CommitInsert(c) PROVE Undisturbed'
  <2>1. Pending' \subseteq Pending \cup {c} /\ c \notin Committed
    BY <1>1, <1>4 DEF CommitInsert, Pending, TypeOK, Committed
  <2>2. topic' = topic /\ late' = late /\ acked' = acked /\ pc' = pc /\ lock' = lock
    BY <1>4 DEF CommitInsert
  <2>3. KeyOf[c] \in Keys
    BY OutboxAssumption
  <2>4. ~Delivered(c)
    BY <2>1, <2>3 DEF IInv, TopicInv, Delivered, Range
  <2>5. \A b \in Changes : Delivered(b)' <=> Delivered(b)
    BY <2>2 DEF Delivered
  <2>6. \A b \in Pending' : b \in Changes /\ (b = c \/ b \in Pending)
    BY <2>1 DEF Pending
  <2>7. QED
    BY <2>2, <2>4, <2>5, <2>6 DEF Undisturbed, NoDuplicates
<1>5. ASSUME NEW r \in Relays, Purge(r) PROVE Undisturbed'
  <2>1. Pending' \subseteq Pending
    BY <1>1, <1>5 DEF Purge, Pending, TypeOK
  <2>2. topic' = topic /\ late' = late /\ acked' = acked /\ pc' = pc /\ lock' = lock
    BY <1>5 DEF Purge
  <2>3. QED
    BY <2>1, <2>2, QuietTopic DEF Undisturbed
<1>6. ASSUME NEW r \in Relays, Wake(r) \/ BackoffOver(r) \/ Restart(r) \/ WriteDone(r)
             \/ TryLock(r) \/ SelectRows(r)
      PROVE  Undisturbed'
  <2>1. topic' = topic /\ late' = late /\ acked' = acked /\ Pending' \subseteq Pending
    BY <1>6 DEF Wake, BackoffOver, Restart, WriteDone, TryLock, SelectRows, Pending
  <2>2. \A s \in Relays : pc'[s] \in {"leader", "writing", "written"} => lock' = s
    BY <1>1, <1>6, OutboxAssumption DEF Undisturbed, TypeOK, Wake, BackoffOver, Restart, WriteDone,
       TryLock, CanLock, SelectRows
  <2>3. QED
    BY <2>1, <2>2, QuietTopic
<1>7. ASSUME NEW r \in Relays, NotLeader(r) \/ NothingPending(r) PROVE Undisturbed'
  <2>1. topic' = topic /\ late' = late /\ Pending' \subseteq Pending /\ LeaveBatch(r, "wait", 0)
    BY <1>7 DEF NotLeader, NothingPending, Pending
  <2>2. acked[r] = {}
    BY <1>7 DEF NotLeader, NothingPending, IInv, BatchInv, HoldsBatch
  <2>3. QED
    BY <2>1, <2>2, LeavingQuietly
<1>8. ASSUME NEW r \in Relays, MarkSent(r) PROVE Undisturbed'
  <2>1. topic' = topic /\ late' = late /\ LeaveBatch(r, AfterBatch(r), 0) /\ MarkPublished(r)
    BY <1>8 DEF MarkSent
  <2>2. AfterBatch(r) \in {"wait", "publish"}
    BY DEF AfterBatch
  <2>3. Pending' \subseteq Pending /\ \A c \in batch[r] : c \notin Pending'
    BY <2>1 DEF MarkPublished, Pending
  <2>4. acked[r] \subseteq batch[r]
    BY DEF IInv, BatchInv, HoldsBatch
  <2>5. QED
    BY <2>1, <2>2, <2>3, <2>4, LeavingQuietly
<1>9. \A r \in Relays : ~SelectFails(r) /\ ~MarkFails(r)
  BY <1>2 DEF Undisturbed, SelectFails, MarkFails
<1>10. \A c \in Changes : ~LateArrival(c) /\ ~InsertFails(c)
  BY <1>2 DEF Undisturbed, LateArrival, InsertFails
<1>11. \A r \in Relays : /\ ~BeginFails(r) /\ ~WriteFails(r) /\ ~LoseSession(r) /\ ~Crash(r)
                         /\ \A c \in Changes : ~AckLost(r, c)
  BY <1>2 DEF BeginFails, WriteFails, LoseSession, Crash, AckLost
<1>12. \A k \in Keys : ~LeaderFails(k)
  BY <1>2 DEF LeaderFails
<1>13. CASE UNCHANGED vars
  <2>1. topic' = topic /\ late' = late /\ acked' = acked /\ pc' = pc /\ lock' = lock
        /\ Pending' \subseteq Pending
    BY <1>13 DEF vars, Pending
  <2>2. QED
    BY <2>1, QuietTopic DEF Undisturbed
<1>14. QED
  BY <1>3, <1>4, <1>5, <1>6, <1>7, <1>8, <1>9, <1>10, <1>11, <1>12, <1>13, FirstWrite
     DEF Next, Publish, RelayStep, Failure

\* Failures are counted and never forgotten.
LEMMA FaultsStay == ASSUME TypeOK, [Next]_vars, faults' = 0 PROVE faults = 0
<1>1. faults \in Nat
  BY OutboxAssumption DEF TypeOK
<1>2. faults' = faults \/ faults' = faults + 1
  BY DEF Next, vars, Publish, RelayStep, Failure, Fault, ApplyChange, DrawId, CommitInsert,
     InsertFails, LateArrival, Wake, BackoffOver, Purge, TryLock, NotLeader, BeginFails, SelectRows,
     NothingPending, SelectFails, WriteMessage, AckLost, WriteDone, WriteFails, MarkSent, MarkFails,
     LoseSession, Crash, Restart, LeaderFails
<1>3. QED
  BY <1>1, <1>2

\* While nothing has failed no event is in Kafka twice, whichever replicas
\* poll the table.
THEOREM NoDuplicateWithoutFault == Spec => []DuplicatesNeedFaults
<1> DEFINE Inv == faults = 0 => Undisturbed
<1>1. Init => Inv
  BY OutboxAssumption DEF Init, Undisturbed, Pending, NoDuplicates
<1>2. IInv /\ Inv /\ [Next]_vars => Inv'
  <2> SUFFICES ASSUME IInv, Inv, [Next]_vars, faults' = 0 PROVE Undisturbed'
    OBVIOUS
  <2>1. TypeOK
    BY DEF IInv
  <2>2. faults = 0
    BY <2>1, FaultsStay
  <2>3. QED
    BY <2>2, UndisturbedStep
<1>3. Inv => DuplicatesNeedFaults
  BY DEF Undisturbed, NoDuplicates, DuplicatesNeedFaults
<1> HIDE DEF Inv
<1>4. QED
  BY <1>1, <1>2, <1>3, InductiveInvariant, PTL DEF Spec

-------------------------------------------------------------------------------
(* The outbox implements the at-least-once queue (its safety part).          *)

\* The queue and the outbox agree on what has reached Kafka.
LEMMA SameReached == ASSUME NEW c PROVE Queue!Reached(c) <=> Reached(c)
  BY DEF Queue!Reached, Reached, Queue!Delivered, Delivered, Range, Queue!Range

\* The statuses after a step that only moves rows within a status.
LEMMA SameStatus ==
    ASSUME TypeOK,
           \A c \in Changes :
               \/ row'[c] = row[c]
               \/ row[c] \in {"none", "applied", "drawn"} /\ row'[c] \in {"applied", "drawn", "lost"}
               \/ row[c] = "sent" /\ row'[c] = "purged"
    PROVE  Status' = Status
<1>1. ASSUME NEW c \in Changes PROVE Status'[c] = Status[c]
  BY DEF Status
<1>2. QED
  BY <1>1 DEF Status

\* Publishing a batch retires its events.
LEMMA MarkingRetires ==
    ASSUME TypeOK, IInv, NEW r \in Relays, pc[r] = "written", lock = r, MarkPublished(r),
           UNCHANGED <<behind, topic, dropped>>
    PROVE  Queue!Next \/ UNCHANGED <<Status, behind, topic, dropped>>
<1>1. /\ batch[r] \subseteq Pending
      /\ \A c \in batch[r] : Reached(c)
  BY DEF IInv, LeaderOwnsBatch, BatchInv, HoldsBatch
<1>2. Status' = [c \in Changes |-> IF c \in batch[r] THEN "retired" ELSE Status[c]]
  BY DEF MarkPublished, Status, TypeOK
<1>3. CASE batch[r] = {}
  BY <1>2, <1>3 DEF Status
<1>4. CASE batch[r] # {}
  <2>1. \A c \in batch[r] : c \in Changes /\ Status[c] = "accepted" /\ Queue!Reached(c)
    <3> SUFFICES ASSUME NEW c \in batch[r]
                 PROVE  c \in Changes /\ Status[c] = "accepted" /\ Queue!Reached(c)
      OBVIOUS
    <3>1. c \in Changes /\ row[c] = "pending" /\ Reached(c)
      BY <1>1 DEF Pending
    <3>2. Status[c] = "accepted"
      BY <3>1 DEF Status
    <3>3. QED
      BY <3>1, <3>2, SameReached
  <2>2. Queue!Retire(batch[r])
    BY <1>2, <1>4, <2>1 DEF Queue!Retire
  <2>3. batch[r] \in SUBSET Changes
    BY DEF TypeOK
  <2>4. QED
    BY <2>2, <2>3 DEF Queue!Next
<1>5. QED
  BY <1>3, <1>4

\* Appending a committed event whose turn it is delivers it.
LEMMA AppendingDelivers ==
    ASSUME NEW c \in Committed, UNCHANGED <<row, behind, dropped>>,
           \A b \in behind[c] : Reached(b),
           topic' = [topic EXCEPT ![KeyOf[c]] = Append(@, c)]
    PROVE  Queue!Next
<1>1. c \in Changes /\ Status[c] # "absent" /\ Status' = Status
  BY DEF Status, Committed
<1>2. \A b \in behind[c] : Queue!Reached(b)
  BY SameReached
<1>3. Queue!Deliver(c)
  BY <1>1, <1>2 DEF Queue!Deliver
<1>4. QED
  BY <1>1, <1>3 DEF Queue!Next

\* The failure of a leader is the loss the queue allows.
LEMMA FailingDrops ==
    ASSUME NEW k \in Keys, LeaderFails(k)
    PROVE  Queue!Next
<1>1. PICK n \in 0..(Len(topic[k]) - 1) :
          /\ topic' = [topic EXCEPT ![k] = SubSeq(@, 1, n)]
          /\ dropped' = dropped \cup Range(SubSeq(topic[k], n + 1, Len(topic[k])))
  BY DEF LeaderFails
<1>2. Status' = Status /\ behind' = behind
  BY DEF LeaderFails, tableVars, Status
<1>3. Queue!Drop(k, n)
  BY <1>1, <1>2 DEF Queue!Drop, Range, Queue!Range
<1>4. QED
  BY <1>3 DEF Queue!Next

\* Every behaviour of the outbox is a behaviour of the queue.
THEOREM QueueImplemented == Spec => ImplementsQueue
<1>1. Init => Queue!Init
  BY DEF Init, Queue!Init, Status
<1>2. IInv /\ [Next]_vars => [Queue!Next]_(Queue!queueVars)
  <2> SUFFICES ASSUME IInv, [Next]_vars
               PROVE  Queue!Next \/ UNCHANGED <<Status, behind, topic, dropped>>
    BY DEF Queue!queueVars
  <2>1. TypeOK
    BY DEF IInv
  <2>2. ASSUME NEW c \in Changes, CommitInsert(c) PROVE Queue!Next
    <3> DEFINE B == {b \in Committed : KeyOf[b] = KeyOf[c] /\ id[b] < id[c]}
    <3>1. Status[c] = "absent" /\ Status' = [Status EXCEPT ![c] = "accepted"]
      BY <2>1, <2>2 DEF CommitInsert, Status, TypeOK
    <3>2. behind' = [behind EXCEPT ![c] = B] /\ topic' = topic /\ dropped' = dropped
      BY <2>2 DEF CommitInsert, kafkaVars
    <3>3. B \in SUBSET {b \in Changes : Status[b] # "absent" /\ KeyOf[b] = KeyOf[c]}
      BY DEF Committed, Status
    <3>4. Queue!Accept(c)
      BY <3>1, <3>2, <3>3 DEF Queue!Accept
    <3>5. QED
      BY <3>4 DEF Queue!Next
  <2>3. ASSUME NEW r \in Relays, NEW c \in Changes, WriteMessage(r, c) \/ AckLost(r, c)
        PROVE  Queue!Next
    <3>1. /\ topic' = [topic EXCEPT ![KeyOf[c]] = Append(@, c)]
          /\ NextToWrite(r, c) /\ UNCHANGED <<row, behind, dropped>>
      BY <2>3 DEF WriteMessage, AckLost, tableVars
    <3>2. QED
      BY <3>1, TurnComes, AppendingDelivers
  <2>4. ASSUME NEW c \in Changes, LateArrival(c) PROVE Queue!Next
    BY <2>4, AppendingDelivers DEF LateArrival, IInv, TopicInv, tableVars
  <2>5. ASSUME NEW r \in Relays, MarkSent(r) \/ MarkFails(r)
        PROVE  Queue!Next \/ UNCHANGED <<Status, behind, topic, dropped>>
    <3>1. CASE row' = row
      BY <2>5, <3>1 DEF MarkSent, MarkFails, kafkaVars, Status
    <3>2. CASE row' # row
      BY <2>1, <2>5, <3>2, MarkingRetires DEF MarkSent, MarkFails, SessionAlive, kafkaVars
    <3>3. QED
      BY <3>1, <3>2
  <2>6. ASSUME NEW c \in Changes, ApplyChange(c) \/ DrawId(c) \/ InsertFails(c)
        PROVE  UNCHANGED <<Status, behind, topic, dropped>>
    BY <2>1, <2>6, SameStatus DEF ApplyChange, DrawId, InsertFails, kafkaVars, TypeOK
  <2>7. ASSUME NEW r \in Relays, Purge(r) \/ Crash(r)
        PROVE  UNCHANGED <<Status, behind, topic, dropped>>
    BY <2>1, <2>7, SameStatus DEF Purge, Crash, LeaveInFlight, kafkaVars, TypeOK
  <2>8. ASSUME UNCHANGED <<row, behind, topic, dropped>>
        PROVE  UNCHANGED <<Status, behind, topic, dropped>>
    BY <2>8 DEF Status
  <2>9. ASSUME NEW k \in Keys, LeaderFails(k) PROVE Queue!Next
    BY <2>9, FailingDrops
  <2>10. QED
    BY <2>2, <2>3, <2>4, <2>5, <2>6, <2>7, <2>8, <2>9 DEF Next, vars, Publish, RelayStep, Failure,
       tableVars, kafkaVars, Wake, BackoffOver, TryLock, NotLeader, BeginFails, SelectRows,
       NothingPending, SelectFails, WriteDone, WriteFails, LeaveInFlight, LoseSession, Restart
<1>3. QED
  BY <1>1, <1>2, InductiveInvariant, PTL DEF Spec, ImplementsQueue, Queue!Spec
===============================================================================
