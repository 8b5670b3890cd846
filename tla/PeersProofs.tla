----------------------------- MODULE PeersProofs -----------------------------
(***************************************************************************)
(* Proofs about what passes between kfc-crm and its peers.  First, the     *)
(* migrations of replicas that start together, lose their sessions and     *)
(* die, for any number of them and any builds that are prefixes of one     *)
(* sequence of files: the replica that holds the advisory lock knows what  *)
(* is recorded; one that has lost it knows less, but can no longer commit. *)
(* Then, what the directory and staff are told of regions, restaurants and *)
(* orders, for any tables, accounts, calls and sizes of pages: what a call *)
(* has read so far is no more than its reader may see, and while the       *)
(* tables rest, a prefix of the one order its rows have.                   *)
(***************************************************************************)
EXTENDS Peers, Orders, FiniteSetTheorems, SequenceTheorems, WellFoundedInduction,
        TLAPS

Phases == Starting \cup Stopping \cup {"off", "serving"}

\* Types of the variables that the migrations read.
SchemaTypeOK ==
    /\ schema \in Seq(Files) /\ recorded \subseteq Files
    /\ lock \in Replicas \cup {Nobody, "ghost"}
    /\ phase \in [Replicas -> Phases]
    /\ known \in [Replicas -> SUBSET Files]
    /\ txn \in [Replicas -> {"none", "applied", "recorded"}]
    /\ up \in [Replicas -> BOOLEAN]

\* A transaction belongs to the holder of the lock, who has a migration to apply.
TxnHeld ==
    \A r \in Replicas : txn[r] # "none" =>
        phase[r] = "migrate" /\ HasSession(r) /\ Pending(r) # {}

\* The holder of the lock knows what is recorded, others no more than that.
Knows ==
    \A r \in Replicas : phase[r] = "migrate" =>
        /\ known[r] \subseteq recorded
        /\ HasSession(r) => known[r] = recorded

Migrated(r) == Build[r] \ Blank \subseteq recorded

\* A replica that is past its migrations finds them recorded.
PastMigration ==
    \A r \in Replicas :
        /\ phase[r] = "unlock" /\ up[r] => Migrated(r)
        /\ r \in AutoMigrate /\ phase[r] \in {"redis", "serving"} \cup Stopping => Migrated(r)

SchemaInv ==
    /\ SchemaTypeOK
    /\ TxnHeld
    /\ Knows
    /\ PastMigration
    /\ MigratedOnceInOrder
    /\ StartsTogether

-----------------------------------------------------------------------------
(* The files.                                                              *)

\* Files are numbers, and a build has all that sort before one of its own.
LEMMA FilesOfBuilds ==
    /\ Files \subseteq Nat
    /\ \A r \in Replicas :
          /\ Build[r] \subseteq Files
          /\ \A f \in Build[r], g \in Files : g < f => g \in Build[r]
<1>1. Files \subseteq Nat
  BY ReplicasAssumption
<1>2. ASSUME NEW r \in Replicas
      PROVE  /\ Build[r] \subseteq Files
             /\ \A f \in Build[r], g \in Files : g < f => g \in Build[r]
  <2>1. PICK n \in 0..Cardinality(Files) : Build[r] = 1..n
    BY ReplicasAssumption
  <2>2. QED
    BY <2>1, ReplicasAssumption
<1>3. QED
  BY <1>1, <1>2

LEMMA LeastNumber ==
    ASSUME NEW S, S \subseteq Nat, S # {}
    PROVE  \E m \in S : \A n \in S : m <= n
<1>1. \E m \in S : \A n \in S : <<n, m>> \notin OpToRel(<, Nat)
  BY WFMin, NatLessThanWellFounded, Zenon
<1>2. PICK m \in S : \A n \in S : <<n, m>> \notin OpToRel(<, Nat)
  BY <1>1, Zenon
<1>3. ASSUME NEW n \in S
      PROVE  ~(n < m)
  <2>1. <<n, m>> \notin OpToRel(<, Nat) /\ n \in Nat /\ m \in Nat
    BY <1>2, Zenon
  <2>2. QED
    BY <2>1, Zenon DEF OpToRel
<1>4. QED
  BY <1>3

\* The migration that the loop of Up is at (migrate.go:57).
LEMMA CurrentIsLeast ==
    ASSUME NEW r \in Replicas, Pending(r) # {}
    PROVE  /\ Current(r) \in Pending(r)
           /\ \A f \in Pending(r) : Current(r) <= f
<1>1. Pending(r) \subseteq Nat
  BY FilesOfBuilds DEF Pending
<1>2. \E f \in Pending(r) : \A g \in Pending(r) : f <= g
  BY <1>1, LeastNumber
<1>3. QED
  BY <1>2 DEF Current

\* What a commit does, if the migration is the first that is not recorded.
LEMMA CommittedInOrder ==
    ASSUME SchemaTypeOK, MigratedOnceInOrder, NEW r \in Replicas,
           Pending(r) # {}, known[r] = recorded, Committed(r)
    PROVE  /\ schema' \in Seq(Files) /\ recorded' \subseteq Files
           /\ recorded \subseteq recorded'
           /\ MigratedOnceInOrder'
<1> DEFINE c == Current(r)
<1>1. /\ c \in Build[r] \ (recorded \cup Blank)
      /\ \A f \in Build[r] \ (recorded \cup Blank) : c <= f
  BY CurrentIsLeast DEF Pending
<1> HIDE DEF c
<1>2. c \in Files \ (recorded \cup Blank)
  BY <1>1, FilesOfBuilds
<1>3. \A g \in Files \ Blank : g < c => g \in recorded
  <2> SUFFICES ASSUME NEW g \in Files \ Blank, g < c, g \notin recorded
               PROVE  FALSE
    OBVIOUS
  <2>1. g \in Build[r]
    BY <1>1, FilesOfBuilds
  <2>2. c <= g
    BY <1>1, <2>1
  <2>3. QED
    BY <1>2, <2>2, FilesOfBuilds
<1>4. \A f \in recorded : f < c
  <2> SUFFICES ASSUME NEW f \in recorded, ~(f < c)
               PROVE  FALSE
    OBVIOUS
  <2>1. f \in Files /\ f # c
    BY <1>2 DEF SchemaTypeOK
  <2>2. c < f
    BY <1>2, <2>1, FilesOfBuilds
  <2>3. QED
    BY <1>2, <2>2 DEF MigratedOnceInOrder
<1>5. schema' = Append(schema, c) /\ recorded' = recorded \cup {c}
  BY DEF Committed, c
<1>6. schema \in Seq(Files) /\ c \in Files
  BY <1>2 DEF SchemaTypeOK
<1>7. /\ schema' \in Seq(Files)
      /\ Len(schema') = Len(schema) + 1
      /\ \A i \in 1..Len(schema) : schema'[i] = schema[i]
      /\ schema'[Len(schema) + 1] = c
  BY <1>5, <1>6, AppendProperties
<1>8. /\ DOMAIN schema = 1..Len(schema) /\ DOMAIN schema' = 1..(Len(schema) + 1)
      /\ Len(schema) \in Nat
  BY <1>6, <1>7, LenProperties
<1>9. recorded' = {schema'[i] : i \in DOMAIN schema'}
  <2>1. recorded = {schema[i] : i \in 1..Len(schema)}
    BY <1>8 DEF MigratedOnceInOrder
  <2>2. QED
    BY <1>5, <1>7, <1>8, <2>1
<1>10. ASSUME NEW i \in DOMAIN schema', NEW j \in DOMAIN schema', i < j
       PROVE  schema'[i] < schema'[j]
  <2>1. i \in 1..Len(schema) /\ schema'[i] = schema[i]
    BY <1>7, <1>8, <1>10
  <2>2. CASE j \in 1..Len(schema)
    BY <1>7, <1>8, <1>10, <2>1, <2>2 DEF MigratedOnceInOrder
  <2>3. CASE j = Len(schema) + 1
    BY <1>4, <1>7, <1>8, <2>1, <2>3 DEF MigratedOnceInOrder
  <2>4. QED
    BY <1>8, <2>2, <2>3
<1>11. \A f \in recorded' : \A g \in Files \ Blank : g < f => g \in recorded'
  BY <1>3, <1>5 DEF MigratedOnceInOrder
<1>12. QED
  BY <1>2, <1>5, <1>7, <1>9, <1>10, <1>11 DEF MigratedOnceInOrder, SchemaTypeOK

-----------------------------------------------------------------------------
(* The steps.                                                              *)

\* A step of one replica that is not at its migrations.
LEMMA PhaseStep ==
    ASSUME SchemaInv, NEW r \in Replicas, NEW x \in Phases \ {"migrate", "unlock"},
           phase' = [phase EXCEPT ![r] = x], phase[r] # "migrate",
           r \in AutoMigrate /\ x \in {"redis", "serving"} \cup Stopping => Migrated(r),
           UNCHANGED <<schemaVars, failed>>
    PROVE  SchemaInv'
<1> USE DEF SchemaInv
<1>1. /\ phase' \in [Replicas -> Phases] /\ phase'[r] = x
      /\ \A s \in Replicas \ {r} : phase'[s] = phase[s]
  BY DEF SchemaTypeOK
<1>2. SchemaTypeOK'
  BY <1>1 DEF SchemaTypeOK, schemaVars
<1>3. TxnHeld'
  BY <1>1 DEF TxnHeld, HasSession, Pending, schemaVars
<1>4. Knows'
  BY <1>1 DEF Knows, HasSession, schemaVars
<1>5. PastMigration'
  BY <1>1 DEF PastMigration, Migrated, schemaVars
<1>6. MigratedOnceInOrder' /\ StartsTogether'
  BY DEF MigratedOnceInOrder, StartsTogether, schemaVars
<1>7. QED
  BY <1>2, <1>3, <1>4, <1>5, <1>6

\* A step of the holder of the lock within its migrations, or of a replica
\* that leaves them.
LEMMA UpStep ==
    ASSUME SchemaInv, NEW r \in Replicas,
           ReadApplied(r) \/ Apply(r) \/ Record(r) \/ Commit(r) \/ LeaveLoop(r) \/ Unlock(r)
           \/ AcquireLock(r)
    PROVE  SchemaInv'
<1> USE DEF SchemaInv
<1>1. "migrate" \in Phases /\ "unlock" \in Phases /\ "read" \in Phases
      /\ "redis" \in Phases /\ "off" \in Phases
  BY DEF Phases, Starting
<1>2. CASE AcquireLock(r)
  <2> USE <1>2 DEF AcquireLock, GoTo
  <2>1. /\ phase' \in [Replicas -> Phases] /\ phase'[r] = "read"
        /\ \A s \in Replicas \ {r} : phase'[s] = phase[s]
    BY <1>1 DEF SchemaTypeOK
  <2>2. \A s \in Replicas : ~HasSession(s)
    BY ReplicasAssumption DEF HasSession
  <2>3. SchemaTypeOK'
    BY <2>1 DEF SchemaTypeOK
  <2>4. TxnHeld'
    BY <2>2 DEF TxnHeld
  <2>5. Knows'
    BY <2>1 DEF Knows, HasSession
  <2>6. PastMigration'
    BY <2>1 DEF PastMigration, Migrated, Stopping
  <2>7. QED
    BY <2>3, <2>4, <2>5, <2>6 DEF MigratedOnceInOrder, StartsTogether
<1>3. CASE ReadApplied(r)
  <2> USE <1>3 DEF ReadApplied, GoTo
  <2>1. /\ phase' \in [Replicas -> Phases] /\ phase'[r] \in {"migrate", "unlock"}
        /\ \A s \in Replicas \ {r} : phase'[s] = phase[s]
    BY <1>1 DEF SchemaTypeOK
  <2>2. SchemaTypeOK'
    BY <2>1 DEF SchemaTypeOK
  <2>3. TxnHeld'
    BY <2>1 DEF TxnHeld, HasSession, Pending, SchemaTypeOK
  <2>4. Knows'
    BY <2>1 DEF Knows, HasSession, SchemaTypeOK
  <2>5. PastMigration'
    BY <2>1 DEF PastMigration, Migrated, SchemaTypeOK, Stopping
  <2>6. QED
    BY <2>2, <2>3, <2>4, <2>5 DEF MigratedOnceInOrder, StartsTogether
<1>4. CASE Apply(r)
  <2> USE <1>4 DEF Apply
  <2>1. SchemaTypeOK'
    BY DEF SchemaTypeOK
  <2>2. TxnHeld'
    BY DEF TxnHeld, HasSession, Pending, SchemaTypeOK
  <2>3. Knows' /\ PastMigration'
    BY DEF Knows, HasSession, PastMigration, Migrated
  <2>4. QED
    BY <2>1, <2>2, <2>3 DEF MigratedOnceInOrder, StartsTogether
<1>5. CASE Record(r)
  <2> USE <1>5 DEF Record
  <2>1. Current(r) \notin recorded
    BY CurrentIsLeast DEF TxnHeld, Knows, Pending
  <2>2. /\ txn' = [txn EXCEPT ![r] = "recorded"]
        /\ UNCHANGED <<schema, recorded, lock, known, up, phase, failed>>
    BY <2>1
  <2>3. SchemaTypeOK'
    BY <2>2 DEF SchemaTypeOK
  <2>4. TxnHeld'
    BY <2>2 DEF TxnHeld, HasSession, Pending, SchemaTypeOK
  <2>5. Knows' /\ PastMigration'
    BY <2>2 DEF Knows, HasSession, PastMigration, Migrated
  <2>6. QED
    BY <2>2, <2>3, <2>4, <2>5 DEF MigratedOnceInOrder, StartsTogether
<1>6. CASE Commit(r)
  <2> USE <1>6 DEF Commit
  <2>1. Pending(r) # {} /\ known[r] = recorded
    BY DEF TxnHeld, Knows
  <2>2. /\ schema' \in Seq(Files) /\ recorded' \subseteq Files
        /\ recorded \subseteq recorded'
        /\ MigratedOnceInOrder'
    BY <2>1, CommittedInOrder
  <2>3. known'[r] = recorded' /\ \A s \in Replicas \ {r} : known'[s] = known[s]
    BY <2>1 DEF SchemaTypeOK, Committed
  <2>4. SchemaTypeOK'
    BY <2>2, <2>3 DEF SchemaTypeOK
  <2>5. TxnHeld'
    BY DEF TxnHeld, HasSession, Pending, SchemaTypeOK
  <2>6. Knows'
    BY <2>2, <2>3 DEF Knows, HasSession
  <2>7. PastMigration'
    BY <2>2 DEF PastMigration, Migrated
  <2>8. QED
    BY <2>2, <2>4, <2>5, <2>6, <2>7 DEF StartsTogether
<1>7. CASE LeaveLoop(r)
  <2> USE <1>7 DEF LeaveLoop
  <2>1. /\ phase' = [phase EXCEPT ![r] = "unlock"]
        /\ \/ Pending(r) = {} /\ UNCHANGED <<txn, up>>
           \/ txn' = [txn EXCEPT ![r] = "none"] /\ up' = [up EXCEPT ![r] = FALSE]
    BY DEF GiveUp, GoTo
  <2>2. /\ phase' \in [Replicas -> Phases] /\ phase'[r] = "unlock"
        /\ \A s \in Replicas \ {r} : phase'[s] = phase[s]
    BY <1>1, <2>1 DEF SchemaTypeOK
  <2>3. SchemaTypeOK'
    BY <2>1, <2>2 DEF SchemaTypeOK
  <2>4. txn'[r] = "none" /\ \A s \in Replicas \ {r} : txn'[s] = txn[s]
    BY <2>1 DEF TxnHeld, SchemaTypeOK
  <2>5. TxnHeld'
    BY <2>2, <2>4 DEF TxnHeld, HasSession, Pending
  <2>6. Knows'
    BY <2>2 DEF Knows, HasSession
  <2>7. up'[r] => Migrated(r)
    BY <2>1 DEF SchemaTypeOK, Knows, Pending, Migrated
  <2>8. PastMigration'
    BY <2>1, <2>2, <2>7 DEF PastMigration, Migrated, SchemaTypeOK, Stopping
  <2>9. QED
    BY <2>3, <2>5, <2>6, <2>8 DEF MigratedOnceInOrder, StartsTogether
<1>8. CASE Unlock(r)
  <2> USE <1>8 DEF Unlock, GoTo
  <2>1. /\ phase' \in [Replicas -> Phases] /\ phase'[r] \in {"redis", "off"}
        /\ phase'[r] = "redis" => up[r]
        /\ \A s \in Replicas \ {r} : phase'[s] = phase[s]
    BY <1>1 DEF SchemaTypeOK
  <2>2. SchemaTypeOK'
    BY <2>1 DEF SchemaTypeOK
  <2>3. TxnHeld'
    BY <2>1, ReplicasAssumption DEF TxnHeld, HasSession, Pending, SchemaTypeOK
  <2>4. Knows'
    BY <2>1, ReplicasAssumption DEF Knows, HasSession, SchemaTypeOK
  <2>5. PastMigration'
    BY <2>1 DEF PastMigration, Migrated, SchemaTypeOK, Stopping
  <2>6. QED
    BY <2>2, <2>3, <2>4, <2>5 DEF MigratedOnceInOrder, StartsTogether
<1>9. QED
  BY <1>2, <1>3, <1>4, <1>5, <1>6, <1>7, <1>8

\* The session of r ends with the connection, or with the process.
LEMMA SessionEnds ==
    ASSUME SchemaInv, NEW r \in Replicas, EndSession(r), UNCHANGED failed,
           \/ SessionLost(r)
           \/ /\ phase' = [phase EXCEPT ![r] = "off"]
              /\ lock' = IF HasSession(r) THEN "ghost" ELSE lock
              /\ known' = [known EXCEPT ![r] = {}]
              /\ up' = [up EXCEPT ![r] = TRUE]
    PROVE  SchemaInv'
<1> USE DEF SchemaInv
<1>1. /\ schema' \in Seq(Files) /\ recorded' \subseteq Files
      /\ recorded \subseteq recorded'
      /\ MigratedOnceInOrder'
      /\ HasSession(r) \/ recorded' = recorded
  <2>1. CASE UNCHANGED <<schema, recorded>>
    BY <2>1 DEF MigratedOnceInOrder, SchemaTypeOK
  <2>2. CASE txn[r] = "recorded" /\ HasSession(r) /\ Committed(r)
    <3>1. Pending(r) # {} /\ known[r] = recorded
      BY <2>2 DEF TxnHeld, Knows
    <3>2. QED
      BY <2>2, <3>1, CommittedInOrder
  <2>3. QED
    BY <2>1, <2>2 DEF EndSession
<1>2. /\ txn' \in [Replicas -> {"none", "applied", "recorded"}] /\ txn'[r] = "none"
      /\ \A s \in Replicas \ {r} : txn'[s] = txn[s]
  BY DEF EndSession, SchemaTypeOK
<1>3. \A s \in Replicas : lock' = s => lock = s /\ s # r
  BY ReplicasAssumption DEF SessionLost, HasSession, SchemaTypeOK
<1>4. /\ phase' \in [Replicas -> Phases] /\ phase'[r] \in {phase[r], "off"}
      /\ \A s \in Replicas \ {r} : UNCHANGED <<phase[s], known[s], up[s]>>
      /\ phase'[r] = phase[r] => UNCHANGED <<known[r], up[r]>> \/ phase[r] = "off"
  BY DEF SessionLost, SchemaTypeOK, Phases
<1>5. SchemaTypeOK'
  BY <1>1, <1>2, <1>4 DEF SchemaTypeOK, SessionLost
<1>6. TxnHeld'
  <2> SUFFICES ASSUME NEW s \in Replicas, txn'[s] # "none"
               PROVE  phase'[s] = "migrate" /\ HasSession(s)' /\ Pending(s)' # {}
    BY DEF TxnHeld
  <2>1. s # r /\ txn[s] # "none"
    BY <1>2
  <2>2. HasSession(s) /\ phase[s] = "migrate" /\ Pending(s) # {} /\ ~HasSession(r)
    BY <2>1 DEF TxnHeld, HasSession
  <2>3. lock' = lock
    BY <2>2 DEF SessionLost
  <2>4. QED
    BY <1>4, <2>1, <2>2, <2>3 DEF HasSession, Pending
<1>7. Knows'
  BY <1>1, <1>3, <1>4 DEF Knows, HasSession
<1>8. PastMigration'
  BY <1>1, <1>4 DEF PastMigration, Migrated, Stopping
<1>9. QED
  BY <1>1, <1>5, <1>6, <1>7, <1>8 DEF StartsTogether

\* The session of a process that died ends: nobody holds the lock.
LEMMA ReapStep ==
    ASSUME SchemaInv, Reap
    PROVE  SchemaInv'
<1> USE DEF SchemaInv, Reap
<1>1. \A s \in Replicas : ~HasSession(s) /\ ~HasSession(s)'
  BY ReplicasAssumption DEF HasSession
<1>2. SchemaTypeOK'
  BY DEF SchemaTypeOK
<1>3. TxnHeld' /\ Knows' /\ PastMigration'
  BY <1>1 DEF TxnHeld, Knows, PastMigration, Migrated
<1>4. QED
  BY <1>2, <1>3 DEF MigratedOnceInOrder, StartsTogether

\* The requests do not touch the migrations.
LEMMA QuietStep ==
    ASSUME SchemaInv, UNCHANGED <<schemaVars, phase, failed>>
    PROVE  SchemaInv'
<1> USE DEF SchemaInv, schemaVars
<1>1. SchemaTypeOK' /\ TxnHeld'
  BY DEF SchemaTypeOK, TxnHeld, HasSession, Pending
<1>2. Knows' /\ PastMigration'
  BY DEF Knows, HasSession, PastMigration, Migrated
<1>3. QED
  BY <1>1, <1>2 DEF MigratedOnceInOrder, StartsTogether

LEMMA SchemaInvInit == Init => SchemaInv
<1> SUFFICES ASSUME Init
             PROVE  SchemaInv
  OBVIOUS
<1> USE DEF Init, LifeInit
<1>1. SchemaTypeOK
  BY DEF SchemaTypeOK, Phases
<1>2. TxnHeld /\ Knows /\ PastMigration
  BY DEF TxnHeld, Knows, PastMigration, Stopping
<1>3. MigratedOnceInOrder /\ StartsTogether
  BY DEF MigratedOnceInOrder, StartsTogether
<1>4. QED
  BY <1>1, <1>2, <1>3 DEF SchemaInv

LEMMA SchemaInvStep ==
    ASSUME SchemaInv, [Next]_vars
    PROVE  SchemaInv'
<1> USE DEF GoTo, Phases, Starting, Stopping
<1>1. ASSUME NEW r \in Replicas, Launch(r)
      PROVE  SchemaInv'
  BY <1>1, PhaseStep DEF Launch
<1>2. ASSUME NEW r \in Replicas, NewPostgres(r)
      PROVE  SchemaInv'
  BY <1>2, PhaseStep DEF NewPostgres, Connect
<1>3. ASSUME NEW r \in Replicas, NewRedis(r)
      PROVE  SchemaInv'
  <2>1. r \in AutoMigrate => Migrated(r)
    BY <1>3 DEF NewRedis, Connect, SchemaInv, PastMigration
  <2>2. QED
    BY <1>3, <2>1, PhaseStep DEF NewRedis, Connect
<1>4. ASSUME NEW r \in Replicas, Starts(r)
      PROVE  SchemaInv'
  BY <1>2, <1>3, <1>4, UpStep DEF Starts
<1>5. ASSUME NEW r \in Replicas, SessionLost(r)
      PROVE  SchemaInv'
  BY <1>5, SessionEnds DEF SessionLost
<1>6. ASSUME NEW r \in Replicas,
             Terminate(r) \/ HTTPShutdown(r) \/ GRPCShutdown(r) \/ Close(r) \/ Exit(r)
      PROVE  SchemaInv'
  <2>1. r \in AutoMigrate => Migrated(r)
    BY <1>6 DEF Terminate, Serving, HTTPShutdown, GRPCShutdown, Close, CanClose, Exit,
       SchemaInv, PastMigration
  <2>2. CASE Terminate(r)
    BY <2>1, <2>2, PhaseStep DEF Terminate, Serving
  <2>3. CASE HTTPShutdown(r)
    BY <2>1, <2>3, PhaseStep DEF HTTPShutdown
  <2>4. CASE GRPCShutdown(r)
    BY <2>1, <2>4, PhaseStep DEF GRPCShutdown
  <2>5. CASE Close(r)
    BY <2>1, <2>5, PhaseStep DEF Close, CanClose
  <2>6. CASE Exit(r)
    BY <2>6, PhaseStep DEF Exit
  <2>7. QED
    BY <1>6, <2>2, <2>3, <2>4, <2>5, <2>6
<1>7. ASSUME NEW r \in Replicas, Expire(r)
      PROVE  SchemaInv'
  BY <1>7, QuietStep DEF Expire
<1>8. ASSUME NEW r \in Replicas, Crash(r)
      PROVE  SchemaInv'
  BY <1>8, SessionEnds DEF Crash
<1>9. ASSUME NEW r \in Replicas, Lives(r) \/ Close(r) \/ Ends(r) \/ Dies(r)
      PROVE  SchemaInv'
  BY <1>1, <1>4, <1>5, <1>6, <1>7, <1>8, <1>9 DEF Lives, Stops, Ends, Dies
<1>10. ASSUME NEW q \in Works, Send(q) \/ Handles(q)
       PROVE  SchemaInv'
  <2>1. UNCHANGED <<schemaVars, phase, failed>>
    BY <1>10
       DEF Send, Handles, Read, AdjustPoints, LoyaltyApplies, LoyaltyRefuses, Answer, Timeout,
           CreateUser, AnswerCreated, SendWelcomeEmail, lifeVars
  <2>2. QED
    BY <2>1, QuietStep
<1>11. CASE UNCHANGED vars
  BY <1>11, QuietStep DEF vars, lifeVars
<1>12. QED
  BY <1>9, <1>10, <1>11, ReapStep DEF Next

-----------------------------------------------------------------------------
(* The requests.                                                           *)

Busy == {"running", "calling", "applied", "refused", "stored"}

\* Something has gone wrong: a fault, or a shutdown that ran out of time.
Trouble == faults > 0 \/ expired

RequestsTypeOK ==
    /\ late \in [Replicas -> BOOLEAN] /\ expired \in BOOLEAN /\ stopped \in BOOLEAN
    /\ faults \in 0..MaxFaults
    /\ work \in [Works -> {"waiting", "ok", "error"} \cup Busy]
    /\ server \in [Works -> Replicas \cup {Nobody}]
    /\ asks \in Sendings
    /\ tries \in [Works -> Nat] /\ applied \in [Works -> Nat]
    /\ rows \subseteq Overs
    /\ mail \in [Works -> {"none", "sent", "lost"} \cup Replicas]

\* A request that is being served has a replica that serves or stops.
IsServed(q) ==
    /\ server[q] # Nobody <=> work[q] \in Busy
    /\ server[q] # Nobody => phase[server[q]] \in {"serving"} \cup Stopping

\* The servers stop one after the other, and what is in flight beyond its
\* server's stop is there because the time is up.
IsDrained(q) ==
    server[q] # Nobody =>
        IF q \in Grpc THEN phase[server[q]] \notin {"close", "exit"}
        ELSE phase[server[q]] \in {"grpc", "close", "exit"} => late[server[q]]

\* An adjustment is applied at most once for each time it was sent.
IsTried(q) ==
    /\ tries[q] <= Tries[q] /\ applied[q] <= tries[q]
    /\ work[q] \in {"running", "calling", "refused"} => applied[q] < tries[q]

\* Without trouble an adjustment that was applied is, or will be, answered with
\* success, and is not sent again.
IsAdjusted(q) ==
    /\ work[q] \in {"calling", "applied", "refused"} \/ applied[q] > 0
          => Asks(q, "adjust") /\ CanAdjust(q)
    /\ work[q] = "applied" \/ (Asks(q, "adjust") /\ work[q] = "ok") => applied[q] > 0
    /\ applied[q] > 0 => Trouble \/ (applied[q] = 1 /\ work[q] \in {"applied", "ok"})

\* A goroutine with a mail outlives its replica's servers, not its clients.
IsMailed(q) ==
    /\ work[q] = "stored" => q \in rows /\ Asks(q, "create")
    /\ mail[q] # "none" => q \in rows
    /\ mail[q] \in Replicas /\ phase[mail[q]] = "exit" => stopped \/ Trouble
    /\ Asks(q, "create") /\ work[q] = "ok"
          => mail[q] \in {"sent"} \cup Replicas \/ stopped \/ Trouble

LateIsExpired == \A r \in Replicas : late[r] => expired
Served == \A q \in Works : IsServed(q)
Drained == LateIsExpired /\ \A q \in Works : IsDrained(q)
Tried == \A q \in Works : IsTried(q)
Adjusted == \A q \in Works : IsAdjusted(q)
Mailed == \A q \in Works : IsMailed(q)

RequestsInv ==
    /\ RequestsTypeOK
    /\ Served
    /\ Drained
    /\ Tried
    /\ Adjusted
    /\ Mailed

\* Faults are counted, and no shutdown has more time again.
TroubleStays == faults' \in faults..MaxFaults /\ expired' \in BOOLEAN /\ (expired => expired')

LEMMA FaultCounts ==
    ASSUME RequestsTypeOK, (Fault \/ UNCHANGED faults), UNCHANGED expired
    PROVE  TroubleStays /\ (Fault => faults' > 0)
BY ReplicasAssumption DEF RequestsTypeOK, Fault, TroubleStays

\* The life of a replica around its requests, to the end of its HTTP server.
LEMMA LifeStep ==
    ASSUME RequestsInv, SchemaTypeOK, TroubleStays,
           UNCHANGED <<late, expired, workVars, peerVars>>,
           \A r \in Replicas :
              \/ phase'[r] = phase[r]
              \/ phase[r] \notin {"serving"} \cup Stopping /\ phase'[r] \notin Stopping
              \/ phase[r] = "serving" /\ phase'[r] = "http"
              \/ /\ phase[r] = "http" /\ phase'[r] = "grpc"
                 /\ late[r] \/ InFlight(r, Works \ Grpc) = {}
    PROVE  RequestsInv'
<1> USE DEF RequestsInv, workVars, peerVars
<1>1. Trouble => Trouble'
  BY ReplicasAssumption DEF Trouble, TroubleStays, RequestsTypeOK
<1>2. RequestsTypeOK'
  BY ReplicasAssumption DEF RequestsTypeOK, TroubleStays
<1>3. Served'
  BY DEF Served, IsServed, RequestsTypeOK, Stopping
<1>4. Drained'
  BY DEF Drained, IsDrained, LateIsExpired, Served, IsServed, RequestsTypeOK, Stopping, InFlight
<1>5. Tried'
  BY DEF Tried, IsTried
<1>6. Adjusted'
  BY <1>1 DEF Adjusted, IsAdjusted, Asks, CanAdjust, Sender
<1>7. Mailed'
  BY <1>1 DEF Mailed, IsMailed, Asks, Stopping, RequestsTypeOK
<1> QED BY <1>2, <1>3, <1>4, <1>5, <1>6, <1>7

\* Timeouts of Shutdown.
LEMMA ExpireStep == ASSUME RequestsInv, NEW r \in Replicas, Expire(r), UNCHANGED peerVars
                    PROVE  RequestsInv'
<1> USE DEF RequestsInv, Expire, workVars, peerVars
<1>1. RequestsTypeOK'
  BY DEF RequestsTypeOK
<1>2. Served' /\ Tried'
  BY DEF Served, IsServed, Tried, IsTried
<1>3. Drained'
  BY DEF Drained, IsDrained, LateIsExpired, RequestsTypeOK
<1>4. Adjusted' /\ Mailed'
  BY DEF Adjusted, IsAdjusted, Mailed, IsMailed, Asks, CanAdjust, Sender, Trouble
<1> QED BY <1>1, <1>2, <1>3, <1>4

\* The answer of a request, or none.
LEMMA CutFacts ==
    ASSUME NEW Q, Cut(Q), RequestsTypeOK
    PROVE  /\ work' \in [Works -> {"waiting", "ok", "error"} \cup Busy]
           /\ server' \in [Works -> Replicas \cup {Nobody}]
           /\ \A q \in Works : q \in Q => work'[q] = "error" /\ server'[q] = Nobody
           /\ \A q \in Works : q \notin Q => work'[q] = work[q] /\ server'[q] = server[q]
BY DEF Cut, RequestsTypeOK

LEMMA GRPCShutdownStep ==
    ASSUME RequestsInv, SchemaTypeOK, NEW r \in Replicas, GRPCShutdown(r), UNCHANGED peerVars
    PROVE  RequestsInv'
<1> USE DEF RequestsInv, peerVars
<1>1. /\ phase[r] = "grpc" /\ phase' = [phase EXCEPT ![r] = "close"]
      /\ Cut(InFlight(r, Grpc))
      /\ UNCHANGED <<late, faults, expired>>
  BY DEF GRPCShutdown, GoTo
<1>2. /\ phase'[r] = "close" /\ \A s \in Replicas \ {r} : phase'[s] = phase[s]
  BY <1>1 DEF SchemaTypeOK
<1>3. \A q \in Works : IF q \in Grpc /\ server[q] = r
                       THEN work'[q] = "error" /\ server'[q] = Nobody
                       ELSE work'[q] = work[q] /\ server'[q] = server[q]
  BY <1>1, CutFacts DEF InFlight
<1>4. RequestsTypeOK'
  BY <1>1, CutFacts DEF RequestsTypeOK
<1>5. Served'
  BY <1>2, <1>3 DEF Served, IsServed, RequestsTypeOK, Busy, Stopping
<1>6. Drained'
  BY <1>1, <1>2, <1>3 DEF Drained, IsDrained, LateIsExpired, RequestsTypeOK
<1>7. Tried'
  BY <1>3 DEF Tried, IsTried
<1>8. Adjusted'
  BY <1>1, <1>3 DEF Adjusted, IsAdjusted, Asks, CanAdjust, Sender, Trouble, Overs
<1>9. Mailed'
  BY <1>1, <1>2, <1>3 DEF Mailed, IsMailed, Asks, Trouble, RequestsTypeOK
<1> QED BY <1>4, <1>5, <1>6, <1>7, <1>8, <1>9

\* What becomes of the requests and the mails of a replica whose clients are
\* closed, or whose process ends.  Those in Q are broken off.
LEMMA EndStep ==
    ASSUME RequestsInv, SchemaTypeOK, TroubleStays, NEW r \in Replicas,
           NEW Q \in SUBSET InFlight(r, Works), Cut(Q),
           Interrupted(Q) \/ UNCHANGED applied,
           NEW x \in {"exit", "off"}, phase' = [phase EXCEPT ![r] = x],
           x = "exit" => /\ phase[r] = "close"
                         /\ Q = {q \in InFlight(r, Works) :
                                   work[q] \in {"calling", "applied", "refused"}}
                         /\ late' = late /\ UNCHANGED mail
                         /\ stopped' = (stopped \/ \E q \in Works : mail[q] = r)
           ,
           x = "off" => /\ Q = InFlight(r, Works)
                        /\ late' = [late EXCEPT ![r] = FALSE]
                        /\ Unsent(r) /\ UNCHANGED stopped
                        /\ faults' > 0 \/ phase[r] = "exit",
           UNCHANGED <<asks, tries, rows>>
    PROVE  RequestsInv'
<1> USE DEF RequestsInv
<1>1. Trouble => Trouble'
  BY ReplicasAssumption DEF Trouble, TroubleStays, RequestsTypeOK
<1>2. /\ phase'[r] = x /\ \A s \in Replicas \ {r} : phase'[s] = phase[s]
  BY DEF SchemaTypeOK
<1>3. /\ \A q \in Works : q \in Q => work'[q] = "error" /\ server'[q] = Nobody
      /\ \A q \in Works : q \notin Q => work'[q] = work[q] /\ server'[q] = server[q]
  BY CutFacts
<1>4. \A q \in Works : q \in Q => server[q] = r /\ work[q] \in Busy
  BY ReplicasAssumption DEF InFlight, Served, IsServed
<1>5. \A q \in Works : applied'[q] = applied[q]
                      \/ (q \in Q /\ work[q] = "calling" /\ applied'[q] = applied[q] + 1)
  BY DEF Interrupted
<1>6. applied' \in [Works -> Nat]
  BY DEF Interrupted, RequestsTypeOK
<1>7. /\ late' \in [Replicas -> BOOLEAN] /\ stopped' \in BOOLEAN
      /\ mail' \in [Works -> {"none", "sent", "lost"} \cup Replicas]
      /\ \A s \in Replicas \ {r} : late'[s] = late[s]
      /\ late'[r] => late[r]
      /\ x = "exit" => late'[r] = late[r]
      /\ stopped => stopped'
  BY DEF RequestsTypeOK, Unsent
<1>8. RequestsTypeOK'
  <2>1. faults' \in 0..MaxFaults /\ expired' \in BOOLEAN
    BY ReplicasAssumption DEF RequestsTypeOK, TroubleStays
  <2>2. asks' \in Sendings /\ tries' \in [Works -> Nat] /\ rows' \subseteq Overs
    BY DEF RequestsTypeOK
  <2> QED BY <1>6, <1>7, <2>1, <2>2, CutFacts DEF RequestsTypeOK
<1>9. Served'
  BY <1>2, <1>3, <1>4 DEF Served, IsServed, RequestsTypeOK, Busy, Stopping, InFlight
<1>10. Drained'
  BY <1>2, <1>3, <1>7 DEF Drained, IsDrained, LateIsExpired, RequestsTypeOK, TroubleStays, InFlight
<1>11. Tried'
  BY <1>3, <1>5 DEF Tried, IsTried, RequestsTypeOK
<1>12. \A q \in Q : Asks(q, "adjust") => Trouble'
  <2> SUFFICES ASSUME NEW q \in Q, Asks(q, "adjust") PROVE Trouble'
    OBVIOUS
  <2>1. server[q] = r /\ q \in Works /\ q \notin Grpc /\ server[q] # Nobody
    BY <1>4, ReplicasAssumption DEF Asks, Overs
  <2>2. phase[r] \in {"close", "exit"} => expired
    BY <2>1 DEF Drained, IsDrained, LateIsExpired
  <2> QED BY <2>2, ReplicasAssumption DEF Trouble, TroubleStays, RequestsTypeOK
<1>13. Adjusted'
  <2>1. ASSUME NEW q \in Works
        PROVE  /\ work'[q] \in {"calling", "applied", "refused"} \/ applied'[q] > 0
                    => Asks(q, "adjust") /\ CanAdjust(q)
               /\ work'[q] = "applied" \/ (Asks(q, "adjust") /\ work'[q] = "ok")
                    => applied'[q] > 0
               /\ applied'[q] > 0
                    => Trouble' \/ (applied'[q] = 1 /\ work'[q] \in {"applied", "ok"})
    BY <1>1, <1>3, <1>5, <1>12 DEF Adjusted, IsAdjusted, RequestsTypeOK
  <2> QED BY <2>1 DEF Adjusted, IsAdjusted, Asks, CanAdjust, Sender
<1>14. Mailed'
  <2>1. ASSUME NEW q \in Works
        PROVE  mail'[q] # mail[q] =>
                  mail[q] = r /\ mail'[q] = "lost" /\ (stopped' \/ Trouble')
    <3>1. CASE x = "off"
      <4>1. mail'[q] = IF mail[q] = r THEN "lost" ELSE mail[q]
        BY <3>1 DEF Unsent
      <4>2. mail[q] = r => stopped' \/ Trouble'
        BY <1>1, <3>1 DEF Mailed, IsMailed, Trouble
      <4> QED BY <4>1, <4>2
    <3> QED BY <3>1
  <2>2. ASSUME NEW q \in Works, mail'[q] \in Replicas, phase'[mail'[q]] = "exit"
        PROVE  stopped' \/ Trouble'
    <3>1. CASE mail'[q] = mail[q] /\ mail[q] = r
      BY <1>2, <2>2, <3>1
    <3>2. CASE mail'[q] = mail[q] /\ mail[q] # r
      BY <1>1, <1>2, <1>7, <2>2, <3>2 DEF Mailed, IsMailed
    <3> QED BY <2>1, <3>1, <3>2
  <2>3. \A q \in Works : Asks(q, "create") <=> Asks(q, "create")'
    BY DEF Asks
  <2>4. \A q \in Works :
           /\ work'[q] = "stored" => work[q] = "stored"
           /\ work'[q] = "ok" => work[q] = "ok"
    BY <1>3
  <2>5. \A q \in Works : mail'[q] # "none" => q \in rows'
    BY <2>1, PeersAssumption DEF Mailed, IsMailed
  <2>6. \A q \in Works : mail[q] \in {"sent"} \cup Replicas
                           => mail'[q] \in {"sent"} \cup Replicas \/ stopped' \/ Trouble'
    BY <2>1
  <2>7. stopped \/ Trouble => stopped' \/ Trouble'
    BY <1>1, <1>7
  <2> QED BY <2>2, <2>3, <2>4, <2>5, <2>6, <2>7 DEF Mailed, IsMailed
<1> QED BY <1>8, <1>9, <1>10, <1>11, <1>13, <1>14

\* A step of request q alone keeps the others' part of the invariant.
LEMMA RequestStep ==
    ASSUME RequestsInv, RequestsTypeOK', TroubleStays, NEW q \in Works,
           UNCHANGED <<phase, late, asks, stopped>>, rows \subseteq rows',
           \A p \in Works \ {q} :
              /\ work'[p] = work[p] /\ server'[p] = server[p] /\ tries'[p] = tries[p]
              /\ applied'[p] = applied[p] /\ mail'[p] = mail[p],
           IsServed(q)', IsDrained(q)', IsTried(q)', IsAdjusted(q)', IsMailed(q)'
    PROVE  RequestsInv'
<1> USE DEF RequestsInv
<1>1. Trouble => Trouble'
  BY ReplicasAssumption DEF Trouble, TroubleStays, RequestsTypeOK
<1>2. Served'
  BY DEF Served, IsServed
<1>3. Drained'
  BY DEF Drained, IsDrained, LateIsExpired, TroubleStays
<1>4. Tried'
  BY DEF Tried, IsTried
<1>5. Adjusted'
  BY <1>1 DEF Adjusted, IsAdjusted, Asks, CanAdjust, Sender
<1>6. Mailed'
  BY <1>1 DEF Mailed, IsMailed, Asks
<1> QED BY <1>2, <1>3, <1>4, <1>5, <1>6

LEMMA SendStep == ASSUME RequestsInv, NEW q \in Works, Send(q) PROVE RequestsInv'
<1> USE DEF RequestsInv
<1>1. PICK r \in Replicas : Accepts(r, q) /\ server' = [server EXCEPT ![q] = r]
  BY DEF Send
<1>2. /\ work[q] \in {"waiting", "error"} /\ tries[q] < Tries[q]
      /\ tries' = [tries EXCEPT ![q] = tries[q] + 1]
      /\ work' = [work EXCEPT ![q] = "running"]
      /\ UNCHANGED <<phase, late, faults, expired, asks, applied, rows, mail, stopped>>
  BY DEF Send, lifeVars
<1>3. r # Nobody /\ tries[q] \in Nat /\ Tries[q] \in Nat /\ applied[q] \in Nat
  BY ReplicasAssumption, PeersAssumption DEF RequestsTypeOK
<1>4. /\ work'[q] = "running" /\ server'[q] = r /\ tries'[q] = tries[q] + 1
      /\ \A p \in Works \ {q} :
            work'[p] = work[p] /\ server'[p] = server[p] /\ tries'[p] = tries[p]
  BY <1>1, <1>2 DEF RequestsTypeOK
<1>5. RequestsTypeOK'
  BY <1>1, <1>2, <1>3 DEF RequestsTypeOK, Busy
<1>6. TroubleStays
  BY <1>2, ReplicasAssumption DEF RequestsTypeOK, TroubleStays
<1>7. IsServed(q)' /\ IsDrained(q)'
  BY <1>1, <1>2, <1>3, <1>4 DEF IsServed, IsDrained, Accepts, Serving, Busy, Stopping
<1>8. IsTried(q)'
  BY <1>2, <1>3, <1>4 DEF Tried, IsTried
<1>9. IsAdjusted(q)' /\ IsMailed(q)'
  BY <1>2, <1>4 DEF Adjusted, IsAdjusted, Mailed, IsMailed, Asks, CanAdjust, Sender, Trouble
<1> QED BY <1>2, <1>4, <1>5, <1>6, <1>7, <1>8, <1>9, RequestStep

\* The shapes of a handler's step, but for the mail that is sent later.
LEMMA HandlerFacts ==
    ASSUME RequestsInv, NEW q \in Works, Handles(q), ~SendWelcomeEmail(q)
    PROVE  /\ work[q] \in Busy /\ work'[q] \in (Busy \ {"running"}) \cup {"ok", "error"}
           /\ IF work'[q] \in Busy THEN server'[q] = server[q] ELSE server'[q] = Nobody
           /\ \A p \in Works \ {q} : work'[p] = work[p] /\ server'[p] = server[p]
           /\ work' \in [Works -> {"waiting", "ok", "error"} \cup Busy]
           /\ server' \in [Works -> Replicas \cup {Nobody}]
           /\ applied' = applied \/ applied' = [applied EXCEPT ![q] = applied[q] + 1]
           /\ Fault \/ UNCHANGED faults
           /\ UNCHANGED <<phase, late, expired, asks, tries, stopped>>
<1> USE DEF RequestsInv, RequestsTypeOK, Busy, Done, Step
<1>1. CASE Read(q)
  BY <1>1 DEF Read, lifeVars, peerVars
<1>2. CASE AdjustPoints(q)
  BY <1>2 DEF AdjustPoints, lifeVars, peerVars
<1>3. CASE LoyaltyApplies(q)
  BY <1>3 DEF LoyaltyApplies, lifeVars
<1>4. CASE LoyaltyRefuses(q)
  BY <1>4 DEF LoyaltyRefuses, lifeVars, peerVars
<1>5. CASE Answer(q)
  BY <1>5 DEF Answer, mapError, lifeVars, peerVars
<1>6. CASE Timeout(q)
  BY <1>6 DEF Timeout
<1>7. CASE CreateUser(q)
  BY <1>7 DEF CreateUser, lifeVars
<1>8. CASE AnswerCreated(q)
  BY <1>8 DEF AnswerCreated, lifeVars
<1> QED BY <1>1, <1>2, <1>3, <1>4, <1>5, <1>6, <1>7, <1>8 DEF Handles

\* What the steps of q do to the points, the accounts and the mails.
LEMMA HandlerEffects ==
    ASSUME RequestsInv, NEW q \in Works, Handles(q), ~SendWelcomeEmail(q)
    PROVE  \/ /\ UNCHANGED <<applied, rows, mail>>
              /\ \/ q \in Grpc /\ work'[q] \in {"ok", "error"}
                 \/ Asks(q, "adjust") /\ CanAdjust(q) /\ work[q] = "running" /\ work'[q] = "calling"
                 \/ work[q] = "calling" /\ work'[q] = "refused"
                 \/ work[q] = "applied" /\ work'[q] = "ok"
                 \/ work[q] \in {"running", "refused"} /\ work'[q] = "error"
                 \/ work'[q] = "error" /\ Fault
           \/ /\ applied' = [applied EXCEPT ![q] = applied[q] + 1]
              /\ work[q] = "calling" /\ UNCHANGED <<rows, mail>>
              /\ work'[q] = "applied" \/ (work'[q] = "error" /\ Fault)
           \/ /\ Asks(q, "create") /\ work[q] = "running" /\ work'[q] = "stored"
              /\ rows' = rows \cup {q} /\ UNCHANGED <<applied, mail>>
           \/ /\ work[q] = "stored" /\ work'[q] = "ok"
              /\ mail' = [mail EXCEPT ![q] = server[q]] /\ UNCHANGED <<applied, rows>>
<1> USE DEF RequestsInv, RequestsTypeOK, Busy, Done, Step
<1>1. CASE Read(q)
  BY <1>1 DEF Read, lifeVars, peerVars
<1>2. CASE AdjustPoints(q)
  BY <1>2 DEF AdjustPoints, lifeVars, peerVars
<1>3. CASE LoyaltyApplies(q)
  BY <1>3 DEF LoyaltyApplies, lifeVars
<1>4. CASE LoyaltyRefuses(q)
  BY <1>4 DEF LoyaltyRefuses, lifeVars, peerVars
<1>5. CASE Answer(q)
  BY <1>5 DEF Answer, mapError, lifeVars, peerVars
<1>6. CASE Timeout(q)
  BY <1>6 DEF Timeout
<1>7. CASE CreateUser(q)
  BY <1>7 DEF CreateUser, lifeVars
<1>8. CASE AnswerCreated(q)
  BY <1>8 DEF AnswerCreated, Spawn, lifeVars
<1> QED BY <1>1, <1>2, <1>3, <1>4, <1>5, <1>6, <1>7, <1>8 DEF Handles

\* Only a request over HTTP has something to ask, one thing.
LEMMA AsksFacts ==
    ASSUME RequestsTypeOK, NEW q \in Works
    PROVE  /\ Asks(q, "adjust") \/ Asks(q, "create") => q \notin Grpc
           /\ ~(Asks(q, "adjust") /\ Asks(q, "create"))
BY DEF Asks, Overs

LEMMA HandlerStep ==
    ASSUME RequestsInv, NEW q \in Works, Handles(q), ~SendWelcomeEmail(q)
    PROVE  RequestsInv'
<1> USE DEF RequestsInv
<1>1. /\ TroubleStays /\ (Fault => Trouble') /\ (Trouble => Trouble')
  BY HandlerFacts, FaultCounts, ReplicasAssumption DEF Trouble, TroubleStays, RequestsTypeOK
<1>2. /\ tries[q] \in Nat /\ applied[q] \in Nat /\ applied'[q] \in {applied[q], applied[q] + 1}
      /\ applied' \in [Works -> Nat]
      /\ \A p \in Works \ {q} : applied'[p] = applied[p]
      /\ UNCHANGED <<asks, tries>>
  BY HandlerFacts DEF RequestsTypeOK
<1>3. /\ work[q] \in Busy /\ server[q] \in Replicas
  BY HandlerFacts DEF Served, IsServed, RequestsTypeOK
<1>4. /\ mail' \in [Works -> {"none", "sent", "lost"} \cup Replicas]
      /\ \A p \in Works \ {q} : mail'[p] = mail[p]
      /\ rows \subseteq rows' /\ rows' \subseteq Overs
      /\ mail'[q] = mail[q] \/ (work[q] = "stored" /\ mail'[q] = server[q])
  BY <1>3, HandlerEffects DEF RequestsTypeOK, Asks
<1>5. RequestsTypeOK'
  <2>1. faults' \in 0..MaxFaults
    BY <1>1, ReplicasAssumption DEF RequestsTypeOK, TroubleStays
  <2> QED BY <1>2, <1>4, <2>1, HandlerFacts DEF RequestsTypeOK
<1>6. IsServed(q)' /\ IsDrained(q)'
  BY <1>3, HandlerFacts, ReplicasAssumption DEF Served, IsServed, Drained, IsDrained, Busy
<1>7. IsTried(q)'
  BY <1>2, HandlerEffects DEF Tried, IsTried
<1>8. IsAdjusted(q)'
  <2>1. /\ Asks(q, "adjust")' <=> Asks(q, "adjust")
        /\ CanAdjust(q)' <=> CanAdjust(q)
    BY <1>2 DEF Asks, CanAdjust, Sender
  <2>2. work[q] = "stored" => Asks(q, "create")
    BY DEF Mailed, IsMailed
  <2>3. applied[q] > 0 /\ work[q] \notin {"applied", "ok"} => Trouble
    BY DEF Adjusted, IsAdjusted
  <2>4. work[q] \in {"running", "calling"} /\ applied[q] > 0 => Trouble'
    BY <1>1, <2>3
  <2>5. work[q] # "ok"
    BY <1>3 DEF Busy
  <2> QED BY <1>1, <1>2, <2>1, <2>2, <2>3, <2>5, AsksFacts, HandlerEffects DEF Adjusted, IsAdjusted
<1>9. IsMailed(q)'
  <2>1. Asks(q, "create")' <=> Asks(q, "create")
    BY <1>2 DEF Asks
  <2>2. UNCHANGED <<phase, stopped>>
    BY HandlerFacts
  <2>3. work[q] = "stored" /\ phase[server[q]] = "exit" => Trouble'
    <3>1. work[q] = "stored" => q \notin Grpc
      BY AsksFacts DEF Mailed, IsMailed
    <3>2. server[q] # Nobody
      BY <1>3, ReplicasAssumption
    <3>3. work[q] = "stored" /\ phase[server[q]] = "exit" => expired
      BY <1>3, <3>1, <3>2 DEF Drained, IsDrained, LateIsExpired
    <3> QED BY <1>1, <3>3 DEF Trouble
  <2>4. mail'[q] # mail[q] => q \in rows /\ mail'[q] \in Replicas
                              /\ (phase'[mail'[q]] = "exit" => Trouble')
    BY <1>3, <1>4, <2>2, <2>3 DEF Mailed, IsMailed
  <2>5. work'[q] = "stored" => q \in rows' /\ Asks(q, "create")
    BY <1>3, HandlerEffects DEF Busy
  <2>6. Asks(q, "create") /\ work'[q] = "ok" => mail'[q] \in Replicas
    BY <1>3, AsksFacts, HandlerEffects DEF Adjusted, IsAdjusted, RequestsTypeOK
  <2> QED BY <1>1, <1>4, <2>1, <2>2, <2>4, <2>5, <2>6 DEF Mailed, IsMailed
<1> QED BY <1>1, <1>2, <1>4, <1>5, <1>6, <1>7, <1>8, <1>9, HandlerFacts, RequestStep

LEMMA MailStep ==
    ASSUME RequestsInv, NEW q \in Works, SendWelcomeEmail(q)
    PROVE  RequestsInv'
<1> USE DEF RequestsInv
<1>1. /\ mail[q] \in Replicas
      /\ \/ mail' = [mail EXCEPT ![q] = "sent"]
         \/ mail' = [mail EXCEPT ![q] = "lost"] /\ (phase[mail[q]] = "exit" \/ Fault)
      /\ Fault \/ UNCHANGED faults
      /\ UNCHANGED <<phase, late, expired, workVars, asks, tries, applied, rows, stopped>>
  BY DEF SendWelcomeEmail
<1>2. TroubleStays /\ (Fault => Trouble') /\ (Trouble => Trouble')
  BY <1>1, FaultCounts, ReplicasAssumption DEF Trouble, TroubleStays, RequestsTypeOK
<1>3. /\ \A p \in Works \ {q} : mail'[p] = mail[p]
      /\ mail'[q] = "sent" \/ (mail'[q] = "lost" /\ (stopped \/ Trouble'))
  BY <1>1, <1>2 DEF Mailed, IsMailed, RequestsTypeOK
<1>4. RequestsTypeOK'
  <2>1. faults' \in 0..MaxFaults
    BY <1>2, ReplicasAssumption DEF RequestsTypeOK, TroubleStays
  <2> QED BY <1>1, <2>1 DEF RequestsTypeOK, workVars
<1>5. IsServed(q)' /\ IsDrained(q)' /\ IsTried(q)'
  BY <1>1 DEF Served, IsServed, Drained, IsDrained, Tried, IsTried, workVars
<1>6. IsAdjusted(q)'
  BY <1>1, <1>2 DEF Adjusted, IsAdjusted, Asks, CanAdjust, Sender, workVars
<1>7. IsMailed(q)'
  BY <1>1, <1>2, <1>3, PeersAssumption DEF Mailed, IsMailed, Asks, workVars
<1> QED BY <1>1, <1>2, <1>3, <1>4, <1>5, <1>6, <1>7, RequestStep DEF workVars

LEMMA RequestsInvInit == Init => RequestsInv
<1> SUFFICES ASSUME Init PROVE RequestsInv
  OBVIOUS
<1> USE DEF Init, LifeInit
<1>1. RequestsTypeOK
  <2>1. faults \in 0..MaxFaults
    BY ReplicasAssumption
  <2> QED BY <2>1 DEF RequestsTypeOK
<1>2. Served /\ Drained /\ Mailed
  BY DEF Served, IsServed, Drained, IsDrained, LateIsExpired, Mailed, IsMailed, Busy
<1>3. Tried /\ Adjusted
  BY PeersAssumption DEF Tried, IsTried, Adjusted, IsAdjusted
<1> QED BY <1>1, <1>2, <1>3 DEF RequestsInv

LEMMA RequestsInvStep ==
    ASSUME RequestsInv, SchemaInv, [Next]_vars
    PROVE  RequestsInv'
<1>1. RequestsTypeOK /\ SchemaTypeOK
  BY DEF RequestsInv, SchemaInv
<1>a. \A r \in Replicas : \A x : phase' = [phase EXCEPT ![r] = x]
         => phase'[r] = x /\ \A s \in Replicas \ {r} : phase'[s] = phase[s]
  BY <1>1 DEF SchemaTypeOK
<1>2. ASSUME NEW r \in Replicas, UNCHANGED peerVars,
             Launch(r) \/ Starts(r) \/ SessionLost(r) \/ Terminate(r) \/ HTTPShutdown(r)
      PROVE  RequestsInv'
  <2>1. /\ Fault \/ UNCHANGED faults
        /\ UNCHANGED <<late, expired, workVars>>
    BY <1>2 DEF Launch, Starts, NewPostgres, NewRedis, Connect, AcquireLock, ReadApplied, Apply,
       Record, Commit, LeaveLoop, Unlock, SessionLost, Terminate, HTTPShutdown
  <2>2. \A s \in Replicas :
              \/ phase'[s] = phase[s]
              \/ phase[s] \notin {"serving"} \cup Stopping /\ phase'[s] \notin Stopping
              \/ phase[s] = "serving" /\ phase'[s] = "http"
              \/ /\ phase[s] = "http" /\ phase'[s] = "grpc"
                 /\ late[s] \/ InFlight(s, Works \ Grpc) = {}
    <3> USE <1>a DEF GoTo, Stopping
    <3>1. CASE Launch(r) \/ Terminate(r) \/ HTTPShutdown(r) \/ SessionLost(r)
      BY <3>1 DEF Launch, Terminate, Serving, HTTPShutdown, SessionLost
    <3>2. CASE NewPostgres(r) \/ NewRedis(r) \/ AcquireLock(r) \/ ReadApplied(r) \/ Apply(r)
      BY <3>2 DEF NewPostgres, NewRedis, Connect, AcquireLock, ReadApplied, Apply
    <3>3. CASE Record(r) \/ Commit(r) \/ LeaveLoop(r) \/ Unlock(r)
      BY <3>3 DEF Record, Commit, LeaveLoop, Unlock, GiveUp
    <3> QED BY <1>2, <3>1, <3>2, <3>3 DEF Starts
  <2> QED BY <1>1, <1>2, <2>1, <2>2, FaultCounts, LifeStep
<1>3. ASSUME NEW r \in Replicas, Lives(r) PROVE RequestsInv'
  BY <1>1, <1>2, <1>3, ExpireStep, GRPCShutdownStep DEF Lives, Stops
<1>4. ASSUME NEW r \in Replicas, Close(r) PROVE RequestsInv'
  <2> DEFINE Q == {q \in InFlight(r, Works) : work[q] \in {"calling", "applied", "refused"}}
  <2>1. /\ Q \in SUBSET InFlight(r, Works) /\ Cut(Q) /\ Interrupted(Q)
        /\ phase[r] = "close" /\ phase' = [phase EXCEPT ![r] = "exit"]
        /\ stopped' = (stopped \/ \E q \in Works : mail[q] = r)
        /\ UNCHANGED <<late, faults, expired, asks, tries, rows, mail>>
    BY <1>4 DEF Close, CanClose, GoTo
  <2>2. TroubleStays
    BY <1>1, <2>1, FaultCounts
  <2> QED BY <1>1, <2>1, <2>2, EndStep
<1>5. ASSUME NEW r \in Replicas, Ends(r) PROVE RequestsInv'
  <2>1. /\ Cut(InFlight(r, Works)) /\ phase[r] = "exit"
        /\ phase' = [phase EXCEPT ![r] = "off"] /\ late' = [late EXCEPT ![r] = FALSE]
        /\ Unsent(r)
        /\ UNCHANGED <<faults, expired, asks, tries, applied, rows, stopped>>
    BY <1>5 DEF Ends, Exit, GoTo
  <2>2. TroubleStays
    BY <1>1, <2>1, FaultCounts
  <2> QED BY <1>1, <2>1, <2>2, EndStep
<1>6. ASSUME NEW r \in Replicas, Dies(r) PROVE RequestsInv'
  <2>1. /\ Cut(InFlight(r, Works)) /\ Interrupted(InFlight(r, Works)) /\ Fault
        /\ phase' = [phase EXCEPT ![r] = "off"] /\ late' = [late EXCEPT ![r] = FALSE]
        /\ Unsent(r)
        /\ UNCHANGED <<expired, asks, tries, rows, stopped>>
    BY <1>6 DEF Dies, Crash, GoTo
  <2>2. TroubleStays /\ faults' > 0
    BY <1>1, <2>1, FaultCounts
  <2> QED BY <1>1, <2>1, <2>2, EndStep
<1>7. CASE UNCHANGED vars
  <2>1. TroubleStays
    BY <1>1, <1>7, FaultCounts DEF vars, lifeVars
  <2> QED BY <1>1, <1>7, <2>1, LifeStep DEF vars, lifeVars
<1>8. ASSUME Reap, UNCHANGED peerVars PROVE RequestsInv'
  <2>1. TroubleStays
    BY <1>1, <1>8, FaultCounts DEF Reap
  <2> QED BY <1>1, <1>8, <2>1, LifeStep DEF Reap
<1> QED
  BY <1>3, <1>4, <1>5, <1>6, <1>7, <1>8, SendStep, HandlerStep, MailStep DEF Next

-----------------------------------------------------------------------------
(* The theorems.                                                           *)

\* The invariant of the migrations holds in every reachable state.
THEOREM MigrationsInvariant == Spec => []SchemaInv
BY SchemaInvInit, SchemaInvStep, PTL DEF Spec

\* Up (migrate.go): each file takes effect once, in order, with its record,
\* whatever dies when.
THEOREM MigrationsOnceInOrder == Spec => []MigratedOnceInOrder
<1>1. SchemaInv => MigratedOnceInOrder
  BY DEF SchemaInv
<1>2. QED
  BY <1>1, MigrationsInvariant, PTL

\* New (app.go): nothing is served before the schema of the build is there.
THEOREM ServedAfterMigrations == Spec => []ServesMigrated
<1>1. SchemaInv => ServesMigrated
  BY ReplicasAssumption DEF SchemaInv, PastMigration, Migrated, ServesMigrated
<1>2. QED
  BY <1>1, MigrationsInvariant, PTL

\* Up: the lock keeps replicas from failing over each other's migrations.
THEOREM ReplicasStartTogether == Spec => []StartsTogether
<1>1. SchemaInv => StartsTogether
  BY DEF SchemaInv
<1>2. QED
  BY <1>1, MigrationsInvariant, PTL

\* The invariant of the requests, of their points, accounts and mails.
THEOREM RequestsInvariant == Spec => []RequestsInv
<1>1. Init => RequestsInv
  BY RequestsInvInit
<1>2. SchemaInv /\ RequestsInv /\ [Next]_vars => RequestsInv'
  BY RequestsInvStep
<1> QED BY <1>1, <1>2, MigrationsInvariant, PTL DEF Spec

LEMMA WhoMayAdjust ==
    ASSUME NEW role, CheckPermission([role |-> role, active |-> TRUE], "customer.adjust")
    PROVE  role \in {"restaurant_manager", "regional_manager", "super_admin"}
<1>1. role \in {"super_admin", "regional_manager", "restaurant_manager", "shift_manager", "cashier"}
  BY DEF CheckPermission, IsValid, Level
<1>2. "customer.adjust" \notin ShiftManagerPermissions
  BY DEF ShiftManagerPermissions, CashierPermissions
<1>3. RolePermissions("shift_manager") = ShiftManagerPermissions
      /\ RolePermissions("cashier") = CashierPermissions
      /\ CashierPermissions \subseteq ShiftManagerPermissions
  BY DEF RolePermissions, ShiftManagerPermissions
<1> QED BY <1>1, <1>2, <1>3 DEF CheckPermission

LEMMA PeersInvHolds == ASSUME SchemaInv, RequestsInv PROVE PeersInv
<1> USE DEF SchemaInv, RequestsInv
<1>1. TypeOK
  <2>1. LifeTypeOK
    BY DEF LifeTypeOK, SchemaTypeOK, TxnHeld, Phases, RequestsTypeOK, StartsTogether
  <2>2. \A q \in Works : tries[q] \in 0..Tries[q] /\ applied[q] \in 0..tries[q]
    BY PeersAssumption DEF Tried, IsTried, RequestsTypeOK
  <2>3. \A q \in Works : server[q] # Nobody =>
            work[q] \notin {"waiting", "ok", "error"}
            /\ phase[server[q]] \in {"serving"} \cup Stopping
    BY DEF Served, IsServed, Busy
  <2>4. work \in [Works -> {"waiting", "running", "calling", "applied", "refused", "stored",
                           "ok", "error"}]
    BY DEF RequestsTypeOK, Busy
  <2> QED BY <2>1, <2>2, <2>3, <2>4 DEF TypeOK, RequestsTypeOK
<1>2. AppliedIfAnswered
  BY WhoMayAdjust DEF Adjusted, IsAdjusted, AppliedIfAnswered, CanAdjust, Sender
<1>3. TwiceNeedsFault
  BY DEF Adjusted, IsAdjusted, TwiceNeedsFault, Trouble, RequestsTypeOK
<1>4. MailLostByStop
  BY DEF Mailed, IsMailed, MailLostByStop, Trouble
<1> QED BY <1>1, <1>2, <1>3, <1>4 DEF PeersInv

\* An answer with success is true, an adjustment counts twice and a mail is lost
\* only with a fault or a stop to blame, whatever is sent again and whatever stops.
THEOREM PeersSound == Spec => []PeersInv
<1>1. SchemaInv /\ RequestsInv => PeersInv
  BY PeersInvHolds
<1> QED BY <1>1, MigrationsInvariant, RequestsInvariant, PTL

\* Shutdown (app.go), step by step.
LEMMA CutIsLate ==
    ASSUME SchemaTypeOK, RequestsInv, [Next]_vars, NEW q \in Works, NEW r \in Replicas,
           server[q] = r, phase[r] \in Stopping, phase'[r] # phase[r], work'[q] = "error"
    PROVE  late[r] \/ faults' > faults
<1> USE DEF RequestsInv
<1>1. /\ work[q] # "error" /\ faults \in Nat
      /\ IF q \in Grpc THEN phase[r] \notin {"close", "exit"}
         ELSE phase[r] \in {"grpc", "close", "exit"} => late[r]
  <2>1. server[q] # Nobody
    BY ReplicasAssumption
  <2>2. work[q] # "error"
    BY <2>1 DEF Served, IsServed, Busy
  <2>3. IF q \in Grpc THEN phase[r] \notin {"close", "exit"}
        ELSE phase[r] \in {"grpc", "close", "exit"} => late[r]
    BY <2>1 DEF Drained, IsDrained
  <2>4. faults \in Nat
    BY ReplicasAssumption DEF RequestsTypeOK
  <2> QED BY <2>2, <2>3, <2>4
<1>a. \A s \in Replicas : \A x : phase' = [phase EXCEPT ![s] = x] => s = r
  BY DEF SchemaTypeOK
<1>2. ASSUME NEW s \in Replicas, Lives(s) PROVE late[r] \/ faults' > faults
  <2>1. CASE Launch(s) \/ Terminate(s) \/ HTTPShutdown(s) \/ SessionLost(s) \/ Expire(s)
    BY <1>1, <1>a, <2>1 DEF Launch, Terminate, HTTPShutdown, SessionLost, Expire, GoTo, workVars
  <2>2. CASE Starts(s)
    BY <1>1, <2>2 DEF Starts, NewPostgres, NewRedis, Connect, AcquireLock, ReadApplied, Apply,
       Record, Commit, LeaveLoop, Unlock, workVars
  <2>3. CASE GRPCShutdown(s)
    <3>1. s = r /\ phase[r] = "grpc" /\ GracefulStop(r) /\ Cut(InFlight(r, Grpc))
      BY <1>a, <2>3 DEF GRPCShutdown, GoTo
    <3>2. q \in Grpc => late[r]
      BY <3>1 DEF GracefulStop, InFlight
    <3> QED BY <1>1, <3>1, <3>2
  <2> QED BY <1>2, <2>1, <2>2, <2>3 DEF Lives, Stops
<1>3. ASSUME NEW s \in Replicas, Close(s) \/ Ends(s) PROVE late[r] \/ faults' > faults
  BY <1>1, <1>3, <1>a DEF Close, CanClose, Ends, Exit, GoTo
<1>4. ASSUME NEW s \in Replicas, Dies(s) PROVE faults' > faults
  BY <1>1, <1>4 DEF Dies, Crash, Fault
<1>5. ASSUME NEW p \in Works, Send(p) \/ Handles(p) PROVE phase' = phase
  BY <1>5, HandlerFacts DEF Send, SendWelcomeEmail, lifeVars
<1>6. CASE Reap \/ UNCHANGED vars
  BY <1>6 DEF Reap, vars, lifeVars
<1> QED BY <1>2, <1>3, <1>4, <1>5, <1>6 DEF Next

\* The HTTP server, the gRPC server and the clients stop in that order, each
\* when its requests are answered: only a timeout or a fault cuts one off.
THEOREM OrderlyStopsCutNothing == Spec => CutOnlyLate
<1>1. SchemaInv /\ RequestsInv /\ [Next]_vars
        => [\A q \in Works, r \in Replicas :
              /\ server[q] = r
              /\ phase[r] \in Stopping /\ phase'[r] # phase[r] /\ work'[q] = "error"
              => late[r] \/ faults' > faults]_vars
  BY CutIsLate DEF SchemaInv
<1> QED BY <1>1, MigrationsInvariant, RequestsInvariant, PTL DEF Spec, CutOnlyLate

-----------------------------------------------------------------------------
(* The requests that change regions and restaurants.                       *)

\* Who may change a row.
Manages(user, r) ==
    \/ user.role = "super_admin"
    \/ /\ user.role = "regional_manager"
       /\ r \in Restaurants /\ user.region = RegionOf[r]

\* What is left of a script once its scope was checked, and before.
CheckedScripts(r) ==
    IF r \in Regions THEN {<<"insert">>, <<"load", "write">>, <<"write">>, <<"remove">>}
    ELSE {<<"region", "insert">>, <<"insert">>, <<"write", "reload">>, <<"reload">>,
          <<"remove">>}

UncheckedScripts ==
    {<<"load", "scope", "write", "reload">>, <<"scope", "write", "reload">>,
     <<"load", "scope", "remove">>, <<"scope", "remove">>}

\* A request has its scope behind it when it comes to its write.
Scripted(q) ==
    IF outcome[q] = "running"
    THEN \/ todo[q] \in CheckedScripts(req[q].on) /\ Manages(Actor(q), req[q].on)
         \/ todo[q] \in UncheckedScripts /\ req[q].on \in Restaurants
    ELSE todo[q] = <<>>

OrgSound ==
    /\ table \in [Rows -> Row] /\ req \in [Requests -> Request]
    /\ outcome \in [Requests -> {"idle", "running", "ok", "refused", "failed"}]
    /\ todo = [q \in Requests |-> todo[q]]
    /\ loaded \in [Requests -> Row]
    /\ \A q \in Requests : Scripted(q)

\* Only managers have the permissions to change restaurants and to read regions.
LEMMA ManagersOnly ==
    ASSUME NEW user, user.role \in Roles,
           NEW permission \in {"restaurant.create", "restaurant.update", "restaurant.delete",
                               "region.read"},
           CheckPermission(user, permission)
    PROVE  user.role \in {"super_admin", "regional_manager"}
BY DEF CheckPermission, RolePermissions, SuperAdminPermissions, RegionalManagerPermissions,
   RestaurantManagerPermissions, ShiftManagerPermissions, CashierPermissions, Roles

LEMMA ActorTyped ==
    ASSUME NEW q \in Requests, OrgSound
    PROVE  /\ req[q] \in Request /\ req[q].on \in Rows /\ Actor(q) \in Account
           /\ Actor(q).role \in Roles
BY TablesAssumption DEF OrgSound, Request, Actor, Account

\* The change of a restaurant that CheckScope allows is within the scope.
LEMMA AllowedManages ==
    ASSUME NEW user \in Account, NEW s \in Restaurants,
           \/ CanUpdateRestaurant(user, s) \/ CanDeleteRestaurant(user, s)
           \/ CanCreateRestaurant(user, RegionOf[s])
    PROVE  Manages(user, s)
<1>1. user.role \in {"super_admin", "regional_manager"}
  BY ManagersOnly DEF Account, CanUpdateRestaurant, CanDeleteRestaurant, CanCreateRestaurant
<1> QED BY <1>1 DEF Manages, CanUpdateRestaurant, CanDeleteRestaurant, CanCreateRestaurant,
       CanAccessRestaurant, RestaurantRoles

\* A script of up to four steps: its first step, and the rest.
LEMMA FirstAndRest ==
    ASSUME NEW a, NEW b, NEW c, NEW d
    PROVE  /\ Head(<<a>>) = a /\ Tail(<<a>>) = <<>> /\ Len(<<a>>) = 1
           /\ Head(<<a, b>>) = a /\ Tail(<<a, b>>) = <<b>> /\ Len(<<a, b>>) = 2
           /\ Head(<<a, b, c>>) = a /\ Tail(<<a, b, c>>) = <<b, c>> /\ Len(<<a, b, c>>) = 3
           /\ Head(<<a, b, c, d>>) = a /\ Tail(<<a, b, c, d>>) = <<b, c, d>>
           /\ Len(<<a, b, c, d>>) = 4
<1>1. Head(<<a>>) = a /\ Len(<<a>>) = 1
  OBVIOUS
<1>2. Tail(<<a>>) = <<>>
  OBVIOUS
<1>3. Head(<<a, b>>) = a /\ Len(<<a, b>>) = 2
  OBVIOUS
<1>4. Tail(<<a, b>>) = <<b>>
  OBVIOUS
<1>5. Head(<<a, b, c>>) = a /\ Len(<<a, b, c>>) = 3
  OBVIOUS
<1>6. Tail(<<a, b, c>>) = <<b, c>>
  OBVIOUS
<1>7. Head(<<a, b, c, d>>) = a /\ Len(<<a, b, c, d>>) = 4
  OBVIOUS
<1>8. Tail(<<a, b, c, d>>) = <<b, c, d>>
  OBVIOUS
<1> QED BY <1>1, <1>2, <1>3, <1>4, <1>5, <1>6, <1>7, <1>8

LEMMA ScriptFacts ==
    ASSUME NEW r \in Rows, NEW s \in CheckedScripts(r) \cup UncheckedScripts
    PROVE  /\ s # <<>> /\ s # Tail(s)
           /\ Len(s) = 1 <=> Tail(s) = <<>>
           /\ s \in CheckedScripts(r) =>
                 /\ Tail(s) = <<>> \/ Tail(s) \in CheckedScripts(r)
                 /\ Head(s) # "scope" /\ (r \in Restaurants /\ r \notin Regions => Head(s) # "load")
           /\ s \in UncheckedScripts =>
                 /\ Head(s) \in {"load", "scope"}
                 /\ Tail(s) # <<>>
                 /\ Head(s) = "load" => Tail(s) \in UncheckedScripts
                 /\ Head(s) = "scope" => Tail(s) \in {<<"write", "reload">>, <<"remove">>}
<1>1. CASE s = <<"load", "scope", "write", "reload">>
  <2>1. Head(s) = "load" /\ Len(s) = 4 /\ Tail(s) = <<"scope", "write", "reload">>
    BY <1>1, FirstAndRest
  <2>2. s # Tail(s) /\ s # <<>> /\ (Tail(s) = <<>> <=> Len(s) = 1)
    BY <1>1, <2>1
  <2> QED BY <1>1, <2>1, <2>2 DEF CheckedScripts, UncheckedScripts
<1>2. CASE s = <<"scope", "write", "reload">>
  <2>1. Head(s) = "scope" /\ Len(s) = 3 /\ Tail(s) = <<"write", "reload">>
    BY <1>2, FirstAndRest
  <2>2. s # Tail(s) /\ s # <<>> /\ (Tail(s) = <<>> <=> Len(s) = 1)
    BY <1>2, <2>1
  <2> QED BY <1>2, <2>1, <2>2 DEF CheckedScripts, UncheckedScripts
<1>3. CASE s = <<"load", "scope", "remove">>
  <2>1. Head(s) = "load" /\ Len(s) = 3 /\ Tail(s) = <<"scope", "remove">>
    BY <1>3, FirstAndRest
  <2>2. s # Tail(s) /\ s # <<>> /\ (Tail(s) = <<>> <=> Len(s) = 1)
    BY <1>3, <2>1
  <2> QED BY <1>3, <2>1, <2>2 DEF CheckedScripts, UncheckedScripts
<1>4. CASE s = <<"scope", "remove">>
  <2>1. Head(s) = "scope" /\ Len(s) = 2 /\ Tail(s) = <<"remove">>
    BY <1>4, FirstAndRest
  <2>2. s # Tail(s) /\ s # <<>> /\ (Tail(s) = <<>> <=> Len(s) = 1)
    BY <1>4, <2>1
  <2> QED BY <1>4, <2>1, <2>2 DEF CheckedScripts, UncheckedScripts
<1>5. CASE s = <<"insert">>
  <2>1. Head(s) = "insert" /\ Len(s) = 1 /\ Tail(s) = <<>>
    BY <1>5, FirstAndRest
  <2>2. s # Tail(s) /\ s # <<>> /\ (Tail(s) = <<>> <=> Len(s) = 1)
    BY <1>5, <2>1
  <2> QED BY <1>5, <2>1, <2>2 DEF CheckedScripts, UncheckedScripts
<1>6. CASE s = <<"load", "write">>
  <2>1. Head(s) = "load" /\ Len(s) = 2 /\ Tail(s) = <<"write">>
    BY <1>6, FirstAndRest
  <2>2. s # Tail(s) /\ s # <<>> /\ (Tail(s) = <<>> <=> Len(s) = 1)
    BY <1>6, <2>1
  <2> QED BY <1>6, <2>1, <2>2 DEF CheckedScripts, UncheckedScripts
<1>7. CASE s = <<"write">>
  <2>1. Head(s) = "write" /\ Len(s) = 1 /\ Tail(s) = <<>>
    BY <1>7, FirstAndRest
  <2>2. s # Tail(s) /\ s # <<>> /\ (Tail(s) = <<>> <=> Len(s) = 1)
    BY <1>7, <2>1
  <2> QED BY <1>7, <2>1, <2>2 DEF CheckedScripts, UncheckedScripts
<1>8. CASE s = <<"remove">>
  <2>1. Head(s) = "remove" /\ Len(s) = 1 /\ Tail(s) = <<>>
    BY <1>8, FirstAndRest
  <2>2. s # Tail(s) /\ s # <<>> /\ (Tail(s) = <<>> <=> Len(s) = 1)
    BY <1>8, <2>1
  <2> QED BY <1>8, <2>1, <2>2 DEF CheckedScripts, UncheckedScripts
<1>9. CASE s = <<"region", "insert">>
  <2>1. Head(s) = "region" /\ Len(s) = 2 /\ Tail(s) = <<"insert">>
    BY <1>9, FirstAndRest
  <2>2. s # Tail(s) /\ s # <<>> /\ (Tail(s) = <<>> <=> Len(s) = 1)
    BY <1>9, <2>1
  <2> QED BY <1>9, <2>1, <2>2 DEF CheckedScripts, UncheckedScripts
<1>10. CASE s = <<"write", "reload">>
  <2>1. Head(s) = "write" /\ Len(s) = 2 /\ Tail(s) = <<"reload">>
    BY <1>10, FirstAndRest
  <2>2. s # Tail(s) /\ s # <<>> /\ (Tail(s) = <<>> <=> Len(s) = 1)
    BY <1>10, <2>1
  <2> QED BY <1>10, <2>1, <2>2 DEF CheckedScripts, UncheckedScripts
<1>11. CASE s = <<"reload">>
  <2>1. Head(s) = "reload" /\ Len(s) = 1 /\ Tail(s) = <<>>
    BY <1>11, FirstAndRest
  <2>2. s # Tail(s) /\ s # <<>> /\ (Tail(s) = <<>> <=> Len(s) = 1)
    BY <1>11, <2>1
  <2> QED BY <1>11, <2>1, <2>2 DEF CheckedScripts, UncheckedScripts
<1> QED BY <1>1, <1>2, <1>3, <1>4, <1>5, <1>6, <1>7, <1>8, <1>9, <1>10, <1>11 DEF CheckedScripts, UncheckedScripts

\* What a request that takes one step leaves of its script.
LEMMA StepOfScript ==
    ASSUME NEW q \in Requests, NEW ok \in BOOLEAN, OrgSound, outcome[q] = "running",
           Decide(q, ok), UNCHANGED req,
           Head(todo[q]) = "scope" /\ ok => Manages(Actor(q), req[q].on)
    PROVE  /\ outcome' \in [Requests -> {"idle", "running", "ok", "refused", "failed"}]
           /\ todo' = [r \in Requests |-> todo'[r]] /\ todo'[q] # todo[q]
           /\ \A r \in Requests : Scripted(r)'
<1>1. /\ todo' = [todo EXCEPT ![q] = IF ok THEN Tail(@) ELSE <<>>]
      /\ outcome' = [outcome EXCEPT ![q] = IF ~ok THEN "refused"
                                           ELSE IF Len(todo[q]) = 1 THEN "ok" ELSE @]
  BY DEF Decide
<1>2. ASSUME NEW r \in Requests, r # q PROVE Scripted(r)'
  BY <1>1, <1>2 DEF Scripted, OrgSound, Actor
<1>3. PICK on \in Rows, s \in {todo[q]}, u \in {Actor(q)} : on = req[q].on
  BY ActorTyped
<1> DEFINE rest == IF ok THEN Tail(s) ELSE <<>>
           end == IF ~ok THEN "refused" ELSE IF Len(s) = 1 THEN "ok" ELSE "running"
<1>4. /\ todo'[q] = rest /\ outcome'[q] = end /\ req'[q].on = on /\ Actor(q)' = u
      /\ todo' = [r \in Requests |-> todo'[r]]
      /\ outcome' \in [Requests -> {"idle", "running", "ok", "refused", "failed"}]
  BY <1>1, <1>3 DEF OrgSound, Actor
<1>5. \/ s \in CheckedScripts(on) /\ Manages(u, on)
      \/ s \in UncheckedScripts /\ on \in Restaurants
  BY <1>3 DEF OrgSound, Scripted
<1>6. Head(s) = "scope" /\ ok => Manages(u, on)
  BY <1>3
<1>7. s # <<>> /\ s # Tail(s) /\ (Len(s) = 1 <=> Tail(s) = <<>>)
  BY <1>5, ScriptFacts
<1>8. IF end = "running"
      THEN \/ rest \in CheckedScripts(on) /\ Manages(u, on)
           \/ rest \in UncheckedScripts /\ on \in Restaurants
      ELSE rest = <<>>
  <2>1. CASE s \in CheckedScripts(on) /\ Manages(u, on)
    BY <1>7, <2>1, ScriptFacts
  <2>2. CASE s \in UncheckedScripts /\ on \in Restaurants
    <3>1. <<"write", "reload">> \in CheckedScripts(on) /\ <<"remove">> \in CheckedScripts(on)
      BY <2>2, TablesAssumption DEF CheckedScripts
    <3> QED BY <1>6, <1>7, <2>2, <3>1, ScriptFacts
  <2> QED BY <1>5, <2>1, <2>2
<1>9. rest # s
  BY <1>7
<1> HIDE DEF rest, end
<1>10. Scripted(q)'
  BY <1>4, <1>8 DEF Scripted
<1>11. todo'[q] # todo[q]
  BY <1>3, <1>4, <1>9
<1> QED BY <1>2, <1>4, <1>10, <1>11

\* What a step of a request may do to the tables.
OrgEffect(q) ==
    /\ req' = req
    /\ \A r \in Rows : table'[r] # table[r] =>
          /\ r = req[q].on /\ Manages(Actor(q), r) /\ todo'[q] # todo[q]
          /\ table[r].state # "deleted"

LEMMA Arrives ==
    ASSUME NEW q \in Requests, OrgSound,
           \/ PostRegion(q) \/ PutRegion(q) \/ DropRegion(q)
           \/ PostRestaurant(q) \/ PutRestaurant(q) \/ DropRestaurant(q)
    PROVE  OrgSound' /\ table' = table /\ req' = req
<1>1. PICK all \in {Regions, Restaurants}, allowed \in BOOLEAN,
           script \in {CreateRegion, UpdateRegion, DeleteRegion,
                       CreateRestaurant, UpdateRestaurant, DeleteRestaurant} :
        /\ \E op : Arrive(q, all, op, allowed, script)
        /\ allowed => \/ script \in CheckedScripts(req[q].on) /\ Manages(Actor(q), req[q].on)
                      \/ script \in UncheckedScripts /\ req[q].on \in Restaurants
  <2>1. CASE PostRegion(q) \/ PutRegion(q) \/ DropRegion(q)
    <3>1. \E op \in {"create", "update", "delete"}, allowed \in BOOLEAN,
             script \in {CreateRegion, UpdateRegion, DeleteRegion} :
             /\ Arrive(q, Regions, op, allowed, script)
             /\ allowed => Actor(q).role = "super_admin"
      <4>1. CASE PostRegion(q)
        <5>1. Arrive(q, Regions, "create", CanCreateRegion(Actor(q)), CreateRegion)
          BY <4>1 DEF PostRegion
        <5>2. /\ CanCreateRegion(Actor(q)) \in BOOLEAN
              /\ CanCreateRegion(Actor(q)) => Actor(q).role = "super_admin"
          BY DEF CanCreateRegion
        <5> QED BY <5>1, <5>2
      <4>2. CASE PutRegion(q)
        <5>1. Arrive(q, Regions, "update", CanUpdateRegion(Actor(q)), UpdateRegion)
          BY <4>2 DEF PutRegion
        <5>2. /\ CanUpdateRegion(Actor(q)) \in BOOLEAN
              /\ CanUpdateRegion(Actor(q)) => Actor(q).role = "super_admin"
          BY DEF CanUpdateRegion
        <5> QED BY <5>1, <5>2
      <4>3. CASE DropRegion(q)
        <5>1. Arrive(q, Regions, "delete", CanDeleteRegion(Actor(q)), DeleteRegion)
          BY <4>3 DEF DropRegion
        <5>2. /\ CanDeleteRegion(Actor(q)) \in BOOLEAN
              /\ CanDeleteRegion(Actor(q)) => Actor(q).role = "super_admin"
          BY DEF CanDeleteRegion
        <5> QED BY <5>1, <5>2
      <4> QED BY <2>1, <4>1, <4>2, <4>3
    <3>2. req[q].on \in Regions
      BY <3>1 DEF Arrive
    <3>3. {CreateRegion, UpdateRegion, DeleteRegion} \subseteq CheckedScripts(req[q].on)
      BY <3>2 DEF CheckedScripts, CreateRegion, UpdateRegion, DeleteRegion
    <3> QED BY <3>1, <3>3 DEF Manages
  <2>2. CASE PostRestaurant(q)
    <3>1. /\ Arrive(q, Restaurants, "create", CanCreateRestaurant(Actor(q), RegionOf[req[q].on]),
                    CreateRestaurant)
          /\ req[q].on \in Restaurants /\ req[q].on \notin Regions
      BY <2>2, TablesAssumption DEF PostRestaurant
    <3>2. CreateRestaurant \in CheckedScripts(req[q].on)
      BY <3>1 DEF CheckedScripts, CreateRestaurant
    <3>3. CanCreateRestaurant(Actor(q), RegionOf[req[q].on]) => Manages(Actor(q), req[q].on)
      BY <3>1, ActorTyped, AllowedManages
    <3>4. CanCreateRestaurant(Actor(q), RegionOf[req[q].on]) \in BOOLEAN
      BY DEF CanCreateRestaurant
    <3> QED BY <3>1, <3>2, <3>3, <3>4
  <2>3. CASE PutRestaurant(q) \/ DropRestaurant(q)
    <3>1. \E op \in {"create", "update", "delete"}, script \in {UpdateRestaurant, DeleteRestaurant} :
             Arrive(q, Restaurants, op, TRUE, script)
      <4>1. \/ Arrive(q, Restaurants, "update", TRUE, UpdateRestaurant)
            \/ Arrive(q, Restaurants, "delete", TRUE, DeleteRestaurant)
        BY <2>3 DEF PutRestaurant, DropRestaurant
      <4> QED BY <4>1
    <3>2. req[q].on \in Restaurants
      BY <3>1 DEF Arrive
    <3>3. {UpdateRestaurant, DeleteRestaurant} \subseteq UncheckedScripts
      BY DEF UncheckedScripts, UpdateRestaurant, DeleteRestaurant
    <3> QED BY <3>1, <3>3, <3>2
  <2> QED BY <2>1, <2>2, <2>3
<1>2. /\ outcome' = [outcome EXCEPT ![q] = IF allowed THEN "running" ELSE "refused"]
      /\ todo' = [todo EXCEPT ![q] = IF allowed THEN script ELSE <<>>]
      /\ table' = table /\ req' = req /\ loaded' = loaded
  BY <1>1 DEF Arrive
<1>3. \A r \in Requests : Scripted(r)'
  BY <1>1, <1>2 DEF OrgSound, Scripted, Actor
<1> QED BY <1>2, <1>3 DEF OrgSound

LEMMA Queries ==
    ASSUME NEW q \in Requests, OrgSound,
           \/ RegionExists(q) \/ Load(q) \/ CheckScope(q)
           \/ Insert(q) \/ Write(q) \/ Reload(q) \/ Remove(q)
    PROVE  OrgSound' /\ OrgEffect(q)
<1> USE DEF At
<1>1. PICK on \in Rows : on = req[q].on
  BY ActorTyped
<1>2. CASE RegionExists(q) \/ Reload(q)
  <2>1. PICK ok \in BOOLEAN : Decide(q, ok)
    BY <1>2 DEF RegionExists, Reload, IsLive
  <2>2. /\ UNCHANGED <<table, req, loaded>> /\ outcome[q] = "running" /\ Head(todo[q]) # "scope"
    BY <1>2 DEF RegionExists, Reload
  <2> QED BY <2>1, <2>2, StepOfScript DEF OrgSound, OrgEffect
<1>3. CASE Load(q)
  <2>1. PICK ok \in BOOLEAN : Decide(q, ok)
    BY <1>3 DEF Load, IsLive
  <2>2. /\ UNCHANGED <<table, req>> /\ outcome[q] = "running" /\ Head(todo[q]) # "scope"
        /\ loaded' \in [Requests -> Row]
    BY <1>1, <1>3 DEF Load, OrgSound
  <2> QED BY <2>1, <2>2, StepOfScript DEF OrgSound, OrgEffect
<1>4. CASE CheckScope(q)
  <2>1. PICK ok \in BOOLEAN :
           /\ Decide(q, ok)
           /\ ok => CanUpdateRestaurant(Actor(q), on) \/ CanDeleteRestaurant(Actor(q), on)
    BY <1>1, <1>4 DEF CheckScope, CanUpdateRestaurant, CanDeleteRestaurant
  <2>2. UNCHANGED <<table, req, loaded>> /\ outcome[q] = "running" /\ Head(todo[q]) = "scope"
    BY <1>4 DEF CheckScope
  <2>3. on \in Restaurants
    <3>1. Scripted(q)
      BY DEF OrgSound
    <3>2. \/ todo[q] \in UncheckedScripts /\ on \in Restaurants
          \/ todo[q] \in CheckedScripts(on)
      BY <1>1, <2>2, <3>1 DEF Scripted
    <3> QED BY <1>1, <2>2, <3>2, ScriptFacts
  <2>4. ok => Manages(Actor(q), on)
    BY <2>1, <2>3, ActorTyped, AllowedManages
  <2> QED BY <1>1, <2>1, <2>2, <2>4, StepOfScript DEF OrgSound, OrgEffect
<1>5. CASE Insert(q) \/ Write(q) \/ Remove(q)
  <2>1. PICK ok \in BOOLEAN, row \in Row :
           /\ Decide(q, ok)
           /\ table' = IF ok THEN [table EXCEPT ![on] = row] ELSE table
           /\ ok => table[on].state # "deleted"
    <3>1. /\ table[on] \in Row /\ loaded[q] \in Row /\ req[q].name \in Nat
          /\ req[q].clash \in BOOLEAN
      BY <1>1, ActorTyped DEF OrgSound, Request
    <3>2. NewActive(q) \in BOOLEAN
      BY <3>1 DEF NewActive, Row
    <3>3. CASE Insert(q)
      BY <1>1, <3>1, <3>3 DEF Insert, Row
    <3>4. CASE Write(q)
      <4>1. [table[on] EXCEPT !.active = NewActive(q), !.name = req[q].name] \in Row
        BY <3>1, <3>2 DEF Row
      <4> QED BY <1>1, <3>1, <3>4, <4>1 DEF Write, Writable, IsLive
    <3>5. CASE Remove(q)
      <4>1. [table[on] EXCEPT !.state = "deleted", !.active = FALSE] \in Row
        BY <3>1 DEF Row
      <4> QED BY <1>1, <3>1, <3>5, <4>1 DEF Remove, IsLive
    <3> QED BY <1>5, <3>3, <3>4, <3>5
  <2>2. /\ UNCHANGED <<req, loaded>> /\ outcome[q] = "running"
        /\ Head(todo[q]) \in {"insert", "write", "remove"}
    BY <1>5 DEF Insert, Write, Remove
  <2>3. Manages(Actor(q), on)
    <3>1. Scripted(q)
      BY DEF OrgSound
    <3>2. \/ todo[q] \in UncheckedScripts
          \/ todo[q] \in CheckedScripts(on) /\ Manages(Actor(q), on)
      BY <1>1, <2>2, <3>1 DEF Scripted
    <3> QED BY <2>2, <3>2, ScriptFacts
  <2>4. table' \in [Rows -> Row]
    BY <2>1 DEF OrgSound
  <2>5. OrgSound' /\ todo'[q] # todo[q]
    BY <2>1, <2>2, <2>4, StepOfScript DEF OrgSound
  <2>6. \A r \in Rows : table'[r] # table[r] => r = on /\ table[r].state # "deleted"
    BY <2>1 DEF OrgSound
  <2> QED BY <1>1, <2>2, <2>3, <2>5, <2>6 DEF OrgEffect
<1> QED BY <1>2, <1>3, <1>4, <1>5

LEMMA RequestSteps ==
    ASSUME NEW q \in Requests, OrgSound, Changes(q)
    PROVE  OrgSound' /\ OrgEffect(q)
<1>1. CASE Fail(q)
  <2>1. \A r \in Requests : Scripted(r)'
    BY <1>1 DEF Fail, OrgSound, Scripted, Actor
  <2> QED BY <1>1, <2>1 DEF Fail, OrgSound, OrgEffect
<1>2. CASE ~Fail(q)
  BY <1>2, Arrives, Queries DEF Changes, OrgEffect
<1> QED BY <1>1, <1>2

LEMMA OrgInitSound == ASSUME OrgInit PROVE OrgSound
BY TablesAssumption DEF OrgInit, OrgSound, Scripted, Row

LEMMA OrgTyped == ASSUME OrgSound PROVE OrgTypeOK
<1>1. ASSUME NEW q \in Requests PROVE (outcome[q] = "running") <=> (todo[q] # <<>>)
  BY ScriptFacts, ActorTyped DEF OrgSound, Scripted
<1> QED BY <1>1 DEF OrgSound, OrgTypeOK

-----------------------------------------------------------------------------
(* The readers.  c is a call, u the account, o the restaurant of the order  *)
(* it is about, s what is left of the plan.                                *)

SuperAdminOrRegion(u) ==
    u.role = "super_admin" \/ (u.role = "regional_manager" /\ u.region # None)

PreparedDirectory(c, s) ==
    \/ /\ c.kind = "ListRegions"
       /\ s \in {<<"regions", "restaurants", "answer">>, <<"restaurants", "answer">>,
                 <<"answer">>}
    \/ /\ c.kind = "ListRestaurants"
       /\ s \in {<<"restaurants", "regions", "answer">>, <<"regions", "answer">>,
                 <<"answer">>}
    \/ /\ c.kind = "GetRestaurant"
       /\ s \in {<<"find open", "open region", "answer">>, <<"open region", "answer">>,
                 <<"answer">>}

PreparedStaff(c, u, s) ==
    \/ /\ c.kind = "regions" /\ u.role \in {"super_admin", "regional_manager"}
       /\ s \in {<<"region page", "answer">>, <<"answer">>}
    \/ /\ c.kind = "region" /\ InScope(u, c.at)
       /\ s \in {<<"find", "answer">>, <<"answer">>}
    \/ /\ c.kind = "restaurants"
       /\ \/ s = <<"own", "answer">> /\ u.role \in RestaurantRoles /\ u.restaurant # None
          \/ /\ s = <<"restaurant page", "answer">>
             /\ ~(u.role \in RestaurantRoles /\ u.restaurant # None)
          \/ s = <<"answer">>
    \/ /\ c.kind = "restaurant"
       /\ \/ s = <<"access", "find", "answer">>
          \/ s \in {<<"find", "answer">>, <<"answer">>} /\ InScope(u, c.at)

PreparedOverview(c, u, s) ==
    /\ c.kind \in {"orders", "order stats"}
    /\ \/ c.at \in Restaurants /\ s = <<"access", "find", "orders">>
       \/ c.at \in Restaurants /\ InScope(u, c.at) /\ s \in {<<"find", "orders">>, <<"orders">>}
       \/ /\ c.at = None /\ SuperAdminOrRegion(u)
          /\ s \in {<<"restaurants", "orders">>, <<"orders">>}

PreparedOrder(c, u, o, s) ==
    \/ /\ c.kind = "order"
       /\ \/ s = <<"order", "access", "find", "order answer">>
          \/ s = <<"access", "find", "order answer">> /\ c.at = o
          \/ /\ s \in {<<"find", "order answer">>, <<"order answer">>}
             /\ c.at = o /\ InScope(u, o)
    \/ /\ c.kind = "cancel"
       /\ \/ s = <<"order", "access", "find", "cancel">>
          \/ s = <<"access", "find", "cancel">> /\ c.at = o
          \/ s \in {<<"find", "cancel">>, <<"cancel">>} /\ c.at = o /\ InScope(u, o)

\* What is left of a plan is one of these, and has its checks behind it.
Prepared(c, u, o, s) ==
    \/ PreparedDirectory(c, s) \/ PreparedStaff(c, u, s)
    \/ PreparedOverview(c, u, s) \/ PreparedOrder(c, u, o, s)

Steps == {"regions", "restaurants", "region page", "restaurant page", "find", "find open",
          "open region", "own", "access", "order"}
LastSteps == {"answer", "orders", "order answer", "cancel"}

\* Whichever step comes next, it is taken of a call of its kind, and the rest of
\* the plan is prepared.
NextStep(c, u, o, s) ==
    /\ s # <<>> /\ Tail(s) # s
    /\ Len(s) = 1 <=> Tail(s) = <<>>
    /\ Head(s) \in Steps \cup LastSteps
    /\ Head(s) \in LastSteps <=> Tail(s) = <<>>
    /\ Head(s) \in Steps \ {"access", "order"} => Prepared(c, u, o, Tail(s))
    /\ Head(s) = "regions" => c.kind \in {"ListRegions", "ListRestaurants"}
    /\ Head(s) = "restaurants" =>
          \/ c.kind \in {"ListRegions", "ListRestaurants"}
          \/ c.kind \in {"orders", "order stats"} /\ c.at = None /\ SuperAdminOrRegion(u)
    /\ Head(s) = "region page" => c.kind = "regions"
    /\ Head(s) = "restaurant page" =>
          /\ c.kind = "restaurants"
          /\ ~(u.role \in RestaurantRoles /\ u.restaurant # None)
    /\ Head(s) = "find" =>
          /\ c.kind \notin DirectoryKinds \cup {"regions", "restaurants"} /\ InScope(u, c.at)
          /\ c.kind \in {"region", "restaurant"} \/ c.at \in Restaurants \cup {o}
    /\ Head(s) = "find open" => c.kind = "GetRestaurant" /\ Head(Tail(s)) = "open region"
    /\ Head(s) = "open region" => c.kind = "GetRestaurant" /\ Head(Tail(s)) = "answer"
    /\ Head(s) = "own" => /\ c.kind = "restaurants" /\ u.role \in RestaurantRoles
                          /\ u.restaurant # None
    /\ Head(s) = "access" =>
          /\ c.kind \notin DirectoryKinds \cup {"regions", "region", "restaurants"}
          /\ c.kind \in {"orders", "order stats"} => c.at \in Restaurants
          /\ c.kind \in {"order", "cancel"} => c.at = o
          /\ InScope(u, c.at) => Prepared(c, u, o, Tail(s))
    /\ Head(s) = "order" =>
          /\ c.kind \in {"order", "cancel"}
          /\ \A d : d.kind = c.kind /\ d.at = o => Prepared(d, u, o, Tail(s))
    /\ Head(s) = "answer" =>
          /\ c.kind \in DirectoryKinds \cup {"regions", "region", "restaurants", "restaurant"}
          /\ c.kind = "regions" => u.role \in {"super_admin", "regional_manager"}
    /\ Head(s) = "orders" =>
          /\ c.kind \in {"orders", "order stats"}
          /\ u.role = "super_admin" \/ c.at = None \/ c.at \in Restaurants
    /\ Head(s) = "order answer" => c.kind = "order" /\ c.at = o /\ InScope(u, o)
    /\ Head(s) = "cancel" => c.kind = "cancel" /\ c.at = o /\ InScope(u, o)
    /\ Head(s) \in Steps /\ Head(Tail(s)) \in {"order answer", "cancel"} =>
          Head(s) = "find" /\ c.at = o
    /\ c.kind = "GetRestaurant" /\ Head(s) # "open region" /\ Tail(s) # <<>> =>
          Head(Tail(s)) # "answer"

\* How a plan of so many steps goes on.
Runs(s, first, rest) ==
    /\ s # <<>> /\ Head(s) = first /\ Tail(s) = rest /\ rest # s
    /\ Len(s) = 1 <=> rest = <<>>

LEMMA RunsOne == ASSUME NEW a PROVE Runs(<<a>>, a, <<>>)
<1>1. <<a>> # <<>>
  OBVIOUS
<1> QED BY <1>1, FirstAndRest DEF Runs

LEMMA RunsTwo == ASSUME NEW a, NEW b PROVE Runs(<<a, b>>, a, <<b>>)
<1>1. <<a, b>> # <<>> /\ <<b>> # <<>> /\ Len(<<b>>) = 1 /\ Len(<<a, b>>) = 2
  OBVIOUS
<1> QED BY <1>1, FirstAndRest DEF Runs

LEMMA RunsThree == ASSUME NEW a, NEW b, NEW c PROVE Runs(<<a, b, c>>, a, <<b, c>>)
<1>1. <<a, b, c>> # <<>> /\ <<b, c>> # <<>> /\ Len(<<b, c>>) = 2 /\ Len(<<a, b, c>>) = 3
  OBVIOUS
<1> QED BY <1>1, FirstAndRest DEF Runs

LEMMA RunsFour ==
    ASSUME NEW a, NEW b, NEW c, NEW d PROVE Runs(<<a, b, c, d>>, a, <<b, c, d>>)
<1>1. /\ <<a, b, c, d>> # <<>> /\ <<b, c, d>> # <<>>
      /\ Len(<<b, c, d>>) = 3 /\ Len(<<a, b, c, d>>) = 4
  OBVIOUS
<1> QED BY <1>1, FirstAndRest DEF Runs

LEMMA NextDirectoryStep ==
    ASSUME NEW c, NEW u, NEW o, NEW s, PreparedDirectory(c, s)
    PROVE  NextStep(c, u, o, s)
<1>1. CASE s = <<"regions", "restaurants", "answer">>
  <2>1. Runs(s, "regions", <<"restaurants", "answer">>)
    BY <1>1, RunsThree
  <2>2. Runs(<<"restaurants", "answer">>, "restaurants", <<"answer">>)
    BY RunsTwo
  <2>3. Prepared(c, u, o, <<"restaurants", "answer">>)
    BY <1>1 DEF Prepared, PreparedDirectory
  <2> QED BY <1>1, <2>1, <2>2, <2>3 DEF PreparedDirectory, Runs, NextStep, Steps, LastSteps, DirectoryKinds
<1>2. CASE s = <<"restaurants", "answer">>
  <2>1. Runs(s, "restaurants", <<"answer">>)
    BY <1>2, RunsTwo
  <2>2. Runs(<<"answer">>, "answer", <<>>)
    BY RunsOne
  <2>3. Prepared(c, u, o, <<"answer">>)
    BY <1>2 DEF Prepared, PreparedDirectory
  <2> QED BY <1>2, <2>1, <2>2, <2>3 DEF PreparedDirectory, Runs, NextStep, Steps, LastSteps, DirectoryKinds
<1>3. CASE s = <<"answer">>
  <2>1. Runs(s, "answer", <<>>)
    BY <1>3, RunsOne
  <2> QED BY <1>3, <2>1 DEF PreparedDirectory, Runs, NextStep, Steps, LastSteps, DirectoryKinds
<1>4. CASE s = <<"restaurants", "regions", "answer">>
  <2>1. Runs(s, "restaurants", <<"regions", "answer">>)
    BY <1>4, RunsThree
  <2>2. Runs(<<"regions", "answer">>, "regions", <<"answer">>)
    BY RunsTwo
  <2>3. Prepared(c, u, o, <<"regions", "answer">>)
    BY <1>4 DEF Prepared, PreparedDirectory
  <2> QED BY <1>4, <2>1, <2>2, <2>3 DEF PreparedDirectory, Runs, NextStep, Steps, LastSteps, DirectoryKinds
<1>5. CASE s = <<"regions", "answer">>
  <2>1. Runs(s, "regions", <<"answer">>)
    BY <1>5, RunsTwo
  <2>2. Runs(<<"answer">>, "answer", <<>>)
    BY RunsOne
  <2>3. Prepared(c, u, o, <<"answer">>)
    BY <1>5 DEF Prepared, PreparedDirectory
  <2> QED BY <1>5, <2>1, <2>2, <2>3 DEF PreparedDirectory, Runs, NextStep, Steps, LastSteps, DirectoryKinds
<1>6. CASE s = <<"find open", "open region", "answer">>
  <2>1. Runs(s, "find open", <<"open region", "answer">>)
    BY <1>6, RunsThree
  <2>2. Runs(<<"open region", "answer">>, "open region", <<"answer">>)
    BY RunsTwo
  <2>3. Prepared(c, u, o, <<"open region", "answer">>)
    BY <1>6 DEF Prepared, PreparedDirectory
  <2> QED BY <1>6, <2>1, <2>2, <2>3 DEF PreparedDirectory, Runs, NextStep, Steps, LastSteps, DirectoryKinds
<1>7. CASE s = <<"open region", "answer">>
  <2>1. Runs(s, "open region", <<"answer">>)
    BY <1>7, RunsTwo
  <2>2. Runs(<<"answer">>, "answer", <<>>)
    BY RunsOne
  <2>3. Prepared(c, u, o, <<"answer">>)
    BY <1>7 DEF Prepared, PreparedDirectory
  <2> QED BY <1>7, <2>1, <2>2, <2>3 DEF PreparedDirectory, Runs, NextStep, Steps, LastSteps, DirectoryKinds
<1> QED BY <1>1, <1>2, <1>3, <1>4, <1>5, <1>6, <1>7 DEF PreparedDirectory

LEMMA NextStaffStep ==
    ASSUME NEW c, NEW u, NEW o, NEW s, PreparedStaff(c, u, s)
    PROVE  NextStep(c, u, o, s)
<1>1. CASE s = <<"region page", "answer">>
  <2>1. Runs(s, "region page", <<"answer">>)
    BY <1>1, RunsTwo
  <2>2. Runs(<<"answer">>, "answer", <<>>)
    BY RunsOne
  <2>3. Prepared(c, u, o, <<"answer">>)
    BY <1>1 DEF Prepared, PreparedStaff
  <2> QED BY <1>1, <2>1, <2>2, <2>3 DEF PreparedStaff, Runs, NextStep, Steps, LastSteps, DirectoryKinds
<1>2. CASE s = <<"answer">>
  <2>1. Runs(s, "answer", <<>>)
    BY <1>2, RunsOne
  <2> QED BY <1>2, <2>1 DEF PreparedStaff, Runs, NextStep, Steps, LastSteps, DirectoryKinds
<1>3. CASE s = <<"find", "answer">>
  <2>1. Runs(s, "find", <<"answer">>)
    BY <1>3, RunsTwo
  <2>2. Runs(<<"answer">>, "answer", <<>>)
    BY RunsOne
  <2>3. Prepared(c, u, o, <<"answer">>)
    BY <1>3 DEF Prepared, PreparedStaff
  <2> QED BY <1>3, <2>1, <2>2, <2>3 DEF PreparedStaff, Runs, NextStep, Steps, LastSteps, DirectoryKinds
<1>4. CASE s = <<"own", "answer">>
  <2>1. Runs(s, "own", <<"answer">>)
    BY <1>4, RunsTwo
  <2>2. Runs(<<"answer">>, "answer", <<>>)
    BY RunsOne
  <2>3. Prepared(c, u, o, <<"answer">>)
    BY <1>4 DEF Prepared, PreparedStaff
  <2> QED BY <1>4, <2>1, <2>2, <2>3 DEF PreparedStaff, Runs, NextStep, Steps, LastSteps, DirectoryKinds
<1>5. CASE s = <<"restaurant page", "answer">>
  <2>1. Runs(s, "restaurant page", <<"answer">>)
    BY <1>5, RunsTwo
  <2>2. Runs(<<"answer">>, "answer", <<>>)
    BY RunsOne
  <2>3. Prepared(c, u, o, <<"answer">>)
    BY <1>5 DEF Prepared, PreparedStaff
  <2> QED BY <1>5, <2>1, <2>2, <2>3 DEF PreparedStaff, Runs, NextStep, Steps, LastSteps, DirectoryKinds
<1>6. CASE s = <<"access", "find", "answer">>
  <2>1. Runs(s, "access", <<"find", "answer">>)
    BY <1>6, RunsThree
  <2>2. Runs(<<"find", "answer">>, "find", <<"answer">>)
    BY RunsTwo
  <2>3. InScope(u, c.at) => Prepared(c, u, o, <<"find", "answer">>)
    BY <1>6 DEF Prepared, PreparedStaff
  <2> QED BY <1>6, <2>1, <2>2, <2>3 DEF PreparedStaff, Runs, NextStep, Steps, LastSteps, DirectoryKinds
<1> QED BY <1>1, <1>2, <1>3, <1>4, <1>5, <1>6 DEF PreparedStaff

LEMMA NextOverviewStep ==
    ASSUME NEW c, NEW u, NEW o, NEW s, PreparedOverview(c, u, s)
    PROVE  NextStep(c, u, o, s)
<1>1. CASE s = <<"access", "find", "orders">>
  <2>1. Runs(s, "access", <<"find", "orders">>)
    BY <1>1, RunsThree
  <2>2. Runs(<<"find", "orders">>, "find", <<"orders">>)
    BY RunsTwo
  <2>3. InScope(u, c.at) => Prepared(c, u, o, <<"find", "orders">>)
    BY <1>1 DEF Prepared, PreparedOverview
  <2> QED BY <1>1, <2>1, <2>2, <2>3 DEF PreparedOverview, Runs, NextStep, Steps, LastSteps, DirectoryKinds
<1>2. CASE s = <<"find", "orders">>
  <2>1. Runs(s, "find", <<"orders">>)
    BY <1>2, RunsTwo
  <2>2. Runs(<<"orders">>, "orders", <<>>)
    BY RunsOne
  <2>3. Prepared(c, u, o, <<"orders">>)
    BY <1>2 DEF Prepared, PreparedOverview
  <2> QED BY <1>2, <2>1, <2>2, <2>3 DEF PreparedOverview, Runs, NextStep, Steps, LastSteps, DirectoryKinds
<1>3. CASE s = <<"orders">>
  <2>1. Runs(s, "orders", <<>>)
    BY <1>3, RunsOne
  <2> QED BY <1>3, <2>1 DEF PreparedOverview, Runs, NextStep, Steps, LastSteps, DirectoryKinds
<1>4. CASE s = <<"restaurants", "orders">>
  <2>1. Runs(s, "restaurants", <<"orders">>)
    BY <1>4, RunsTwo
  <2>2. Runs(<<"orders">>, "orders", <<>>)
    BY RunsOne
  <2>3. Prepared(c, u, o, <<"orders">>)
    BY <1>4 DEF Prepared, PreparedOverview
  <2> QED BY <1>4, <2>1, <2>2, <2>3 DEF PreparedOverview, Runs, NextStep, Steps, LastSteps, DirectoryKinds
<1> QED BY <1>1, <1>2, <1>3, <1>4 DEF PreparedOverview

LEMMA NextOrderStep ==
    ASSUME NEW c, NEW u, NEW o, NEW s, PreparedOrder(c, u, o, s)
    PROVE  NextStep(c, u, o, s)
<1>1. CASE s = <<"order", "access", "find", "order answer">>
  <2>1. Runs(s, "order", <<"access", "find", "order answer">>)
    BY <1>1, RunsFour
  <2>2. Runs(<<"access", "find", "order answer">>, "access", <<"find", "order answer">>)
    BY RunsThree
  <2>3. \A d : d.kind = c.kind /\ d.at = o => Prepared(d, u, o, <<"access", "find", "order answer">>)
    BY <1>1 DEF Prepared, PreparedOrder
  <2> QED BY <1>1, <2>1, <2>2, <2>3 DEF PreparedOrder, Runs, NextStep, Steps, LastSteps, DirectoryKinds
<1>2. CASE s = <<"access", "find", "order answer">>
  <2>1. Runs(s, "access", <<"find", "order answer">>)
    BY <1>2, RunsThree
  <2>2. Runs(<<"find", "order answer">>, "find", <<"order answer">>)
    BY RunsTwo
  <2>3. InScope(u, c.at) => Prepared(c, u, o, <<"find", "order answer">>)
    BY <1>2 DEF Prepared, PreparedOrder
  <2> QED BY <1>2, <2>1, <2>2, <2>3 DEF PreparedOrder, Runs, NextStep, Steps, LastSteps, DirectoryKinds
<1>3. CASE s = <<"find", "order answer">>
  <2>1. Runs(s, "find", <<"order answer">>)
    BY <1>3, RunsTwo
  <2>2. Runs(<<"order answer">>, "order answer", <<>>)
    BY RunsOne
  <2>3. Prepared(c, u, o, <<"order answer">>)
    BY <1>3 DEF Prepared, PreparedOrder
  <2> QED BY <1>3, <2>1, <2>2, <2>3 DEF PreparedOrder, Runs, NextStep, Steps, LastSteps, DirectoryKinds
<1>4. CASE s = <<"order answer">>
  <2>1. Runs(s, "order answer", <<>>)
    BY <1>4, RunsOne
  <2> QED BY <1>4, <2>1 DEF PreparedOrder, Runs, NextStep, Steps, LastSteps, DirectoryKinds
<1>5. CASE s = <<"order", "access", "find", "cancel">>
  <2>1. Runs(s, "order", <<"access", "find", "cancel">>)
    BY <1>5, RunsFour
  <2>2. Runs(<<"access", "find", "cancel">>, "access", <<"find", "cancel">>)
    BY RunsThree
  <2>3. \A d : d.kind = c.kind /\ d.at = o => Prepared(d, u, o, <<"access", "find", "cancel">>)
    BY <1>5 DEF Prepared, PreparedOrder
  <2> QED BY <1>5, <2>1, <2>2, <2>3 DEF PreparedOrder, Runs, NextStep, Steps, LastSteps, DirectoryKinds
<1>6. CASE s = <<"access", "find", "cancel">>
  <2>1. Runs(s, "access", <<"find", "cancel">>)
    BY <1>6, RunsThree
  <2>2. Runs(<<"find", "cancel">>, "find", <<"cancel">>)
    BY RunsTwo
  <2>3. InScope(u, c.at) => Prepared(c, u, o, <<"find", "cancel">>)
    BY <1>6 DEF Prepared, PreparedOrder
  <2> QED BY <1>6, <2>1, <2>2, <2>3 DEF PreparedOrder, Runs, NextStep, Steps, LastSteps, DirectoryKinds
<1>7. CASE s = <<"find", "cancel">>
  <2>1. Runs(s, "find", <<"cancel">>)
    BY <1>7, RunsTwo
  <2>2. Runs(<<"cancel">>, "cancel", <<>>)
    BY RunsOne
  <2>3. Prepared(c, u, o, <<"cancel">>)
    BY <1>7 DEF Prepared, PreparedOrder
  <2> QED BY <1>7, <2>1, <2>2, <2>3 DEF PreparedOrder, Runs, NextStep, Steps, LastSteps, DirectoryKinds
<1>8. CASE s = <<"cancel">>
  <2>1. Runs(s, "cancel", <<>>)
    BY <1>8, RunsOne
  <2> QED BY <1>8, <2>1 DEF PreparedOrder, Runs, NextStep, Steps, LastSteps, DirectoryKinds
<1> QED BY <1>1, <1>2, <1>3, <1>4, <1>5, <1>6, <1>7, <1>8 DEF PreparedOrder

LEMMA PlanStep ==
    ASSUME NEW c, NEW u, NEW o, NEW s, Prepared(c, u, o, s)
    PROVE  NextStep(c, u, o, s)
BY NextDirectoryStep, NextStaffStep, NextOverviewStep, NextOrderStep DEF Prepared

-----------------------------------------------------------------------------
(* What is true of a reader.                                               *)

Page == [region : Seq(Regions), restaurant : Seq(Restaurants)]
Cursor == [offset : Nat, total : Nat \cup {None}]

Listed(p) == Range(listed[p].region) \cup Range(listed[p].restaurant)

\* Types, and what calls are like that are about one row.
Known(p) ==
    /\ call[p] \in Call /\ WellFormed(call[p])
    /\ call[p].kind \in {"orders", "order stats"} => call[p].at \in Restaurants \cup {None}
    /\ state[p] \in {"idle", "running", "ok", "error"}
    /\ cursor[p] \in Cursor /\ listed[p] \in Page
    /\ answer[p] \in SUBSET Rows /\ was[p] \in SUBSET Rows /\ always[p] \in SUBSET Rows
    /\ steady[p] \in BOOLEAN /\ shown[p] \in SUBSET OrderIds

Planned(p) ==
    IF state[p] = "running"
    THEN Prepared(call[p], Reader(p), OrderAt[Asked[p]], plan[p])
    ELSE plan[p] = <<>>

\* A call that has not begun has brought nothing, and one that has not ended has
\* not been answered.
Unbegun(p) ==
    /\ state[p] = "idle" => listed[p] = Nothing /\ cursor[p] = Start /\ shown[p] = {}
    /\ state[p] # "ok" => answer[p] = {}

\* The histories hold what is visible now.
Observed(p) == state[p] = "running" => Visible(p) \subseteq was[p] /\ always[p] \subseteq Visible(p)

\* What was listed was there, and visible if it is in the reader's scope.
Seen(p) ==
    state[p] = "running" => \A r \in Listed(p) :
        (ByStaff(p) => InScope(Reader(p), r)) => r \in was[p]

\* It is in the reader's scope, but for regions, which are filtered afterwards.
Held(p) ==
    state[p] = "running" /\ ByStaff(p) /\ call[p].kind # "regions" /\ ~Unfiltered(p) =>
        \A r \in Listed(p) : InScope(Reader(p), r)

\* A single read of the directory found its restaurant, and then its region.
Single(p) ==
    state[p] = "running" /\ call[p].kind = "GetRestaurant" =>
        /\ Range(listed[p].restaurant) \subseteq {call[p].at}
        /\ Head(plan[p]) = "answer" => RegionOf[call[p].at] \in was[p]

\* An order is shown or cancelled after its restaurant was found.
Found(p) ==
    state[p] = "running" /\ Head(plan[p]) \in {"order answer", "cancel"} =>
        Reader(p).role = "super_admin" \/ OrderAt[Asked[p]] \in was[p]

Told(p) ==
    state[p] = "ok" =>
        /\ answer[p] \subseteq was[p] \/ Unfiltered(p)
        /\ call[p].kind \in DirectoryKinds =>
              \A s \in answer[p] \cap Restaurants : RegionOf[s] \in was[p]

ShownInScope(p) ==
    \A o \in shown[p] : Reader(p).role = "super_admin" \/ OrderAt[o] \in was[p]

ReaderSound(p) ==
    /\ Known(p) /\ Planned(p) /\ Unbegun(p) /\ Observed(p) /\ Seen(p) /\ Held(p)
    /\ Single(p) /\ Found(p) /\ Told(p) /\ ShownInScope(p)

\* The variables of the readers are functions of them.
PerReader ==
    /\ call = [p \in Readers |-> call[p]] /\ state = [p \in Readers |-> state[p]]
    /\ plan = [p \in Readers |-> plan[p]] /\ cursor = [p \in Readers |-> cursor[p]]
    /\ listed = [p \in Readers |-> listed[p]] /\ answer = [p \in Readers |-> answer[p]]
    /\ was = [p \in Readers |-> was[p]] /\ always = [p \in Readers |-> always[p]]
    /\ steady = [p \in Readers |-> steady[p]] /\ shown = [p \in Readers |-> shown[p]]

OrderTyped == order \in [OrderIds -> {"open", "completed", "cancelled"}]

OrdersSound ==
    /\ OrgSound /\ PerReader /\ OrderTyped
    /\ \A p \in Readers : ReaderSound(p)

\* Nothing of a reader changes.
Same(p) ==
    /\ UNCHANGED <<call[p], state[p], plan[p], cursor[p], listed[p], answer[p]>>
    /\ UNCHANGED <<was[p], always[p], steady[p], shown[p]>>

LEMMA SameIsSound ==
    ASSUME NEW p \in Readers, ReaderSound(p), Same(p), UNCHANGED table
    PROVE  ReaderSound(p)'
<1> USE DEF Same
<1>1. Reader(p)' = Reader(p) /\ ByStaff(p)' = ByStaff(p) /\ Unfiltered(p)' = Unfiltered(p)
  BY DEF Reader, ByStaff, Unfiltered
<1>2. Visible(p)' = Visible(p)
  BY <1>1 DEF Visible, IsLive, Open, ByStaff
<1>3. Known(p)' /\ Planned(p)' /\ Unbegun(p)' /\ Observed(p)'
  BY <1>1, <1>2 DEF ReaderSound, Known, Planned, Unbegun, Observed, Nothing, Start
<1>4. Seen(p)' /\ Held(p)' /\ Single(p)' /\ Found(p)' /\ Told(p)' /\ ShownInScope(p)'
  BY <1>1, <1>2 DEF ReaderSound, Seen, Held, Single, Found, Told, ShownInScope, Listed
<1> QED BY <1>3, <1>4 DEF ReaderSound

\* A step of one reader.
LEMMA OneReader ==
    ASSUME NEW p \in Readers, OrdersSound, UNCHANGED orgVars, PerReader', OrderTyped',
           \A r \in Readers : r # p => Same(r), ReaderSound(p)'
    PROVE  OrdersSound'
<1>1. \A r \in Readers : ReaderSound(r)'
  BY SameIsSound DEF OrdersSound, orgVars
<1>2. OrgSound'
  <2>1. \A q \in Requests : Scripted(q)'
    BY DEF OrdersSound, OrgSound, Scripted, Actor, orgVars
  <2> QED BY <2>1 DEF OrdersSound, OrgSound, orgVars
<1> QED BY <1>1, <1>2 DEF OrdersSound

\* The steps that let a call go on: what has to be shown of the rest.
LEMMA CallGoesOn ==
    ASSUME NEW p \in Readers, ReaderSound(p), state[p] = "running",
           UNCHANGED <<table, call[p].kind, call[p].by, was[p], always[p]>>, Known(p)',
           plan'[p] = Tail(plan[p]), state'[p] = IF Len(plan[p]) = 1 THEN "ok" ELSE state[p],
           Tail(plan[p]) # <<>> => Planned(p)' /\ Seen(p)' /\ Held(p)' /\ Single(p)' /\ Found(p)',
           Tail(plan[p]) = <<>> => Told(p)',
           Tail(plan[p]) # <<>> => answer'[p] = answer[p],
           ShownInScope(p)'
    PROVE  ReaderSound(p)'
<1>1. NextStep(call[p], Reader(p), OrderAt[Asked[p]], plan[p])
  BY PlanStep DEF ReaderSound, Planned
<1>2. state'[p] = IF Tail(plan[p]) = <<>> THEN "ok" ELSE "running"
  BY <1>1 DEF NextStep
<1>3. Visible(p)' = Visible(p)
  BY DEF Visible, IsLive, Open, ByStaff, Reader
<1>4. CASE Tail(plan[p]) # <<>>
  BY <1>2, <1>3, <1>4 DEF ReaderSound, Unbegun, Observed, Told
<1>5. CASE Tail(plan[p]) = <<>>
  BY <1>2, <1>5 DEF ReaderSound, Planned, Unbegun, Observed, Seen, Held, Single, Found
<1> QED BY <1>4, <1>5

LEMMA CallStops ==
    ASSUME NEW p \in Readers, ReaderSound(p), state[p] = "running",
           Known(p)', plan'[p] = <<>>, state'[p] = "error", answer'[p] = answer[p],
           ShownInScope(p)'
    PROVE  ReaderSound(p)'
BY DEF ReaderSound, Planned, Unbegun, Observed, Seen, Held, Single, Found, Told

\* A request changed the tables.
LEMMA TablesMove ==
    ASSUME NEW p \in Readers, ReaderSound(p),
           UNCHANGED <<call[p], state[p], plan[p], cursor[p], listed[p], answer[p], shown[p]>>,
           was'[p] = IF state[p] = "running" THEN was[p] \cup Visible(p)' ELSE was[p],
           always'[p] = IF state[p] = "running" THEN always[p] \cap Visible(p)' ELSE always[p],
           steady'[p] \in BOOLEAN
    PROVE  ReaderSound(p)'
<1>1. Reader(p)' = Reader(p) /\ ByStaff(p)' = ByStaff(p) /\ Unfiltered(p)' = Unfiltered(p)
  BY DEF Reader, ByStaff, Unfiltered
<1>2. Visible(p)' \subseteq Rows /\ was[p] \subseteq was'[p]
  BY DEF Visible
<1>3. Known(p)'
  BY <1>2 DEF ReaderSound, Known
<1>4. Planned(p)' /\ Unbegun(p)' /\ Observed(p)'
  BY <1>1, <1>2 DEF ReaderSound, Planned, Unbegun, Observed, Nothing, Start
<1>5. Seen(p)' /\ Held(p)' /\ Single(p)' /\ Found(p)' /\ Told(p)' /\ ShownInScope(p)'
  BY <1>1, <1>2 DEF ReaderSound, Seen, Held, Single, Found, Told, ShownInScope, Listed
<1> QED BY <1>3, <1>4, <1>5 DEF ReaderSound

-----------------------------------------------------------------------------
(* The steps of a reader.                                                  *)

LEMMA ReaderTyped ==
    ASSUME NEW p \in Readers, ReaderSound(p)
    PROVE  /\ ByStaff(p) => Reader(p) \in Account /\ Reader(p).role \in Roles
           /\ ByStaff(p) <=> call[p].kind \notin DirectoryKinds
           /\ OrderAt[Asked[p]] \in Restaurants /\ Asked[p] \in OrderIds
           /\ call[p].at \in Rows \cup {None} /\ call[p].offset \in Int /\ call[p].limit \in Int
<1>1. call[p] \in Call /\ WellFormed(call[p])
  BY DEF ReaderSound, Known
<1>2. call[p].by # None => call[p].by \in Actors
  BY <1>1 DEF Call
<1> QED BY <1>1, <1>2, TablesAssumption, OrdersAssumption
        DEF Reader, ByStaff, WellFormed, Call, Account

LEMMA CallBegins ==
    ASSUME NEW p \in Readers, OrdersSound, NEW allowed \in BOOLEAN, NEW steps,
           state[p] = "idle",
           state' = [state EXCEPT ![p] = IF allowed THEN "running" ELSE "error"],
           plan' = [plan EXCEPT ![p] = IF allowed THEN steps ELSE <<>>],
           was' = [was EXCEPT ![p] = Visible(p)], always' = [always EXCEPT ![p] = Visible(p)],
           steady' = [steady EXCEPT ![p] = NamesDiffer],
           UNCHANGED <<orgVars, cursor, listed, answer, order, shown>>,
           NEW at, call' = [call EXCEPT ![p].at = at], Known(p)',
           allowed => /\ Prepared(call'[p], Reader(p), OrderAt[Asked[p]], steps)
                      /\ Head(steps) \notin LastSteps
    PROVE  OrdersSound'
<1>1. PerReader'
  BY DEF OrdersSound, PerReader
<1>2. /\ call'[p].kind = call[p].kind /\ call'[p].by = call[p].by
      /\ state'[p] = (IF allowed THEN "running" ELSE "error")
      /\ plan'[p] = (IF allowed THEN steps ELSE <<>>)
      /\ was'[p] = Visible(p) /\ always'[p] = Visible(p)
      /\ listed'[p] = listed[p] /\ shown'[p] = shown[p] /\ answer'[p] = answer[p]
  <2>1. call[p] \in Call
    BY DEF OrdersSound, ReaderSound, Known
  <2> QED BY <2>1 DEF OrdersSound, PerReader, Call
<1>3. \A r \in Readers : r # p => Same(r)
  BY DEF OrdersSound, PerReader, Same
<1>4. Reader(p)' = Reader(p) /\ ByStaff(p)' = ByStaff(p) /\ Visible(p)' = Visible(p)
  BY <1>2 DEF Reader, ByStaff, Visible, IsLive, Open, orgVars
<1>5. Listed(p)' = {} /\ shown'[p] = {} /\ listed'[p] = Nothing
  <2>1. listed[p] = Nothing /\ shown[p] = {}
    BY DEF OrdersSound, ReaderSound, Unbegun
  <2> QED BY <1>2, <2>1 DEF Listed, Nothing, Range
<1>6. Planned(p)' /\ Unbegun(p)' /\ Observed(p)' /\ Seen(p)' /\ Held(p)'
  <2>1. answer[p] = {}
    BY DEF OrdersSound, ReaderSound, Unbegun
  <2>2. Planned(p)' /\ Unbegun(p)'
    BY <1>2, <1>4, <2>1 DEF Planned, Unbegun
  <2> QED BY <1>2, <1>4, <1>5, <2>2 DEF Observed, Seen, Held
<1>7. Single(p)' /\ Found(p)' /\ Told(p)' /\ ShownInScope(p)'
  <2>1. Range(listed'[p].restaurant) = {}
    BY <1>5 DEF Listed
  <2>2. state'[p] = "running" => Head(plan'[p]) \notin {"answer", "order answer", "cancel"}
    <3>1. CASE allowed
      <4>1. plan'[p] = steps /\ Head(steps) \notin LastSteps
        BY <1>2, <3>1
      <4> QED BY <4>1 DEF LastSteps
    <3>2. CASE ~allowed
      <4>1. state'[p] = "error"
        BY <1>2, <3>2
      <4> QED BY <4>1
    <3> QED BY <3>1, <3>2
  <2>3. Single(p)' /\ Found(p)'
    BY <2>1, <2>2 DEF Single, Found
  <2> QED BY <1>2, <1>5, <2>3 DEF Told, ShownInScope
<1>8. ReaderSound(p)'
  BY <1>6, <1>7 DEF ReaderSound
<1> QED BY <1>1, <1>3, <1>8, OneReader DEF OrdersSound, OrderTyped

LEMMA BeginIsSound ==
    ASSUME NEW p \in Readers, OrdersSound, NEW kind, NEW allowed \in BOOLEAN, NEW steps,
           Begin(p, kind, allowed, steps), UNCHANGED <<orgVars, order, shown>>,
           allowed /\ call[p].kind = kind =>
              /\ Prepared(call[p], Reader(p), OrderAt[Asked[p]], steps)
              /\ Head(steps) \notin LastSteps
    PROVE  OrdersSound'
<1> DEFINE at == call[p].at
<1>1. call[p] \in Call /\ Known(p) /\ call = [r \in Readers |-> call[r]]
  BY DEF OrdersSound, ReaderSound, Known, PerReader
<1>2. call' = [call EXCEPT ![p].at = at] /\ call' = call /\ call'[p] = call[p]
  BY <1>1 DEF Begin, Call
<1>3. Visible(p) \subseteq Rows /\ NamesDiffer \in BOOLEAN
  BY DEF Visible, NamesDiffer
<1>4. Known(p)'
  BY <1>1, <1>2, <1>3 DEF Begin, Known, OrdersSound, PerReader
<1> HIDE DEF at
<1> QED BY <1>2, <1>4, CallBegins DEF Begin

LEMMA CallingIsSound ==
    ASSUME NEW p \in Readers, OrdersSound, Calling(p), UNCHANGED <<orgVars, order, shown>>
    PROVE  OrdersSound'
<1>1. ReaderSound(p)
  BY DEF OrdersSound
<1>2. CASE ListRegions(p) \/ ListRestaurants(p) \/ GetRestaurant(p)
  <2>1. /\ Head(<<"regions", "restaurants", "answer">>) = "regions"
        /\ Head(<<"restaurants", "regions", "answer">>) = "restaurants"
        /\ Head(<<"find open", "open region", "answer">>) = "find open"
    BY FirstAndRest
  <2>2. CASE ListRegions(p)
    <3>1. call[p].kind = "ListRegions" =>
             Prepared(call[p], Reader(p), OrderAt[Asked[p]], <<"regions", "restaurants", "answer">>)
      BY DEF Prepared, PreparedDirectory
    <3> QED BY <2>1, <2>2, <3>1, BeginIsSound DEF ListRegions, LastSteps
  <2>3. CASE ListRestaurants(p)
    <3>1. call[p].kind = "ListRestaurants" =>
             Prepared(call[p], Reader(p), OrderAt[Asked[p]], <<"restaurants", "regions", "answer">>)
      BY DEF Prepared, PreparedDirectory
    <3> QED BY <2>1, <2>3, <3>1, BeginIsSound DEF ListRestaurants, LastSteps
  <2>4. CASE GetRestaurant(p)
    <3>1. call[p].kind = "GetRestaurant" =>
             Prepared(call[p], Reader(p), OrderAt[Asked[p]],
                      <<"find open", "open region", "answer">>)
      BY DEF Prepared, PreparedDirectory
    <3> QED BY <2>1, <2>4, <3>1, BeginIsSound DEF GetRestaurant, LastSteps
  <2> QED BY <1>2, <2>2, <2>3, <2>4
<1>3. CASE StaffRegions(p)
  <2> DEFINE allowed == CheckPermission(Reader(p), "region.read")
  <2>1. ByStaff(p) /\ Begin(p, "regions", allowed, <<"region page", "answer">>)
    BY <1>3 DEF StaffRegions
  <2>2. allowed => Reader(p).role \in {"super_admin", "regional_manager"}
    BY <1>1, <2>1, ReaderTyped, ManagersOnly
  <2>3. allowed /\ call[p].kind = "regions" =>
           Prepared(call[p], Reader(p), OrderAt[Asked[p]], <<"region page", "answer">>)
    BY <2>2 DEF Prepared, PreparedStaff
  <2>4. Head(<<"region page", "answer">>) = "region page" /\ allowed \in BOOLEAN
    BY FirstAndRest DEF CheckPermission
  <2> HIDE DEF allowed
  <2> QED BY <2>1, <2>3, <2>4, BeginIsSound DEF LastSteps
<1>4. CASE StaffRegion(p)
  <2> DEFINE allowed == /\ CheckPermission(Reader(p), "region.read")
                        /\ CanAccessRegion(Reader(p), call[p].at)
  <2>1. ByStaff(p) /\ Begin(p, "region", allowed, <<"find", "answer">>)
    BY <1>4 DEF StaffRegion
  <2>2. allowed /\ call[p].kind = "region" => InScope(Reader(p), call[p].at)
    <3>1. call[p].kind = "region" => call[p].at \in Regions
      BY <1>1 DEF ReaderSound, Known, WellFormed
    <3> QED BY <3>1 DEF CanAccessRegion, InScope
  <2>3. allowed /\ call[p].kind = "region" =>
           Prepared(call[p], Reader(p), OrderAt[Asked[p]], <<"find", "answer">>)
    BY <2>2 DEF Prepared, PreparedStaff
  <2>4. Head(<<"find", "answer">>) = "find" /\ allowed \in BOOLEAN
    BY FirstAndRest DEF CheckPermission
  <2> HIDE DEF allowed
  <2> QED BY <2>1, <2>3, <2>4, BeginIsSound DEF LastSteps
<1>5. CASE StaffRestaurants(p)
  <2> DEFINE allowed == CheckPermission(Reader(p), "restaurant.read")
             own == Reader(p).role \in RestaurantRoles /\ Reader(p).restaurant # None
             steps == IF own THEN <<"own", "answer">> ELSE <<"restaurant page", "answer">>
  <2>1. ByStaff(p) /\ Begin(p, "restaurants", allowed, steps)
    BY <1>5 DEF StaffRestaurants
  <2>2. call[p].kind = "restaurants" =>
           Prepared(call[p], Reader(p), OrderAt[Asked[p]], steps)
    BY DEF Prepared, PreparedStaff
  <2>3. Head(steps) \in {"own", "restaurant page"} /\ allowed \in BOOLEAN
    BY FirstAndRest DEF CheckPermission
  <2> HIDE DEF allowed, steps
  <2> QED BY <2>1, <2>2, <2>3, BeginIsSound DEF LastSteps
<1>6. CASE StaffRestaurant(p)
  <2> DEFINE allowed == CheckPermission(Reader(p), "restaurant.read")
  <2>1. ByStaff(p) /\ Begin(p, "restaurant", allowed, <<"access", "find", "answer">>)
    BY <1>6 DEF StaffRestaurant
  <2>2. call[p].kind = "restaurant" =>
           Prepared(call[p], Reader(p), OrderAt[Asked[p]], <<"access", "find", "answer">>)
    BY DEF Prepared, PreparedStaff
  <2>3. Head(<<"access", "find", "answer">>) = "access" /\ allowed \in BOOLEAN
    BY FirstAndRest DEF CheckPermission
  <2> HIDE DEF allowed
  <2> QED BY <2>1, <2>2, <2>3, BeginIsSound DEF LastSteps
<1> QED BY <1>2, <1>3, <1>4, <1>5, <1>6 DEF Calling

-----------------------------------------------------------------------------
(* What the lists bring.                                                   *)

\* Rows that the queries of a call may bring.
Brings(p, N) ==
    /\ N \subseteq Rows
    /\ \A r \in N : IsLive(r) /\ (~ByStaff(p) => Open(r))
    /\ ByStaff(p) /\ call[p].kind # "regions" /\ ~Unfiltered(p) =>
          \A r \in N : InScope(Reader(p), r)

LEMMA BroughtIsSeen ==
    ASSUME NEW p \in Readers, ReaderSound(p), state[p] = "running",
           UNCHANGED <<call[p].by, call[p].kind, was[p]>>,
           NEW N, Brings(p, N), Listed(p)' \subseteq Listed(p) \cup N
    PROVE  Seen(p)' /\ Held(p)'
<1>1. Reader(p)' = Reader(p) /\ ByStaff(p)' = ByStaff(p) /\ Unfiltered(p)' = Unfiltered(p)
  BY DEF Reader, ByStaff, Unfiltered
<1>2. ASSUME NEW r \in N, ByStaff(p) => InScope(Reader(p), r) PROVE r \in was[p]
  <2>1. r \in Visible(p)
    BY <1>2 DEF Brings, Visible
  <2> QED BY <2>1 DEF ReaderSound, Observed
<1>3. Seen(p)'
  BY <1>1, <1>2 DEF ReaderSound, Seen
<1>4. Held(p)'
  BY <1>1 DEF ReaderSound, Held, Brings
<1> QED BY <1>3, <1>4

LEMMA MatchingBrings ==
    ASSUME NEW p \in Readers, ReaderSound(p), NEW t \in {"region", "restaurant"},
           ByStaff(p) =>
              \/ call[p].kind = "regions"
              \/ /\ t = "restaurant" /\ call[p].kind = "restaurants"
                 /\ ~(Reader(p).role \in RestaurantRoles /\ Reader(p).restaurant # None)
              \/ t = "restaurant" /\ SuperAdminOrRegion(Reader(p))
    PROVE  /\ Brings(p, Matching(p, t)) /\ IsFiniteSet(Matching(p, t))
           /\ Matching(p, t) \subseteq IF t = "region" THEN Regions ELSE Restaurants
<1>1. Matching(p, t) \subseteq IF t = "region" THEN Regions ELSE Restaurants
  BY DEF Matching, RegionFilter, RestaurantFilter
<1>2. IsFiniteSet(Matching(p, t))
  <2>1. Matching(p, t) \subseteq Rows
    BY <1>1 DEF Rows
  <2> QED BY <2>1, TablesAssumption, FS_Subset
<1>3. \A r \in Matching(p, t) : IsLive(r) /\ (~ByStaff(p) => Open(r))
  BY DEF Matching, RegionFilter, RestaurantFilter, Open
<1>4. ASSUME ByStaff(p), call[p].kind # "regions", ~Unfiltered(p), NEW r \in Matching(p, t)
      PROVE  InScope(Reader(p), r)
  <2>1. t = "restaurant" /\ r \in RestaurantFilter(p) /\ r \in Restaurants
    BY <1>4 DEF Matching, RestaurantFilter
  <2>2. r \notin Regions
    BY <2>1, TablesAssumption
  <2>3. Reader(p).role \in Roles
    BY <1>4, ReaderTyped
  <2>4. \/ Reader(p).role = "super_admin"
        \/ Reader(p).role = "regional_manager" /\ Reader(p).region # None
    BY <1>4, <2>3 DEF Unfiltered, SuperAdminOrRegion, Roles, RestaurantRoles
  <2>5. Reader(p).role = "regional_manager" => Reader(p).region \in {None, RegionOf[r]}
    BY <1>4, <2>1 DEF RestaurantFilter, FilterRegion
  <2> QED BY <2>2, <2>4, <2>5 DEF InScope
<1> QED BY <1>1, <1>2, <1>3, <1>4 DEF Brings, Rows

\* A page of a sorted list.
LEMMA PageTyped ==
    ASSUME NEW S, IsFiniteSet(S), NEW s \in Sorted(S), NEW limit \in Int, NEW offset \in Int
    PROVE  /\ PageFrom(limit, offset, s) \in Seq(S)
           /\ s \in Seq(S) /\ Len(s) = Cardinality(S)
<1>1. Cardinality(S) \in Nat /\ s \in [1..Cardinality(S) -> S]
  BY FS_CardinalityType DEF Sorted
<1>2. s \in Seq(S) /\ Len(s) = Cardinality(S) /\ DOMAIN s = 1..Len(s)
  BY <1>1
<1>3. PICK first \in Nat, size \in Nat : first = PageOffset(offset) /\ size = PageLimit(limit)
  BY ReadersAssumption DEF PageOffset, PageLimit
<1>4. PICK n \in Int : n = (IF first + size < Len(s) THEN first + size ELSE Len(s))
  BY <1>1, <1>2, <1>3
<1>5. PageFrom(limit, offset, s) = SubSeq(s, first + 1, n)
  BY <1>3, <1>4 DEF PageFrom
<1>6. n <= Len(s)
  BY <1>1, <1>2, <1>3, <1>4
<1>7. \A i \in (first + 1)..n : s[i] \in S
  BY <1>1, <1>2, <1>3, <1>6
<1>8. SubSeq(s, first + 1, n) \in Seq(S)
  BY <1>3, <1>7, SubSeqProperties
<1> QED BY <1>2, <1>5, <1>8

LEMMA RangeTyped == ASSUME NEW S, NEW s \in Seq(S) PROVE Range(s) \subseteq S
BY DEF Range

LEMMA RangeOfTwo ==
    ASSUME NEW S, NEW s \in Seq(S), NEW t \in Seq(S)
    PROVE  s \o t \in Seq(S) /\ Range(s \o t) = Range(s) \cup Range(t)
<1>1. /\ s \o t \in Seq(S) /\ Len(s \o t) = Len(s) + Len(t)
      /\ \A i \in 1..Len(s) + Len(t) :
            (s \o t)[i] = IF i <= Len(s) THEN s[i] ELSE t[i - Len(s)]
  BY ConcatProperties
<1>2. ASSUME NEW i \in 1..Len(t) PROVE \E j \in 1..Len(s) + Len(t) : (s \o t)[j] = t[i]
  <2>1. Len(s) + i \in 1..Len(s) + Len(t) /\ ~(Len(s) + i <= Len(s)) /\ Len(s) + i - Len(s) = i
    OBVIOUS
  <2> QED BY <1>1, <2>1
<1>3. ASSUME NEW i \in 1..Len(s) PROVE \E j \in 1..Len(s) + Len(t) : (s \o t)[j] = s[i]
  BY <1>1, <1>3
<1>4. ASSUME NEW i \in 1..Len(s) + Len(t)
      PROVE  \/ \E j \in 1..Len(s) : (s \o t)[i] = s[j]
             \/ \E j \in 1..Len(t) : (s \o t)[i] = t[j]
  <2>1. CASE i <= Len(s)
    BY <1>1, <2>1
  <2>2. CASE i > Len(s)
    <3>1. i - Len(s) \in 1..Len(t) /\ ~(i <= Len(s))
      BY <2>2
    <3> QED BY <1>1, <3>1
  <2> QED BY <2>1, <2>2
<1>5. DOMAIN s = 1..Len(s) /\ DOMAIN t = 1..Len(t)
  OBVIOUS
<1>6. PICK u \in Seq(S) : u = s \o t
  BY <1>1
<1>7. DOMAIN u = 1..Len(s) + Len(t)
  BY <1>1, <1>6
<1>8. ASSUME NEW x \in Range(u) PROVE x \in Range(s) \cup Range(t)
  <2>1. PICK i \in 1..Len(s) + Len(t) : x = u[i]
    BY <1>7, <1>8 DEF Range
  <2> QED BY <1>4, <1>5, <1>6, <2>1 DEF Range
<1>9. ASSUME NEW x \in Range(s) PROVE x \in Range(u)
  <2>1. PICK i \in 1..Len(s) : x = s[i]
    BY <1>5, <1>9 DEF Range
  <2> QED BY <1>3, <1>6, <1>7, <2>1 DEF Range
<1>10. ASSUME NEW x \in Range(t) PROVE x \in Range(u)
  <2>1. PICK i \in 1..Len(t) : x = t[i]
    BY <1>5, <1>10 DEF Range
  <2> QED BY <1>2, <1>6, <1>7, <2>1 DEF Range
<1> QED BY <1>1, <1>6, <1>8, <1>9, <1>10

LEMMA OneTyped == ASSUME NEW S, NEW r \in S PROVE <<r>> \in Seq(S)
OBVIOUS

LEMMA RangeOfSome == ASSUME NEW S, NEW s \in Seq(S), s # <<>> PROVE Range(s) # {}
<1>1. Len(s) # 0
  BY EmptySeq
<1>2. 1 \in DOMAIN s
  BY <1>1
<1> QED BY <1>2 DEF Range

LEMMA RangeOfOne == ASSUME NEW r PROVE Range(<<r>>) = {r}
BY DEF Range

-----------------------------------------------------------------------------
(* A running call takes a step.                                            *)

\* What is known before every step.
LEMMA Running ==
    ASSUME NEW p \in Readers, OrdersSound, state[p] = "running"
    PROVE  /\ ReaderSound(p) /\ Known(p) /\ answer[p] = {}
           /\ Prepared(call[p], Reader(p), OrderAt[Asked[p]], plan[p])
           /\ NextStep(call[p], Reader(p), OrderAt[Asked[p]], plan[p])
<1>1. ReaderSound(p)
  BY DEF OrdersSound
<1> QED BY <1>1, PlanStep DEF ReaderSound, Planned, Unbegun

\* A step of p, of which only p's own variables are touched.
StepOf(p) ==
    /\ UNCHANGED orgVars /\ PerReader' /\ OrderTyped'
    /\ \A r \in Readers : r # p => Same(r)

\* It goes on, with l listed and the cursor at k, as a call about c.
Moves(p, c, l, k) ==
    /\ GoOn(p) /\ call' = [call EXCEPT ![p].at = c]
    /\ listed' = [listed EXCEPT ![p] = l] /\ cursor' = [cursor EXCEPT ![p] = k]
    /\ answer' = answer /\ was' = was /\ always' = always /\ steady' = steady
    /\ shown' = shown /\ order' = order /\ UNCHANGED orgVars

Moved(p, c, l, k) ==
    /\ StepOf(p) /\ plan'[p] = Tail(plan[p])
    /\ state'[p] = IF Len(plan[p]) = 1 THEN "ok" ELSE state[p]
    /\ listed'[p] = l /\ cursor'[p] = k
    /\ UNCHANGED <<call[p].by, call[p].kind, call[p].limit, call[p].offset>>
    /\ call'[p] = [call[p] EXCEPT !.at = c]

LEMMA StepsOn ==
    ASSUME NEW p \in Readers, OrdersSound, NEW c, NEW l, NEW k, Moves(p, c, l, k)
    PROVE  Moved(p, c, l, k)
<1> USE DEF Moves, Moved
<1>1. call[p] \in Call
  BY DEF OrdersSound, ReaderSound, Known
<1>2. plan'[p] = Tail(plan[p]) /\ state'[p] = (IF Len(plan[p]) = 1 THEN "ok" ELSE state[p])
  BY DEF GoOn, OrdersSound, PerReader
<1>3. StepOf(p)
  BY DEF StepOf, GoOn, OrdersSound, PerReader, OrderTyped, Same
<1>4. /\ listed'[p] = l /\ cursor'[p] = k /\ call'[p] = [call[p] EXCEPT !.at = c]
  BY DEF OrdersSound, PerReader
<1>5. UNCHANGED <<call[p].by, call[p].kind, call[p].limit, call[p].offset>>
  BY <1>1, <1>4 DEF Call
<1> QED BY <1>2, <1>3, <1>4, <1>5

LEMMA SameCall ==
    ASSUME NEW p \in Readers, OrdersSound, UNCHANGED call
    PROVE  call' = [call EXCEPT ![p].at = call[p].at]
<1>1. call[p] \in Call /\ call = [r \in Readers |-> call[r]]
  BY DEF OrdersSound, ReaderSound, Known, PerReader
<1>2. [call[p] EXCEPT !.at = call[p].at] = call[p]
  BY <1>1 DEF Call
<1> QED BY <1>1, <1>2

LEMMA StepsSound ==
    ASSUME NEW p \in Readers, OrdersSound, StepOf(p), ReaderSound(p)'
    PROVE  OrdersSound'
BY OneReader DEF StepOf

LEMMA StopsSound ==
    ASSUME NEW p \in Readers, OrdersSound, state[p] = "running", Stop(p), UNCHANGED orgVars,
           UNCHANGED <<call, cursor, listed, answer, was, always, steady, shown>>, OrderTyped'
    PROVE  OrdersSound'
<1>1. StepOf(p) /\ plan'[p] = <<>> /\ state'[p] = "error" /\ answer'[p] = answer[p]
  BY DEF Stop, StepOf, OrdersSound, PerReader, Same
<1>2. Known(p)' /\ ShownInScope(p)'
  BY <1>1 DEF OrdersSound, ReaderSound, Known, ShownInScope, Reader
<1> QED BY <1>1, <1>2, StepsSound, CallStops DEF OrdersSound

\* A query for one row brought it.
LEMMA FoundOne ==
    ASSUME NEW p \in Readers, OrdersSound, state[p] = "running", GoOn(p), UNCHANGED orgVars,
           UNCHANGED <<call, cursor, answer, was, always, steady, shown, order>>,
           NEW r, Brings(p, {r}),
           \/ r \in Regions /\ listed' = [listed EXCEPT ![p].region = <<r>>]
           \/ r \in Restaurants /\ listed' = [listed EXCEPT ![p].restaurant = <<r>>],
           Head(plan[p]) \in Steps \ {"access", "order"},
           call[p].kind = "GetRestaurant" =>
              /\ r \in Restaurants => r = call[p].at
              /\ Head(Tail(plan[p])) = "answer" => RegionOf[call[p].at] \in was[p],
           Head(Tail(plan[p])) \in {"order answer", "cancel"} =>
              Reader(p).role = "super_admin" \/ OrderAt[Asked[p]] \in was[p]
    PROVE  OrdersSound'
<1>1. PICK l \in {[listed[p] EXCEPT !.region = <<r>>], [listed[p] EXCEPT !.restaurant = <<r>>]} :
         /\ listed' = [listed EXCEPT ![p] = l]
         /\ \/ r \in Regions /\ l = [listed[p] EXCEPT !.region = <<r>>]
            \/ r \in Restaurants /\ l = [listed[p] EXCEPT !.restaurant = <<r>>]
  <2>1. CASE r \in Regions /\ listed' = [listed EXCEPT ![p].region = <<r>>]
    BY <2>1
  <2>2. CASE r \in Restaurants /\ listed' = [listed EXCEPT ![p].restaurant = <<r>>]
    BY <2>2
  <2> QED BY <2>1, <2>2
<1>2. cursor' = [cursor EXCEPT ![p] = cursor[p]]
  BY DEF OrdersSound, PerReader
<1>3. /\ StepOf(p) /\ plan'[p] = Tail(plan[p]) /\ listed'[p] = l /\ call'[p] = call[p]
      /\ state'[p] = IF Len(plan[p]) = 1 THEN "ok" ELSE state[p]
  <2>1. PICK c \in {call[p].at} : call' = [call EXCEPT ![p].at = c]
    BY SameCall
  <2>2. PICK k \in {cursor[p]} : cursor' = [cursor EXCEPT ![p] = k]
    BY <1>2
  <2>3. UNCHANGED <<answer, was, always, steady, shown, order>>
    OBVIOUS
  <2>4. listed' = [listed EXCEPT ![p] = l]
    BY <1>1
  <2>5. /\ StepOf(p) /\ plan'[p] = Tail(plan[p]) /\ listed'[p] = l
        /\ state'[p] = IF Len(plan[p]) = 1 THEN "ok" ELSE state[p]
    <3>1. Moves(p, c, l, k)
      BY <2>1, <2>2, <2>3, <2>4 DEF Moves
    <3>2. Moved(p, c, l, k)
      BY <3>1, StepsOn
    <3> QED BY <3>2 DEF Moved
  <2> QED BY <2>5
<1>4. listed[p] \in Page
  BY DEF OrdersSound, ReaderSound, Known
<1>5. /\ l \in Page /\ Range(l.region) \subseteq Range(listed[p].region) \cup {r}
      /\ Range(l.restaurant) \subseteq Range(listed[p].restaurant) \cup {r}
      /\ \/ r \in Regions /\ l.restaurant = listed[p].restaurant
         \/ r \in Restaurants /\ Range(l.restaurant) = {r}
  <2>1. CASE r \in Regions /\ l = [listed[p] EXCEPT !.region = <<r>>]
    <3>1. <<r>> \in Seq(Regions)
      <4>1. r \in Regions
        BY <2>1
      <4> QED BY <4>1, OneTyped
    <3>2. l \in Page /\ l.region = <<r>> /\ l.restaurant = listed[p].restaurant
      BY <1>4, <2>1, <3>1 DEF Page
    <3> QED BY <2>1, <3>2, RangeOfOne
  <2>2. CASE r \in Restaurants /\ l = [listed[p] EXCEPT !.restaurant = <<r>>]
    <3>1. <<r>> \in Seq(Restaurants)
      <4>1. r \in Restaurants
        BY <2>2
      <4> QED BY <4>1, OneTyped
    <3>2. l \in Page /\ l.restaurant = <<r>> /\ l.region = listed[p].region
      BY <1>4, <2>2, <3>1 DEF Page
    <3> QED BY <2>2, <3>2, RangeOfOne
  <2> QED BY <1>1, <2>1, <2>2
<1>6. Listed(p)' \subseteq Listed(p) \cup {r}
  BY <1>3, <1>5 DEF Listed
<1>7. Seen(p)' /\ Held(p)'
  BY <1>3, <1>6, BroughtIsSeen DEF OrdersSound
<1>8. Known(p)' /\ ShownInScope(p)'
  BY <1>3, <1>5 DEF OrdersSound, ReaderSound, Known, ShownInScope, Reader
<1>9. /\ Tail(plan[p]) # <<>> /\ Len(plan[p]) # 1
      /\ Prepared(call[p], Reader(p), OrderAt[Asked[p]], Tail(plan[p]))
  BY Running DEF NextStep, Steps, LastSteps
<1>10. Reader(p)' = Reader(p)
  BY <1>3 DEF Reader
<1>11. Planned(p)' /\ Found(p)'
  BY <1>3, <1>9, <1>10 DEF Planned, Found
<1>12. Single(p)'
  BY <1>3, <1>5 DEF OrdersSound, ReaderSound, Single
<1>13. ReaderSound(p)'
  <2>1. ReaderSound(p) /\ UNCHANGED <<table, was[p], always[p], answer[p]>>
    BY DEF OrdersSound, orgVars
  <2> QED BY <1>3, <1>7, <1>8, <1>9, <1>11, <1>12, <2>1, CallGoesOn
<1> QED BY <1>3, <1>13, StepsSound

\* The reads of a single row.
LEMMA FindsRow ==
    ASSUME NEW p \in Readers, OrdersSound, Find(p), UNCHANGED <<orgVars, order, shown>>
    PROVE  OrdersSound'
<1>1. state[p] = "running" /\ Head(plan[p]) = "find" /\ OrStop(p, IsLive(call[p].at))
  BY DEF Find, Does
<1>2. /\ ReaderSound(p) /\ NextStep(call[p], Reader(p), OrderAt[Asked[p]], plan[p])
      /\ WellFormed(call[p])
  BY <1>1, Running DEF Known
<1>3. CASE ~IsLive(call[p].at)
  <2>1. Stop(p) /\ listed' = listed
    BY <1>1, <1>3 DEF Find, OrStop
  <2> QED BY <1>1, <2>1, StopsSound DEF Find, OrdersSound, OrderTyped
<1>4. CASE IsLive(call[p].at)
  <2>1. PICK r \in {call[p].at} : TRUE
    OBVIOUS
  <2>2. r \in Rows /\ OrderAt[Asked[p]] \in Restaurants
    BY <1>1, <1>2, <2>1, OrdersAssumption DEF NextStep, WellFormed, Rows
  <2>3. GoOn(p) /\ UNCHANGED <<call, cursor, answer, was, always, steady, shown, order>>
    BY <1>1, <1>4 DEF Find, OrStop
  <2>4. \/ r \in Regions /\ listed' = [listed EXCEPT ![p].region = <<r>>]
        \/ r \in Restaurants /\ listed' = [listed EXCEPT ![p].restaurant = <<r>>]
    BY <1>4, <2>1, <2>2 DEF Find, Rows
  <2>5. InScope(Reader(p), r) /\ ByStaff(p) /\ IsLive(r)
    BY <1>1, <1>2, <1>4, <2>1, ReaderTyped DEF NextStep
  <2>6. Brings(p, {r})
    BY <2>2, <2>5 DEF Brings
  <2>7. Head(Tail(plan[p])) \in {"order answer", "cancel"} => r = OrderAt[Asked[p]]
    BY <1>1, <1>2, <2>1 DEF NextStep, Steps
  <2>8. r \in was[p]
    <3>1. r \in Visible(p)
      BY <2>2, <2>5 DEF Visible
    <3> QED BY <1>1, <1>2, <3>1 DEF ReaderSound, Observed
  <2>9. /\ call[p].kind # "GetRestaurant"
        /\ Head(plan[p]) \in Steps \ {"access", "order"}
    BY <1>1, <1>2 DEF NextStep, Steps, DirectoryKinds
  <2> QED BY <1>1, <2>3, <2>4, <2>6, <2>7, <2>8, <2>9, FoundOne
<1> QED BY <1>3, <1>4

LEMMA FindsOpen ==
    ASSUME NEW p \in Readers, OrdersSound, FindOpen(p), UNCHANGED <<orgVars, order, shown>>
    PROVE  OrdersSound'
<1>1. state[p] = "running" /\ Head(plan[p]) = "find open" /\ OrStop(p, Open(call[p].at))
  BY DEF FindOpen, Does
<1>2. /\ ReaderSound(p) /\ NextStep(call[p], Reader(p), OrderAt[Asked[p]], plan[p])
      /\ WellFormed(call[p])
  BY <1>1, Running DEF Known
<1>3. CASE ~Open(call[p].at)
  <2>1. Stop(p) /\ listed' = listed
    BY <1>1, <1>3 DEF FindOpen, OrStop
  <2> QED BY <1>1, <2>1, StopsSound DEF FindOpen, OrdersSound, OrderTyped
<1>4. CASE Open(call[p].at)
  <2>1. PICK r \in {call[p].at} : TRUE
    OBVIOUS
  <2>2. /\ r \in Restaurants /\ call[p].kind = "GetRestaurant" /\ ~ByStaff(p)
        /\ Head(Tail(plan[p])) = "open region"
    BY <1>1, <1>2, <2>1, ReaderTyped DEF NextStep, WellFormed, DirectoryKinds
  <2>3. GoOn(p) /\ UNCHANGED <<call, cursor, answer, was, always, steady, shown, order>>
    BY <1>1, <1>4 DEF FindOpen, OrStop
  <2>4. listed' = [listed EXCEPT ![p].restaurant = <<r>>]
    BY <1>4, <2>1 DEF FindOpen
  <2>5. Brings(p, {r})
    BY <1>4, <2>1, <2>2 DEF Brings, Open, Rows
  <2>6. Head(plan[p]) \in Steps \ {"access", "order"}
    BY <1>1 DEF Steps
  <2> QED BY <1>1, <2>1, <2>2, <2>3, <2>4, <2>5, <2>6, FoundOne
<1> QED BY <1>3, <1>4

LEMMA FindsOpenRegion ==
    ASSUME NEW p \in Readers, OrdersSound, FindOpenRegion(p), UNCHANGED <<orgVars, order, shown>>
    PROVE  OrdersSound'
<1>1. PICK g \in {RegionOf[call[p].at]} : TRUE
  OBVIOUS
<1>2. state[p] = "running" /\ Head(plan[p]) = "open region" /\ OrStop(p, Open(g))
  BY <1>1 DEF FindOpenRegion, Does
<1>3. /\ ReaderSound(p) /\ NextStep(call[p], Reader(p), OrderAt[Asked[p]], plan[p])
      /\ WellFormed(call[p])
  BY <1>2, Running DEF Known
<1>4. CASE ~Open(g)
  <2>1. Stop(p) /\ listed' = listed
    BY <1>1, <1>2, <1>4 DEF FindOpenRegion, OrStop
  <2> QED BY <1>2, <2>1, StopsSound DEF FindOpenRegion, OrdersSound, OrderTyped
<1>5. CASE Open(g)
  <2>1. /\ call[p].at \in Restaurants /\ call[p].kind = "GetRestaurant" /\ ~ByStaff(p)
        /\ Head(Tail(plan[p])) = "answer"
    BY <1>2, <1>3, ReaderTyped DEF NextStep, WellFormed, DirectoryKinds
  <2>2. g \in Regions /\ g \notin Restaurants
    BY <1>1, <2>1, OrganisationAssumption, TablesAssumption
  <2>3. GoOn(p) /\ UNCHANGED <<call, cursor, answer, was, always, steady, shown, order>>
    BY <1>2, <1>5 DEF FindOpenRegion, OrStop
  <2>4. listed' = [listed EXCEPT ![p].region = <<g>>]
    BY <1>1, <1>5 DEF FindOpenRegion
  <2>5. Brings(p, {g})
    BY <1>5, <2>1, <2>2 DEF Brings, Open, Rows
  <2>6. RegionOf[call[p].at] \in was[p]
    <3>1. g \in Visible(p)
      BY <1>5, <2>1, <2>2 DEF Visible, Rows
    <3> QED BY <1>1, <1>2, <1>3, <3>1 DEF ReaderSound, Observed
  <2>7. Head(plan[p]) \in Steps \ {"access", "order"}
    BY <1>2 DEF Steps
  <2> QED BY <1>2, <2>1, <2>2, <2>3, <2>4, <2>5, <2>6, <2>7, FoundOne
<1> QED BY <1>4, <1>5

LEMMA FindsOwn ==
    ASSUME NEW p \in Readers, OrdersSound, FindOwn(p), UNCHANGED <<orgVars, order, shown>>
    PROVE  OrdersSound'
<1>1. PICK r \in {Reader(p).restaurant} : TRUE
  OBVIOUS
<1>2. state[p] = "running" /\ Head(plan[p]) = "own" /\ OrStop(p, IsLive(r))
  BY <1>1 DEF FindOwn, Does
<1>3. ReaderSound(p) /\ NextStep(call[p], Reader(p), OrderAt[Asked[p]], plan[p])
  BY <1>2, Running
<1>4. CASE ~IsLive(r)
  <2>1. Stop(p) /\ listed' = listed
    BY <1>1, <1>2, <1>4 DEF FindOwn, OrStop
  <2> QED BY <1>2, <2>1, StopsSound DEF FindOwn, OrdersSound, OrderTyped
<1>5. CASE IsLive(r)
  <2>1. /\ call[p].kind = "restaurants" /\ r # None /\ Reader(p).role \in RestaurantRoles
        /\ Head(Tail(plan[p])) \notin {"order answer", "cancel"}
    BY <1>1, <1>2, <1>3 DEF NextStep, Steps
  <2>2. ByStaff(p) /\ r \in Restaurants /\ r \in Rows
    BY <1>1, <1>3, <2>1, ReaderTyped DEF DirectoryKinds, Account, Rows
  <2>3. GoOn(p) /\ UNCHANGED <<call, cursor, answer, was, always, steady, shown, order>>
    BY <1>2, <1>5 DEF FindOwn, OrStop
  <2>4. listed' = [listed EXCEPT ![p].restaurant = <<r>>]
    BY <1>1, <1>5 DEF FindOwn
  <2>5. Brings(p, {r})
    BY <1>1, <1>5, <2>1, <2>2 DEF Brings, InScope
  <2>6. Head(plan[p]) \in Steps \ {"access", "order"}
    BY <1>2 DEF Steps
  <2> QED BY <1>2, <2>1, <2>2, <2>3, <2>4, <2>5, <2>6, FoundOne
<1> QED BY <1>4, <1>5

\* A step that only learns what the call is about, or that it may go on.
LEMMA GoesOn ==
    ASSUME NEW p \in Readers, OrdersSound, state[p] = "running", NEW c, NEW l, NEW k,
           l = listed[p], k = cursor[p], Moves(p, c, l, k),
           call[p].kind \notin DirectoryKinds \cup {"region"},
           c \in Restaurants \/ c = call[p].at,
           Tail(plan[p]) # <<>>, Head(Tail(plan[p])) \notin {"order answer", "cancel"},
           Prepared([call[p] EXCEPT !.at = c], Reader(p), OrderAt[Asked[p]], Tail(plan[p]))
    PROVE  OrdersSound'
<1>1. Moved(p, c, l, k)
  BY StepsOn
<1>2. /\ ReaderSound(p) /\ call[p] \in Call /\ WellFormed(call[p]) /\ Known(p)
      /\ Len(plan[p]) # 1
  <2>1. Known(p) /\ ReaderSound(p) /\ NextStep(call[p], Reader(p), OrderAt[Asked[p]], plan[p])
    BY Running
  <2> QED BY <2>1 DEF Known, NextStep
<1>3. /\ answer'[p] = answer[p] /\ was'[p] = was[p] /\ always'[p] = always[p] /\ table' = table
      /\ steady'[p] = steady[p] /\ shown'[p] = shown[p]
  BY DEF Moves, orgVars
<1>4. /\ StepOf(p) /\ plan'[p] = Tail(plan[p]) /\ state'[p] = "running"
      /\ listed'[p] = listed[p] /\ cursor'[p] = cursor[p]
      /\ UNCHANGED <<call[p].by, call[p].kind>> /\ call'[p] = [call[p] EXCEPT !.at = c]
  BY <1>1, <1>2 DEF Moved
<1>5. Reader(p)' = Reader(p) /\ ByStaff(p)' = ByStaff(p) /\ Unfiltered(p)' = Unfiltered(p)
  BY <1>4 DEF Reader, ByStaff, Unfiltered
<1>6. Known(p)'
  <2>1. c \in Rows \cup {None}
    BY <1>2 DEF Call, Rows
  <2>2. PICK d \in Call : d = [call[p] EXCEPT !.at = c]
    BY <1>2, <2>1 DEF Call
  <2>3. WellFormed(d)
    BY <1>2, <2>2 DEF Call, WellFormed, DirectoryKinds
  <2>4. d.kind \in {"orders", "order stats"} => d.at \in Restaurants \cup {None}
    BY <1>2, <2>2 DEF Call, Known
  <2>5. /\ state'[p] \in {"idle", "running", "ok", "error"}
        /\ cursor'[p] \in Cursor /\ listed'[p] \in Page
        /\ answer'[p] \in SUBSET Rows /\ was'[p] \in SUBSET Rows /\ always'[p] \in SUBSET Rows
        /\ steady'[p] \in BOOLEAN /\ shown'[p] \in SUBSET OrderIds
    BY <1>2, <1>3, <1>4 DEF Known
  <2> QED BY <1>4, <2>2, <2>3, <2>4, <2>5 DEF Known
<1>7. Planned(p)' /\ Found(p)'
  BY <1>4, <1>5 DEF Planned, Found
<1>8. Single(p)' /\ ShownInScope(p)'
  BY <1>2, <1>3, <1>4, <1>5 DEF ReaderSound, Single, ShownInScope, DirectoryKinds
<1>9. Seen(p)' /\ Held(p)'
  BY <1>2, <1>3, <1>4, <1>5 DEF ReaderSound, Seen, Held, Listed
<1>10. state'[p] = (IF Len(plan[p]) = 1 THEN "ok" ELSE state[p])
  BY <1>2, <1>4
<1>11. ReaderSound(p)'
  BY <1>2, <1>3, <1>4, <1>6, <1>7, <1>8, <1>9, <1>10, CallGoesOn
<1> QED BY <1>4, <1>11, StepsSound

LEMMA AccessChecked ==
    ASSUME NEW p \in Readers, OrdersSound, CheckAccess(p), UNCHANGED <<orgVars, order, shown>>
    PROVE  OrdersSound'
<1> DEFINE ok == CanAccessRestaurant(Reader(p), call[p].at, LiveRestaurants)
<1>1. state[p] = "running" /\ Head(plan[p]) = "access" /\ OrStop(p, ok)
  BY DEF CheckAccess, Does
<1>2. /\ ReaderSound(p) /\ NextStep(call[p], Reader(p), OrderAt[Asked[p]], plan[p])
      /\ WellFormed(call[p]) /\ call[p] \in Call
  BY <1>1, Running DEF Known
<1>3. UNCHANGED <<call, cursor, listed, answer, was, always, steady, order, shown>>
  BY DEF CheckAccess
<1>4. CASE ~ok
  <2>1. Stop(p)
    BY <1>1, <1>4 DEF OrStop
  <2> QED BY <1>1, <1>3, <2>1, StopsSound DEF OrdersSound, OrderTyped
<1>5. CASE ok
  <2>1. GoOn(p)
    BY <1>1, <1>5 DEF OrStop
  <2>2. call[p].at \notin Regions
    <3>1. /\ call[p].kind \notin DirectoryKinds \cup {"regions", "region", "restaurants"}
          /\ call[p].kind \in {"orders", "order stats"} => call[p].at \in Restaurants
          /\ call[p].kind \in {"order", "cancel"} => call[p].at = OrderAt[Asked[p]]
          /\ call[p].kind = "restaurant" => call[p].at \in Restaurants
      BY <1>1, <1>2 DEF NextStep, WellFormed
    <3>2. Prepared(call[p], Reader(p), OrderAt[Asked[p]], plan[p])
      BY <1>1, Running
    <3>3. call[p].kind \in {"orders", "order stats", "order", "cancel", "restaurant"}
      BY <3>1, <3>2 DEF Prepared, PreparedDirectory, PreparedStaff, PreparedOverview,
         PreparedOrder, DirectoryKinds
    <3> QED BY <1>2, <3>1, <3>3, ReaderTyped, TablesAssumption
  <2>3. InScope(Reader(p), call[p].at)
    BY <1>5, <2>2 DEF CanAccessRestaurant, InScope
  <2>4. /\ Prepared(call[p], Reader(p), OrderAt[Asked[p]], Tail(plan[p]))
        /\ Tail(plan[p]) # <<>> /\ call[p].kind \notin DirectoryKinds \cup {"region"}
        /\ Head(Tail(plan[p])) \notin {"order answer", "cancel"}
    BY <1>1, <1>2, <2>3 DEF NextStep, Steps, LastSteps
  <2>5. PICK c \in {call[p].at}, l \in {listed[p]}, k \in {cursor[p]} :
           call' = [call EXCEPT ![p].at = c]
    BY <1>3, SameCall
  <2>6. [call[p] EXCEPT !.at = c] = call[p]
    BY <1>2, <2>5 DEF Call
  <2>7. /\ listed' = [listed EXCEPT ![p] = l] /\ cursor' = [cursor EXCEPT ![p] = k]
    BY <1>3, <2>5 DEF OrdersSound, PerReader
  <2>8. Moves(p, c, l, k)
    BY <1>3, <2>1, <2>5, <2>7 DEF Moves
  <2> QED BY <1>1, <2>4, <2>5, <2>6, <2>8, GoesOn
<1> QED BY <1>4, <1>5

LEMMA FailsSound ==
    ASSUME NEW p \in Readers, OrdersSound, ReadFails(p), UNCHANGED <<orgVars, order, shown>>
    PROVE  OrdersSound'
BY StopsSound DEF ReadFails, OrdersSound, OrderTyped

\* A list counts its rows.
LEMMA CountSound ==
    ASSUME NEW p \in Readers, OrdersSound, NEW t \in {"region", "restaurant"}, Count(p, t),
           state[p] = "running", IsFiniteSet(Matching(p, t)), UNCHANGED <<orgVars, order, shown>>
    PROVE  OrdersSound'
<1>1. PICK n \in Nat : cursor' = [cursor EXCEPT ![p].total = n]
  BY FS_CardinalityType DEF Count
<1>2. UNCHANGED <<call, state, plan, listed, answer, was, always, steady, shown, order, table>>
  BY DEF Count, orgVars
<1>3. ReaderSound(p) /\ cursor[p] \in Cursor
  BY DEF OrdersSound, ReaderSound, Known
<1>4. cursor'[p] \in Cursor
  BY <1>1, <1>3 DEF Cursor, OrdersSound, PerReader
<1>5. Reader(p)' = Reader(p) /\ ByStaff(p)' = ByStaff(p) /\ Unfiltered(p)' = Unfiltered(p)
  BY <1>2 DEF Reader, ByStaff, Unfiltered
<1>6. Visible(p)' = Visible(p)
  BY <1>2, <1>5 DEF Visible, IsLive, Open, ByStaff
<1>7. Known(p)' /\ Planned(p)' /\ Unbegun(p)' /\ Observed(p)'
  BY <1>2, <1>3, <1>4, <1>5, <1>6 DEF ReaderSound, Known, Planned, Unbegun, Observed
<1>8. Seen(p)' /\ Held(p)' /\ Single(p)' /\ Found(p)' /\ Told(p)' /\ ShownInScope(p)'
  BY <1>2, <1>3, <1>5, <1>6 DEF ReaderSound, Seen, Held, Single, Found, Told, ShownInScope, Listed
<1>9. ReaderSound(p)'
  BY <1>7, <1>8 DEF ReaderSound
<1>10. StepOf(p)
  BY <1>1, <1>2 DEF StepOf, OrdersSound, PerReader, OrderTyped, Same
<1> QED BY <1>9, <1>10, StepsSound

TableOf(t) == IF t = "region" THEN Regions ELSE Restaurants

PageSteps == {"regions", "restaurants", "region page", "restaurant page"}

\* A list has read a page.
LEMMA PageRead ==
    ASSUME NEW p \in Readers, OrdersSound, state[p] = "running",
           NEW t \in {"region", "restaurant"}, NEW N, Brings(p, N),
           NEW rd \in Seq(TableOf(t)), Range(rd) \subseteq Range(listed[p][t]) \cup N,
           listed' = [listed EXCEPT ![p][t] = rd],
           NEW k \in Cursor, cursor' = [cursor EXCEPT ![p] = k],
           GoOn(p) \/ UNCHANGED <<plan, state>>,
           Head(plan[p]) \in PageSteps,
           UNCHANGED orgVars, UNCHANGED <<call, answer, was, always, steady, shown, order>>
    PROVE  OrdersSound'
<1>1. /\ ReaderSound(p) /\ Known(p) /\ answer[p] = {} /\ listed[p] \in Page
      /\ NextStep(call[p], Reader(p), OrderAt[Asked[p]], plan[p])
  BY Running DEF Known
<1>2. /\ Tail(plan[p]) # <<>> /\ Len(plan[p]) # 1
      /\ call[p].kind # "GetRestaurant"
      /\ Prepared(call[p], Reader(p), OrderAt[Asked[p]], Tail(plan[p]))
      /\ Head(plan[p]) \notin {"order answer", "cancel"}
      /\ Head(Tail(plan[p])) \notin {"order answer", "cancel"}
  BY <1>1 DEF NextStep, Steps, LastSteps, PageSteps
<1>3. PICK l \in {[listed[p] EXCEPT ![t] = rd]} : listed' = [listed EXCEPT ![p] = l]
  OBVIOUS
<1>4. /\ l \in Page
      /\ Range(l.region) \cup Range(l.restaurant) \subseteq Listed(p) \cup N
  <2>1. CASE t = "region"
    <3>1. l \in Page /\ l.region = rd /\ l.restaurant = listed[p].restaurant
      BY <1>1, <1>3, <2>1 DEF Page, TableOf
    <3>2. listed[p][t] = listed[p].region
      BY <2>1
    <3> QED BY <3>1, <3>2 DEF Listed
  <2>2. CASE t = "restaurant"
    <3>1. l \in Page /\ l.restaurant = rd /\ l.region = listed[p].region
      BY <1>1, <1>3, <2>2 DEF Page, TableOf
    <3>2. listed[p][t] = listed[p].restaurant
      BY <2>2
    <3> QED BY <3>1, <3>2 DEF Listed
  <2> QED BY <2>1, <2>2
<1>5. StepOf(p)
  <2>1. CASE GoOn(p)
    BY <1>3, <2>1 DEF GoOn, StepOf, OrdersSound, PerReader, OrderTyped, Same
  <2>2. CASE UNCHANGED <<plan, state>>
    BY <1>3, <2>2 DEF StepOf, OrdersSound, PerReader, OrderTyped, Same
  <2> QED BY <2>1, <2>2
<1>6. listed'[p] = l /\ cursor'[p] = k
  BY <1>3 DEF OrdersSound, PerReader
<1>7. /\ UNCHANGED <<call[p], answer[p], was[p], always[p], steady[p], shown[p], table>>
  BY DEF orgVars
<1>8. Reader(p)' = Reader(p) /\ ByStaff(p)' = ByStaff(p) /\ Unfiltered(p)' = Unfiltered(p)
  BY <1>7 DEF Reader, ByStaff, Unfiltered
<1>9. Seen(p)' /\ Held(p)'
  <2>1. Listed(p)' \subseteq Listed(p) \cup N
    BY <1>4, <1>6 DEF Listed
  <2> QED BY <1>1, <1>7, <2>1, BroughtIsSeen
<1>10. \/ plan'[p] = Tail(plan[p]) /\ state'[p] = (IF Len(plan[p]) = 1 THEN "ok" ELSE state[p])
       \/ plan'[p] = plan[p] /\ state'[p] = state[p]
  BY DEF GoOn, OrdersSound, PerReader
<1>11. state'[p] = "running"
  BY <1>2, <1>10
<1>12. Known(p)' /\ ShownInScope(p)'
  BY <1>1, <1>4, <1>6, <1>7, <1>8, <1>11 DEF ReaderSound, Known, ShownInScope
<1>13. Planned(p)' /\ Single(p)' /\ Found(p)'
  BY <1>1, <1>2, <1>7, <1>8, <1>10, <1>11 DEF ReaderSound, Planned, Single, Found
<1>14. Unbegun(p)' /\ Told(p)' /\ Observed(p)'
  <2>1. Visible(p)' = Visible(p)
    BY <1>7, <1>8 DEF Visible, IsLive, Open, ByStaff
  <2> QED BY <1>1, <1>7, <1>11, <2>1 DEF Unbegun, Told, Observed, ReaderSound
<1>15. ReaderSound(p)'
  BY <1>9, <1>12, <1>13, <1>14 DEF ReaderSound
<1> QED BY <1>5, <1>15, StepsSound

\* What the lists of a running call may bring.
LEMMA ListBrings ==
    ASSUME NEW p \in Readers, OrdersSound, state[p] = "running",
           NEW t \in {"region", "restaurant"},
           \/ Head(plan[p]) = "regions" /\ t = "region"
           \/ Head(plan[p]) = "restaurants" /\ t = "restaurant"
           \/ Head(plan[p]) = "region page" /\ t = "region"
           \/ Head(plan[p]) = "restaurant page" /\ t = "restaurant"
    PROVE  /\ Brings(p, Matching(p, t)) /\ IsFiniteSet(Matching(p, t))
           /\ Matching(p, t) \subseteq TableOf(t) /\ Head(plan[p]) \in PageSteps
<1>1. ReaderSound(p) /\ NextStep(call[p], Reader(p), OrderAt[Asked[p]], plan[p])
  BY Running
<1>2. ByStaff(p) =>
         \/ call[p].kind = "regions"
         \/ /\ t = "restaurant" /\ call[p].kind = "restaurants"
            /\ ~(Reader(p).role \in RestaurantRoles /\ Reader(p).restaurant # None)
         \/ t = "restaurant" /\ SuperAdminOrRegion(Reader(p))
  BY <1>1, ReaderTyped DEF NextStep, DirectoryKinds
<1> QED BY <1>1, <1>2, MatchingBrings DEF TableOf, PageSteps

LEMMA PageOnSound ==
    ASSUME NEW p \in Readers, OrdersSound, state[p] = "running",
           NEW t \in {"region", "restaurant"}, PageOn(p, t),
           Brings(p, Matching(p, t)), IsFiniteSet(Matching(p, t)),
           Matching(p, t) \subseteq TableOf(t), Head(plan[p]) \in PageSteps,
           UNCHANGED <<orgVars, order, shown>>
    PROVE  OrdersSound'
<1>1. PICK N : N = Matching(p, t)
  OBVIOUS
<1>2. PICK s \in Sorted(N) :
          LET page == PageFrom(MaxPage, cursor[p].offset, s)
              read == listed[p][t] \o page
          IN /\ listed' = [listed EXCEPT ![p][t] = read]
             /\ IF Enough(page, read, cursor[p].total)
                THEN GoOn(p) /\ cursor' = [cursor EXCEPT ![p] = Start]
                ELSE /\ cursor' = [cursor EXCEPT ![p] = [offset |-> @.offset + MaxPage,
                                                         total |-> None]]
                     /\ UNCHANGED <<plan, state>>
  BY <1>1 DEF PageOn
<1>3. listed[p] \in Page /\ cursor[p] \in Cursor /\ cursor[p].offset \in Nat
  BY DEF OrdersSound, ReaderSound, Known, Cursor
<1>4. PICK page : page = PageFrom(MaxPage, cursor[p].offset, s)
  OBVIOUS
<1>5. PICK old : old = listed[p][t]
  OBVIOUS
<1>6. page \in Seq(N) /\ page \in Seq(TableOf(t)) /\ old \in Seq(TableOf(t))
  <2>1. page \in Seq(N)
    <3>1. PICK limit \in Int, offset \in Int : limit = MaxPage /\ offset = cursor[p].offset
      BY <1>3, ReadersAssumption
    <3>2. IsFiniteSet(N)
      BY <1>1
    <3>3. PageFrom(limit, offset, s) \in Seq(N)
      BY <3>2, PageTyped
    <3> QED BY <1>4, <3>1, <3>3
  <2>2. old \in Seq(TableOf(t))
    BY <1>3, <1>5 DEF Page, TableOf
  <2> QED BY <1>1, <2>1, <2>2
<1>7. PICK rd : rd = old \o page
  OBVIOUS
<1>8. rd \in Seq(TableOf(t)) /\ Range(rd) \subseteq Range(old) \cup N
  BY <1>6, <1>7, RangeOfTwo, RangeTyped
<1>9. listed' = [listed EXCEPT ![p][t] = rd]
  BY <1>2, <1>4, <1>5, <1>7
<1>10. \E k \in Cursor : cursor' = [cursor EXCEPT ![p] = k] /\ (GoOn(p) \/ UNCHANGED <<plan, state>>)
  <2>1. Start \in Cursor /\ [offset |-> cursor[p].offset + MaxPage, total |-> None] \in Cursor
    BY <1>3, ReadersAssumption DEF Start, Cursor
  <2>2. \/ GoOn(p) /\ cursor' = [cursor EXCEPT ![p] = Start]
        \/ /\ cursor' = [cursor EXCEPT ![p] = [offset |-> cursor[p].offset + MaxPage,
                                               total |-> None]]
           /\ UNCHANGED <<plan, state>>
    BY <1>2
  <2> QED BY <2>1, <2>2
<1>11. UNCHANGED <<call, answer, was, always, steady, shown, order>>
  BY DEF PageOn
<1> QED BY <1>1, <1>5, <1>8, <1>9, <1>10, <1>11, PageRead

LEMMA PageOnceSound ==
    ASSUME NEW p \in Readers, OrdersSound, state[p] = "running",
           NEW t \in {"region", "restaurant"}, PageOnce(p, t),
           Brings(p, Matching(p, t)), IsFiniteSet(Matching(p, t)),
           Matching(p, t) \subseteq TableOf(t), Head(plan[p]) \in PageSteps,
           UNCHANGED <<orgVars, order, shown>>
    PROVE  OrdersSound'
<1>1. PICK N : N = Matching(p, t)
  OBVIOUS
<1>2. PICK s \in Sorted(N) :
          listed' = [listed EXCEPT ![p][t] = PageFrom(call[p].limit, call[p].offset, s)]
  BY <1>1 DEF PageOnce
<1>3. PICK rd : rd = PageFrom(call[p].limit, call[p].offset, s)
  OBVIOUS
<1>4. rd \in Seq(N) /\ rd \in Seq(TableOf(t))
  <2>1. call[p].limit \in Int /\ call[p].offset \in Int
    BY ReaderTyped DEF OrdersSound
  <2>2. rd \in Seq(N)
    BY <1>1, <1>3, <2>1, PageTyped
  <2> QED BY <1>1, <2>2
<1>5. Range(rd) \subseteq Range(listed[p][t]) \cup N
  BY <1>4, RangeTyped
<1>6. listed' = [listed EXCEPT ![p][t] = rd]
  BY <1>2, <1>3
<1>7. Start \in Cursor /\ cursor' = [cursor EXCEPT ![p] = Start] /\ GoOn(p)
  BY DEF Start, Cursor, PageOnce
<1>8. UNCHANGED <<call, answer, was, always, steady, shown, order>>
  BY DEF PageOnce
<1> QED BY <1>1, <1>4, <1>5, <1>6, <1>7, <1>8, PageRead

LEMMA ListsSound ==
    ASSUME NEW p \in Readers, OrdersSound, PageRegions(p) \/ PageRestaurants(p) \/ ListPage(p),
           UNCHANGED <<orgVars, order, shown>>
    PROVE  OrdersSound'
<1>1. PICK t \in {"region", "restaurant"} :
         /\ state[p] = "running"
         /\ \/ Head(plan[p]) = "regions" /\ t = "region"
            \/ Head(plan[p]) = "restaurants" /\ t = "restaurant"
            \/ Head(plan[p]) = "region page" /\ t = "region"
            \/ Head(plan[p]) = "restaurant page" /\ t = "restaurant"
         /\ Count(p, t) \/ PageOn(p, t) \/ PageOnce(p, t)
  BY DEF PageRegions, PageRestaurants, ListPage, Does
<1>2. /\ Brings(p, Matching(p, t)) /\ IsFiniteSet(Matching(p, t))
      /\ Matching(p, t) \subseteq TableOf(t) /\ Head(plan[p]) \in PageSteps
  BY <1>1, ListBrings
<1> QED BY <1>1, <1>2, CountSound, PageOnSound, PageOnceSound

-----------------------------------------------------------------------------
(* The last step of a call.                                                *)

LEMMA LastStep ==
    ASSUME NEW p \in Readers, OrdersSound, state[p] = "running", GoOn(p),
           Head(plan[p]) \in LastSteps,
           UNCHANGED orgVars, UNCHANGED <<call, cursor, listed, was, always, steady>>, OrderTyped',
           NEW a \in SUBSET Rows, answer' = [answer EXCEPT ![p] = a],
           NEW o \in SUBSET OrderIds, shown' = [shown EXCEPT ![p] = o],
           \/ a \subseteq was[p] \/ Unfiltered(p),
           call[p].kind \in DirectoryKinds =>
              \A s \in a \cap Restaurants : RegionOf[s] \in was[p],
           \A x \in o : Reader(p).role = "super_admin" \/ OrderAt[x] \in was[p]
    PROVE  OrdersSound'
<1>1. /\ ReaderSound(p) /\ Known(p) /\ NextStep(call[p], Reader(p), OrderAt[Asked[p]], plan[p])
  BY Running
<1>2. Tail(plan[p]) = <<>> /\ Len(plan[p]) = 1
  BY <1>1 DEF NextStep
<1>3. /\ UNCHANGED <<call[p], cursor[p], listed[p], was[p], always[p], steady[p], table>>
      /\ answer'[p] = a /\ shown'[p] = o
      /\ plan'[p] = Tail(plan[p])
      /\ state'[p] = IF Len(plan[p]) = 1 THEN "ok" ELSE state[p]
  BY DEF GoOn, OrdersSound, PerReader, orgVars
<1>4. StepOf(p)
  BY DEF GoOn, StepOf, OrdersSound, PerReader, Same
<1>5. Reader(p)' = Reader(p) /\ Unfiltered(p)' = Unfiltered(p)
  BY <1>3 DEF Reader, Unfiltered, ByStaff
<1>6. Known(p)' /\ Told(p)' /\ ShownInScope(p)'
  BY <1>1, <1>2, <1>3, <1>5 DEF Known, Told, ShownInScope
<1>7. ReaderSound(p)'
  <2>1. UNCHANGED <<table, call[p].kind, call[p].by, was[p], always[p]>>
    BY <1>3
  <2> QED BY <1>1, <1>2, <1>3, <1>6, <2>1, CallGoesOn
<1> QED BY <1>4, <1>7, StepsSound

LEMMA TellSound ==
    ASSUME NEW p \in Readers, OrdersSound, Tell(p), UNCHANGED <<orgVars, order, shown>>
    PROVE  OrdersSound'
<1>1. /\ state[p] = "running" /\ Head(plan[p]) = "answer" /\ GoOn(p)
      /\ Head(plan[p]) \in LastSteps
  BY DEF Tell, Does, LastSteps
<1>2. /\ ReaderSound(p) /\ Known(p) /\ NextStep(call[p], Reader(p), OrderAt[Asked[p]], plan[p])
  BY <1>1, Running
<1>3. PICK a : a = AnswerOf(p)
  OBVIOUS
<1>4. listed[p] \in Page
  BY <1>2 DEF Known
<1>5. Range(listed[p].region) \subseteq Regions /\ Range(listed[p].restaurant) \subseteq Restaurants
  BY <1>4, RangeTyped DEF Page
<1>6. a \subseteq Listed(p)
  BY <1>3 DEF AnswerOf, RegionsWithRestaurants, RestaurantsOfRegions, OwnRegion, Listed
<1>7. a \in SUBSET Rows
  BY <1>5, <1>6 DEF Listed, Rows
<1>8. a \subseteq was[p] \/ Unfiltered(p)
  <2>1. CASE ~ByStaff(p)
    BY <1>1, <1>2, <1>6, <2>1 DEF ReaderSound, Seen
  <2>2. CASE ByStaff(p) /\ call[p].kind = "regions"
    <3>1. Reader(p).role \in {"super_admin", "regional_manager"} /\ a = OwnRegion(p)
      BY <1>1, <1>2, <1>3, <2>2 DEF NextStep, AnswerOf
    <3>2. \A r \in a : InScope(Reader(p), r) /\ r \in Listed(p)
      BY <1>5, <1>6, <3>1 DEF OwnRegion, InScope
    <3> QED BY <1>1, <1>2, <3>2 DEF ReaderSound, Seen
  <2>3. CASE ByStaff(p) /\ call[p].kind # "regions" /\ ~Unfiltered(p)
    <3>1. \A r \in a : InScope(Reader(p), r) /\ r \in Listed(p)
      BY <1>1, <1>2, <1>6, <2>3 DEF ReaderSound, Held
    <3> QED BY <1>1, <1>2, <3>1 DEF ReaderSound, Seen
  <2> QED BY <2>1, <2>2, <2>3
<1>9. ASSUME call[p].kind \in DirectoryKinds, NEW s \in a \cap Restaurants
      PROVE  RegionOf[s] \in was[p]
  <2>1. ~ByStaff(p)
    BY <1>2, <1>9, ReaderTyped
  <2>2. CASE call[p].kind = "ListRegions"
    BY <1>3, <1>5, <1>9, <2>2, TablesAssumption DEF AnswerOf, RegionsWithRestaurants
  <2>3. CASE call[p].kind = "ListRestaurants"
    <3>1. RegionOf[s] \in Listed(p)
      BY <1>3, <1>9, <2>3 DEF AnswerOf, RestaurantsOfRegions, Listed
    <3> QED BY <1>1, <1>2, <2>1, <3>1 DEF ReaderSound, Seen
  <2>4. CASE call[p].kind = "GetRestaurant"
    <3>1. s \in Range(listed[p].restaurant)
      BY <1>5, <1>6, <1>9, TablesAssumption DEF Listed
    <3> QED BY <1>1, <1>2, <2>4, <3>1 DEF ReaderSound, Single
  <2> QED BY <1>9, <2>2, <2>3, <2>4 DEF DirectoryKinds
<1>10. answer' = [answer EXCEPT ![p] = a]
  BY <1>3 DEF Tell
<1>11. PICK o \in SUBSET OrderIds : o = shown[p]
  BY <1>2 DEF Known
<1>12. /\ shown' = [shown EXCEPT ![p] = o]
       /\ \A x \in o : Reader(p).role = "super_admin" \/ OrderAt[x] \in was[p]
  BY <1>2, <1>11 DEF OrdersSound, PerReader, ReaderSound, ShownInScope
<1>13. UNCHANGED <<call, cursor, listed, was, always, steady>> /\ OrderTyped'
  BY DEF Tell, OrdersSound, OrderTyped
<1> QED BY <1>1, <1>7, <1>8, <1>9, <1>10, <1>12, <1>13, LastStep

\* The answer of kfc-order ends a call: nothing is told of the tables.
LEMMA OrderStep ==
    ASSUME NEW p \in Readers, OrdersSound, state[p] = "running", GoOn(p),
           Head(plan[p]) \in LastSteps, call[p].kind \notin DirectoryKinds,
           UNCHANGED orgVars,
           UNCHANGED <<call, cursor, listed, answer, was, always, steady>>, OrderTyped',
           NEW o \in SUBSET OrderIds, shown' = [shown EXCEPT ![p] = o],
           \A x \in o : Reader(p).role = "super_admin" \/ OrderAt[x] \in was[p]
    PROVE  OrdersSound'
<1>1. answer[p] = {} /\ answer' = [answer EXCEPT ![p] = {}]
  BY Running DEF OrdersSound, PerReader
<1>2. UNCHANGED <<call, cursor, listed, was, always, steady>>
  OBVIOUS
<1> QED BY <1>1, <1>2, LastStep

LEMMA QueryOrdersSound ==
    ASSUME NEW p \in Readers, OrdersSound, QueryOrders(p)
    PROVE  OrdersSound'
<1>1. /\ state[p] = "running" /\ Head(plan[p]) = "orders" /\ GoOn(p)
      /\ Head(plan[p]) \in LastSteps
  BY DEF QueryOrders, Does, LastSteps
<1>2. /\ ReaderSound(p) /\ Known(p) /\ NextStep(call[p], Reader(p), OrderAt[Asked[p]], plan[p])
  BY <1>1, Running
<1>3. call[p].kind \notin DirectoryKinds \cup {"regions", "restaurants"}
  BY <1>1, <1>2 DEF NextStep, DirectoryKinds
<1>4. PICK o : o = (IF empty(p) THEN {}
                    ELSE OrdersOf(IF All(p) THEN {} ELSE Range(listed[p].restaurant)))
  OBVIOUS
<1>5. o \in SUBSET OrderIds /\ shown' = [shown EXCEPT ![p] = o]
  BY <1>4 DEF OrdersOf, QueryOrders
<1>6. ASSUME NEW x \in o PROVE Reader(p).role = "super_admin" \/ OrderAt[x] \in was[p]
  <2>1. CASE All(p)
    BY <2>1 DEF All
  <2>2. CASE ~All(p)
    <3>1. listed[p].restaurant # <<>> /\ listed[p].restaurant \in Seq(Restaurants)
      BY <1>2, <1>4, <1>6, <2>2 DEF empty, Known, Page
    <3>2. Range(listed[p].restaurant) # {}
      BY <3>1, RangeOfSome
    <3>3. OrderAt[x] \in Listed(p)
      BY <1>4, <1>6, <2>2, <3>2 DEF OrdersOf, Listed
    <3>4. InScope(Reader(p), OrderAt[x])
      <4>1. ByStaff(p) /\ ~Unfiltered(p)
        BY <1>2, <1>3, ReaderTyped DEF Unfiltered
      <4> QED BY <1>1, <1>2, <1>3, <3>3, <4>1 DEF ReaderSound, Held
    <3> QED BY <1>1, <1>2, <3>3, <3>4 DEF ReaderSound, Seen
  <2> QED BY <2>1, <2>2
<1>7. UNCHANGED <<call, cursor, listed, answer, was, always, steady>> /\ OrderTyped'
      /\ UNCHANGED orgVars
  BY DEF QueryOrders, OrdersSound, OrderTyped
<1> QED BY <1>1, <1>3, <1>5, <1>6, <1>7, OrderStep

LEMMA ShowOrderSound ==
    ASSUME NEW p \in Readers, OrdersSound, ShowOrder(p)
    PROVE  OrdersSound'
<1>1. /\ state[p] = "running" /\ Head(plan[p]) = "order answer" /\ GoOn(p)
      /\ Head(plan[p]) \in LastSteps
  BY DEF ShowOrder, Does, LastSteps
<1>2. /\ ReaderSound(p) /\ NextStep(call[p], Reader(p), OrderAt[Asked[p]], plan[p])
  BY <1>1, Running
<1>3. call[p].kind \notin DirectoryKinds
  BY <1>1, <1>2 DEF NextStep, DirectoryKinds
<1>4. {Asked[p]} \in SUBSET OrderIds /\ shown' = [shown EXCEPT ![p] = {Asked[p]}]
  BY <1>2, ReaderTyped DEF ShowOrder
<1>5. \A x \in {Asked[p]} : Reader(p).role = "super_admin" \/ OrderAt[x] \in was[p]
  BY <1>1, <1>2 DEF ReaderSound, Found
<1>6. UNCHANGED <<call, cursor, listed, answer, was, always, steady>> /\ OrderTyped'
      /\ UNCHANGED orgVars
  BY DEF ShowOrder, OrdersSound, OrderTyped
<1> QED BY <1>1, <1>3, <1>4, <1>5, <1>6, OrderStep

LEMMA CancelSound ==
    ASSUME NEW p \in Readers, OrdersSound, UpdateOrderStatus(p)
    PROVE  OrdersSound'
<1>1. /\ state[p] = "running" /\ Head(plan[p]) = "cancel" /\ Head(plan[p]) \in LastSteps
  BY DEF UpdateOrderStatus, Does, LastSteps
<1>2. /\ ReaderSound(p) /\ NextStep(call[p], Reader(p), OrderAt[Asked[p]], plan[p])
  BY <1>1, Running
<1>3. UNCHANGED <<call, cursor, listed, answer, was, always, steady>> /\ UNCHANGED orgVars
  BY DEF UpdateOrderStatus
<1>4. OrderTyped'
  BY <1>2, ReaderTyped DEF UpdateOrderStatus, OrdersSound, OrderTyped
<1>5. CASE GoOn(p) /\ shown' = [shown EXCEPT ![p] = {Asked[p]}]
  <2>1. call[p].kind \notin DirectoryKinds
    BY <1>1, <1>2 DEF NextStep, DirectoryKinds
  <2>2. {Asked[p]} \in SUBSET OrderIds
    BY <1>2, ReaderTyped
  <2>3. \A x \in {Asked[p]} : Reader(p).role = "super_admin" \/ OrderAt[x] \in was[p]
    BY <1>1, <1>2 DEF ReaderSound, Found
  <2> QED BY <1>1, <1>3, <1>4, <1>5, <2>1, <2>2, <2>3, OrderStep
<1>6. CASE Stop(p) /\ UNCHANGED shown
  BY <1>1, <1>3, <1>4, <1>6, StopsSound
<1> QED BY <1>5, <1>6 DEF UpdateOrderStatus

-----------------------------------------------------------------------------
(* The calls of the orders view, and every step.                           *)

LEMMA OverviewHeads ==
    /\ Head(<<"access", "find", "orders">>) = "access"
    /\ Head(<<"restaurants", "orders">>) = "restaurants"
BY FirstAndRest

LEMMA OverviewSound ==
    ASSUME NEW p \in Readers, OrdersSound, NEW kind \in {"orders", "order stats"},
           Overview(p, kind)
    PROVE  OrdersSound'
<1> DEFINE user == Reader(p)
           own == call[p].at = None /\ user.role \in RestaurantRoles
           assigned == /\ user.role = "regional_manager" => user.region # None
                       /\ own => user.restaurant # None
           allowed == CheckPermission(user, "order.read") /\ (call[p].at # None \/ assigned)
           at == IF own THEN user.restaurant ELSE call[p].at
           steps == resolveScope(p)
<1>1. /\ state[p] = "idle" /\ call[p].kind = kind
      /\ state' = [state EXCEPT ![p] = IF allowed THEN "running" ELSE "error"]
      /\ plan' = [plan EXCEPT ![p] = IF allowed THEN steps ELSE <<>>]
      /\ was' = [was EXCEPT ![p] = Visible(p)] /\ always' = [always EXCEPT ![p] = Visible(p)]
      /\ steady' = [steady EXCEPT ![p] = NamesDiffer]
      /\ UNCHANGED <<orgVars, cursor, listed, answer, order, shown>>
      /\ IF own THEN call' = [call EXCEPT ![p].at = user.restaurant] ELSE call' = call
  BY DEF Overview, About
<1>2. ReaderSound(p) /\ Known(p) /\ call[p] \in Call /\ WellFormed(call[p])
  BY DEF OrdersSound, ReaderSound, Known
<1>3. ByStaff(p) /\ user \in Account /\ user.role \in Roles
  BY <1>1, <1>2, ReaderTyped DEF DirectoryKinds
<1>4. call' = [call EXCEPT ![p].at = at]
  BY <1>1, SameCall
<1>5. /\ at \in Restaurants \cup {None} /\ call'[p] = [call[p] EXCEPT !.at = at]
      /\ call'[p] \in Call /\ call'[p].kind = kind /\ call'[p].by = call[p].by
      /\ call'[p].at = at
  <2>1. call[p].at \in Restaurants \cup {None}
    BY <1>1, <1>2 DEF Known
  <2>2. user.restaurant \in Restaurants \cup {None}
    BY <1>3 DEF Account
  <2>3. at \in Restaurants \cup {None}
    BY <2>1, <2>2
  <2> HIDE DEF at
  <2>4. call'[p] = [call[p] EXCEPT !.at = at]
    BY <1>4 DEF OrdersSound, PerReader
  <2>5. at \in Rows \cup {None}
    BY <2>3 DEF Rows
  <2> QED BY <1>1, <1>2, <2>3, <2>4, <2>5 DEF Call
<1>6. allowed => /\ Prepared(call'[p], Reader(p), OrderAt[Asked[p]], steps)
                 /\ Head(steps) \notin LastSteps
  <2> SUFFICES ASSUME allowed
               PROVE  /\ Prepared(call'[p], Reader(p), OrderAt[Asked[p]], steps)
                      /\ Head(steps) \notin LastSteps
    OBVIOUS
  <2>1. CASE call[p].at # None \/ user.role \in RestaurantRoles
    <3>1. at # None /\ at \in Restaurants
      BY <1>2, <1>5, <2>1
    <3>2. steps = <<"access", "find", "orders">>
      BY <2>1 DEF resolveScope
    <3>3. PreparedOverview(call'[p], Reader(p), steps)
      BY <1>1, <1>5, <3>1, <3>2 DEF PreparedOverview
    <3> QED BY OverviewHeads, <3>2, <3>3 DEF Prepared, LastSteps
  <2>2. CASE call[p].at = None /\ user.role \notin RestaurantRoles
    <3>1. at = None /\ SuperAdminOrRegion(user)
      BY <1>3, <2>2 DEF SuperAdminOrRegion, Roles, RestaurantRoles
    <3>2. steps = <<"restaurants", "orders">>
      BY <2>2 DEF resolveScope
    <3>3. PreparedOverview(call'[p], Reader(p), steps)
      BY <1>1, <1>5, <3>1, <3>2 DEF PreparedOverview
    <3> QED BY OverviewHeads, <3>2, <3>3 DEF Prepared, LastSteps
  <2> QED BY <2>1, <2>2
<1>7. Known(p)'
  <2>1. WellFormed(call'[p])
    BY <1>1, <1>2, <1>5 DEF WellFormed, DirectoryKinds
  <2>2. state'[p] \in {"idle", "running", "ok", "error"}
    BY <1>1 DEF OrdersSound, PerReader
  <2>3. /\ cursor'[p] = cursor[p] /\ listed'[p] = listed[p]
        /\ answer'[p] = answer[p] /\ shown'[p] = shown[p]
    BY <1>1
  <2>4. was'[p] \in SUBSET Rows /\ always'[p] \in SUBSET Rows /\ steady'[p] \in BOOLEAN
    BY <1>1 DEF OrdersSound, PerReader, Visible, NamesDiffer
  <2> QED BY <1>2, <1>5, <2>1, <2>2, <2>3, <2>4 DEF Known
<1>8. allowed \in BOOLEAN
  BY DEF CheckPermission
<1> HIDE DEF allowed, steps, at
<1> QED BY <1>1, <1>4, <1>6, <1>7, <1>8, CallBegins

LEMMA OneOrderSound ==
    ASSUME NEW p \in Readers, OrdersSound, GetOrder(p) \/ CancelOrder(p)
    PROVE  OrdersSound'
<1>1. /\ Head(<<"order", "access", "find", "order answer">>) = "order"
      /\ Head(<<"order", "access", "find", "cancel">>) = "order"
  BY FirstAndRest
<1>2. CASE GetOrder(p)
  <2>1. call[p].kind = "order" => Prepared(call[p], Reader(p), OrderAt[Asked[p]], GetSteps)
    BY DEF Prepared, PreparedOrder, GetSteps
  <2>2. Head(GetSteps) \notin LastSteps /\ CheckPermission(Reader(p), "order.read") \in BOOLEAN
    BY <1>1 DEF GetSteps, LastSteps, CheckPermission
  <2> QED BY <1>2, <2>1, <2>2, BeginIsSound DEF GetOrder
<1>3. CASE CancelOrder(p)
  <2>1. call[p].kind = "cancel" =>
           Prepared(call[p], Reader(p), OrderAt[Asked[p]], CancelSteps)
    BY DEF Prepared, PreparedOrder, CancelSteps
  <2>2. /\ Head(CancelSteps) \notin LastSteps
        /\ CheckPermission(Reader(p), "order.cancel") \in BOOLEAN
    BY <1>1 DEF CancelSteps, LastSteps, CheckPermission
  <2> QED BY <1>3, <2>1, <2>2, BeginIsSound DEF CancelOrder
<1> QED BY <1>2, <1>3

LEMMA FetchOrderSound ==
    ASSUME NEW p \in Readers, OrdersSound, FetchOrder(p)
    PROVE  OrdersSound'
<1>1. /\ state[p] = "running" /\ Head(plan[p]) = "order" /\ GoOn(p)
  BY DEF FetchOrder, Does
<1>2. /\ ReaderSound(p) /\ NextStep(call[p], Reader(p), OrderAt[Asked[p]], plan[p])
      /\ call[p] \in Call
  BY <1>1, Running DEF Known
<1>3. PICK c \in {OrderAt[Asked[p]]}, l \in {listed[p]}, k \in {cursor[p]} :
         call' = [call EXCEPT ![p].at = c]
  BY DEF FetchOrder, About
<1>4. Moves(p, c, l, k)
  BY <1>1, <1>3 DEF FetchOrder, Moves, OrdersSound, PerReader
<1>5. /\ Tail(plan[p]) # <<>> /\ call[p].kind \notin DirectoryKinds \cup {"region"}
      /\ Head(Tail(plan[p])) \notin {"order answer", "cancel"}
      /\ \A d : d.kind = call[p].kind /\ d.at = OrderAt[Asked[p]] =>
            Prepared(d, Reader(p), OrderAt[Asked[p]], Tail(plan[p]))
  BY <1>1, <1>2 DEF NextStep, Steps, LastSteps, DirectoryKinds
<1>6. Prepared([call[p] EXCEPT !.at = c], Reader(p), OrderAt[Asked[p]], Tail(plan[p]))
  <2>1. PICK d : d = [call[p] EXCEPT !.at = c]
    OBVIOUS
  <2>2. d.kind = call[p].kind /\ d.at = OrderAt[Asked[p]]
    BY <1>2, <1>3, <2>1 DEF Call
  <2> QED BY <1>5, <2>1, <2>2
<1>7. c \in Restaurants
  BY <1>2, <1>3, ReaderTyped
<1> QED BY <1>1, <1>3, <1>4, <1>5, <1>6, <1>7, GoesOn

LEMMA ViewsSound ==
    ASSUME NEW p \in Readers, OrdersSound, Views(p) PROVE OrdersSound'
<1>1. CASE ListOrders(p) \/ OrderStats(p)
  BY <1>1, OverviewSound DEF ListOrders, OrderStats
<1> QED BY <1>1, OneOrderSound, FetchOrderSound, QueryOrdersSound, ShowOrderSound, CancelSound
        DEF Views

LEMMA ReadsSound ==
    ASSUME NEW p \in Readers, OrdersSound, Reads(p), UNCHANGED <<orgVars, order, shown>>
    PROVE  OrdersSound'
BY CallingIsSound, ListsSound, FindsRow, FindsOpen, FindsOpenRegion, FindsOwn, AccessChecked,
   TellSound, FailsSound DEF Reads, Reading

LEMMA ChangeSound ==
    ASSUME NEW q \in Requests, OrdersSound, ChangesObserved(q), UNCHANGED <<order, shown>>
    PROVE  OrdersSound'
<1>1. OrgSound'
  BY RequestSteps DEF ChangesObserved, OrdersSound
<1>2. PerReader' /\ OrderTyped'
  BY DEF ChangesObserved, Observe, OrdersSound, PerReader, OrderTyped
<1>3. ASSUME NEW p \in Readers PROVE ReaderSound(p)'
  <2>1. /\ was'[p] = (IF state[p] = "running" THEN was[p] \cup Visible(p)' ELSE was[p])
        /\ always'[p] = (IF state[p] = "running" THEN always[p] \cap Visible(p)' ELSE always[p])
        /\ steady'[p] \in BOOLEAN
    BY DEF ChangesObserved, Observe, OrdersSound, ReaderSound, Known
  <2>2. UNCHANGED <<call[p], state[p], plan[p], cursor[p], listed[p], answer[p], shown[p]>>
    BY DEF ChangesObserved
  <2> QED BY <2>1, <2>2, TablesMove DEF OrdersSound
<1> QED BY <1>1, <1>2, <1>3 DEF OrdersSound

LEMMA StillSound ==
    ASSUME OrdersSound, UNCHANGED <<orgVars, dirVars, shown>>, OrderTyped'
    PROVE  OrdersSound'
<1>1. \A q \in Requests : Scripted(q)'
  BY DEF OrdersSound, OrgSound, Scripted, Actor, orgVars
<1>2. OrgSound' /\ PerReader'
  BY <1>1 DEF OrdersSound, OrgSound, orgVars, dirVars, PerReader
<1>3. \A p \in Readers : ReaderSound(p)'
  BY SameIsSound DEF OrdersSound, Same, orgVars, dirVars
<1> QED BY <1>2, <1>3 DEF OrdersSound

LEMMA OrdersStepsSound == ASSUME OrdersSound, OrdersNext PROVE OrdersSound'
<1>1. CASE \E o \in OrderIds : Complete(o)
  <2>1. UNCHANGED <<orgVars, dirVars, shown>> /\ OrderTyped'
    BY <1>1 DEF Complete, OrdersSound, OrderTyped
  <2> QED BY <2>1, StillSound
<1> QED BY <1>1, ChangeSound, ReadsSound, ViewsSound DEF OrdersNext

LEMMA OrdersInitSound == ASSUME OrdersInit PROVE OrdersSound
<1>1. OrgSound /\ OrderTyped
  BY OrgInitSound DEF OrdersInit, OrderTyped
<1>2. PerReader
  <2>1. call = [p \in Readers |-> call[p]]
    BY ReadersAssumption DEF OrdersInit, DirInit
  <2> QED BY <2>1 DEF OrdersInit, DirInit, PerReader
<1>3. ASSUME NEW p \in Readers PROVE ReaderSound(p)
  <2>1. /\ call[p] \in Call /\ WellFormed(call[p])
        /\ call[p].kind \in {"orders", "order stats"} => call[p].at \in Restaurants \cup {None}
    BY ReadersAssumption, OrdersAssumption DEF OrdersInit, DirInit
  <2>2. /\ state[p] = "idle" /\ plan[p] = <<>> /\ cursor[p] = Start /\ listed[p] = Nothing
        /\ answer[p] = {} /\ was[p] = {} /\ always[p] = {} /\ steady[p] = TRUE /\ shown[p] = {}
    BY DEF OrdersInit, DirInit
  <2>3. Start \in Cursor /\ Nothing \in Page
    BY DEF Start, Cursor, Nothing, Page
  <2>4. Known(p)
    BY <2>1, <2>2, <2>3 DEF Known
  <2> QED BY <2>2, <2>4 DEF ReaderSound, Planned, Unbegun, Observed, Seen, Held, Single, Found,
          Told, ShownInScope
<1> QED BY <1>1, <1>2, <1>3 DEF OrdersSound

LEMMA OrdersSoundAlways == OrdersSpec => []OrdersSound
<1>1. OrdersInit => OrdersSound
  BY OrdersInitSound
<1>2. OrdersSound /\ [OrdersNext]_ordersVars => OrdersSound'
  <2>1. CASE OrdersNext
    BY <2>1, OrdersStepsSound
  <2>2. CASE UNCHANGED ordersVars
    BY <2>2, StillSound DEF ordersVars, OrdersSound, OrderTyped
  <2> QED BY <2>1, <2>2
<1> QED BY <1>1, <1>2, PTL DEF OrdersSpec

\* Neither the directory nor the orders view tells anybody of more than was
\* his to see at some moment of the call.
THEOREM OrdersAlways == OrdersSpec => []OrdersInv
<1>1. OrdersSound => OrdersInv
  <2> SUFFICES ASSUME OrdersSound PROVE OrdersInv
    OBVIOUS
  <2>1. OrdersTypeOK
    <3>1. OrgTypeOK
      BY OrgTyped DEF OrdersSound
    <3>2. ASSUME NEW p \in Readers
          PROVE  /\ (state[p] = "running") <=> (plan[p] # <<>>)
                 /\ cursor[p].offset \in Nat /\ cursor[p].total \in Nat \cup {None}
                 /\ Range(listed[p].region) \subseteq Regions
                 /\ Range(listed[p].restaurant) \subseteq Restaurants
                 /\ answer[p] \cup was[p] \cup always[p] \subseteq Rows
                 /\ call[p] \in Call /\ steady[p] \in BOOLEAN /\ shown[p] \in SUBSET OrderIds
                 /\ state[p] \in {"idle", "running", "ok", "error"}
      <4>1. ReaderSound(p) /\ Known(p)
        BY DEF OrdersSound, ReaderSound
      <4>2. (state[p] = "running") <=> (plan[p] # <<>>)
        <5>1. CASE state[p] = "running"
          BY <5>1, Running DEF NextStep
        <5>2. CASE state[p] # "running"
          BY <4>1, <5>2 DEF ReaderSound, Planned
        <5> QED BY <5>1, <5>2
      <4> QED BY <4>1, <4>2, RangeTyped DEF Known, Page, Cursor
    <3>3. /\ call \in [Readers -> Call] /\ steady \in [Readers -> BOOLEAN]
          /\ state \in [Readers -> {"idle", "running", "ok", "error"}]
          /\ shown \in [Readers -> SUBSET OrderIds]
      BY <3>2 DEF OrdersSound, PerReader
    <3> QED BY <3>1, <3>2, <3>3 DEF OrdersTypeOK, DirTypeOK, OrdersSound, OrderTyped
  <2>2. ToldOnlyVisible /\ OrdersInScope
    BY DEF OrdersSound, ReaderSound, Told, ShownInScope, ToldOnlyVisible, OrdersInScope
  <2> QED BY <2>1, <2>2 DEF OrdersInv
<1> QED BY <1>1, OrdersSoundAlways, PTL

-----------------------------------------------------------------------------
(* What changes.                                                           *)

\* Only a request changes the tables.
LEMMA TablesChangedBy ==
    ASSUME OrdersSound, [OrdersNext]_ordersVars, UNCHANGED table => FALSE
    PROVE  \E q \in Requests : OrgEffect(q)
<1>1. OrdersNext
  BY DEF ordersVars, orgVars
<1>2. ASSUME NEW p \in Readers, Views(p) PROVE UNCHANGED orgVars
  <2>1. CASE ListOrders(p) \/ OrderStats(p)
    BY <2>1 DEF ListOrders, OrderStats, Overview
  <2> QED BY <1>2, <2>1 DEF Views, GetOrder, CancelOrder, FetchOrder, QueryOrders, ShowOrder,
          UpdateOrderStatus
<1>3. \E q \in Requests : ChangesObserved(q)
  BY <1>1, <1>2 DEF OrdersNext, Complete, orgVars
<1> QED BY <1>3, RequestSteps DEF ChangesObserved, OrdersSound

\* Only a cancellation makes an order cancelled.
LEMMA CancelledBy ==
    ASSUME OrdersSound, [OrdersNext]_ordersVars,
           NEW o \in OrderIds, order'[o] = "cancelled", order[o] # "cancelled"
    PROVE  \E p \in Readers : UpdateOrderStatus(p) /\ Asked[p] = o /\ order[o] = "open"
<1>1. OrdersNext /\ order' # order
  BY DEF ordersVars
<1>2. order \in [OrderIds -> {"open", "completed", "cancelled"}]
  BY DEF OrdersSound, OrderTyped
<1>3. CASE \E x \in OrderIds : Complete(x)
  BY <1>2, <1>3 DEF Complete
<1>4. ASSUME NEW p \in Readers, Views(p)
      PROVE  UpdateOrderStatus(p)
  <2>1. CASE ListOrders(p) \/ OrderStats(p)
    BY <1>1, <2>1 DEF ListOrders, OrderStats, Overview
  <2> QED BY <1>1, <1>4, <2>1 DEF Views, GetOrder, CancelOrder, FetchOrder, QueryOrders, ShowOrder
<1>5. PICK p \in Readers : UpdateOrderStatus(p)
  BY <1>1, <1>3, <1>4 DEF OrdersNext
<1>6. order[Asked[p]] = "open" /\ order' = [order EXCEPT ![Asked[p]] = "cancelled"]
  BY <1>1, <1>5 DEF UpdateOrderStatus
<1> QED BY <1>2, <1>5, <1>6

LEMMA OrdersActionsSound ==
    ASSUME OrdersSound, [OrdersNext]_ordersVars
    PROVE  /\ \A r \in Rows : table'[r] # table[r] =>
                 /\ \E q \in Requests :
                       /\ todo'[q] # todo[q] /\ req[q].on = r
                       /\ \/ Actor(q).role = "super_admin"
                          \/ /\ Actor(q).role = "regional_manager"
                             /\ r \in Restaurants /\ Actor(q).region = RegionOf[r]
                 /\ table[r].state # "deleted"
           /\ \A o \in OrderIds : order'[o] = "cancelled" /\ order[o] # "cancelled" =>
                 /\ order[o] = "open"
                 /\ \E p \in Readers :
                       /\ plan'[p] # plan[p] /\ call[p].kind = "cancel" /\ Asked[p] = o
                       /\ Reader(p).role = "super_admin" \/ OrderAt[o] \in was[p]
<1>1. ASSUME NEW r \in Rows, table'[r] # table[r]
      PROVE  /\ \E q \in Requests :
                   /\ todo'[q] # todo[q] /\ req[q].on = r
                   /\ \/ Actor(q).role = "super_admin"
                      \/ /\ Actor(q).role = "regional_manager"
                         /\ r \in Restaurants /\ Actor(q).region = RegionOf[r]
             /\ table[r].state # "deleted"
  BY <1>1, TablesChangedBy DEF OrgEffect, Manages
<1>2. ASSUME NEW o \in OrderIds, order'[o] = "cancelled", order[o] # "cancelled"
      PROVE  /\ order[o] = "open"
             /\ \E p \in Readers :
                   /\ plan'[p] # plan[p] /\ call[p].kind = "cancel" /\ Asked[p] = o
                   /\ Reader(p).role = "super_admin" \/ OrderAt[o] \in was[p]
  <2>1. PICK p \in Readers : UpdateOrderStatus(p) /\ Asked[p] = o /\ order[o] = "open"
    BY <1>2, CancelledBy
  <2>2. state[p] = "running" /\ Head(plan[p]) = "cancel" /\ (GoOn(p) \/ Stop(p))
    BY <2>1 DEF UpdateOrderStatus, Does
  <2>3. /\ ReaderSound(p) /\ NextStep(call[p], Reader(p), OrderAt[Asked[p]], plan[p])
    BY <2>2, Running
  <2>4. call[p].kind = "cancel" /\ Tail(plan[p]) # plan[p] /\ plan[p] # <<>>
    BY <2>2, <2>3 DEF NextStep
  <2>5. plan'[p] \in {Tail(plan[p]), <<>>}
    BY <2>2 DEF GoOn, Stop, OrdersSound, PerReader
  <2>6. Reader(p).role = "super_admin" \/ OrderAt[o] \in was[p]
    BY <2>1, <2>2, <2>3 DEF ReaderSound, Found
  <2> QED BY <2>1, <2>4, <2>5, <2>6
<1> QED BY <1>1, <1>2

\* A region or a restaurant is changed by an account that may, a deleted one
\* stays deleted, and an order is cancelled from within its scope, while open.
THEOREM OrdersChangesSound == OrdersSpec => ChangesSound
<1>1. OrdersSound /\ [OrdersNext]_ordersVars =>
         /\ [\A r \in Rows : table'[r] # table[r] =>
                \E q \in Requests :
                   /\ todo'[q] # todo[q] /\ req[q].on = r
                   /\ \/ Actor(q).role = "super_admin"
                      \/ /\ Actor(q).role = "regional_manager"
                         /\ r \in Restaurants /\ Actor(q).region = RegionOf[r]]_orgVars
         /\ [\A r \in Rows : table[r].state = "deleted" => table'[r] = table[r]]_orgVars
         /\ [\A o \in OrderIds : order'[o] = "cancelled" /\ order[o] # "cancelled" =>
                /\ order[o] = "open"
                /\ \E p \in Readers :
                      /\ plan'[p] # plan[p] /\ call[p].kind = "cancel" /\ Asked[p] = o
                      /\ Reader(p).role = "super_admin" \/ OrderAt[o] \in was[p]]_ordersVars
  BY OrdersActionsSound
<1> QED BY <1>1, OrdersSoundAlways, PTL DEF OrdersSpec, ChangesSound, ChangedWithinScope,
           DeletedStaysDeleted, CancelledInScope

-----------------------------------------------------------------------------
(* Rows with different names have one order.                               *)

DifferentNames(S) ==
    /\ \A r \in S : table[r].name \in Nat
    /\ \A r, u \in S : r # u => table[r].name # table[u].name

LEMMA SortedAll ==
    ASSUME NEW S, IsFiniteSet(S), NEW s \in Sorted(S)
    PROVE  /\ Cardinality(S) \in Nat /\ s \in [1..Cardinality(S) -> S] /\ IsInjective(s)
           /\ \A i, j \in 1..Cardinality(S) : i < j => table[s[i]].name <= table[s[j]].name
           /\ \A x \in S : \E i \in 1..Cardinality(S) : s[i] = x
<1> DEFINE n == Cardinality(S)
<1>1. n \in Nat
  BY FS_CardinalityType
<1>2. /\ s \in [1..n -> S] /\ IsInjective(s)
      /\ \A i, j \in 1..n : i < j => table[s[i]].name <= table[s[j]].name
  BY DEF Sorted
<1>3. s \in Injection(1..n, S)
  BY <1>2 DEF Injection
<1>4. Cardinality(1..n) = n
  BY <1>1, FS_Interval
<1> HIDE DEF n
<1>5. s \in Surjection(1..n, S)
  BY <1>3, <1>4, FS_Injection DEF n
<1> QED BY <1>1, <1>2, <1>5 DEF Surjection, n

\* The place of a row is the number of rows with a smaller name.
LEMMA PlaceOf ==
    ASSUME NEW S, IsFiniteSet(S), DifferentNames(S), NEW s \in Sorted(S),
           NEW i \in 1..Cardinality(S)
    PROVE  Cardinality({x \in S : table[x].name < table[s[i]].name}) = i - 1
<1> DEFINE n == Cardinality(S)
           before == {x \in S : table[x].name < table[s[i]].name}
           f == [j \in 1..(i - 1) |-> s[j]]
<1>1. /\ n \in Nat /\ s \in [1..n -> S] /\ IsInjective(s)
      /\ \A j, k \in 1..n : j < k => table[s[j]].name <= table[s[k]].name
      /\ \A x \in S : \E j \in 1..n : s[j] = x
  BY SortedAll
<1> HIDE DEF n
<1>2. i \in 1..n /\ i \in Nat /\ 1..(i - 1) \subseteq 1..n
  BY <1>1 DEF n
<1>3. ASSUME NEW j \in 1..(i - 1) PROVE s[j] \in before
  <2>1. j \in 1..n /\ j < i /\ j # i
    BY <1>2
  <2>2. s[j] \in S /\ s[i] \in S /\ s[j] # s[i]
    BY <1>1, <1>2, <2>1 DEF IsInjective
  <2>3. table[s[j]].name <= table[s[i]].name
    BY <1>1, <1>2, <2>1
  <2>4. /\ table[s[j]].name # table[s[i]].name
        /\ table[s[j]].name \in Nat /\ table[s[i]].name \in Nat
    BY <2>2 DEF DifferentNames
  <2> QED BY <2>2, <2>3, <2>4
<1>4. ASSUME NEW x \in before PROVE \E j \in 1..(i - 1) : s[j] = x
  <2>1. x \in S /\ table[x].name < table[s[i]].name
    OBVIOUS
  <2>2. PICK j \in 1..n : s[j] = x
    BY <1>1, <2>1
  <2>3. table[x].name \in Nat /\ table[s[i]].name \in Nat
    BY <1>1, <1>2, <2>1 DEF DifferentNames
  <2>4. ~(i < j) /\ i # j
    BY <1>1, <1>2, <2>1, <2>2, <2>3
  <2>5. j \in 1..(i - 1)
    BY <1>1, <1>2, <2>2, <2>4
  <2> QED BY <2>2, <2>5
<1> HIDE DEF before
<1>5. f \in Surjection(1..(i - 1), before)
  BY <1>3, <1>4 DEF Surjection
<1>6. f \in Injection(1..(i - 1), before)
  BY <1>1, <1>2, <1>3 DEF Injection, IsInjective
<1>7. IsFiniteSet(1..(i - 1)) /\ Cardinality(1..(i - 1)) = i - 1
  BY <1>2, FS_Interval
<1> HIDE DEF f
<1>8. Cardinality(before) = i - 1
  BY <1>5, <1>6, <1>7, FS_Surjection
<1> QED BY <1>8 DEF before

LEMMA OneOrder ==
    ASSUME NEW S, IsFiniteSet(S), DifferentNames(S), NEW s \in Sorted(S), NEW u \in Sorted(S)
    PROVE  s = u
<1>1. /\ s \in [1..Cardinality(S) -> S] /\ u \in [1..Cardinality(S) -> S]
      /\ Cardinality(S) \in Nat
      /\ \A x \in S : \E i \in 1..Cardinality(S) : u[i] = x
  BY SortedAll
<1>2. ASSUME NEW i \in 1..Cardinality(S) PROVE s[i] = u[i]
  <2>1. PICK j \in 1..Cardinality(S) : u[j] = s[i]
    BY <1>1
  <2>2. /\ Cardinality({x \in S : table[x].name < table[s[i]].name}) = i - 1
        /\ Cardinality({x \in S : table[x].name < table[u[j]].name}) = j - 1
    BY PlaceOf
  <2>3. i = j
    BY <1>1, <2>1, <2>2
  <2> QED BY <2>1, <2>3
<1> QED BY <1>1, <1>2

-----------------------------------------------------------------------------
(* The pages of a list, one after another.                                 *)

Least(a, b) == IF a < b THEN a ELSE b

LEMMA Part ==
    ASSUME NEW S, NEW s \in Seq(S), NEW a \in Nat, NEW b \in Nat, a <= b, b <= Len(s)
    PROVE  /\ SubSeq(s, a + 1, b) \in Seq(S) /\ Len(SubSeq(s, a + 1, b)) = b - a
           /\ \A i \in 1..(b - a) : SubSeq(s, a + 1, b)[i] = s[a + i]
<1>1. \A i \in (a + 1)..b : s[i] \in S
  OBVIOUS
<1>2. PICK v : v = SubSeq(s, a + 1, b)
  OBVIOUS
<1>3. PICK m \in Int : m = a + 1
  OBVIOUS
<1>4. /\ SubSeq(s, m, b) \in Seq(S)
      /\ Len(SubSeq(s, m, b)) = IF m <= b THEN b - m + 1 ELSE 0
      /\ \A i \in 1..b - m + 1 : SubSeq(s, m, b)[i] = s[m + i - 1]
  BY <1>1, <1>3, SubSeqProperties
<1>5. v = SubSeq(s, m, b)
  BY <1>2, <1>3
<1>6. /\ v \in Seq(S) /\ Len(v) = IF m <= b THEN b - m + 1 ELSE 0
      /\ \A i \in 1..b - m + 1 : v[i] = s[m + i - 1]
  BY <1>4, <1>5
<1>7. Len(v) = b - a
  BY <1>3, <1>6
<1>8. ASSUME NEW i \in 1..(b - a) PROVE v[i] = s[a + i]
  <2>1. i \in 1..b - m + 1 /\ m + i - 1 = a + i
    BY <1>3
  <2> QED BY <1>6, <2>1
<1> QED BY <1>2, <1>6, <1>7, <1>8

LEMMA Front ==
    ASSUME NEW S, NEW s \in Seq(S), NEW a \in Nat, a <= Len(s)
    PROVE  /\ SubSeq(s, 1, a) \in Seq(S) /\ Len(SubSeq(s, 1, a)) = a
           /\ \A i \in 1..a : SubSeq(s, 1, a)[i] = s[i]
<1>1. PICK z \in Nat : z = 0
  OBVIOUS
<1>2. /\ SubSeq(s, z + 1, a) \in Seq(S) /\ Len(SubSeq(s, z + 1, a)) = a - z
      /\ \A i \in 1..(a - z) : SubSeq(s, z + 1, a)[i] = s[z + i]
  BY <1>1, Part
<1>3. z + 1 = 1 /\ a - z = a /\ \A i \in 1..a : z + i = i
  BY <1>1
<1> QED BY <1>2, <1>3

LEMMA Adjacent ==
    ASSUME NEW S, NEW s \in Seq(S), NEW a \in Nat, NEW b \in Nat, a <= b, b <= Len(s)
    PROVE  SubSeq(s, 1, a) \o SubSeq(s, a + 1, b) = SubSeq(s, 1, b)
<1>1. PICK t, u, v : t = SubSeq(s, 1, a) /\ u = SubSeq(s, a + 1, b) /\ v = SubSeq(s, 1, b)
  OBVIOUS
<1>2. t \in Seq(S) /\ Len(t) = a /\ \A i \in 1..a : t[i] = s[i]
  <2>1. a <= Len(s)
    OBVIOUS
  <2> QED BY <1>1, <2>1, Front
<1>3. u \in Seq(S) /\ Len(u) = b - a /\ \A i \in 1..(b - a) : u[i] = s[a + i]
  BY <1>1, Part
<1>4. v \in Seq(S) /\ Len(v) = b /\ \A i \in 1..b : v[i] = s[i]
  BY <1>1, Front
<1>5. PICK w : w = t \o u
  OBVIOUS
<1>6. /\ w \in Seq(S) /\ Len(w) = Len(t) + Len(u)
      /\ \A i \in 1..Len(t) + Len(u) : w[i] = IF i <= Len(t) THEN t[i] ELSE u[i - Len(t)]
  BY <1>2, <1>3, <1>5, ConcatProperties
<1>7. Len(w) = b /\ \A i \in 1..b : w[i] = IF i <= a THEN t[i] ELSE u[i - a]
  <2>1. Len(t) + Len(u) = b
    BY <1>2, <1>3
  <2> QED BY <1>2, <1>6, <2>1
<1>8. ASSUME NEW i \in 1..b PROVE w[i] = v[i]
  <2>1. CASE i <= a
    <3>1. i \in 1..a
      BY <2>1
    <3> QED BY <1>2, <1>4, <1>7, <2>1, <3>1
  <2>2. CASE i > a
    <3>1. i - a \in 1..(b - a) /\ ~(i <= a) /\ a + (i - a) = i
      BY <2>2
    <3>2. w[i] = u[i - a]
      BY <1>7, <3>1
    <3>3. u[i - a] = s[i]
      BY <1>3, <3>1
    <3> QED BY <1>4, <3>2, <3>3
  <2> QED BY <2>1, <2>2
<1>9. w = v
  BY <1>4, <1>6, <1>7, <1>8, SeqEqual
<1> QED BY <1>1, <1>5, <1>9

\* The first offset rows are read and the page that follows them.
ReadsOn(s, offset, old, page) ==
    /\ old = SubSeq(s, 1, Least(offset, Len(s)))
    /\ page = PageFrom(MaxPage, offset, s)

\* What is read by then, and that nothing of S is missing if it is enough.
ReadThen(S, s, offset, page, whole) ==
    /\ whole = SubSeq(s, 1, Least(offset + MaxPage, Len(s)))
    /\ page = <<>> \/ Len(whole) >= Cardinality(S) => Range(whole) = S

\* With the next page, the list has its first offset + MaxPage rows, and with
\* enough of them, all.
LEMMA NextPage ==
    ASSUME NEW S, IsFiniteSet(S), NEW s \in Sorted(S), NEW offset \in Nat,
           NEW old, NEW page, NEW whole, whole = old \o page,
           ReadsOn(s, offset, old, page)
    PROVE  ReadThen(S, s, offset, page, whole)
<1>1. /\ s \in Seq(S) /\ Len(s) = Cardinality(S) /\ Len(s) \in Nat
      /\ \A x \in S : \E i \in 1..Len(s) : s[i] = x
  BY SortedAll, PageTyped
<1>2. PICK m \in Nat \ {0}, n \in Nat : m = MaxPage /\ n = Len(s)
  BY <1>1, ReadersAssumption
<1>3. page = SubSeq(s, offset + 1, Least(offset + m, n))
  <2>1. PageOffset(offset) = offset /\ PageLimit(m) = m
    BY <1>2 DEF PageOffset, PageLimit
  <2>2. page = PageFrom(m, offset, s)
    BY <1>2 DEF ReadsOn
  <2> QED BY <1>2, <2>1, <2>2 DEF PageFrom, Least
<1>4. old = SubSeq(s, 1, Least(offset, n))
  BY <1>2 DEF ReadsOn
<1>5. whole = old \o page
  OBVIOUS
<1>6. Range(s) = S
  BY <1>1 DEF Range
<1>7. CASE offset < n
  <2>1. PICK b : b = Least(offset + m, n)
    OBVIOUS
  <2>2. b \in Nat /\ offset + 1 <= b /\ b <= n
    BY <1>7, <2>1 DEF Least
  <2>3. Least(offset, n) = offset
    BY <1>7 DEF Least
  <2>4. old = SubSeq(s, 1, offset) /\ page = SubSeq(s, offset + 1, b)
    BY <1>3, <1>4, <2>1, <2>3
  <2>5. whole = SubSeq(s, 1, b)
    <3>1. offset <= b /\ b <= Len(s)
      BY <1>2, <2>2
    <3> QED BY <1>1, <1>5, <2>2, <2>4, <3>1, Adjacent
  <2>6. Len(page) = b - offset
    <3>1. offset <= b /\ b <= Len(s)
      BY <1>2, <2>2
    <3> QED BY <1>1, <2>2, <2>4, <3>1, Part
  <2>7. Len(whole) = b
    <3>1. b <= Len(s)
      BY <1>2, <2>2
    <3> QED BY <1>1, <2>2, <2>5, <3>1, Front
  <2>8. page # <<>>
    <3>1. Len(page) # 0
      BY <2>2, <2>6
    <3> QED BY <3>1
  <2>9. ASSUME Len(whole) >= Cardinality(S) PROVE whole = s
    <3>1. b = Len(s)
      BY <1>1, <1>2, <2>2, <2>7, <2>9
    <3> QED BY <1>1, <2>5, <3>1, SubSeqFull
  <2> QED BY <1>2, <1>6, <2>1, <2>5, <2>8, <2>9 DEF ReadThen
<1>8. CASE offset >= n
  <2>1. Least(offset + m, n) = n /\ Least(offset, n) = n /\ n < offset + 1
    BY <1>8 DEF Least
  <2>2. page = <<>>
    <3>1. offset + 1 \in Int /\ n \in Int
      OBVIOUS
    <3> QED BY <1>3, <2>1, <3>1, SubSeqEmpty
  <2>3. old = s
    BY <1>1, <1>2, <1>4, <2>1, SubSeqFull
  <2>4. whole = s
    BY <1>1, <1>5, <2>2, <2>3, ConcatEmptySeq
  <2> QED BY <1>2, <1>4, <1>6, <2>1, <2>3, <2>4 DEF ReadThen
<1>9. offset < n \/ offset >= n
  BY <1>2
<1> QED BY <1>7, <1>8, <1>9

-----------------------------------------------------------------------------
(* The directory's list of restaurants, while nothing changes.             *)

Quiet(p) == steady[p] /\ call[p].kind = "ListRestaurants"

\* The pages so far are the beginning of the list.
Paging(p, t) ==
    /\ cursor[p].total \in {None, Cardinality(Matching(p, t))}
    /\ \A s \in Sorted(Matching(p, t)) :
          listed[p][t] = SubSeq(s, 1, Least(cursor[p].offset, Len(s)))

\* First all restaurants are listed, and then all regions.
Gathering(p) ==
    Quiet(p) /\ state[p] = "running" =>
        /\ always[p] = Visible(p) /\ NamesDiffer
        /\ Head(plan[p]) = "restaurants" =>
              Paging(p, "restaurant") /\ listed[p].region = <<>>
        /\ Head(plan[p]) = "regions" =>
              Paging(p, "region") /\ Range(listed[p].restaurant) = RestaurantFilter(p)
        /\ Head(plan[p]) = "answer" =>
              /\ Range(listed[p].restaurant) = RestaurantFilter(p)
              /\ Range(listed[p].region) = RegionFilter(p)

Gathered(p) ==
    Quiet(p) /\ state[p] = "ok" =>
        answer[p] = {s \in always[p] \cap Restaurants :
                        RegionOf[s] \in always[p] /\ call[p].at \in {None, RegionOf[s]}}

Gathers(p) == Gathering(p) /\ Gathered(p)

LEMMA SameGathers ==
    ASSUME NEW p \in Readers, Gathers(p), Same(p), UNCHANGED table
    PROVE  Gathers(p)'
<1> USE DEF Same
<1>1. Reader(p)' = Reader(p) /\ ByStaff(p)' = ByStaff(p) /\ Quiet(p)' = Quiet(p)
  BY DEF Reader, ByStaff, Quiet
<1>2. Visible(p)' = Visible(p) /\ NamesDiffer' = NamesDiffer
  BY <1>1 DEF Visible, IsLive, Open, ByStaff, NamesDiffer
<1>3. RegionFilter(p)' = RegionFilter(p) /\ RestaurantFilter(p)' = RestaurantFilter(p)
  BY <1>1 DEF RegionFilter, RestaurantFilter, FilterRegion, IsLive, Open, ByStaff, Reader
<1>4. ASSUME NEW t \in {"region", "restaurant"}, Paging(p, t) PROVE Paging(p, t)'
  <2>1. Matching(p, t)' = Matching(p, t)
    BY <1>3 DEF Matching
  <2>2. \A S : Sorted(S)' = Sorted(S)
    BY DEF Sorted
  <2> QED BY <1>4, <2>1, <2>2 DEF Paging
<1>5. Gathering(p)'
  BY <1>1, <1>2, <1>3, <1>4 DEF Gathers, Gathering
<1>6. Gathered(p)'
  BY <1>1 DEF Gathers, Gathered
<1> QED BY <1>5, <1>6 DEF Gathers

\* A request comes between.
LEMMA ChangeGathers ==
    ASSUME NEW p \in Readers, OrdersSound, Gathers(p), NEW q, ChangesObserved(q)
    PROVE  Gathers(p)'
<1>1. UNCHANGED <<call, state, plan, cursor, listed, answer>> /\ Observe
  BY DEF ChangesObserved
<1>2. /\ steady'[p] = (steady[p] /\ (state[p] = "running" => table' = table))
      /\ always'[p] = (IF state[p] = "running" THEN always[p] \cap Visible(p)' ELSE always[p])
  BY <1>1 DEF Observe
<1>3. CASE Quiet(p)' /\ state'[p] = "running"
  <2>1. /\ steady[p] /\ table' = table /\ state[p] = "running" /\ Quiet(p)
        /\ always'[p] = always[p] \cap Visible(p)'
    BY <1>1, <1>2, <1>3 DEF Quiet
  <2>2. ByStaff(p)' = ByStaff(p) /\ Reader(p)' = Reader(p)
    BY <1>1 DEF Reader, ByStaff
  <2>3. Visible(p)' = Visible(p) /\ NamesDiffer' = NamesDiffer
    BY <2>1, <2>2 DEF Visible, IsLive, Open, ByStaff, NamesDiffer
  <2>4. always'[p] = always[p] /\ always[p] = Visible(p)
    BY <2>1, <2>3 DEF Gathers, Gathering
  <2>5. RegionFilter(p)' = RegionFilter(p) /\ RestaurantFilter(p)' = RestaurantFilter(p)
    BY <1>1, <2>1, <2>2 DEF RegionFilter, RestaurantFilter, FilterRegion, IsLive, Open
  <2>6. ASSUME NEW t \in {"region", "restaurant"}, Paging(p, t) PROVE Paging(p, t)'
    <3>1. Matching(p, t)' = Matching(p, t)
      BY <2>5 DEF Matching
    <3>2. \A S : Sorted(S)' = Sorted(S)
      BY <2>1 DEF Sorted
    <3> QED BY <1>1, <2>6, <3>1, <3>2 DEF Paging
  <2>7. Gathering(p)'
    BY <1>1, <2>1, <2>3, <2>4, <2>5, <2>6 DEF Gathers, Gathering
  <2>8. Gathered(p)'
    BY <1>3 DEF Gathered
  <2> QED BY <2>7, <2>8 DEF Gathers
<1>4. CASE Quiet(p)' /\ state'[p] = "ok"
  <2>1. steady[p] /\ always'[p] = always[p] /\ state[p] = "ok" /\ Quiet(p)
    BY <1>1, <1>2, <1>4 DEF Quiet
  <2>2. Gathered(p)'
    BY <1>1, <2>1 DEF Gathers, Gathered
  <2>3. Gathering(p)'
    BY <1>4 DEF Gathering
  <2> QED BY <2>2, <2>3 DEF Gathers
<1> QED BY <1>3, <1>4 DEF Gathers, Gathering, Gathered

-----------------------------------------------------------------------------
(* The steps of the others.                                                *)

LEMMA BeginTouches ==
    ASSUME NEW p \in Readers, OrdersSound, NEW kind, NEW allowed, NEW steps,
           Begin(p, kind, allowed, steps), shown' = shown
    PROVE  \A r \in Readers : r # p => Same(r)
BY DEF Begin, Same, OrdersSound, PerReader

LEMMA GoOnTouches ==
    ASSUME NEW p \in Readers, OrdersSound, GoOn(p) \/ Stop(p)
    PROVE  \A r \in Readers : r # p => plan'[r] = plan[r] /\ state'[r] = state[r]
BY DEF GoOn, Stop, OrdersSound, PerReader

LEMMA ReadingTouches ==
    ASSUME NEW p \in Readers, OrdersSound, Reading(p) \/ ReadFails(p), shown' = shown
    PROVE  /\ \A r \in Readers : r # p => Same(r)
           /\ UNCHANGED <<call, was, always, steady>>
<1>1. CASE Find(p) \/ FindOpen(p) \/ FindOpenRegion(p) \/ FindOwn(p) \/ CheckAccess(p)
  <2>1. GoOn(p) \/ Stop(p)
    BY <1>1 DEF Find, FindOpen, FindOpenRegion, FindOwn, CheckAccess, OrStop
  <2>2. /\ UNCHANGED <<call, cursor, answer, was, always, steady>>
        /\ \A r \in Readers : r # p => listed'[r] = listed[r]
    BY <1>1 DEF Find, FindOpen, FindOpenRegion, FindOwn, CheckAccess, OrdersSound, PerReader
  <2> QED BY <2>1, <2>2, GoOnTouches DEF Same
<1>2. CASE Tell(p) \/ ReadFails(p)
  <2>1. GoOn(p) \/ Stop(p)
    BY <1>2 DEF Tell, ReadFails
  <2>2. /\ UNCHANGED <<call, cursor, listed, was, always, steady>>
        /\ \A r \in Readers : r # p => answer'[r] = answer[r]
    BY <1>2 DEF Tell, ReadFails, OrdersSound, PerReader
  <2> QED BY <2>1, <2>2, GoOnTouches DEF Same
<1>3. CASE PageRegions(p) \/ PageRestaurants(p) \/ ListPage(p)
  <2>1. PICK t \in {"region", "restaurant"} : Count(p, t) \/ PageOn(p, t) \/ PageOnce(p, t)
    BY <1>3 DEF PageRegions, PageRestaurants, ListPage
  <2>2. /\ UNCHANGED <<call, answer, was, always, steady>>
        /\ GoOn(p) \/ UNCHANGED <<plan, state>>
    BY <2>1 DEF Count, PageOn, PageOnce
  <2>3. \A r \in Readers : r # p => listed'[r] = listed[r]
    BY <2>1 DEF Count, PageOn, PageOnce, OrdersSound, PerReader
  <2>4. \A r \in Readers : r # p => cursor'[r] = cursor[r]
    BY <2>1 DEF Count, PageOn, PageOnce, OrdersSound, PerReader
  <2> QED BY <2>2, <2>3, <2>4, GoOnTouches DEF Same
<1> QED BY <1>1, <1>2, <1>3 DEF Reading

LEMMA ReadsTouch ==
    ASSUME NEW p \in Readers, OrdersSound, Reads(p), shown' = shown
    PROVE  \A r \in Readers : r # p => Same(r)
<1>1. CASE Calling(p)
  <2>1. PICK kind, allowed, steps : Begin(p, kind, allowed, steps)
    BY <1>1 DEF Calling, ListRegions, ListRestaurants, GetRestaurant, StaffRegions, StaffRegion,
       StaffRestaurants, StaffRestaurant
  <2> QED BY <2>1, BeginTouches
<1> QED BY <1>1, ReadingTouches DEF Reads

\* A view is not the directory's, and leaves the other readers alone.
LEMMA ViewsTouch ==
    ASSUME NEW p \in Readers, OrdersSound, Views(p)
    PROVE  /\ \A r \in Readers : r # p => Same(r)
           /\ call'[p].kind = call[p].kind /\ call[p].kind # "ListRestaurants"
           /\ UNCHANGED orgVars
<1>1. call[p] \in Call
  BY DEF OrdersSound, ReaderSound, Known
<1>2. CASE ListOrders(p) \/ OrderStats(p)
  <2>1. PICK kind \in {"orders", "order stats"} : Overview(p, kind)
    BY <1>2 DEF ListOrders, OrderStats
  <2>2. /\ call[p].kind = kind /\ UNCHANGED <<orgVars, cursor, listed, answer, order, shown>>
        /\ was' = [was EXCEPT ![p] = Visible(p)] /\ always' = [always EXCEPT ![p] = Visible(p)]
        /\ steady' = [steady EXCEPT ![p] = NamesDiffer]
    BY <2>1 DEF Overview
  <2>3. \E v, w : state' = [state EXCEPT ![p] = v] /\ plan' = [plan EXCEPT ![p] = w]
    BY <2>1 DEF Overview
  <2>4. \E c : call' = [call EXCEPT ![p].at = c] \/ call' = call
    BY <2>1 DEF Overview, About
  <2>5. \A r \in Readers : r # p => Same(r)
    BY <2>2, <2>3, <2>4 DEF Same, OrdersSound, PerReader
  <2>6. call'[p].kind = call[p].kind
    BY <1>1, <2>4 DEF Call, OrdersSound, PerReader
  <2> QED BY <2>2, <2>5, <2>6
<1>3. CASE GetOrder(p) \/ CancelOrder(p)
  <2>1. PICK kind, allowed, steps :
           /\ kind \in {"order", "cancel"}
           /\ Begin(p, kind, allowed, steps) /\ UNCHANGED <<orgVars, order, shown>>
    BY <1>3 DEF GetOrder, CancelOrder
  <2> QED BY <2>1, BeginTouches DEF Begin
<1>4. CASE FetchOrder(p) \/ QueryOrders(p) \/ ShowOrder(p) \/ UpdateOrderStatus(p)
  <2>1. /\ state[p] = "running" /\ Head(plan[p]) \in {"order", "orders", "order answer", "cancel"}
        /\ GoOn(p) \/ Stop(p)
        /\ UNCHANGED <<orgVars, cursor, listed, answer, was, always, steady>>
    BY <1>4 DEF FetchOrder, QueryOrders, ShowOrder, UpdateOrderStatus, Does
  <2>2. /\ \A r \in Readers : r # p => call'[r] = call[r] /\ shown'[r] = shown[r]
        /\ call'[p].kind = call[p].kind
    BY <1>1, <1>4 DEF FetchOrder, QueryOrders, ShowOrder, UpdateOrderStatus, About, Call,
       OrdersSound, PerReader
  <2>3. call[p].kind # "ListRestaurants"
    BY <2>1, Running DEF NextStep
  <2> QED BY <2>1, <2>2, <2>3, GoOnTouches DEF Same
<1> QED BY <1>2, <1>3, <1>4 DEF Views

-----------------------------------------------------------------------------
(* The steps of the directory's list of restaurants.                       *)

LEMMA ListPlan ==
    ASSUME NEW c, NEW u, NEW o, NEW s, Prepared(c, u, o, s), c.kind = "ListRestaurants"
    PROVE  \/ Head(s) = "restaurants" /\ Tail(s) # <<>> /\ Len(s) # 1 /\ Head(Tail(s)) = "regions"
           \/ Head(s) = "regions" /\ Tail(s) # <<>> /\ Len(s) # 1 /\ Head(Tail(s)) = "answer"
           \/ Head(s) = "answer" /\ Len(s) = 1
<1>1. \/ s = <<"restaurants", "regions", "answer">> \/ s = <<"regions", "answer">>
      \/ s = <<"answer">>
  BY DEF Prepared, PreparedDirectory, PreparedStaff, PreparedOverview, PreparedOrder
<1>2. Runs(<<"answer">>, "answer", <<>>)
  BY RunsOne
<1>3. Runs(<<"regions", "answer">>, "regions", <<"answer">>)
  BY RunsTwo
<1>4. Runs(<<"restaurants", "regions", "answer">>, "restaurants", <<"regions", "answer">>)
  BY RunsThree
<1> QED BY <1>1, <1>2, <1>3, <1>4 DEF Runs

\* What a list of one table, of distinct names, can be.
LEMMA OpenRows ==
    ASSUME NEW p \in Readers, OrdersSound, ~ByStaff(p), NamesDiffer,
           NEW t \in {"region", "restaurant"}
    PROVE  /\ IsFiniteSet(Matching(p, t)) /\ DifferentNames(Matching(p, t))
           /\ Matching(p, t) \subseteq TableOf(t)
<1>1. Brings(p, Matching(p, t)) /\ IsFiniteSet(Matching(p, t)) /\ Matching(p, t) \subseteq TableOf(t)
  BY MatchingBrings DEF OrdersSound, TableOf
<1>2. \A r \in Matching(p, t) : table[r].name \in Nat
  BY <1>1 DEF Brings, OrdersSound, OrgSound, Row
<1>3. \A r, u \in Matching(p, t) : r # u => table[r].name # table[u].name
  BY <1>1 DEF Brings, NamesDiffer, TableOf
<1> QED BY <1>1, <1>2, <1>3 DEF DifferentNames

LEMMA NothingYet ==
    ASSUME NEW p \in Readers, OrdersSound, ~ByStaff(p),
           NEW t \in {"region", "restaurant"}, cursor'[p] = Start, listed'[p][t] = <<>>,
           UNCHANGED <<table, call>>
    PROVE  Paging(p, t)'
<1>1. Matching(p, t)' = Matching(p, t)
  BY DEF Matching, RegionFilter, RestaurantFilter, FilterRegion, IsLive, Open, ByStaff, Reader
<1>2. Sorted(Matching(p, t))' = Sorted(Matching(p, t))
  BY <1>1 DEF Sorted
<1>3. IsFiniteSet(Matching(p, t))
  BY MatchingBrings DEF OrdersSound
<1>4. ASSUME NEW s \in Sorted(Matching(p, t)) PROVE <<>> = SubSeq(s, 1, Least(0, Len(s)))
  <2>1. s \in Seq(Matching(p, t)) /\ Len(s) \in Nat
    BY <1>3, PageTyped
  <2>2. Least(0, Len(s)) = 0
    BY <2>1 DEF Least
  <2> QED BY <2>2, SubSeqEmpty
<1>5. cursor'[p].total = None /\ cursor'[p].offset = 0
  BY DEF Start
<1> QED BY <1>1, <1>2, <1>4, <1>5 DEF Paging

LEMMA ListBegins ==
    ASSUME NEW p \in Readers, OrdersSound, ListRestaurants(p), UNCHANGED orgVars
    PROVE  Gathers(p)'
<1>1. Begin(p, "ListRestaurants", TRUE, <<"restaurants", "regions", "answer">>)
  BY DEF ListRestaurants
<1>2. /\ state[p] = "idle" /\ call' = call /\ call[p].kind = "ListRestaurants"
      /\ state'[p] = "running" /\ plan'[p] = <<"restaurants", "regions", "answer">>
      /\ always'[p] = Visible(p) /\ steady'[p] = NamesDiffer /\ table' = table
      /\ listed' = listed /\ cursor' = cursor
  BY <1>1 DEF Begin, OrdersSound, PerReader, orgVars
<1>3. ~ByStaff(p)
  BY <1>2, ReaderTyped DEF OrdersSound, DirectoryKinds
<1>4. listed[p] = Nothing /\ cursor[p] = Start
  BY <1>2 DEF OrdersSound, ReaderSound, Unbegun
<1>5. listed'[p].region = <<>> /\ listed'[p]["restaurant"] = <<>> /\ cursor'[p] = Start
  BY <1>2, <1>4 DEF Nothing
<1>6. Paging(p, "restaurant")'
  BY <1>2, <1>3, <1>5, NothingYet
<1>7. Visible(p)' = Visible(p) /\ NamesDiffer' = NamesDiffer
  BY <1>2 DEF Visible, IsLive, Open, ByStaff, Reader, NamesDiffer
<1>8. Head(plan'[p]) = "restaurants"
  <2>1. Head(<<"restaurants", "regions", "answer">>) = "restaurants"
    BY FirstAndRest
  <2> QED BY <1>2, <2>1
<1>9. Gathering(p)'
  BY <1>2, <1>5, <1>6, <1>7, <1>8 DEF Gathering, Quiet
<1>10. Gathered(p)'
  BY <1>2 DEF Gathered
<1> QED BY <1>9, <1>10 DEF Gathers

\* What a quiet list knows while it runs.
LEMMA QuietRuns ==
    ASSUME NEW p \in Readers, OrdersSound, Gathers(p), Quiet(p), state[p] = "running"
    PROVE  /\ ~ByStaff(p) /\ NamesDiffer /\ always[p] = Visible(p)
           /\ \/ /\ Head(plan[p]) = "restaurants" /\ Len(plan[p]) # 1
                 /\ Head(Tail(plan[p])) = "regions"
                 /\ Paging(p, "restaurant") /\ listed[p].region = <<>>
              \/ /\ Head(plan[p]) = "regions" /\ Len(plan[p]) # 1
                 /\ Head(Tail(plan[p])) = "answer"
                 /\ Paging(p, "region") /\ Range(listed[p].restaurant) = RestaurantFilter(p)
              \/ /\ Head(plan[p]) = "answer" /\ Len(plan[p]) = 1
                 /\ Range(listed[p].restaurant) = RestaurantFilter(p)
                 /\ Range(listed[p].region) = RegionFilter(p)
<1>1. call[p].kind = "ListRestaurants"
  BY DEF Quiet
<1>2. ~ByStaff(p)
  BY <1>1, ReaderTyped DEF OrdersSound, DirectoryKinds
<1>3. Prepared(call[p], Reader(p), OrderAt[Asked[p]], plan[p])
  BY Running
<1> QED BY <1>1, <1>2, <1>3, ListPlan DEF Gathers, Gathering

\* What depends on the tables and the call only.
LEMMA FiltersStay ==
    ASSUME NEW p \in Readers, UNCHANGED <<table, call>>
    PROVE  /\ RegionFilter(p)' = RegionFilter(p) /\ RestaurantFilter(p)' = RestaurantFilter(p)
           /\ Visible(p)' = Visible(p) /\ NamesDiffer' = NamesDiffer
           /\ \A t : Matching(p, t)' = Matching(p, t)
           /\ \A S : Sorted(S)' = Sorted(S)
<1>1. Reader(p)' = Reader(p) /\ ByStaff(p)' = ByStaff(p) /\ FilterRegion(p)' = FilterRegion(p)
  BY DEF Reader, ByStaff, FilterRegion
<1>2. RegionFilter(p)' = RegionFilter(p) /\ RestaurantFilter(p)' = RestaurantFilter(p)
  BY <1>1 DEF RegionFilter, RestaurantFilter, IsLive, Open
<1>3. Visible(p)' = Visible(p) /\ NamesDiffer' = NamesDiffer
  BY <1>1 DEF Visible, IsLive, Open, NamesDiffer
<1>4. \A S : Sorted(S)' = Sorted(S)
  BY DEF Sorted
<1> QED BY <1>2, <1>3, <1>4 DEF Matching

LEMMA QuietPage ==
    ASSUME NEW p \in Readers, OrdersSound, ~ByStaff(p), NamesDiffer,
           NEW t \in {"region", "restaurant"}, Paging(p, t), PageOn(p, t), UNCHANGED table
    PROVE  /\ \/ GoOn(p) /\ cursor'[p] = Start /\ Range(listed'[p][t]) = Matching(p, t)
              \/ UNCHANGED <<plan, state>> /\ Paging(p, t)'
           /\ \A u \in {"region", "restaurant"} : u # t => listed'[p][u] = listed[p][u]
<1>1. PICK N : N = Matching(p, t)
  OBVIOUS
<1>2. cursor[p].offset \in Nat
  BY DEF OrdersSound, ReaderSound, Known, Cursor
<1>3. PICK k \in Nat, m \in Nat : k = cursor[p].offset /\ m = MaxPage
  BY <1>2, ReadersAssumption
<1>4. PICK total, old : total = cursor[p].total /\ old = listed[p][t]
  OBVIOUS
<1>5. PICK s \in Sorted(N) :
          /\ listed' = [listed EXCEPT ![p][t] = old \o PageFrom(MaxPage, k, s)]
          /\ IF Enough(PageFrom(MaxPage, k, s), old \o PageFrom(MaxPage, k, s), total)
             THEN GoOn(p) /\ cursor' = [cursor EXCEPT ![p] = Start]
             ELSE /\ cursor' = [cursor EXCEPT ![p] = [offset |-> @.offset + MaxPage,
                                                      total |-> None]]
                  /\ UNCHANGED <<plan, state>>
  BY <1>1, <1>3, <1>4 DEF PageOn
<1>6. PICK page, rd : page = PageFrom(MaxPage, k, s) /\ rd = old \o page
  OBVIOUS
<1>7. IsFiniteSet(N) /\ DifferentNames(N)
  BY <1>1, OpenRows
<1>8. total = Cardinality(N) /\ old = SubSeq(s, 1, Least(k, Len(s)))
  BY <1>1, <1>3, <1>4 DEF Paging, PageOn
<1>9. /\ rd = SubSeq(s, 1, Least(k + m, Len(s)))
      /\ page = <<>> \/ Len(rd) >= total => Range(rd) = N
  <2>1. ReadsOn(s, k, old, page) /\ rd = old \o page
    BY <1>6, <1>8 DEF ReadsOn
  <2>2. ReadThen(N, s, k, page, rd)
    BY <1>3, <1>5, <1>7, <2>1, NextPage
  <2> QED BY <1>3, <1>8, <2>2 DEF ReadThen
<1>10. listed[p] \in Page /\ listed = [r \in Readers |-> listed[r]]
      /\ cursor = [r \in Readers |-> cursor[r]]
  BY DEF OrdersSound, ReaderSound, Known, PerReader
<1>11. listed' = [listed EXCEPT ![p][t] = rd]
  BY <1>5, <1>6
<1>12. /\ listed'[p][t] = rd
       /\ \A u \in {"region", "restaurant"} : u # t => listed'[p][u] = listed[p][u]
  <2>1. listed'[p] = [listed[p] EXCEPT ![t] = rd]
    BY <1>10, <1>11
  <2> QED BY <1>10, <2>1 DEF Page
<1>13. CASE Enough(page, rd, total)
  <2>1. GoOn(p) /\ cursor' = [cursor EXCEPT ![p] = Start]
    BY <1>5, <1>6, <1>13
  <2>2. cursor'[p] = Start
    BY <1>10, <2>1
  <2>3. Range(rd) = N
    BY <1>9, <1>13 DEF Enough
  <2> QED BY <1>1, <1>12, <2>1, <2>2, <2>3
<1>14. CASE ~Enough(page, rd, total)
  <2>1. /\ cursor' = [cursor EXCEPT ![p] = [offset |-> @.offset + MaxPage, total |-> None]]
        /\ UNCHANGED <<plan, state>>
    BY <1>5, <1>6, <1>14
  <2>2. cursor'[p].offset = k + m /\ cursor'[p].total = None
    BY <1>3, <1>10, <2>1
  <2>3. \A u \in Sorted(N) : u = s
    BY <1>7, OneOrder
  <2>4. Matching(p, t)' = N /\ Sorted(N)' = Sorted(N)
    BY <1>1, FiltersStay DEF PageOn
  <2>5. Paging(p, t)'
    BY <1>9, <1>12, <2>2, <2>3, <2>4 DEF Paging
  <2> QED BY <1>12, <2>1, <2>5
<1> QED BY <1>13, <1>14

LEMMA QuietCount ==
    ASSUME NEW p \in Readers, OrdersSound, NEW t \in {"region", "restaurant"},
           Paging(p, t), Count(p, t), UNCHANGED table
    PROVE  Paging(p, t)' /\ UNCHANGED <<plan, state, listed>>
<1>1. /\ cursor' = [cursor EXCEPT ![p].total = Cardinality(Matching(p, t))]
      /\ UNCHANGED <<plan, state, listed, call>>
  BY DEF Count
<1>2. cursor[p] \in Cursor /\ cursor = [r \in Readers |-> cursor[r]]
  BY DEF OrdersSound, ReaderSound, Known, PerReader
<1>3. cursor'[p].total = Cardinality(Matching(p, t)) /\ cursor'[p].offset = cursor[p].offset
  BY <1>1, <1>2 DEF Cursor
<1> QED BY <1>1, <1>3, FiltersStay DEF Paging

\* A page of the restaurants, or of the regions.
LEMMA QuietRestaurants ==
    ASSUME NEW p \in Readers, OrdersSound, Gathers(p), Quiet(p), PageRestaurants(p),
           UNCHANGED orgVars, shown' = shown
    PROVE  Gathers(p)'
<1>1. /\ state[p] = "running" /\ Head(plan[p]) = "restaurants"
      /\ Count(p, "restaurant") \/ PageOn(p, "restaurant")
  BY DEF PageRestaurants, Does
<1>2. /\ ~ByStaff(p) /\ NamesDiffer /\ always[p] = Visible(p)
      /\ Len(plan[p]) # 1 /\ Head(Tail(plan[p])) = "regions"
      /\ Paging(p, "restaurant") /\ listed[p]["region"] = <<>>
  BY <1>1, QuietRuns
<1>3. /\ UNCHANGED <<call, was, always, steady>> /\ table' = table
  BY <1>1 DEF Count, PageOn, orgVars
<1>4. Visible(p)' = Visible(p) /\ NamesDiffer' = NamesDiffer
      /\ RestaurantFilter(p)' = RestaurantFilter(p)
  BY <1>3, FiltersStay
<1>5. CASE UNCHANGED <<plan, state>> /\ Paging(p, "restaurant")' /\ listed'[p]["region"] = <<>>
  <2>1. Gathering(p)'
    BY <1>1, <1>2, <1>3, <1>4, <1>5 DEF Gathering
  <2>2. Gathered(p)'
    BY <1>1, <1>5 DEF Gathered
  <2> QED BY <2>1, <2>2 DEF Gathers
<1>6. CASE /\ GoOn(p) /\ cursor'[p] = Start /\ listed'[p]["region"] = <<>>
           /\ Range(listed'[p]["restaurant"]) = Matching(p, "restaurant")
  <2>1. plan'[p] = Tail(plan[p]) /\ state'[p] = "running"
    BY <1>1, <1>2, <1>6 DEF GoOn, OrdersSound, PerReader
  <2>2. Paging(p, "region")'
    BY <1>2, <1>3, <1>6, NothingYet
  <2>3. Range(listed'[p].restaurant) = RestaurantFilter(p)
    BY <1>6 DEF Matching
  <2>4. Gathering(p)'
    BY <1>2, <1>3, <1>4, <2>1, <2>2, <2>3 DEF Gathering
  <2>5. Gathered(p)'
    BY <2>1 DEF Gathered
  <2> QED BY <2>4, <2>5 DEF Gathers
<1>7. CASE Count(p, "restaurant")
  <2>1. Paging(p, "restaurant")' /\ UNCHANGED <<plan, state, listed>>
    BY <1>2, <1>3, <1>7, QuietCount
  <2> QED BY <1>2, <1>5, <2>1
<1>8. CASE PageOn(p, "restaurant")
  BY <1>2, <1>3, <1>5, <1>6, <1>8, QuietPage
<1> QED BY <1>1, <1>7, <1>8

LEMMA QuietRegions ==
    ASSUME NEW p \in Readers, OrdersSound, Gathers(p), Quiet(p), PageRegions(p),
           UNCHANGED orgVars, shown' = shown
    PROVE  Gathers(p)'
<1>1. /\ state[p] = "running" /\ Head(plan[p]) = "regions"
      /\ Count(p, "region") \/ PageOn(p, "region")
  BY DEF PageRegions, Does
<1>2. /\ ~ByStaff(p) /\ NamesDiffer /\ always[p] = Visible(p)
      /\ Len(plan[p]) # 1 /\ Head(Tail(plan[p])) = "answer"
      /\ Paging(p, "region") /\ Range(listed[p]["restaurant"]) = RestaurantFilter(p)
  BY <1>1, QuietRuns
<1>3. /\ UNCHANGED <<call, was, always, steady>> /\ table' = table
  BY <1>1 DEF Count, PageOn, orgVars
<1>4. Visible(p)' = Visible(p) /\ NamesDiffer' = NamesDiffer
      /\ RestaurantFilter(p)' = RestaurantFilter(p) /\ RegionFilter(p)' = RegionFilter(p)
  BY <1>3, FiltersStay
<1>5. CASE /\ UNCHANGED <<plan, state>> /\ Paging(p, "region")'
           /\ listed'[p]["restaurant"] = listed[p]["restaurant"]
  <2>1. Gathering(p)'
    BY <1>1, <1>2, <1>3, <1>4, <1>5 DEF Gathering
  <2>2. Gathered(p)'
    BY <1>1, <1>5 DEF Gathered
  <2> QED BY <2>1, <2>2 DEF Gathers
<1>6. CASE /\ GoOn(p) /\ cursor'[p] = Start
           /\ listed'[p]["restaurant"] = listed[p]["restaurant"]
           /\ Range(listed'[p]["region"]) = Matching(p, "region")
  <2>1. plan'[p] = Tail(plan[p]) /\ state'[p] = "running"
    BY <1>1, <1>2, <1>6 DEF GoOn, OrdersSound, PerReader
  <2>2. Range(listed'[p].region) = RegionFilter(p)
    BY <1>6 DEF Matching
  <2>3. Gathering(p)'
    BY <1>2, <1>3, <1>4, <1>6, <2>1, <2>2 DEF Gathering
  <2>4. Gathered(p)'
    BY <2>1 DEF Gathered
  <2> QED BY <2>3, <2>4 DEF Gathers
<1>7. CASE Count(p, "region")
  <2>1. Paging(p, "region")' /\ UNCHANGED <<plan, state, listed>>
    BY <1>2, <1>3, <1>7, QuietCount
  <2> QED BY <1>5, <2>1
<1>8. CASE PageOn(p, "region")
  BY <1>2, <1>3, <1>5, <1>6, <1>8, QuietPage
<1> QED BY <1>1, <1>7, <1>8

LEMMA QuietTell ==
    ASSUME NEW p \in Readers, OrdersSound, Gathers(p), Quiet(p), Tell(p), UNCHANGED orgVars
    PROVE  Gathers(p)'
<1>1. state[p] = "running" /\ Head(plan[p]) = "answer" /\ GoOn(p)
  BY DEF Tell, Does
<1>2. /\ ~ByStaff(p) /\ always[p] = Visible(p) /\ Len(plan[p]) = 1
      /\ Range(listed[p].restaurant) = RestaurantFilter(p)
      /\ Range(listed[p].region) = RegionFilter(p)
  BY <1>1, QuietRuns
<1>3. /\ answer'[p] = RestaurantsOfRegions(listed[p]) /\ state'[p] = "ok"
      /\ UNCHANGED <<call, always, steady>>
  BY <1>1, <1>2 DEF Tell, AnswerOf, Quiet, GoOn, OrdersSound, PerReader
<1>4. RestaurantsOfRegions(listed[p]) =
         {s \in RestaurantFilter(p) : RegionOf[s] \in RegionFilter(p)}
  BY <1>2 DEF RestaurantsOfRegions
<1>5. \A s \in Restaurants : RegionOf[s] \in Regions
  BY OrganisationAssumption
<1>6. RegionFilter(p) = {g \in Regions : Open(g)} /\ always[p] = {r \in Rows : Open(r)}
      /\ RestaurantFilter(p) = {s \in Restaurants : /\ Open(s)
                                                    /\ call[p].at \in {None, RegionOf[s]}}
  BY <1>2 DEF RegionFilter, RestaurantFilter, FilterRegion, Visible
<1>7. answer'[p] = {s \in always[p] \cap Restaurants :
                       RegionOf[s] \in always[p] /\ call[p].at \in {None, RegionOf[s]}}
  BY <1>3, <1>4, <1>5, <1>6 DEF Rows
<1>8. Gathered(p)'
  BY <1>3, <1>7 DEF Gathered
<1>9. Gathering(p)'
  BY <1>3 DEF Gathering
<1> QED BY <1>8, <1>9 DEF Gathers

\* Each step of the list itself.
LEMMA ListGathers ==
    ASSUME NEW p \in Readers, OrdersSound, Gathers(p), Reads(p),
           UNCHANGED <<orgVars, order, shown>>, call[p].kind = "ListRestaurants"
    PROVE  Gathers(p)'
<1>1. ~ByStaff(p)
  BY ReaderTyped DEF OrdersSound, DirectoryKinds
<1>2. CASE Calling(p)
  <2>1. ListRestaurants(p)
    BY <1>1, <1>2 DEF Calling, ListRegions, GetRestaurant, StaffRegions, StaffRegion,
       StaffRestaurants, StaffRestaurant, Begin
  <2> QED BY <2>1, ListBegins
<1>3. CASE Reading(p)
  <2>1. /\ UNCHANGED <<call, steady>> /\ state[p] = "running"
        /\ Head(plan[p]) \in {"restaurants", "regions", "answer"}
    <3>1. state[p] = "running"
      BY <1>3 DEF Reading, PageRegions, PageRestaurants, ListPage, Find, FindOpen, FindOpenRegion,
         FindOwn, CheckAccess, Tell, Does
    <3>2. Prepared(call[p], Reader(p), OrderAt[Asked[p]], plan[p])
      BY <3>1, Running
    <3> QED BY <1>3, <3>1, <3>2, ReadingTouches, ListPlan
  <2>2. PageRestaurants(p) \/ PageRegions(p) \/ Tell(p)
    BY <1>3, <2>1 DEF Reading, ListPage, Find, FindOpen, FindOpenRegion, FindOwn, CheckAccess, Does
  <2>3. CASE Quiet(p)
    BY <2>2, <2>3, QuietRestaurants, QuietRegions, QuietTell
  <2>4. CASE ~Quiet(p)
    <3>1. ~Quiet(p)'
      BY <2>1, <2>4 DEF Quiet
    <3> QED BY <3>1 DEF Gathers, Gathering, Gathered
  <2> QED BY <2>3, <2>4
<1>4. CASE ReadFails(p)
  <2>1. state'[p] = "error"
    BY <1>4 DEF ReadFails, Stop, OrdersSound, PerReader
  <2> QED BY <2>1 DEF Gathers, Gathering, Gathered
<1> QED BY <1>2, <1>3, <1>4 DEF Reads

LEMMA StepsGather ==
    ASSUME OrdersSound, \A p \in Readers : Gathers(p), [OrdersNext]_ordersVars
    PROVE  \A p \in Readers : Gathers(p)'
<1>1. CASE \E q \in Requests : ChangesObserved(q) /\ UNCHANGED <<order, shown>>
  BY <1>1, ChangeGathers
<1>2. ASSUME NEW r \in Readers, Reads(r), UNCHANGED <<orgVars, order, shown>>
      PROVE  \A p \in Readers : Gathers(p)'
  <2>1. UNCHANGED table /\ shown' = shown
    BY <1>2 DEF orgVars
  <2>2. ASSUME NEW p \in Readers, p # r PROVE Gathers(p)'
    BY <1>2, <2>1, <2>2, ReadsTouch, SameGathers
  <2>3. CASE call[r].kind = "ListRestaurants"
    BY <1>2, <2>2, <2>3, ListGathers
  <2>4. CASE call[r].kind # "ListRestaurants"
    <3>1. call' = call
      <4>1. CASE Calling(r)
        BY <4>1 DEF Calling, ListRegions, ListRestaurants, GetRestaurant, StaffRegions, StaffRegion,
           StaffRestaurants, StaffRestaurant, Begin
      <4> QED BY <1>2, <2>1, <4>1, ReadingTouches DEF Reads
    <3>2. Gathers(r)'
      BY <2>4, <3>1 DEF Gathers, Gathering, Gathered, Quiet
    <3> QED BY <2>2, <3>2
  <2> QED BY <2>3, <2>4
<1>3. ASSUME NEW r \in Readers, Views(r) PROVE \A p \in Readers : Gathers(p)'
  <2>1. /\ \A p \in Readers : p # r => Same(p)
        /\ call'[r].kind = call[r].kind /\ call[r].kind # "ListRestaurants" /\ UNCHANGED table
    BY <1>3, ViewsTouch DEF orgVars
  <2>2. Gathers(r)'
    BY <2>1 DEF Gathers, Gathering, Gathered, Quiet
  <2>3. ASSUME NEW p \in Readers, p # r PROVE Gathers(p)'
    BY <2>1, <2>3, SameGathers
  <2> QED BY <2>2, <2>3
<1>4. ASSUME UNCHANGED <<orgVars, dirVars, shown>> PROVE \A p \in Readers : Gathers(p)'
  BY <1>4, SameGathers DEF Same, orgVars, dirVars
<1>5. CASE (\E o \in OrderIds : Complete(o)) \/ UNCHANGED ordersVars
  BY <1>4, <1>5 DEF Complete, ordersVars
<1> QED BY <1>1, <1>2, <1>3, <1>5 DEF OrdersNext

\* While nothing changes and no two rows share a name, the directory lists every
\* open restaurant of an open region, and no other, whatever the sizes of the
\* pages.
THEOREM DirectoryComplete == OrdersSpec => []CompleteWhenQuiet
<1>1. OrdersInit => \A p \in Readers : Gathers(p)
  BY DEF OrdersInit, DirInit, Gathers, Gathering, Gathered
<1>2. /\ OrdersSound /\ (\A p \in Readers : Gathers(p)) /\ [OrdersNext]_ordersVars
      => (\A p \in Readers : Gathers(p))'
  BY StepsGather
<1>3. (\A p \in Readers : Gathers(p)) => CompleteWhenQuiet
  BY DEF Gathers, Gathered, Quiet, CompleteWhenQuiet, Answered
<1> QED BY <1>1, <1>2, <1>3, OrdersSoundAlways, PTL DEF OrdersSpec

=============================================================================
