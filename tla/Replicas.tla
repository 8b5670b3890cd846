------------------------------- MODULE Replicas -------------------------------
(***************************************************************************)
(* The replicas of the service: how they start (main, app.New and the      *)
(* migration runner), serve, and stop (App.Start, App.Shutdown and the two *)
(* servers).  A replica that starts takes an advisory lock of PostgreSQL,  *)
(* applies the migrations that are not recorded, each in a transaction     *)
(* with its record, and serves.  One that stops drains its HTTP server,    *)
(* then its gRPC server, within one timeout, and closes what they use.     *)
(***************************************************************************)
EXTENDS Naturals, Sequences, FiniteSets

CONSTANTS
    Replicas,
    Files,              \* the migrations, 1 to their number in lexical order
    Build,              \* the migrations that the image of a replica has
    Blank,              \* those with nothing in them
    AutoMigrate,        \* the replicas that run them
    Works,              \* requests
    Grpc,               \* those over gRPC; the others are over HTTP
    MaxFaults,          \* bound: faults of all kinds
    Nobody

ASSUME ReplicasAssumption ==
    /\ Cardinality(Files) \in Nat /\ Files = 1..Cardinality(Files)
    /\ \A r \in Replicas : Build[r] \in {1..n : n \in 0..Cardinality(Files)}
    /\ Blank \subseteq Files /\ AutoMigrate \subseteq Replicas /\ Grpc \subseteq Works
    /\ MaxFaults \in Nat /\ Nobody # "ghost" /\ {Nobody, "ghost"} \cap Replicas = {}

VARIABLES
    schema,         \* the migrations that took effect, in the order they did
    recorded,       \* the table schema_migrations
    lock,           \* who holds the lock: a replica, the session of one that
                    \* died ("ghost"), or Nobody
    phase,          \* phase[r]: what replica r is at
    known,          \* known[r]: the migrations r knows to be applied
    txn,            \* txn[r]: the transaction of its next one
    up,             \* up[r]: the migrations went well so far
    late,           \* late[r]: the shutdown timeout has expired
    work,           \* work[q]: what request q is at
    server,         \* server[q]: the replica that is serving it
    faults,         \* faults so far
    expired,        \* history: some shutdown timeout has expired
    failed          \* history: replicas that gave up their start by themselves

schemaVars == <<schema, recorded, lock, known, txn, up>>
lifeVars == <<schemaVars, phase, late, faults, expired, failed>>
workVars == <<work, server>>

LifeInit ==
    /\ schema = <<>> /\ recorded = {} /\ lock = Nobody
    /\ phase = [r \in Replicas |-> "off"]
    /\ known = [r \in Replicas |-> {}]
    /\ txn = [r \in Replicas |-> "none"]
    /\ up = [r \in Replicas |-> TRUE]
    /\ late = [r \in Replicas |-> FALSE]
    /\ work = [q \in Works |-> "waiting"]
    /\ server = [q \in Works |-> Nobody]
    /\ faults = 0 /\ expired = FALSE /\ failed = {}

Starting == {"postgres", "lock", "read", "migrate", "unlock", "redis"}
Stopping == {"http", "grpc", "close", "exit"}

GoTo(r, next) == phase' = [phase EXCEPT ![r] = next]

\* The step is a fault, of which there are finitely many.
Fault == faults < MaxFaults /\ faults' = faults + 1

-----------------------------------------------------------------------------
(* The start.                                                              *)

Launch(r) ==
    /\ phase[r] = "off"
    /\ GoTo(r, "postgres")
    /\ UNCHANGED <<schemaVars, late, faults, expired, failed, workVars>>

\* The first ping of PostgreSQL, or of Redis, succeeds or ends the process.  What
\* follows the ping of Redis in New fails for the same reasons.
Connect(r, at, next) ==
    /\ phase[r] = at
    /\ \/ GoTo(r, next) /\ UNCHANGED faults
       \/ GoTo(r, "off") /\ Fault
    /\ UNCHANGED <<schemaVars, late, expired, failed, workVars>>

NewPostgres(r) ==
    Connect(r, "postgres", IF r \in AutoMigrate THEN "lock" ELSE "redis")
NewRedis(r) == Connect(r, "redis", "serving")

\* Mutant: a replica does not wait for the one that migrates.
TryLock(r) ==
    /\ phase[r] = "lock"
    /\ IF lock = Nobody THEN lock' = r /\ GoTo(r, "read") ELSE GoTo(r, "redis") /\ UNCHANGED lock
    /\ UNCHANGED <<schema, recorded, known, txn, up, late, faults, expired, failed, workVars>>

AcquireLock(r) ==
    /\ phase[r] = "lock" /\ lock = Nobody
    /\ lock' = r
    /\ GoTo(r, "read")
    /\ UNCHANGED <<schema, recorded, known, txn, up, late, faults, expired, failed, workVars>>

\* The session that held the lock is still the replica's.
HasSession(r) == lock = r

\* Mutant: every start applies all the files.
ReadNothing(r) ==
    /\ phase[r] = "read" /\ HasSession(r)
    /\ GoTo(r, "migrate")
    /\ UNCHANGED <<schemaVars, late, faults, expired, failed, workVars>>

ReadApplied(r) ==
    /\ phase[r] = "read"
    /\ IF HasSession(r)
       THEN known' = [known EXCEPT ![r] = recorded] /\ GoTo(r, "migrate") /\ UNCHANGED up
       ELSE up' = [up EXCEPT ![r] = FALSE] /\ GoTo(r, "unlock") /\ UNCHANGED known
    /\ UNCHANGED <<schema, recorded, lock, txn, late, faults, expired, failed, workVars>>

Pending(r) == Build[r] \ (known[r] \cup Blank)

Current(r) == CHOOSE f \in Pending(r) : \A g \in Pending(r) : f <= g

\* Mutant: the statements of the file commit by themselves.
ApplyCommitted(r) ==
    /\ phase[r] = "migrate" /\ txn[r] = "none" /\ Pending(r) # {} /\ HasSession(r)
    /\ txn' = [txn EXCEPT ![r] = "applied"]
    /\ schema' = Append(schema, Current(r))
    /\ UNCHANGED <<recorded, lock, known, up, phase, late, faults, expired, failed, workVars>>

Apply(r) ==
    /\ phase[r] = "migrate" /\ txn[r] = "none" /\ Pending(r) # {} /\ HasSession(r)
    /\ txn' = [txn EXCEPT ![r] = "applied"]
    /\ UNCHANGED <<schema, recorded, lock, known, up, phase, late, faults, expired, failed,
                   workVars>>

\* Up returns an error: the transaction is rolled back.
GiveUp(r) ==
    /\ txn' = [txn EXCEPT ![r] = "none"]
    /\ up' = [up EXCEPT ![r] = FALSE]
    /\ GoTo(r, "unlock")

\* The insert violates the primary key if another replica has recorded the file.
Record(r) ==
    /\ phase[r] = "migrate" /\ txn[r] = "applied" /\ HasSession(r)
    /\ IF Current(r) \in recorded
       THEN GiveUp(r) /\ failed' = failed \cup {r}
       ELSE txn' = [txn EXCEPT ![r] = "recorded"] /\ UNCHANGED <<up, phase, failed>>
    /\ UNCHANGED <<schema, recorded, lock, known, late, faults, expired, workVars>>

\* What a commit does to the database.
Committed(r) ==
    /\ schema' = Append(schema, Current(r))
    /\ recorded' = recorded \cup {Current(r)}

Commit(r) ==
    /\ phase[r] = "migrate" /\ txn[r] = "recorded" /\ HasSession(r)
    /\ Committed(r)
    /\ known' = [known EXCEPT ![r] = @ \cup {Current(r)}]
    /\ txn' = [txn EXCEPT ![r] = "none"]
    /\ UNCHANGED <<lock, up, phase, late, faults, expired, failed, workVars>>

\* The loop is done, a query fails, or every query does because the session is gone.
LeaveLoop(r) ==
    /\ phase[r] = "migrate"
    /\ \/ Pending(r) = {} /\ GoTo(r, "unlock") /\ UNCHANGED <<txn, up, faults>>
       \/ ~HasSession(r) /\ GiveUp(r) /\ UNCHANGED faults
       \/ GiveUp(r) /\ Fault
    /\ UNCHANGED <<schema, recorded, lock, known, late, expired, failed, workVars>>

\* The deferred unlock.
Unlock(r) ==
    /\ phase[r] = "unlock"
    /\ lock' = IF HasSession(r) THEN Nobody ELSE lock
    /\ GoTo(r, IF up[r] THEN "redis" ELSE "off")
    /\ known' = [known EXCEPT ![r] = {}]
    /\ up' = [up EXCEPT ![r] = TRUE]
    /\ UNCHANGED <<schema, recorded, txn, late, faults, expired, failed, workVars>>

\* PostgreSQL ends the session: the transaction is rolled back, unless it was
\* being committed.
EndSession(r) ==
    /\ txn' = [txn EXCEPT ![r] = "none"]
    /\ \/ UNCHANGED <<schema, recorded>>
       \/ txn[r] = "recorded" /\ HasSession(r) /\ Committed(r)

SessionLost(r) ==
    /\ phase[r] \in {"read", "migrate"} /\ HasSession(r)
    /\ Fault
    /\ EndSession(r)
    /\ lock' = Nobody
    /\ UNCHANGED <<known, up, phase, late, expired, failed, workVars>>

-----------------------------------------------------------------------------
(* The end.                                                                *)

Serving(r) == phase[r] = "serving"

\* The gRPC server accepts calls until its own shutdown begins.
Accepts(r, q) == IF q \in Grpc THEN phase[r] \in {"serving", "http"} ELSE Serving(r)

InFlight(r, Q) == {q \in Q : server[q] = r}

\* SIGTERM, or one of the servers fails.
Terminate(r) ==
    /\ Serving(r)
    /\ GoTo(r, "http")
    /\ UNCHANGED <<schemaVars, late, faults, expired, failed, workVars>>

\* The context of Shutdown is done.
Expire(r) ==
    /\ phase[r] \in {"http", "grpc"} /\ ~late[r]
    /\ InFlight(r, Works) # {}
    /\ late' = [late EXCEPT ![r] = TRUE]
    /\ expired' = TRUE
    /\ UNCHANGED <<schemaVars, phase, faults, failed, workVars>>

HTTPShutdown(r) ==
    /\ phase[r] = "http"
    /\ late[r] \/ InFlight(r, Works \ Grpc) = {}
    /\ GoTo(r, "grpc")
    /\ UNCHANGED <<schemaVars, late, faults, expired, failed, workVars>>

\* Request q is answered, with success or an error.
Done(q, how) ==
    /\ work' = [work EXCEPT ![q] = how]
    /\ server' = [server EXCEPT ![q] = Nobody]

\* The requests in Q get no answer from their replica.
Cut(Q) ==
    /\ work' = [q \in Works |-> IF q \in Q THEN "error" ELSE work[q]]
    /\ server' = [q \in Works |-> IF q \in Q THEN Nobody ELSE server[q]]

\* Mutant: calls in flight are not waited for.
StopAtOnce(r) == TRUE

\* Mutant: GracefulStop is waited for without the timeout.
WaitForAll(r) == InFlight(r, Grpc) = {}

GracefulStop(r) == late[r] \/ InFlight(r, Grpc) = {}

GRPCShutdown(r) ==
    /\ phase[r] = "grpc" /\ GracefulStop(r)
    /\ Cut(InFlight(r, Grpc))
    /\ GoTo(r, "close")
    /\ UNCHANGED <<schemaVars, late, faults, expired, failed>>

\* Mutant: what the servers use is closed first.
CloseFirst(r) == phase[r] = "http"

CanClose(r) == phase[r] = "close"

Exit(r) ==
    /\ phase[r] = "exit"
    /\ Cut(InFlight(r, Works))
    /\ GoTo(r, "off")
    /\ late' = [late EXCEPT ![r] = FALSE]
    /\ UNCHANGED <<schemaVars, faults, expired, failed>>

\* The process dies.  Its session lives on until PostgreSQL notices.
Crash(r) ==
    /\ phase[r] # "off"
    /\ Fault
    /\ EndSession(r)
    /\ lock' = IF HasSession(r) THEN "ghost" ELSE lock
    /\ GoTo(r, "off")
    /\ known' = [known EXCEPT ![r] = {}]
    /\ up' = [up EXCEPT ![r] = TRUE]
    /\ late' = [late EXCEPT ![r] = FALSE]
    /\ UNCHANGED <<expired, failed>>

Reap ==
    /\ lock = "ghost"
    /\ lock' = Nobody
    /\ UNCHANGED <<schema, recorded, known, txn, up, phase, late, faults, expired, failed,
                   workVars>>

-----------------------------------------------------------------------------
Starts(r) ==
    \/ NewPostgres(r) \/ AcquireLock(r) \/ ReadApplied(r) \/ Apply(r) \/ Record(r)
    \/ Commit(r) \/ LeaveLoop(r) \/ Unlock(r) \/ NewRedis(r)

Stops(r) == Expire(r) \/ HTTPShutdown(r) \/ GRPCShutdown(r)

-----------------------------------------------------------------------------
(* Properties.                                                             *)

LifeTypeOK ==
    /\ schema \in Seq(Files) /\ recorded \subseteq Files
    /\ lock \in Replicas \cup {Nobody, "ghost"}
    /\ phase \in [Replicas -> Starting \cup Stopping \cup {"off", "serving"}]
    /\ known \in [Replicas -> SUBSET Files]
    /\ txn \in [Replicas -> {"none", "applied", "recorded"}]
    /\ \A r \in Replicas : txn[r] # "none" => phase[r] = "migrate" /\ HasSession(r)
    /\ up \in [Replicas -> BOOLEAN] /\ late \in [Replicas -> BOOLEAN]
    /\ server \in [Works -> Replicas \cup {Nobody}]
    /\ faults \in 0..MaxFaults /\ expired \in BOOLEAN /\ failed \subseteq Replicas

\* Whatever dies when, and however many replicas start together, a migration
\* takes effect at most once, after all that sort before it, and is recorded
\* exactly if it did.
MigratedOnceInOrder ==
    /\ recorded = {schema[i] : i \in DOMAIN schema}
    /\ \A i, j \in DOMAIN schema : i < j => schema[i] < schema[j]
    /\ \A f \in recorded : \A g \in Files \ Blank : g < f => g \in recorded

\* A replica that serves finds the schema that its build expects.
ServesMigrated ==
    \A r \in AutoMigrate :
        phase[r] \in {"serving"} \cup Stopping => Build[r] \ Blank \subseteq recorded

\* Replicas that start together, or again, do not fail over what is applied already.
StartsTogether == failed = {}

\* Every start ends: the replica serves, or its process has ended.
StartEnds == \A r \in Replicas : (phase[r] \in Starting) ~> (phase[r] \notin Starting)

\* Every stop ends, also when a handler hangs.
StopEnds == \A r \in Replicas : (phase[r] \in Stopping) ~> (phase[r] = "off")

=============================================================================
