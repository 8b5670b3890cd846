-------------------------------- MODULE Peers --------------------------------
(***************************************************************************)
(* Requests that reach other services, while replicas come and go.  Staff  *)
(* adjust the points of loyalty members: AdjustPoints goes to kfc-loyalty  *)
(* under a timeout, and has no key, so one that is sent again counts again.*)
(* Staff create accounts: a goroutine mails the initial password, which    *)
(* nothing else knows, through kfc-notification.  Services read over gRPC. *)
(* The peers are external; the shutdown closes the clients to them.        *)
(***************************************************************************)
EXTENDS Replicas, RBAC

CONSTANTS
    Sendings,           \* bound: what the requests over HTTP ask for, together
    Tries               \* bound: how often each request is sent

Overs == Works \ Grpc

ASSUME PeersAssumption ==
    /\ Sendings \subseteq [Overs -> [kind : {"adjust", "create"}, role : Roles]]
    /\ Tries \in [Works -> Nat]
    /\ Replicas \cap {"none", "sent", "lost"} = {}

VARIABLES
    asks,           \* asks[q]: what request q asks for, and the role of its sender
    tries,          \* tries[q]: how often q was sent
    applied,        \* applied[q]: how often kfc-loyalty has applied adjustment q
    rows,           \* the accounts that were stored
    mail,           \* mail[q]: the mail to account q: none, sent, lost, or the
                    \* replica with a goroutine that sends it
    stopped         \* history: a replica has closed its clients before it
                    \* had sent a mail

peerVars == <<asks, tries, applied, rows, mail, stopped>>
vars == <<lifeVars, workVars, peerVars>>

Init ==
    /\ LifeInit
    /\ asks \in Sendings
    /\ tries = [q \in Works |-> 0]
    /\ applied = [q \in Works |-> 0]
    /\ rows = {}
    /\ mail = [q \in Works |-> "none"]
    /\ stopped = FALSE

Sender(q) == [role |-> asks[q].role, active |-> TRUE]

Asks(q, kind) == q \in Overs /\ asks[q].kind = kind

\* A request, or the same one again after an error.
Send(q) ==
    /\ work[q] \in {"waiting", "error"} /\ tries[q] < Tries[q]
    /\ tries' = [tries EXCEPT ![q] = @ + 1]
    /\ \E r \in Replicas : Accepts(r, q) /\ server' = [server EXCEPT ![q] = r]
    /\ work' = [work EXCEPT ![q] = "running"]
    /\ UNCHANGED <<lifeVars, asks, applied, rows, mail, stopped>>

\* The clients and the stores of q's replica are closed.
Closed(q) == phase[server[q]] = "exit"

\* Handler q is at a step, and goes on to the next one if ok.
Step(q, from, ok, to) ==
    /\ work[q] = from
    /\ IF ok THEN work' = [work EXCEPT ![q] = to] /\ UNCHANGED server
             ELSE Done(q, "error")

\* A read of the database.
Read(q) ==
    /\ q \in Grpc /\ work[q] = "running"
    /\ Done(q, IF Closed(q) THEN "error" ELSE "ok")
    /\ UNCHANGED <<lifeVars, peerVars>>

-----------------------------------------------------------------------------
(* The points of a member.                                                 *)

CanAdjust(q) == CheckPermission(Sender(q), "customer.adjust")

AdjustPoints(q) ==
    /\ Asks(q, "adjust") /\ work[q] = "running"
    /\ Step(q, "running", CanAdjust(q) /\ ~Closed(q), "calling")
    /\ UNCHANGED <<lifeVars, peerVars>>

\* kfc-loyalty applies the adjustment, or refuses it.
LoyaltyApplies(q) ==
    /\ Step(q, "calling", TRUE, "applied")
    /\ applied' = [applied EXCEPT ![q] = @ + 1]
    /\ UNCHANGED <<lifeVars, asks, tries, rows, mail, stopped>>

LoyaltyRefuses(q) ==
    /\ Step(q, "calling", TRUE, "refused")
    /\ UNCHANGED <<lifeVars, peerVars>>

mapError(q) == IF work[q] = "applied" THEN "ok" ELSE "error"

Answer(q) ==
    /\ work[q] \in {"applied", "refused"}
    /\ Done(q, mapError(q))
    /\ UNCHANGED <<lifeVars, peerVars>>

\* The call times out, before or after its effect.
Timeout(q) ==
    /\ work[q] \in {"calling", "applied", "refused"}
    /\ Fault
    /\ Done(q, "error")
    /\ \/ UNCHANGED applied
       \/ work[q] = "calling" /\ applied' = [applied EXCEPT ![q] = @ + 1]
    /\ UNCHANGED <<schemaVars, phase, late, expired, failed, asks, tries, rows, mail, stopped>>

-----------------------------------------------------------------------------
(* A new account.                                                          *)

CanCreate(q) == CheckPermission(Sender(q), "user.create")

\* The e-mail is unique: an account that is there already is a conflict.
CreateUser(q) ==
    LET ok == CanCreate(q) /\ ~Closed(q) /\ q \notin rows IN
    /\ Asks(q, "create") /\ work[q] = "running"
    /\ Step(q, "running", ok, "stored")
    /\ rows' = IF ok THEN rows \cup {q} ELSE rows
    /\ UNCHANGED <<lifeVars, asks, tries, applied, mail, stopped>>

Spawn(q) == server[q]

\* The goroutine starts, and the request is answered.
AnswerCreated(q) ==
    /\ work[q] = "stored"
    /\ mail' = [mail EXCEPT ![q] = Spawn(q)]
    /\ Done(q, "ok")
    /\ UNCHANGED <<lifeVars, asks, tries, applied, rows, stopped>>

\* It is sent once, with ten seconds to do so.
SendWelcomeEmail(q) ==
    /\ mail[q] \in Replicas
    /\ \/ /\ mail' = [mail EXCEPT ![q] = IF phase[mail[q]] = "exit" THEN "lost" ELSE "sent"]
          /\ UNCHANGED faults
       \/ /\ Fault
          /\ \E end \in {"sent", "lost"} : mail' = [mail EXCEPT ![q] = end]
    /\ UNCHANGED <<schemaVars, phase, late, expired, failed, workVars,
                   asks, tries, applied, rows, stopped>>

-----------------------------------------------------------------------------
(* What the life of a replica does to its requests.                        *)

\* The calls of the requests in Q are broken off; kfc-loyalty may have applied
\* those it was given.
Interrupted(Q) ==
    \E S \in SUBSET {q \in Q : work[q] = "calling"} :
        applied' = [q \in Works |-> IF q \in S THEN applied[q] + 1 ELSE applied[q]]

Close(r) ==
    LET calls == {q \in InFlight(r, Works) : work[q] \in {"calling", "applied", "refused"}} IN
    /\ CanClose(r)
    /\ GoTo(r, "exit")
    /\ Cut(calls) /\ Interrupted(calls)
    /\ stopped' = (stopped \/ \E q \in Works : mail[q] = r)
    /\ UNCHANGED <<schemaVars, late, faults, expired, failed, asks, tries, rows, mail>>

\* The goroutines end with the process.
Unsent(r) == mail' = [q \in Works |-> IF mail[q] = r THEN "lost" ELSE mail[q]]

Ends(r) ==
    /\ Exit(r) /\ Unsent(r)
    /\ UNCHANGED <<asks, tries, applied, rows, stopped>>

Dies(r) ==
    /\ Crash(r) /\ Unsent(r)
    /\ Cut(InFlight(r, Works)) /\ Interrupted(InFlight(r, Works))
    /\ UNCHANGED <<asks, tries, rows, stopped>>

-----------------------------------------------------------------------------
Lives(r) ==
    /\ \/ Launch(r) \/ Starts(r) \/ SessionLost(r) \/ Terminate(r) \/ Stops(r)
    /\ UNCHANGED peerVars

Handles(q) ==
    \/ Read(q) \/ AdjustPoints(q) \/ LoyaltyApplies(q) \/ LoyaltyRefuses(q)
    \/ Answer(q) \/ Timeout(q) \/ CreateUser(q) \/ AnswerCreated(q) \/ SendWelcomeEmail(q)

Next ==
    \/ \E r \in Replicas : Lives(r) \/ Close(r) \/ Ends(r) \/ Dies(r)
    \/ Reap /\ UNCHANGED peerVars
    \/ \E q \in Works : Send(q) \/ Handles(q)

Spec == Init /\ [][Next]_vars

\* PostgreSQL grants the lock in the order it was asked for and notices dead
\* sessions; a replica's own steps and its timer go on.  Handlers may hang.
FairSpec ==
    /\ Spec
    /\ WF_vars(Reap /\ UNCHANGED peerVars)
    /\ \A r \in Replicas :
          /\ SF_vars(AcquireLock(r) /\ UNCHANGED peerVars)
          /\ WF_vars(Starts(r) /\ UNCHANGED peerVars)
          /\ WF_vars((Stops(r) /\ UNCHANGED peerVars) \/ Close(r) \/ Ends(r))

-----------------------------------------------------------------------------
(* Properties.                                                             *)

TypeOK ==
    /\ LifeTypeOK
    /\ work \in [Works -> {"waiting", "running", "calling", "applied", "refused", "stored",
                           "ok", "error"}]
    /\ \A q \in Works : server[q] # Nobody =>
                           work[q] \notin {"waiting", "ok", "error"}
                           /\ phase[server[q]] \in {"serving"} \cup Stopping
    /\ \A q \in Works : tries[q] \in 0..Tries[q] /\ applied[q] \in 0..tries[q]
    /\ rows \subseteq Overs
    /\ mail \in [Works -> {"none", "sent", "lost"} \cup Replicas]
    /\ stopped \in BOOLEAN

\* An adjustment that was answered with success was applied, and it is applied
\* for nobody without the permission.
AppliedIfAnswered ==
    \A q \in Works : Asks(q, "adjust") =>
        /\ work[q] = "ok" => applied[q] > 0
        /\ applied[q] > 0 => asks[q].role \in {"restaurant_manager", "regional_manager",
                                               "super_admin"}

\* Sending an adjustment again after an error applies it twice only after a
\* fault, or after a shutdown that ran out of time: restarts alone do not.
TwiceNeedsFault ==
    \A q \in Works : applied[q] > 1 => faults > 0 \/ expired

\* The initial password is mailed only for a stored account.  It is out, or on
\* its way, once the creation was answered; it gets lost only by a fault, when
\* its replica stops, which does not wait for it, or with a shutdown that ran
\* out of time.
MailLostByStop ==
    \A q \in Works :
        /\ mail[q] # "none" => q \in rows
        /\ Asks(q, "create") /\ work[q] = "ok" =>
              mail[q] \in {"sent"} \cup Replicas \/ faults > 0 \/ stopped \/ expired

\* Typed; what an answer promised has happened, and what happens twice or not
\* at all has a fault or a stop to blame.
PeersInv == TypeOK /\ AppliedIfAnswered /\ TwiceNeedsFault /\ MailLostByStop

\* No request is cut off by an orderly shutdown that has time left.
CutOnlyLate ==
    [][\A q \in Works, r \in Replicas :
          /\ server[q] = r
          /\ phase[r] \in Stopping /\ phase'[r] # phase[r] /\ work'[q] = "error"
          => late[r] \/ faults' > faults]_vars

\* A replica neither starts nor stops for ever, whatever fails or hangs.
AllEnd == StartEnds /\ StopEnds

=============================================================================
