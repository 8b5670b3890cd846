-------------------------- MODULE DevicePairingProofs --------------------------
(***************************************************************************)
(* Proofs about DevicePairing: what a deletion, an answer and a new code   *)
(* are worth although kfc-userapi may execute calls late, for any devices, *)
(* any requests and any number of failures.                                *)
(***************************************************************************)
EXTENDS DevicePairing, TLAPS

-----------------------------------------------------------------------------
(* The inductive invariant.                                                *)

\* A device has a restaurant from its insertion on.
Placed == \A d \in Devices : devices[d].state = "none" <=> devices[d].restaurant = None

\* A handler that stands there holds no device yet.
Preparing == {"idle", "authorize", "serial", "insert", "load", "list"}

Stages(kind) ==
    CASE kind = "create" -> {"authorize", "serial", "insert"}
      [] kind = "update" -> {"load", "write"}
      [] kind = "delete" -> {"load", "revoke", "revokeDevice", "remove"}
      [] kind = "pair" -> {"load", "revoke", "cache", "reply"}
      [] kind = "pairAll" -> {"authorize", "list", "cacheAll", "email", "reply"}
      [] OTHER -> {}

KindsOfSteps ==
    \A q \in Requests :
        /\ IF pc[q] = "idle" THEN req[q].kind = "none"
           ELSE pc[q] \in Stages(req[q].kind) \cup Ended
        /\ req[q].kind \in {"create", "update", "delete", "pair"} => req[q].on # None
        /\ req[q].kind \in {"create", "pairAll"} => req[q].in # None

\* The devices a handler holds exist; they are the one it was asked about, or
\* some of the restaurant's.  Only codes of those are ever shown.
Batches ==
    \A q \in Requests :
        /\ pc[q] \in Preparing => batch[q] = {}
        /\ pc[q] \in {"revoke", "revokeDevice", "remove", "cache"} => batch[q] = {req[q].on}
        /\ \A d \in batch[q] :
              /\ devices[d].state # "none"
              /\ req[q].kind = "pairAll" => devices[d].restaurant = req[q].in
        /\ told[q] \subseteq batch[q]
        /\ told[q] # {} => Pairs(req[q].kind) /\ pc[q] \in {"reply", "ok", "failed"}

MayPair(q, s) ==
    CheckPermission(Actor(q), "device.pair") /\ CanAccessRestaurant(Actor(q), s, Restaurants)

\* The rule was asked for whatever a pairing holds.
PairedInScope ==
    \A q \in Requests :
        /\ req[q].kind = "pairAll" /\ pc[q] = "list" => MayPair(q, req[q].in)
        /\ Pairs(req[q].kind) => \A d \in batch[q] : MayPair(q, devices[d].restaurant)

\* A call that may be executed late is one its handler has given up on.
LateCalls ==
    \A c \in late :
        /\ c = CallOf(c.from, c.op) /\ <<c.from, c.op>> \in timedOut
        /\ pc[c.from] \notin Preparing
        /\ c.op \in {"cacheCode", "cacheCodes"} => Pairs(req[c.from].kind) /\ pc[c.from] \in Ended

\* The code of a device comes from a pairing that held the device.
CodesOfPairings ==
    \A d \in Devices : codes[d] # None => Pairs(req[codes[d]].kind) /\ d \in batch[codes[d]]

\* From the moment a deletion has loaded its device, and found it unpaired by
\* anybody, none can come: those that load the device later disturb the deletion,
\* and none can once the row is deleted.
CutOff ==
    \A q \in Requests : req[q].kind = "delete" /\ q \notin disturbed =>
        /\ pc[q] \in {"revoke", "revokeDevice", "remove", "ok"} => PairingsOf(req[q].on) = {}
        /\ pc[q] = "ok" => devices[req[q].on].state = "deleted"
        /\ q \notin Unsure("revokeCode") =>
              /\ pc[q] \in {"revokeDevice", "remove", "ok"} => codes[req[q].on] = None
              /\ pc[q] \in {"remove", "ok"} /\ q \notin Unsure("revokeDevice")
                    => req[q].on \notin tokens

\* A code is stored from the answer of kfc-userapi on.
Stored ==
    \A q \in Requests \ Unsure("revokeCode") : \A d \in batch[q] :
        d \in told[q] \/ (Pairs(req[q].kind) /\ pc[q] \in {"email", "reply", "ok"})
            => codes[d] = q \/ <<q, d>> \in over

\* Requests of before whose code cannot come back, as no call of theirs is late.
Outdated(q) == before[q] \ (Unsure("cacheCode") \cup Unsure("cacheCodes"))

Replaces(q, d) ==
    d \in batch[q] \/ (req[q].kind = "pairAll" /\ devices[d].restaurant = req[q].in)

OldCodesGone ==
    \A q \in Requests :
        /\ \A p \in before[q] : p # q /\ pc[p] \in Ended
        /\ Pairs(req[q].kind) /\ pc[q] \in {"email", "reply", "ok"}
              => \A d \in Devices : Replaces(q, d) => codes[d] \notin Outdated(q)

IInv ==
    /\ TypeOK /\ Placed /\ KindsOfSteps /\ Batches /\ PairedInScope
    /\ LateCalls /\ CodesOfPairings /\ CutOff /\ Stored /\ OldCodesGone

-----------------------------------------------------------------------------
(* A call of kfc-userapi.                                                  *)

CacheOps == {"cacheCode", "cacheCodes"}

\* What the execution of c may do to the codes and the tokens.
LEMMA ExecuteFacts ==
    ASSUME TypeOK, NEW c \in Calls, Execute(c)
    PROVE  /\ codes' \in [Devices -> Requests \cup {None}]
           /\ tokens' \subseteq tokens
           /\ over \subseteq over' /\ over' \subseteq Requests \X Devices
           /\ \A d \in Devices :
                 /\ \/ codes'[d] = codes[d]
                    \/ codes'[d] = None
                    \/ codes'[d] = c.from /\ d \in c.on /\ c.op \in CacheOps
                 /\ codes[d] \notin {None, c.from} /\ codes'[d] # codes[d]
                       => <<codes[d], d>> \in over'
           /\ c.op = "revokeCode" => \A d \in c.on : codes'[d] = None
           /\ c.op = "revokeDevice" => codes' = codes /\ c.on \cap tokens' = {}
           /\ c.op \in CacheOps => \A d \in c.on : codes'[d] = c.from
           /\ c.op = "cacheCodes" =>
                 \A d \in Devices : d \notin c.on /\ devices[d].restaurant = c.in
                     => codes'[d] = None
<1> USE DEF TypeOK, Calls, Operations, CacheOps
<1>1. /\ c.op \in Operations /\ c.from \in Requests /\ c.on \subseteq Devices
      /\ codes' = CodesAfter(c)
  BY DEF Execute
<1>2. CASE c.op = "revokeCode"
  BY <1>1, <1>2 DEF Execute, CodesAfter
<1>3. CASE c.op = "cacheCode"
  BY <1>1, <1>3 DEF Execute, CodesAfter
<1>4. CASE c.op = "cacheCodes"
  BY <1>1, <1>4 DEF Execute, CodesAfter, Replaced
<1>5. CASE c.op = "revokeDevice"
  BY <1>1, <1>5 DEF Execute, CodesAfter
<1> QED BY <1>1, <1>2, <1>3, <1>4, <1>5

\* A call that a handler makes: answered, or given up on.
CallStep(q, op) ==
    LET c == CallOf(q, op) IN
    /\ \/ Execute(c) /\ UNCHANGED <<late, timedOut, faults>>
       \/ /\ timedOut' = timedOut \cup {<<q, op>>}
          /\ Fault
          /\ \/ UNCHANGED userapiVars
             \/ Execute(c) /\ UNCHANGED late
             \/ late' = late \cup {c} /\ UNCHANGED <<codes, tokens, over>>
    /\ UNCHANGED <<devices, restaurants, handlerVars, disturbed>>

LEMMA CallsAreSteps ==
    ASSUME NEW q, NEW op, NEW to
    PROVE  /\ Answered(q, CallOf(q, op), to) =>
                 /\ CallStep(q, op) /\ pc' = [pc EXCEPT ![q] = to]
                 /\ Execute(CallOf(q, op)) /\ UNCHANGED <<late, timedOut>>
           /\ Unanswered(q, CallOf(q, op), to) =>
                 /\ CallStep(q, op) /\ pc' = [pc EXCEPT ![q] = to]
                 /\ <<q, op>> \in timedOut'
BY DEF Answered, Unanswered, CallStep, historyVars, CallOf

\* What the call of a handler that keeps its variables may do.
LEMMA CallFacts ==
    ASSUME TypeOK, NEW q \in Requests, NEW op \in Operations, CallStep(q, op)
    PROVE  /\ codes' \in [Devices -> Requests \cup {None}]
           /\ tokens' \subseteq tokens
           /\ over \subseteq over' /\ over' \subseteq Requests \X Devices
           /\ late \subseteq late' /\ late' \subseteq late \cup {CallOf(q, op)}
           /\ late' # late => <<q, op>> \in timedOut'
           /\ timedOut \subseteq timedOut' /\ timedOut' \subseteq timedOut \cup {<<q, op>>}
           /\ CallOf(q, op) \in Calls
           /\ faults' \in 0..MaxFaults
           /\ UNCHANGED <<devices, restaurants, req, batch, loaded, told, before, disturbed>>
           /\ Execute(CallOf(q, op)) \/ (UNCHANGED <<codes, tokens, over>> /\ <<q, op>> \in timedOut')
<1>1. CallOf(q, op) \in Calls
  BY DEF CallOf, Calls, TypeOK, Request
<1>2. UNCHANGED <<devices, restaurants, req, batch, loaded, told, before, disturbed>>
  BY DEF CallStep, handlerVars
<1>3. /\ faults' \in 0..MaxFaults
      /\ late \subseteq late' /\ late' \subseteq late \cup {CallOf(q, op)}
      /\ late' # late => <<q, op>> \in timedOut'
      /\ timedOut \subseteq timedOut' /\ timedOut' \subseteq timedOut \cup {<<q, op>>}
      /\ Execute(CallOf(q, op)) \/ (UNCHANGED <<codes, tokens, over>> /\ <<q, op>> \in timedOut')
  BY DevicePairingAssumption DEF CallStep, Fault, userapiVars, TypeOK
<1>4. CASE Execute(CallOf(q, op))
  BY <1>1, <1>2, <1>3, <1>4, ExecuteFacts
<1>5. CASE UNCHANGED <<codes, tokens, over>>
  BY <1>1, <1>2, <1>3, <1>5 DEF TypeOK
<1> QED BY <1>3, <1>4, <1>5

-----------------------------------------------------------------------------
(* Types.                                                                  *)

LEMMA ArriveFacts ==
    ASSUME TypeOK, NEW q \in Requests, Arrives(q)
    PROVE  \E kind \in Kinds :
              /\ pc[q] = "idle"
              /\ pc' = [pc EXCEPT ![q] =
                          IF kind \in {"create", "pairAll"} THEN "authorize" ELSE "load"]
              /\ \E r \in Asks[q] : r.kind = kind /\ req' = [req EXCEPT ![q] = r]
              /\ before' = [before EXCEPT ![q] = {p \in Requests : pc[p] \in Ended}]
              /\ UNCHANGED <<devices, restaurants, userapiVars, batch, loaded, told,
                             historyVars, faults>>
BY DEF Arrives, Create, Update, Delete, PairOne, PairAll, Arrive, Kinds

\* Calls, as the handlers make them.
LEMMA HandlerCalls ==
    ASSUME NEW q \in Requests,
           RevokeForDelete(q) \/ RevokeOldCode(q) \/ CacheCode(q) \/ CacheAllCodes(q)
    PROVE  \/ /\ req[q].kind = "delete" /\ pc[q] = "revoke"
              /\ CallStep(q, "revokeCode") /\ pc' = [pc EXCEPT ![q] = "revokeDevice"]
           \/ /\ req[q].kind = "delete" /\ pc[q] = "revokeDevice"
              /\ CallStep(q, "revokeDevice") /\ pc' = [pc EXCEPT ![q] = "remove"]
           \/ /\ req[q].kind = "pair" /\ pc[q] = "revoke"
              /\ CallStep(q, "revokeCode") /\ pc' = [pc EXCEPT ![q] = "cache"]
           \/ /\ pc[q] = "cache" /\ CallStep(q, "cacheCode")
              /\ \/ pc' = [pc EXCEPT ![q] = "refused"]
                 \/ /\ pc' = [pc EXCEPT ![q] = "reply"]
                    /\ Execute(CallOf(q, "cacheCode")) /\ late' = late
           \/ /\ pc[q] = "cacheAll" /\ CallStep(q, "cacheCodes")
              /\ \/ pc' = [pc EXCEPT ![q] = "refused"]
                 \/ /\ pc' = [pc EXCEPT ![q] = "email"]
                    /\ Execute(CallOf(q, "cacheCodes")) /\ late' = late
<1> USE DEF RevokePairingCode, RevokeDevice, CachePairingCode, CachePairingCodes
<1>1. CASE RevokeForDelete(q) /\ pc[q] = "revoke"
  BY <1>1, CallsAreSteps DEF RevokeForDelete
<1>2. CASE RevokeForDelete(q) /\ pc[q] = "revokeDevice"
  BY <1>2, CallsAreSteps DEF RevokeForDelete
<1>3. CASE RevokeOldCode(q)
  BY <1>3, CallsAreSteps DEF RevokeOldCode
<1>4. CASE CacheCode(q)
  BY <1>4, CallsAreSteps DEF CacheCode
<1>5. CASE CacheAllCodes(q)
  BY <1>5, CallsAreSteps DEF CacheAllCodes
<1> QED BY <1>1, <1>2, <1>3, <1>4, <1>5 DEF RevokeForDelete

\* A device is loaded and the rule applied: the handler holds it, or ends.
LEMMA LoadFacts ==
    ASSUME TypeOK, NEW q \in Requests,
           LoadForUpdate(q) \/ LoadForDelete(q) \/ LoadForPair(q)
    PROVE  /\ pc[q] = "load"
           /\ \/ LoadForUpdate(q) /\ req[q].kind = "update" /\ disturbed' = disturbed
              \/ /\ LoadForDelete(q) /\ req[q].kind = "delete"
                 /\ disturbed' = IF PairingsOf(req[q].on) # {}
                                 THEN disturbed \cup {q} ELSE disturbed
              \/ /\ LoadForPair(q) /\ req[q].kind = "pair"
                 /\ disturbed' = disturbed \cup Deletions(req[q].on)
           /\ \/ /\ pc' = [pc EXCEPT ![q] = "refused"]
                 /\ batch' = [batch EXCEPT ![q] = {}]
              \/ /\ Live(req[q].on)
                 /\ pc' = [pc EXCEPT ![q] = IF req[q].kind = "update" THEN "write" ELSE "revoke"]
                 /\ batch' = [batch EXCEPT ![q] = {req[q].on}]
                 /\ req[q].kind = "pair" => CanPairDevice(Actor(q), req[q].on)
           /\ UNCHANGED <<devices, restaurants, userapiVars, req, told, before, timedOut, faults>>
<1>1. CASE LoadForUpdate(q)
  BY <1>1 DEF LoadForUpdate, Load, Decide
<1>2. CASE LoadForDelete(q)
  BY <1>2 DEF LoadForDelete, Load, Decide
<1>3. CASE LoadForPair(q)
  BY <1>3 DEF LoadForPair, Load, Decide
<1> QED BY <1>1, <1>2, <1>3

\* A row is inserted, written or deleted, and keeps its restaurant.
LEMMA RowFacts ==
    ASSUME TypeOK, KindsOfSteps, NEW q \in Requests,
           InsertDevice(q) \/ UpdateRow(q) \/ DeleteRow(q)
    PROVE  /\ pc[q] \in {"insert", "write", "remove"}
           /\ req[q].on \in Devices
           /\ \/ pc' = [pc EXCEPT ![q] = "refused"] /\ devices' = devices
              \/ /\ pc' = [pc EXCEPT ![q] = "ok"]
                 /\ \E row \in Row :
                      /\ devices' = [devices EXCEPT ![req[q].on] = row]
                      /\ \/ /\ pc[q] = "insert" /\ devices[req[q].on].state = "none"
                            /\ row.state = "live" /\ row.restaurant = req[q].in
                         \/ /\ pc[q] = "write" /\ Live(req[q].on)
                            /\ row.state = "live"
                            /\ row.restaurant = devices[req[q].on].restaurant
                         \/ /\ pc[q] = "remove" /\ Live(req[q].on)
                            /\ row.state = "deleted"
                            /\ row.restaurant = devices[req[q].on].restaurant
           /\ UNCHANGED <<restaurants, userapiVars, handlerVars, historyVars, faults>>
<1> DEFINE d == req[q].on
<1>1. pc[q] \in {"insert", "write", "remove"}
  BY DEF InsertDevice, UpdateRow, DeleteRow, Decide
<1>2. d \in Devices
  BY <1>1 DEF KindsOfSteps, Stages, Ended, TypeOK, Request, Kinds
<1>3. devices[d] \in Row /\ req[q].in \in Restaurants \cup {None}
  BY <1>2 DEF TypeOK, Request
<1>4. NewActive(q) \in BOOLEAN
  BY DEF NewActive, TypeOK
<1>5. CASE InsertDevice(q)
  <2>1. [state |-> "live", restaurant |-> req[q].in, active |-> FALSE] \in Row
    BY <1>3 DEF Row
  <2> QED BY <1>2, <1>5, <2>1 DEF InsertDevice, Decide, Insert, Insertable
<1>6. CASE UpdateRow(q)
  <2>1. [devices[d] EXCEPT !.state = "live", !.active = NewActive(q)] \in Row
    BY <1>3, <1>4 DEF Row
  <2>2. /\ [devices[d] EXCEPT !.state = "live", !.active = NewActive(q)].state = "live"
        /\ [devices[d] EXCEPT !.state = "live", !.active = NewActive(q)].restaurant
              = devices[d].restaurant
    BY <1>3 DEF Row
  <2>3. Write(d, NewActive(q)) =>
            devices' = [devices EXCEPT ![d] =
                          [devices[d] EXCEPT !.state = "live", !.active = NewActive(q)]]
    BY DEF Write
  <2> QED BY <1>2, <1>6, <2>1, <2>2, <2>3 DEF UpdateRow, Decide, Writable
<1>7. CASE DeleteRow(q)
  <2>1. [devices[d] EXCEPT !.state = "deleted", !.active = FALSE] \in Row
    BY <1>3 DEF Row
  <2>2. /\ [devices[d] EXCEPT !.state = "deleted", !.active = FALSE].state = "deleted"
        /\ [devices[d] EXCEPT !.state = "deleted", !.active = FALSE].restaurant
              = devices[d].restaurant
    BY <1>3 DEF Row
  <2>3. SoftDelete(d) =>
            devices' = [devices EXCEPT ![d] =
                          [devices[d] EXCEPT !.state = "deleted", !.active = FALSE]]
    BY DEF SoftDelete
  <2> QED BY <1>2, <1>7, <2>1, <2>2, <2>3 DEF DeleteRow, Decide
<1> QED BY <1>5, <1>6, <1>7

LEMMA TypeStep == ASSUME TypeOK, KindsOfSteps, [Next]_vars PROVE TypeOK'
<1> USE DEF Running, Ended
<1>1. ASSUME NEW q \in Requests, Arrives(q) PROVE TypeOK'
  <2>1. PICK kind \in Kinds, r \in Asks[q] :
           /\ req' = [req EXCEPT ![q] = r]
           /\ pc' = [pc EXCEPT ![q] =
                          IF kind \in {"create", "pairAll"} THEN "authorize" ELSE "load"]
           /\ before' = [before EXCEPT ![q] = {p \in Requests : pc[p] \in Ended}]
           /\ UNCHANGED <<devices, restaurants, userapiVars, batch, loaded, told,
                          historyVars, faults>>
    BY <1>1, ArriveFacts
  <2>2. r \in Request
    BY DevicePairingAssumption
  <2> QED BY <2>1, <2>2 DEF TypeOK, userapiVars, historyVars
<1>2. ASSUME NEW q \in Requests,
             AuthorizeCreate(q) \/ AuthorizePairAll(q) \/ LookUpSerial(q)
      PROVE  TypeOK'
  BY <1>2 DEF TypeOK, AuthorizeCreate, AuthorizePairAll, LookUpSerial, Decide, userapiVars,
              historyVars, handlerVars
<1>3. ASSUME NEW q \in Requests, InsertDevice(q) \/ UpdateRow(q) \/ DeleteRow(q)
      PROVE  TypeOK'
  <2>1. CASE InsertDevice(q)
    BY <2>1, RowFacts DEF TypeOK, userapiVars, historyVars, handlerVars
  <2>2. CASE UpdateRow(q)
    BY <2>2, RowFacts DEF TypeOK, userapiVars, historyVars, handlerVars
  <2>3. CASE DeleteRow(q)
    BY <2>3, RowFacts DEF TypeOK, userapiVars, historyVars, handlerVars
  <2> QED BY <1>3, <2>1, <2>2, <2>3
<1>4. ASSUME NEW q \in Requests, LoadForUpdate(q) \/ LoadForDelete(q) \/ LoadForPair(q)
      PROVE  TypeOK'
  <2>1. pc' \in [Requests -> Running \cup Ended \cup {"idle"}]
    BY <1>4, LoadFacts DEF TypeOK
  <2>2. batch' \in [Requests -> SUBSET Devices]
    <3>1. req[q] \in Request
      BY DEF TypeOK
    <3>2. req[q].kind \in {"update", "delete", "pair"}
      BY <1>4, LoadFacts
    <3>3. req[q].on \in Devices
      BY <3>1, <3>2 DEF KindsOfSteps, Request
    <3>4. \/ batch' = [batch EXCEPT ![q] = {}]
          \/ batch' = [batch EXCEPT ![q] = {req[q].on}]
      BY <1>4, LoadFacts
    <3> QED BY <3>3, <3>4 DEF TypeOK
  <2>3. disturbed' \subseteq Requests
    <3>1. Deletions(req[q].on) \subseteq Requests
      BY DEF Deletions
    <3>2. \/ disturbed' \in {disturbed, disturbed \cup {q}}
          \/ disturbed' = disturbed \cup Deletions(req[q].on)
      BY <1>4, LoadFacts
    <3> QED BY <3>1, <3>2 DEF TypeOK
  <2>4. loaded' \in [Requests -> BOOLEAN]
    <3>1. CASE LoadForUpdate(q)
      <4>1. req[q].on \in Devices
        BY <3>1 DEF LoadForUpdate, Load, KindsOfSteps, TypeOK, Request
      <4>2. devices[req[q].on].active \in BOOLEAN
        BY <4>1 DEF TypeOK, Row
      <4> QED BY <3>1, <4>2 DEF LoadForUpdate, TypeOK
    <3> QED BY <1>4, <3>1 DEF TypeOK, LoadForDelete, LoadForPair
  <2> QED BY <1>4, <2>1, <2>2, <2>3, <2>4, LoadFacts DEF TypeOK, userapiVars
<1>5. ASSUME NEW q \in Requests, ListDevices(q) PROVE TypeOK'
  BY <1>5, DevicePairingAssumption DEF TypeOK, ListDevices, ListByRestaurant, Decide, Fault,
              Deletions, userapiVars
<1>6. ASSUME NEW q \in Requests,
             RevokeForDelete(q) \/ RevokeOldCode(q) \/ CacheCode(q) \/ CacheAllCodes(q)
      PROVE  TypeOK'
  <2>1. PICK op \in Operations : CallStep(q, op)
    BY <1>6, HandlerCalls DEF Operations
  <2>2. pc' \in [Requests -> Running \cup Ended \cup {"idle"}]
    BY <1>6, HandlerCalls DEF TypeOK
  <2>3. late' \subseteq Calls
    BY <2>1, CallFacts DEF TypeOK
  <2>4. timedOut' \subseteq Requests \X Operations
    <3>1. <<q, op>> \in Requests \X Operations
      OBVIOUS
    <3> QED BY <2>1, <3>1, CallFacts DEF TypeOK
  <2>5. tokens' \subseteq Devices
    BY <2>1, CallFacts DEF TypeOK
  <2> QED BY <2>1, <2>2, <2>3, <2>4, <2>5, CallFacts DEF TypeOK
<1>7. ASSUME NEW q \in Requests, SendEmail(q) \/ Reply(q) \/ GivesUp(q) PROVE TypeOK'
  BY <1>7, DevicePairingAssumption DEF TypeOK, SendEmail, Reply, GivesUp, Fault,
              userapiVars, historyVars, handlerVars
<1>8. ASSUME ExecuteLate PROVE TypeOK'
  BY <1>8, ExecuteFacts DEF TypeOK, ExecuteLate, handlerVars, historyVars
<1>9. ASSUME NEW d \in Devices, Redeem(d) \/ CodeExpires(d) PROVE TypeOK'
  BY <1>9 DEF TypeOK, Redeem, CodeExpires, handlerVars, historyVars
<1>10. ASSUME NEW s \in Restaurants, RemoveRestaurant(s) PROVE TypeOK'
  BY <1>10 DEF TypeOK, RemoveRestaurant, handlerVars, userapiVars, historyVars
<1>11. CASE UNCHANGED vars
  BY <1>11 DEF TypeOK, vars
<1> QED
  BY <1>1, <1>2, <1>3, <1>4, <1>5, <1>6, <1>7, <1>8, <1>9, <1>10, <1>11
  DEF Next, Handles, Elsewhere

-----------------------------------------------------------------------------
(* The steps, as far as the requests, the rows and the pairings go.        *)

LEMMA StagesFacts ==
    /\ Stages("create") = {"authorize", "serial", "insert"}
    /\ Stages("update") = {"load", "write"}
    /\ Stages("delete") = {"load", "revoke", "revokeDevice", "remove"}
    /\ Stages("pair") = {"load", "revoke", "cache", "reply"}
    /\ Stages("pairAll") = {"authorize", "list", "cacheAll", "email", "reply"}
    /\ Stages("none") = {}
BY DEF Stages

\* Before the handler loads or lists.
LEMMA QueryFacts ==
    ASSUME TypeOK, NEW q \in Requests,
           AuthorizeCreate(q) \/ AuthorizePairAll(q) \/ LookUpSerial(q)
    PROVE  /\ \/ /\ req[q].kind = "create" /\ pc[q] = "authorize"
                 /\ pc' = [pc EXCEPT ![q] = "serial"]
              \/ /\ req[q].kind = "pairAll" /\ pc[q] = "authorize"
                 /\ pc' = [pc EXCEPT ![q] = "list"]
                 /\ CanPairDevices(Actor(q), req[q].in)
              \/ pc[q] = "serial" /\ pc' = [pc EXCEPT ![q] = "insert"]
              \/ pc[q] \in {"authorize", "serial"} /\ pc' = [pc EXCEPT ![q] = "refused"]
           /\ UNCHANGED <<devices, restaurants, userapiVars, handlerVars, historyVars, faults>>
BY DEF AuthorizeCreate, AuthorizePairAll, LookUpSerial, Decide

LEMMA ListFacts ==
    ASSUME TypeOK, NEW q \in Requests, ListDevices(q)
    PROVE  /\ pc[q] = "list"
           /\ pc' = [pc EXCEPT ![q] = "refused"] \/ pc' = [pc EXCEPT ![q] = "cacheAll"]
           /\ \E some \in SUBSET ListByRestaurant(req[q].in) :
                 /\ batch' = [batch EXCEPT ![q] = some]
                 /\ disturbed' = disturbed \cup UNION {Deletions(d) : d \in some}
           /\ UNCHANGED <<devices, restaurants, userapiVars, req, told, before, timedOut>>
<1>1. PICK some \in SUBSET ListByRestaurant(req[q].in) :
         batch' = [batch EXCEPT ![q] = some]
  BY DEF ListDevices
<1>2. batch'[q] = some
  BY <1>1 DEF TypeOK
<1> QED BY <1>1, <1>2 DEF ListDevices, Decide

\* The end of a handler.
LEMMA EndFacts ==
    ASSUME TypeOK, NEW q \in Requests, SendEmail(q) \/ Reply(q) \/ GivesUp(q)
    PROVE  /\ pc[q] \in Running
           /\ \/ /\ pc[q] = "email" /\ pc' = [pc EXCEPT ![q] = "reply"]
                 /\ told' = told \/ told' = [told EXCEPT ![q] = batch[q]]
              \/ /\ pc[q] = "reply" /\ pc' = [pc EXCEPT ![q] = "ok"]
                 /\ told' = [told EXCEPT ![q] = batch[q]]
              \/ pc' = [pc EXCEPT ![q] = "failed"] /\ told' = told
           /\ UNCHANGED <<devices, restaurants, userapiVars, req, batch, before, historyVars>>
BY DEF SendEmail, Reply, GivesUp, handlerVars, Running

\* Where a handler stands tells what it does.
LEMMA KindFacts ==
    ASSUME TypeOK, KindsOfSteps, NEW q \in Requests
    PROVE  /\ pc[q] = "authorize" => req[q].kind \in {"create", "pairAll"}
           /\ pc[q] \in {"serial", "insert"} => req[q].kind = "create"
           /\ pc[q] = "load" => req[q].kind \in {"update", "delete", "pair"}
           /\ pc[q] = "write" => req[q].kind = "update"
           /\ pc[q] = "revoke" => req[q].kind \in {"delete", "pair"}
           /\ pc[q] \in {"revokeDevice", "remove"} => req[q].kind = "delete"
           /\ pc[q] = "cache" => req[q].kind = "pair"
           /\ pc[q] \in {"list", "cacheAll", "email"} => req[q].kind = "pairAll"
           /\ pc[q] = "reply" => req[q].kind \in {"pair", "pairAll"}
<1>1. req[q].kind \in {"create", "update", "delete", "pair", "pairAll", "none"}
  BY DEF TypeOK, Request, Kinds
<1>2. pc[q] # "idle" => pc[q] \in Stages(req[q].kind) \cup {"ok", "refused", "failed"}
  BY DEF KindsOfSteps, Ended
<1> QED BY <1>1, <1>2, StagesFacts

LEMMA KindsKept ==
    ASSUME TypeOK, KindsOfSteps, NEW q \in Requests, pc[q] # "idle", req' = req,
           NEW to \in Stages(req[q].kind) \cup Ended, pc' = [pc EXCEPT ![q] = to]
    PROVE  KindsOfSteps'
<1>1. to # "idle"
  BY StagesFacts DEF TypeOK, Request, Kinds, Ended
<1> QED BY <1>1 DEF TypeOK, KindsOfSteps

LEMMA KindsStep == ASSUME TypeOK, KindsOfSteps, [Next]_vars PROVE KindsOfSteps'
<1> USE StagesFacts DEF Ended
<1>1. ASSUME NEW q \in Requests, Arrives(q) PROVE KindsOfSteps'
  <2>1. PICK kind \in Kinds, r \in Asks[q] :
           /\ r.kind = kind /\ req' = [req EXCEPT ![q] = r]
           /\ pc' = [pc EXCEPT ![q] =
                          IF kind \in {"create", "pairAll"} THEN "authorize" ELSE "load"]
    BY <1>1, ArriveFacts
  <2>2. /\ r.kind # "pairAll" => r.on # None
        /\ r.kind \in {"create", "pairAll"} => r.in # None
    BY DevicePairingAssumption
  <2>3. pc'[q] \in Stages(r.kind) /\ pc'[q] # "idle"
    BY <2>1 DEF Kinds, TypeOK
  <2> QED BY <2>1, <2>2, <2>3 DEF Kinds, TypeOK, KindsOfSteps
<1>2. ASSUME NEW q \in Requests,
             AuthorizeCreate(q) \/ AuthorizePairAll(q) \/ LookUpSerial(q)
      PROVE  KindsOfSteps'
  BY <1>2, QueryFacts, KindFacts, KindsKept DEF handlerVars
<1>3. ASSUME NEW q \in Requests, InsertDevice(q) \/ UpdateRow(q) \/ DeleteRow(q)
      PROVE  KindsOfSteps'
  BY <1>3, RowFacts, KindsKept DEF handlerVars
<1>4. ASSUME NEW q \in Requests, LoadForUpdate(q) \/ LoadForDelete(q) \/ LoadForPair(q)
      PROVE  KindsOfSteps'
  BY <1>4, LoadFacts, KindsKept
<1>5. ASSUME NEW q \in Requests, ListDevices(q) PROVE KindsOfSteps'
  BY <1>5, ListFacts, KindFacts, KindsKept
<1>6. ASSUME NEW q \in Requests,
             RevokeForDelete(q) \/ RevokeOldCode(q) \/ CacheCode(q) \/ CacheAllCodes(q)
      PROVE  KindsOfSteps'
  <2>1. req' = req
    BY <1>6, HandlerCalls, CallFacts DEF Operations
  <2> QED BY <1>6, <2>1, HandlerCalls, KindFacts, KindsKept
<1>7. ASSUME NEW q \in Requests, SendEmail(q) \/ Reply(q) \/ GivesUp(q) PROVE KindsOfSteps'
  BY <1>7, EndFacts, KindFacts, KindsKept DEF Running
<1>8. CASE Elsewhere \/ UNCHANGED vars
  BY <1>8 DEF KindsOfSteps, Elsewhere, ExecuteLate, Redeem, CodeExpires, RemoveRestaurant,
              handlerVars, vars
<1> QED
  BY <1>1, <1>2, <1>3, <1>4, <1>5, <1>6, <1>7, <1>8 DEF Next, Handles

\* Rows stay: what exists is not inserted again, and what is deleted stays so.
RowsStay ==
    \A d \in Devices :
        /\ devices[d].state # "none" =>
              devices'[d].state # "none" /\ devices'[d].restaurant = devices[d].restaurant
        /\ devices[d].state = "deleted" => devices'[d].state = "deleted"

LEMMA RowsStep ==
    ASSUME TypeOK, KindsOfSteps, Placed, [Next]_vars
    PROVE  RowsStay /\ Placed'
<1>1. ASSUME NEW q \in Requests, InsertDevice(q) \/ UpdateRow(q) \/ DeleteRow(q)
      PROVE  RowsStay /\ Placed'
  <2> DEFINE d == req[q].on
  <2>1. CASE devices' = devices
    BY <2>1 DEF RowsStay, Placed
  <2>2. CASE devices' # devices
    <3>1. d \in Devices
      BY <1>1, RowFacts
    <3>2. PICK row \in Row :
             /\ devices' = [devices EXCEPT ![d] = row]
             /\ \/ /\ pc[q] = "insert" /\ devices[d].state = "none"
                   /\ row.state = "live" /\ row.restaurant = req[q].in
                \/ /\ pc[q] \in {"write", "remove"} /\ devices[d].state = "live"
                   /\ row.state \in {"live", "deleted"}
                   /\ row.restaurant = devices[d].restaurant
      BY <1>1, <2>2, RowFacts DEF Live
    <3>3. pc[q] = "insert" => req[q].in # None
      BY KindFacts DEF KindsOfSteps
    <3>4. \A e \in Devices : devices'[e] = IF e = d THEN row ELSE devices[e]
      BY <3>1, <3>2 DEF TypeOK
    <3> HIDE DEF d
    <3> QED BY <3>1, <3>2, <3>3, <3>4 DEF RowsStay, Placed
  <2> QED BY <2>1, <2>2
<1>2. ASSUME devices' = devices PROVE RowsStay /\ Placed'
  BY <1>2 DEF RowsStay, Placed
<1>3. ASSUME NEW q \in Requests,
             RevokeForDelete(q) \/ RevokeOldCode(q) \/ CacheCode(q) \/ CacheAllCodes(q)
      PROVE  devices' = devices
  BY <1>3, HandlerCalls, CallFacts DEF Operations
<1>4. ASSUME NEW q \in Requests, Arrives(q) PROVE devices' = devices
  BY <1>4, ArriveFacts
<1>5. CASE Elsewhere \/ UNCHANGED vars
  BY <1>2, <1>5 DEF Elsewhere, ExecuteLate, Redeem, CodeExpires, RemoveRestaurant, vars
<1> QED
  BY <1>1, <1>2, <1>3, <1>4, <1>5, QueryFacts, LoadFacts, ListFacts, EndFacts
  DEF Next, Handles

-----------------------------------------------------------------------------
(* The devices that the handlers hold.                                     *)

LEMMA BatchesStep ==
    ASSUME TypeOK, KindsOfSteps, Placed, Batches, [Next]_vars
    PROVE  Batches'
<1> USE DEF Preparing
<1>1. RowsStay
  BY RowsStep
<1>a. \A q \in Requests : batch[q] \subseteq Devices /\ req[q].on \in Devices \cup {None}
  BY DEF TypeOK, Request
<1>2. ASSUME NEW q \in Requests, Arrives(q) PROVE Batches'
  <2>1. PICK kind \in Kinds, r \in Asks[q] :
           /\ pc[q] = "idle" /\ req' = [req EXCEPT ![q] = r]
           /\ pc' = [pc EXCEPT ![q] =
                          IF kind \in {"create", "pairAll"} THEN "authorize" ELSE "load"]
           /\ UNCHANGED <<devices, batch, told>>
    BY <1>2, ArriveFacts
  <2>2. batch[q] = {} /\ told[q] = {}
    BY <2>1 DEF Batches
  <2> QED BY <2>1, <2>2 DEF Batches, TypeOK
<1>3. ASSUME NEW q \in Requests,
             AuthorizeCreate(q) \/ AuthorizePairAll(q) \/ LookUpSerial(q)
      PROVE  Batches'
  BY <1>3, QueryFacts DEF Batches, TypeOK, handlerVars
<1>4. ASSUME NEW q \in Requests, InsertDevice(q) \/ UpdateRow(q) \/ DeleteRow(q)
      PROVE  Batches'
  <2>1. /\ pc[q] \in {"insert", "write", "remove"}
        /\ pc' = [pc EXCEPT ![q] = "refused"] \/ pc' = [pc EXCEPT ![q] = "ok"]
        /\ UNCHANGED <<req, batch, told>>
    BY <1>4, RowFacts DEF handlerVars
  <2>2. told[q] = {}
    BY <2>1 DEF Batches
  <2> QED BY <1>1, <1>a, <2>1, <2>2 DEF Batches, TypeOK, RowsStay
<1>5. ASSUME NEW q \in Requests, LoadForUpdate(q) \/ LoadForDelete(q) \/ LoadForPair(q)
      PROVE  Batches'
  <2>1. pc[q] = "load" /\ batch[q] = {} /\ told[q] = {}
    BY <1>5, LoadFacts DEF Batches
  <2>2. req[q].kind # "pairAll"
    BY <2>1, KindFacts
  <2> QED BY <1>5, <2>1, <2>2, LoadFacts DEF Batches, TypeOK, Live
<1>6. ASSUME NEW q \in Requests, ListDevices(q) PROVE Batches'
  <2>1. pc[q] = "list" /\ batch[q] = {} /\ told[q] = {}
    BY <1>6, ListFacts DEF Batches
  <2>2. req[q].kind = "pairAll"
    BY <2>1, KindFacts
  <2> QED BY <1>6, <2>1, <2>2, ListFacts DEF Batches, TypeOK, ListByRestaurant, Live
<1>7. ASSUME NEW q \in Requests,
             RevokeForDelete(q) \/ RevokeOldCode(q) \/ CacheCode(q) \/ CacheAllCodes(q)
      PROVE  Batches'
  <2>1. UNCHANGED <<devices, req, batch, told>>
    BY <1>7, HandlerCalls, CallFacts DEF Operations
  <2>2. \/ /\ pc[q] \in {"revoke", "revokeDevice", "cache"}
           /\ \E to \in {"revokeDevice", "remove", "cache", "reply", "refused"} :
                 pc' = [pc EXCEPT ![q] = to]
        \/ /\ pc[q] = "cacheAll"
           /\ \E to \in {"email", "refused"} : pc' = [pc EXCEPT ![q] = to]
    BY <1>7, HandlerCalls
  <2>3. told[q] = {}
    BY <2>2 DEF Batches
  <2> QED BY <2>1, <2>2, <2>3 DEF Batches, TypeOK
<1>8. ASSUME NEW q \in Requests, SendEmail(q) \/ Reply(q) \/ GivesUp(q) PROVE Batches'
  <2>1. pc[q] \in {"email", "reply"} => Pairs(req[q].kind)
    BY KindFacts DEF Pairs
  <2> QED BY <1>8, <2>1, EndFacts DEF Batches, TypeOK, Running
<1>9. CASE Elsewhere \/ UNCHANGED vars
  BY <1>9 DEF Batches, Elsewhere, ExecuteLate, Redeem, CodeExpires, RemoveRestaurant,
              handlerVars, vars
<1> QED
  BY <1>2, <1>3, <1>4, <1>5, <1>6, <1>7, <1>8, <1>9 DEF Next, Handles

\* Restaurants only disappear: whoever has access to one now had it before.
LEMMA ScopeOfAll ==
    ASSUME restaurants \subseteq Restaurants, NEW user, NEW s,
           CanAccessRestaurant(user, s, restaurants)
    PROVE  CanAccessRestaurant(user, s, Restaurants)
BY DEF CanAccessRestaurant

LEMMA ScopeStep ==
    ASSUME TypeOK, KindsOfSteps, Placed, Batches, PairedInScope, [Next]_vars
    PROVE  PairedInScope'
<1> USE DEF Preparing
<1>1. RowsStay
  BY RowsStep
<1>a. \A q \in Requests : batch[q] \subseteq Devices
  BY DEF TypeOK
<1>b. \A q \in Requests : req'[q] = req[q] =>
         \A s : MayPair(q, s) => MayPair(q, s)'
  BY DEF MayPair, Actor
<1>2. ASSUME NEW q \in Requests, Arrives(q) PROVE PairedInScope'
  <2>1. PICK kind \in Kinds, r \in Asks[q] :
           /\ pc[q] = "idle" /\ req' = [req EXCEPT ![q] = r]
           /\ pc' = [pc EXCEPT ![q] =
                          IF kind \in {"create", "pairAll"} THEN "authorize" ELSE "load"]
           /\ UNCHANGED <<devices, batch, told>>
    BY <1>2, ArriveFacts
  <2>2. batch'[q] = {} /\ pc'[q] # "list"
    BY <2>1 DEF Batches, TypeOK
  <2>3. \A p \in Requests \ {q} : req'[p] = req[p] /\ pc'[p] = pc[p]
    BY <2>1 DEF TypeOK
  <2> QED BY <1>b, <2>1, <2>2, <2>3 DEF PairedInScope
<1>3. ASSUME UNCHANGED <<req, batch>>,
             \A p \in Requests : pc'[p] = "list" => pc[p] = "list" \/ MayPair(p, req[p].in)
      PROVE  PairedInScope'
  BY <1>1, <1>a, <1>b, <1>3 DEF PairedInScope, Batches, RowsStay
<1>4. ASSUME NEW q \in Requests,
             AuthorizeCreate(q) \/ AuthorizePairAll(q) \/ LookUpSerial(q)
      PROVE  PairedInScope'
  <2>1. CanPairDevices(Actor(q), req[q].in) => MayPair(q, req[q].in)
    BY ScopeOfAll DEF CanPairDevices, MayPair, TypeOK
  <2> QED BY <1>3, <1>4, <2>1, QueryFacts DEF TypeOK, handlerVars
<1>5. ASSUME NEW q \in Requests, InsertDevice(q) \/ UpdateRow(q) \/ DeleteRow(q)
      PROVE  PairedInScope'
  BY <1>3, <1>5, RowFacts DEF TypeOK, handlerVars
<1>6. ASSUME NEW q \in Requests, LoadForUpdate(q) \/ LoadForDelete(q) \/ LoadForPair(q)
      PROVE  PairedInScope'
  <2>1. CanPairDevice(Actor(q), req[q].on) => MayPair(q, devices[req[q].on].restaurant)
    BY ScopeOfAll DEF CanPairDevice, MayPair, TypeOK
  <2>2. /\ req' = req /\ devices' = devices /\ pc'[q] # "list"
        /\ \A p \in Requests \ {q} : batch'[p] = batch[p] /\ pc'[p] = pc[p]
    BY <1>6, LoadFacts DEF TypeOK
  <2>3. Pairs(req[q].kind) => \A d \in batch'[q] : MayPair(q, devices[d].restaurant)
    BY <1>6, <2>1, LoadFacts DEF TypeOK, Pairs
  <2> QED BY <1>b, <2>2, <2>3 DEF PairedInScope
<1>7. ASSUME NEW q \in Requests, ListDevices(q) PROVE PairedInScope'
  <2>1. MayPair(q, req[q].in)
    BY <1>7, ListFacts, KindFacts DEF PairedInScope
  <2>2. /\ req' = req /\ devices' = devices /\ pc'[q] # "list"
        /\ \A p \in Requests \ {q} : batch'[p] = batch[p] /\ pc'[p] = pc[p]
        /\ batch'[q] \subseteq ListByRestaurant(req[q].in)
    BY <1>7, ListFacts DEF TypeOK
  <2> QED BY <1>b, <2>1, <2>2 DEF PairedInScope, ListByRestaurant
<1>8. ASSUME NEW q \in Requests,
             RevokeForDelete(q) \/ RevokeOldCode(q) \/ CacheCode(q) \/ CacheAllCodes(q)
      PROVE  PairedInScope'
  <2>1. UNCHANGED <<req, batch>>
    BY <1>8, HandlerCalls, CallFacts DEF Operations
  <2>2. \A p \in Requests : pc'[p] = "list" => pc[p] = "list"
    BY <1>8, HandlerCalls DEF TypeOK
  <2> QED BY <1>3, <2>1, <2>2
<1>9. ASSUME NEW q \in Requests, SendEmail(q) \/ Reply(q) \/ GivesUp(q) PROVE PairedInScope'
  BY <1>3, <1>9, EndFacts DEF TypeOK
<1>10. CASE Elsewhere \/ UNCHANGED vars
  BY <1>3, <1>10 DEF Elsewhere, ExecuteLate, Redeem, CodeExpires, RemoveRestaurant,
              handlerVars, vars
<1> QED
  BY <1>2, <1>4, <1>5, <1>6, <1>7, <1>8, <1>9, <1>10 DEF Next, Handles

-----------------------------------------------------------------------------
(* What the steps leave alone.                                             *)

\* A request is touched by its own handler only.
LEMMA OwnHandler ==
    ASSUME TypeOK, KindsOfSteps, [Next]_vars
    PROVE  \A q \in Requests :
              \/ Arrives(q) \/ Handles(q)
              \/ /\ req'[q] = req[q] /\ pc'[q] = pc[q] /\ batch'[q] = batch[q]
                 /\ told'[q] = told[q] /\ before'[q] = before[q]
<1> DEFINE Same(q) == /\ req'[q] = req[q] /\ pc'[q] = pc[q] /\ batch'[q] = batch[q]
                      /\ told'[q] = told[q] /\ before'[q] = before[q]
<1>1. ASSUME NEW p \in Requests, Arrives(p), NEW q \in Requests, q # p PROVE Same(q)
  BY <1>1, ArriveFacts DEF TypeOK
<1>2. ASSUME NEW p \in Requests, Handles(p), NEW q \in Requests, q # p PROVE Same(q)
  <2>1. CASE AuthorizeCreate(p) \/ AuthorizePairAll(p) \/ LookUpSerial(p)
    BY <1>2, <2>1, QueryFacts DEF TypeOK, handlerVars
  <2>2. CASE InsertDevice(p) \/ UpdateRow(p) \/ DeleteRow(p)
    BY <1>2, <2>2, RowFacts DEF TypeOK, handlerVars
  <2>3. CASE LoadForUpdate(p) \/ LoadForDelete(p) \/ LoadForPair(p)
    BY <1>2, <2>3, LoadFacts DEF TypeOK
  <2>4. CASE ListDevices(p)
    BY <1>2, <2>4, ListFacts DEF TypeOK
  <2>5. CASE RevokeForDelete(p) \/ RevokeOldCode(p) \/ CacheCode(p) \/ CacheAllCodes(p)
    <3>1. UNCHANGED <<req, batch, told, before>>
      BY <2>5, HandlerCalls, CallFacts DEF Operations
    <3> QED BY <1>2, <2>5, <3>1, HandlerCalls DEF TypeOK
  <2>6. CASE SendEmail(p) \/ Reply(p) \/ GivesUp(p)
    BY <1>2, <2>6, EndFacts DEF TypeOK
  <2> QED BY <1>2, <2>1, <2>2, <2>3, <2>4, <2>5, <2>6 DEF Handles
<1>3. CASE Elsewhere \/ UNCHANGED vars
  BY <1>3 DEF Elsewhere, ExecuteLate, Redeem, CodeExpires, RemoveRestaurant, handlerVars, vars
<1> HIDE DEF Same
<1>4. \A q \in Requests : Arrives(q) \/ Handles(q) \/ Same(q)
  <2>1. CASE \E p \in Requests : Arrives(p) \/ Handles(p)
    BY <1>1, <1>2, <2>1
  <2> QED BY <1>3, <2>1 DEF Next, Same
<1> QED BY <1>4 DEF Same

\* What is past, and what a handler has begun with, stays.
Lasting ==
    /\ timedOut \subseteq timedOut' /\ over \subseteq over' /\ disturbed \subseteq disturbed'
    /\ \A q \in Requests :
          /\ pc[q] # "idle" => req'[q] = req[q] /\ before'[q] = before[q] /\ pc'[q] # "idle"
          /\ pc[q] \notin Preparing => batch'[q] = batch[q] /\ pc'[q] \notin Preparing
          /\ pc[q] \in Ended => pc'[q] = pc[q] /\ told'[q] = told[q]

LEMMA LastingStep == ASSUME TypeOK, KindsOfSteps, [Next]_vars PROVE Lasting
<1> USE DEF Preparing, Ended
<1>1. timedOut \subseteq timedOut' /\ over \subseteq over' /\ disturbed \subseteq disturbed'
  <2>1. CASE \E q \in Requests : Arrives(q)
    BY <2>1, ArriveFacts DEF userapiVars, historyVars
  <2>2. CASE \E q \in Requests : RevokeForDelete(q) \/ RevokeOldCode(q)
                                     \/ CacheCode(q) \/ CacheAllCodes(q)
    BY <2>2, HandlerCalls, CallFacts DEF Operations
  <2>3. CASE ExecuteLate
    BY <2>3, ExecuteFacts DEF ExecuteLate, historyVars, TypeOK
  <2>4. CASE (\E d \in Devices : Redeem(d) \/ CodeExpires(d))
                \/ (\E s \in Restaurants : RemoveRestaurant(s)) \/ UNCHANGED vars
    BY <2>4 DEF Redeem, CodeExpires, RemoveRestaurant, historyVars, userapiVars, vars
  <2>5. CASE \E q \in Requests : LoadForUpdate(q) \/ LoadForDelete(q) \/ LoadForPair(q)
    BY <2>5, LoadFacts DEF userapiVars
  <2>6. CASE \E q \in Requests : ListDevices(q)
    BY <2>6, ListFacts DEF userapiVars
  <2> QED
    BY <2>1, <2>2, <2>3, <2>4, <2>5, <2>6, QueryFacts, RowFacts, EndFacts
    DEF Next, Handles, Elsewhere, userapiVars, historyVars
<1>2. ASSUME NEW q \in Requests
      PROVE  /\ pc[q] # "idle" => req'[q] = req[q] /\ before'[q] = before[q] /\ pc'[q] # "idle"
             /\ pc[q] \notin Preparing => batch'[q] = batch[q] /\ pc'[q] \notin Preparing
             /\ pc[q] \in Ended => pc'[q] = pc[q] /\ told'[q] = told[q]
  <2>1. CASE Arrives(q)
    BY <2>1, ArriveFacts DEF TypeOK
  <2>2. CASE AuthorizeCreate(q) \/ AuthorizePairAll(q) \/ LookUpSerial(q)
    BY <2>2, QueryFacts DEF TypeOK, handlerVars
  <2>3. CASE InsertDevice(q) \/ UpdateRow(q) \/ DeleteRow(q)
    BY <2>3, RowFacts DEF TypeOK, handlerVars
  <2>4. CASE LoadForUpdate(q) \/ LoadForDelete(q) \/ LoadForPair(q)
    BY <2>4, LoadFacts DEF TypeOK
  <2>5. CASE ListDevices(q)
    BY <2>5, ListFacts DEF TypeOK
  <2>6. CASE RevokeForDelete(q) \/ RevokeOldCode(q) \/ CacheCode(q) \/ CacheAllCodes(q)
    <3>1. UNCHANGED <<req, batch, told, before>>
      BY <2>6, HandlerCalls, CallFacts DEF Operations
    <3> QED BY <2>6, <3>1, HandlerCalls DEF TypeOK
  <2>7. CASE SendEmail(q) \/ Reply(q) \/ GivesUp(q)
    BY <2>7, EndFacts DEF TypeOK, Running
  <2> QED BY <2>1, <2>2, <2>3, <2>4, <2>5, <2>6, <2>7, OwnHandler DEF Handles
<1> QED BY <1>1, <1>2 DEF Lasting

LEMMA LateStep ==
    ASSUME TypeOK, KindsOfSteps, LateCalls, [Next]_vars
    PROVE  LateCalls'
<1>1. Lasting
  BY LastingStep
<1> DEFINE Good(c) ==
      /\ c = CallOf(c.from, c.op) /\ <<c.from, c.op>> \in timedOut
      /\ pc[c.from] \notin Preparing
      /\ c.op \in {"cacheCode", "cacheCodes"} => Pairs(req[c.from].kind) /\ pc[c.from] \in Ended
<1>2. ASSUME NEW c \in late PROVE Good(c)'
  <2>1. Good(c) /\ c.from \in Requests
    BY DEF LateCalls, TypeOK, Calls
  <2> QED BY <1>1, <2>1 DEF Lasting, Preparing, CallOf
<1>3. ASSUME NEW q \in Requests,
             RevokeForDelete(q) \/ RevokeOldCode(q) \/ CacheCode(q) \/ CacheAllCodes(q),
             NEW c \in late', c \notin late
      PROVE  Good(c)'
  <2>1. PICK op \in Operations :
           /\ CallStep(q, op)
           /\ \/ op \in {"revokeCode", "revokeDevice"} /\ pc'[q] \notin Preparing
              \/ op \in {"cacheCode", "cacheCodes"} /\ pc[q] \in {"cache", "cacheAll"}
                    /\ (pc'[q] = "refused" \/ late' = late)
    BY <1>3, HandlerCalls DEF Operations, TypeOK, Preparing
  <2>2. /\ c = CallOf(q, op) /\ <<q, op>> \in timedOut' /\ req' = req /\ batch' = batch
    BY <1>3, <2>1, CallFacts
  <2>3. c.from = q /\ c.op = op /\ CallOf(q, op)' = CallOf(q, op)
    BY <2>2 DEF CallOf
  <2>4. pc[q] \in {"cache", "cacheAll"} => Pairs(req[q].kind)
    BY KindFacts DEF Pairs
  <2>5. op \in {"cacheCode", "cacheCodes"} => pc'[q] = "refused"
    BY <1>3, <2>1
  <2> QED BY <2>1, <2>2, <2>3, <2>4, <2>5 DEF Preparing, Ended
<1>4. late' \subseteq late
        \/ \E q \in Requests :
              RevokeForDelete(q) \/ RevokeOldCode(q) \/ CacheCode(q) \/ CacheAllCodes(q)
  <2>1. CASE \E q \in Requests : Arrives(q)
    BY <2>1, ArriveFacts DEF userapiVars
  <2>2. CASE Elsewhere \/ UNCHANGED vars
    BY <2>2 DEF Elsewhere, ExecuteLate, Redeem, CodeExpires, RemoveRestaurant, userapiVars, vars
  <2>3. CASE \E q \in Requests : LoadForUpdate(q) \/ LoadForDelete(q) \/ LoadForPair(q)
    BY <2>3, LoadFacts DEF userapiVars
  <2> QED
    BY <2>1, <2>2, <2>3, QueryFacts, RowFacts, ListFacts, EndFacts DEF Next, Handles, userapiVars
<1> HIDE DEF Good
<1>5. \A c \in late' : Good(c)'
  BY <1>2, <1>3, <1>4
<1> QED BY <1>5 DEF Good, LateCalls

-----------------------------------------------------------------------------
(* Codes and tokens.                                                       *)

\* A new code of d comes from the call that a pairing makes or has given up on,
\* while it holds d.
Caches(p, d) ==
    /\ p \in Requests /\ Pairs(req[p].kind) /\ d \in batch[p] /\ p \in PairingsOf(d)
    /\ \/ /\ pc[p] \in {"cache", "cacheAll"} /\ pc'[p] \in {"refused", "reply", "email"}
       \/ pc[p] \in Ended /\ p \in Unsure("cacheCode") \cup Unsure("cacheCodes")

\* Who made the call that ended the code of d, if it was the one who stored it.
EndsOwn(p) ==
    \/ pc[p] \in {"revoke", "revokeDevice", "cache", "cacheAll"}
    \/ p \in Unsure("revokeCode")

CodeMoves(d) ==
    /\ codes'[d] # codes[d] => codes'[d] = None \/ Caches(codes'[d], d)
    /\ codes[d] # None /\ codes'[d] # codes[d]
          => <<codes[d], d>> \in over' \/ EndsOwn(codes[d])

TokensMove == \A d \in tokens' \ tokens : codes[d] # None

LEMMA CodesStep ==
    ASSUME TypeOK, KindsOfSteps, LateCalls, CodesOfPairings, [Next]_vars
    PROVE  TokensMove /\ \A d \in Devices : CodeMoves(d)
<1>1. ASSUME UNCHANGED <<codes, tokens>>
      PROVE  TokensMove /\ \A d \in Devices : CodeMoves(d)
  BY <1>1 DEF TokensMove, CodeMoves
<1>2. ASSUME NEW q \in Requests,
             RevokeForDelete(q) \/ RevokeOldCode(q) \/ CacheCode(q) \/ CacheAllCodes(q)
      PROVE  TokensMove /\ \A d \in Devices : CodeMoves(d)
  <2>1. PICK op \in Operations :
           /\ CallStep(q, op)
           /\ \/ op \in {"revokeCode", "revokeDevice"} /\ pc[q] \in {"revoke", "revokeDevice"}
              \/ /\ op \in CacheOps /\ pc[q] \in {"cache", "cacheAll"}
                 /\ pc'[q] \in {"refused", "reply", "email"}
    BY <1>2, HandlerCalls DEF Operations, TypeOK, CacheOps
  <2>2. tokens' \subseteq tokens
    BY <2>1, CallFacts
  <2>3. ASSUME Execute(CallOf(q, op)), NEW d \in Devices PROVE CodeMoves(d)
    <3>1. CallOf(q, op) \in Calls
      BY <2>1, CallFacts
    <3>2. /\ CallOf(q, op).from = q /\ CallOf(q, op).op = op /\ CallOf(q, op).on = batch[q]
      BY DEF CallOf
    <3>3. /\ \/ codes'[d] = codes[d]
             \/ codes'[d] = None
             \/ codes'[d] = q /\ d \in batch[q] /\ op \in CacheOps
          /\ codes[d] \notin {None, q} /\ codes'[d] # codes[d] => <<codes[d], d>> \in over'
      BY <2>3, <3>1, <3>2, ExecuteFacts
    <3>4. pc[q] \in {"cache", "cacheAll"} => Pairs(req[q].kind) /\ pc[q] \in Running
      BY KindFacts DEF Pairs, Running
    <3>5. op \in CacheOps /\ d \in batch[q] => Caches(q, d)
      BY <2>1, <3>4 DEF Caches, PairingsOf, CacheOps
    <3>6. EndsOwn(q)
      BY <2>1 DEF EndsOwn
    <3> QED BY <3>3, <3>5, <3>6 DEF CodeMoves
  <2> QED BY <1>1, <2>1, <2>2, <2>3, CallFacts DEF CodeMoves, TokensMove
<1>3. ASSUME ExecuteLate PROVE TokensMove /\ \A d \in Devices : CodeMoves(d)
  <2>1. PICK c \in late : Execute(c)
    BY <1>3 DEF ExecuteLate
  <2>2. /\ c \in Calls /\ c.from \in Requests
        /\ c.on = batch[c.from] /\ <<c.from, c.op>> \in timedOut
        /\ c.op \in CacheOps => Pairs(req[c.from].kind) /\ pc[c.from] \in Ended
    BY DEF TypeOK, Calls, LateCalls, CallOf, CacheOps
  <2>3. tokens' \subseteq tokens
    BY <2>1, <2>2, ExecuteFacts
  <2>4. ASSUME NEW d \in Devices PROVE CodeMoves(d)
    <3>1. /\ \/ codes'[d] = codes[d]
             \/ codes'[d] = None
             \/ codes'[d] = c.from /\ d \in c.on /\ c.op \in CacheOps
          /\ codes[d] \notin {None, c.from} /\ codes'[d] # codes[d] => <<codes[d], d>> \in over'
      BY <2>1, <2>2, ExecuteFacts
    <3>2. c.op \in CacheOps /\ d \in c.on => Caches(c.from, d)
      BY <2>2 DEF Caches, PairingsOf, CacheOps, Unsure
    <3>3. CASE codes[d] = c.from
      <4>1. d \in c.on /\ codes[d] # None
        BY <2>2, <3>3, DevicePairingAssumption DEF CodesOfPairings
      <4>2. c.op \in {"revokeDevice"} \cup CacheOps => codes'[d] = codes[d]
        BY <2>1, <2>2, <3>3, <4>1, ExecuteFacts
      <4>3. c.op = "revokeCode" => EndsOwn(codes[d])
        BY <2>2, <3>3 DEF EndsOwn, Unsure
      <4>4. c.op \in {"revokeCode", "revokeDevice"} \cup CacheOps
        BY <2>2 DEF Calls, Operations, CacheOps
      <4> QED BY <3>1, <3>2, <4>2, <4>3, <4>4 DEF CodeMoves
    <3> QED BY <3>1, <3>2, <3>3 DEF CodeMoves
  <2> QED BY <2>3, <2>4 DEF TokensMove
<1>4. ASSUME NEW e \in Devices, Redeem(e) \/ CodeExpires(e)
      PROVE  TokensMove /\ \A d \in Devices : CodeMoves(d)
  BY <1>4 DEF Redeem, CodeExpires, TokensMove, CodeMoves, TypeOK
<1>5. UNCHANGED <<codes, tokens>> \/ ExecuteLate
        \/ (\E e \in Devices : Redeem(e) \/ CodeExpires(e))
        \/ \E q \in Requests :
              RevokeForDelete(q) \/ RevokeOldCode(q) \/ CacheCode(q) \/ CacheAllCodes(q)
  <2>1. CASE \E q \in Requests : Arrives(q)
    BY <2>1, ArriveFacts DEF userapiVars
  <2>2. CASE Elsewhere \/ UNCHANGED vars
    BY <2>2 DEF Elsewhere, RemoveRestaurant, userapiVars, vars
  <2>3. CASE \E q \in Requests : LoadForUpdate(q) \/ LoadForDelete(q) \/ LoadForPair(q)
    BY <2>3, LoadFacts DEF userapiVars
  <2> QED
    BY <2>1, <2>2, <2>3, QueryFacts, RowFacts, ListFacts, EndFacts DEF Next, Handles, userapiVars
<1> QED BY <1>1, <1>2, <1>3, <1>4, <1>5

LEMMA CodesKept ==
    ASSUME TypeOK, KindsOfSteps, Batches, LateCalls, CodesOfPairings, [Next]_vars
    PROVE  CodesOfPairings'
<1> SUFFICES ASSUME NEW d \in Devices, codes'[d] # None
             PROVE  Pairs(req'[codes'[d]].kind) /\ d \in batch'[codes'[d]]
  BY DEF CodesOfPairings, Pairs
<1> DEFINE p == codes'[d]
<1>1. /\ p \in Requests /\ Pairs(req[p].kind) /\ d \in batch[p]
  <2>1. CASE p = codes[d]
    BY <2>1 DEF CodesOfPairings, TypeOK
  <2>2. CASE p # codes[d]
    BY <2>2, CodesStep DEF CodeMoves, Caches
  <2> QED BY <2>1, <2>2
<1>2. pc[p] \notin Preparing
  BY <1>1 DEF Batches
<1> QED BY <1>1, <1>2, LastingStep DEF Lasting, Preparing

\* A pairing comes to hold a device only when it loads it, or finds it on a list,
\* beside whatever deletion is under way.
LEMMA PairingsStep ==
    ASSUME TypeOK, KindsOfSteps, Batches, LateCalls, [Next]_vars, NEW d \in Devices
    PROVE  \/ PairingsOf(d)' \subseteq PairingsOf(d)
           \/ Live(d) /\ Deletions(d) \subseteq disturbed'
<1> SUFFICES ASSUME NEW p \in PairingsOf(d)', p \notin PairingsOf(d)
             PROVE  Live(d) /\ Deletions(d) \subseteq disturbed'
  OBVIOUS
<1>1. CASE \E c \in late' : c.from = p /\ c.op \in CacheOps /\ d \in c.on
  <2>1. PICK c \in late' : c.from = p /\ c.op \in CacheOps /\ d \in c.on
    BY <1>1
  <2>2. c \notin late
    BY <2>1 DEF PairingsOf, CacheOps
  <2>3. PICK q \in Requests, op \in Operations :
           /\ CallStep(q, op)
           /\ op \in CacheOps => pc[q] \in {"cache", "cacheAll"}
    <3>1. CASE \E q \in Requests : Arrives(q)
      BY <2>2, <3>1, ArriveFacts DEF userapiVars
    <3>2. CASE Elsewhere \/ UNCHANGED vars
      BY <2>2, <3>2 DEF Elsewhere, ExecuteLate, Redeem, CodeExpires, RemoveRestaurant,
                        userapiVars, vars
    <3>3. CASE \E q \in Requests : RevokeForDelete(q) \/ RevokeOldCode(q)
                                       \/ CacheCode(q) \/ CacheAllCodes(q)
      BY <3>3, HandlerCalls DEF Operations, CacheOps
    <3>4. CASE \E q \in Requests : LoadForUpdate(q) \/ LoadForDelete(q) \/ LoadForPair(q)
      BY <2>2, <3>4, LoadFacts DEF userapiVars
    <3> QED
      BY <2>2, <3>1, <3>2, <3>3, <3>4, QueryFacts, RowFacts, ListFacts, EndFacts
      DEF Next, Handles, userapiVars
  <2>4. c = CallOf(q, op)
    BY <2>2, <2>3, CallFacts
  <2>5. p = q /\ d \in batch[q] /\ pc[q] \in {"cache", "cacheAll"}
    BY <2>1, <2>3, <2>4 DEF CallOf
  <2>6. Pairs(req[q].kind) /\ pc[q] \in Running
    BY <2>5, KindFacts DEF Pairs, Running
  <2> QED BY <2>5, <2>6 DEF PairingsOf
<1>2. CASE ~ \E c \in late' : c.from = p /\ c.op \in CacheOps /\ d \in c.on
  <2>1. /\ p \in Requests /\ Pairs(req'[p].kind) /\ pc'[p] \in Running /\ d \in batch'[p]
    BY <1>2 DEF PairingsOf, CacheOps, Pairs
  <2>2. ~(Pairs(req[p].kind) /\ pc[p] \in Running /\ d \in batch[p])
    BY <2>1 DEF PairingsOf
  <2>3. CASE Arrives(p)
    BY <2>1, <2>3, ArriveFacts DEF Batches, Preparing
  <2>4. CASE LoadForUpdate(p) \/ LoadForDelete(p) \/ LoadForPair(p)
    BY <2>1, <2>4, LoadFacts DEF TypeOK, Pairs
  <2>5. CASE ListDevices(p)
    BY <2>1, <2>5, ListFacts DEF TypeOK, ListByRestaurant
  <2>6. CASE /\ pc[p] \in Running /\ req'[p] = req[p] /\ batch'[p] = batch[p]
    BY <2>1, <2>2, <2>6
  <2>7. CASE /\ pc'[p] = pc[p] /\ req'[p] = req[p] /\ batch'[p] = batch[p]
    BY <2>1, <2>2, <2>7
  <2>8. CASE AuthorizeCreate(p) \/ AuthorizePairAll(p) \/ LookUpSerial(p)
               \/ InsertDevice(p) \/ UpdateRow(p) \/ DeleteRow(p)
    BY <2>1, <2>6, <2>8, QueryFacts, RowFacts DEF handlerVars, Running
  <2>9. CASE RevokeForDelete(p) \/ RevokeOldCode(p) \/ CacheCode(p) \/ CacheAllCodes(p)
    BY <2>1, <2>6, <2>9, HandlerCalls, CallFacts DEF Operations, Running
  <2>10. CASE SendEmail(p) \/ Reply(p) \/ GivesUp(p)
    BY <2>1, <2>6, <2>10, EndFacts
  <2> QED BY <2>1, <2>3, <2>4, <2>5, <2>7, <2>8, <2>9, <2>10, OwnHandler DEF Handles
<1> QED BY <1>1, <1>2

-----------------------------------------------------------------------------
(* What a deletion is worth.                                               *)

\* How a deletion comes where it stands.
LEMMA DeletionMoves ==
    ASSUME TypeOK, KindsOfSteps, [Next]_vars,
           NEW q \in Requests, req'[q].kind = "delete", pc'[q] # pc[q],
           pc'[q] \in {"revoke", "revokeDevice", "remove", "ok"}
    PROVE  \/ /\ pc'[q] = "revoke" /\ LoadForDelete(q)
           \/ /\ pc[q] = "revoke" /\ pc'[q] = "revokeDevice" /\ CallStep(q, "revokeCode")
           \/ /\ pc[q] = "revokeDevice" /\ pc'[q] = "remove" /\ CallStep(q, "revokeDevice")
           \/ /\ pc[q] = "remove" /\ pc'[q] = "ok"
              /\ devices'[req[q].on].state = "deleted"
              /\ UNCHANGED <<codes, tokens>>
<1>1. CASE Arrives(q)
  BY <1>1, ArriveFacts DEF TypeOK
<1>2. CASE req'[q].kind = "delete" /\ Handles(q) /\ req' # req
  BY <1>2, QueryFacts, RowFacts, LoadFacts, ListFacts, EndFacts, HandlerCalls, CallFacts
  DEF Handles, handlerVars, Operations
<1>3. CASE req' = req /\ Handles(q)
  <2>1. req[q].kind = "delete"
    BY <1>3
  <2>2. pc[q] \notin {"idle", "authorize", "serial", "insert", "write", "list", "cache", "cacheAll",
                     "email", "reply"} \/ pc[q] = "idle"
    BY <2>1, KindFacts
  <2>3. CASE AuthorizeCreate(q) \/ AuthorizePairAll(q) \/ LookUpSerial(q)
    BY <2>2, <2>3, QueryFacts DEF TypeOK
  <2>4. CASE InsertDevice(q) \/ UpdateRow(q) \/ DeleteRow(q)
    BY <2>2, <2>4, RowFacts DEF TypeOK, userapiVars
  <2>5. CASE LoadForUpdate(q) \/ LoadForDelete(q) \/ LoadForPair(q)
    BY <2>1, <2>5, LoadFacts DEF TypeOK
  <2>6. CASE ListDevices(q)
    BY <2>2, <2>6, ListFacts DEF TypeOK
  <2>7. CASE RevokeForDelete(q) \/ RevokeOldCode(q) \/ CacheCode(q) \/ CacheAllCodes(q)
    BY <2>1, <2>2, <2>7, HandlerCalls DEF TypeOK
  <2>8. CASE SendEmail(q) \/ Reply(q) \/ GivesUp(q)
    BY <2>2, <2>8, EndFacts DEF TypeOK
  <2> QED BY <1>3, <2>3, <2>4, <2>5, <2>6, <2>7, <2>8 DEF Handles
<1> QED BY <1>1, <1>2, <1>3, OwnHandler

LEMMA CutOffStep ==
    ASSUME TypeOK, KindsOfSteps, Placed, Batches, LateCalls, CodesOfPairings, CutOff, [Next]_vars
    PROVE  CutOff'
<1> DEFINE Sure(q, op) == <<q, op>> \notin timedOut'
<1> SUFFICES ASSUME NEW q \in Requests, req'[q].kind = "delete", q \notin disturbed',
                    pc'[q] \in {"revoke", "revokeDevice", "remove", "ok"},
                    NEW d, d = req'[q].on
             PROVE  /\ PairingsOf(d)' = {}
                    /\ pc'[q] = "ok" => devices'[d].state = "deleted"
                    /\ Sure(q, "revokeCode") =>
                          /\ pc'[q] \in {"revokeDevice", "remove", "ok"} => codes'[d] = None
                          /\ pc'[q] \in {"remove", "ok"} /\ Sure(q, "revokeDevice")
                                => d \notin tokens'
  BY DEF CutOff, Unsure, PairingsOf
<1> DEFINE Was == pc[q] \in {"revoke", "revokeDevice", "remove", "ok"}
<1>1. Lasting /\ TypeOK' /\ KindsOfSteps'
  BY LastingStep, TypeStep, KindsStep
<1>2. /\ pc[q] # "idle" /\ req'[q] = req[q] /\ q \notin disturbed
      /\ d \in Devices
      /\ Was \/ LoadForDelete(q)
  <2>1. Was \/ LoadForDelete(q)
    BY DeletionMoves
  <2>2. pc[q] # "idle"
    BY <2>1, LoadFacts
  <2>3. req'[q].on \in Devices
    BY <1>1 DEF TypeOK, KindsOfSteps, Request
  <2> QED BY <1>1, <2>1, <2>2, <2>3 DEF Lasting
<1>3. ASSUME Was
      PROVE  /\ PairingsOf(d) = {}
             /\ pc[q] = "ok" => devices[d].state = "deleted"
             /\ Sure(q, "revokeCode") =>
                   /\ pc[q] \in {"revokeDevice", "remove", "ok"} => codes[d] = None
                   /\ pc[q] \in {"remove", "ok"} /\ Sure(q, "revokeDevice") => d \notin tokens
  BY <1>1, <1>2, <1>3 DEF CutOff, Unsure, Lasting
<1>4. PairingsOf(d)' = {}
  <2>1. CASE Was
    <3>1. Live(d) => q \in Deletions(d)
      BY <1>2, <1>3, <2>1 DEF Deletions, Live
    <3> QED BY <1>2, <1>3, <2>1, <3>1, PairingsStep
  <2>2. CASE LoadForDelete(q)
    <3>1. PairingsOf(d) = {}
      BY <1>2, <2>2, LoadFacts DEF LoadForDelete
    <3>2. /\ late' = late /\ req' = req
          /\ \A p \in Requests \ {q} : pc'[p] = pc[p] /\ batch'[p] = batch[p]
      BY <2>2, LoadFacts DEF TypeOK, userapiVars
    <3>3. PairingsOf(d)' \subseteq PairingsOf(d)
      BY <3>2 DEF PairingsOf, Pairs
    <3> QED BY <3>1, <3>3
  <2> QED BY <1>2, <2>1, <2>2
<1>5. pc'[q] = "ok" => devices'[d].state = "deleted"
  <2>1. CASE pc'[q] = pc[q]
    BY <1>2, <1>3, <2>1, RowsStep DEF RowsStay
  <2> QED BY <1>2, <2>1, DeletionMoves
<1>6. ASSUME Sure(q, "revokeCode"), pc'[q] \in {"revokeDevice", "remove", "ok"}
      PROVE  codes'[d] = None
  <2>1. CASE pc[q] \in {"revokeDevice", "remove", "ok"}
    <3>1. codes[d] = None /\ PairingsOf(d) = {}
      BY <1>3, <1>6, <2>1
    <3> QED BY <1>2, <3>1, CodesStep DEF CodeMoves, Caches
  <2>2. CASE pc[q] = "revoke" /\ CallStep(q, "revokeCode")
    <3>1. /\ CallOf(q, "revokeCode") \in Calls /\ Execute(CallOf(q, "revokeCode"))
      BY <1>6, <2>2, CallFacts DEF Operations
    <3>2. d \in CallOf(q, "revokeCode").on
      BY <1>2, <2>2 DEF CallOf, Batches
    <3>3. CallOf(q, "revokeCode").op = "revokeCode"
      BY DEF CallOf
    <3> QED BY <3>1, <3>2, <3>3, ExecuteFacts
  <2> QED BY <1>2, <1>6, <2>1, <2>2, DeletionMoves
<1>7. ASSUME Sure(q, "revokeCode"), Sure(q, "revokeDevice"), pc'[q] \in {"remove", "ok"}
      PROVE  d \notin tokens'
  <2>1. CASE pc[q] \in {"remove", "ok"}
    BY <1>3, <1>7, <2>1, CodesStep DEF TokensMove
  <2>2. CASE pc[q] = "revokeDevice" /\ CallStep(q, "revokeDevice")
    <3>1. /\ CallOf(q, "revokeDevice") \in Calls /\ Execute(CallOf(q, "revokeDevice"))
      BY <1>7, <2>2, CallFacts DEF Operations
    <3>2. d \in CallOf(q, "revokeDevice").on
      BY <1>2, <2>2 DEF CallOf, Batches
    <3>3. CallOf(q, "revokeDevice").op = "revokeDevice"
      BY DEF CallOf
    <3> QED BY <3>1, <3>2, <3>3, ExecuteFacts
  <2> QED BY <1>2, <1>7, <2>1, <2>2, DeletionMoves
<1> QED BY <1>4, <1>5, <1>6, <1>7

-----------------------------------------------------------------------------
(* What an answer is worth.                                                *)

LEMMA StoredStep ==
    ASSUME TypeOK, KindsOfSteps, Batches, LateCalls, CodesOfPairings, Stored, [Next]_vars
    PROVE  Stored'
<1> SUFFICES ASSUME NEW q \in Requests, q \notin Unsure("revokeCode")', NEW d \in batch'[q],
                    d \in told'[q] \/ (Pairs(req'[q].kind) /\ pc'[q] \in {"email", "reply", "ok"})
             PROVE  codes'[d] = q \/ <<q, d>> \in over'
  BY DEF Stored, Pairs
<1> DEFINE Shown == d \in told[q] \/ (Pairs(req[q].kind) /\ pc[q] \in {"email", "reply", "ok"})
<1>1. Lasting /\ TypeOK'
  BY LastingStep, TypeStep
<1>2. q \notin Unsure("revokeCode") /\ d \in Devices
  BY <1>1 DEF Lasting, Unsure, TypeOK
<1>3. CASE Shown /\ d \in batch[q]
  <2>1. codes[d] = q \/ <<q, d>> \in over
    BY <1>2, <1>3 DEF Stored
  <2>2. ~EndsOwn(q)
    BY <1>2, <1>3 DEF EndsOwn, Batches
  <2>3. codes[d] = q => codes'[d] = q \/ <<q, d>> \in over'
    BY <1>2, <2>2, CodesStep, DevicePairingAssumption DEF CodeMoves
  <2> QED BY <1>1, <2>1, <2>3 DEF Lasting
<1>4. CASE ~(Shown /\ d \in batch[q])
  <2>1. CASE Arrives(q) \/ LoadForUpdate(q) \/ LoadForDelete(q) \/ LoadForPair(q) \/ ListDevices(q)
               \/ AuthorizeCreate(q) \/ AuthorizePairAll(q) \/ LookUpSerial(q)
    <3>1. told[q] = {}
      BY <2>1, ArriveFacts, LoadFacts, ListFacts, QueryFacts DEF Batches, Preparing
    <3>2. told'[q] = {} /\ pc'[q] \notin {"email", "reply", "ok"}
      BY <2>1, <3>1, ArriveFacts, LoadFacts, ListFacts, QueryFacts DEF TypeOK, handlerVars
    <3> QED BY <3>2
  <2>2. CASE InsertDevice(q) \/ UpdateRow(q) \/ DeleteRow(q)
    <3>1. ~Pairs(req[q].kind) /\ req'[q] = req[q] /\ told'[q] = told[q] /\ batch'[q] = batch[q]
      BY <2>2, RowFacts, KindFacts DEF Pairs, handlerVars
    <3> QED BY <1>4, <3>1
  <2>3. CASE SendEmail(q) \/ Reply(q) \/ GivesUp(q)
    <3>1. /\ req'[q] = req[q] /\ batch'[q] = batch[q]
          /\ pc[q] \in {"email", "reply"} => Pairs(req[q].kind)
          /\ pc[q] \in {"email", "reply"} \/ (told'[q] = told[q] /\ pc'[q] = "failed")
      BY <2>3, EndFacts, KindFacts DEF TypeOK, Pairs
    <3> QED BY <1>4, <3>1
  <2>4. CASE RevokeForDelete(q) \/ RevokeOldCode(q) \/ CacheCode(q) \/ CacheAllCodes(q)
    <3>1. req' = req /\ batch' = batch /\ told' = told
      BY <2>4, HandlerCalls, CallFacts DEF Operations
    <3>2. told[q] = {}
      BY <2>4, HandlerCalls DEF Batches
    <3>3. PICK op \in CacheOps : CallStep(q, op) /\ Execute(CallOf(q, op))
      BY <2>4, <3>1, <3>2, HandlerCalls DEF CacheOps, TypeOK
    <3>4. CallOf(q, op) \in Calls
      BY <3>3, CallFacts DEF CacheOps, Operations
    <3>5. /\ CallOf(q, op).op = op /\ CallOf(q, op).from = q /\ d \in CallOf(q, op).on
      BY <3>1 DEF CallOf
    <3> QED BY <3>3, <3>4, <3>5, ExecuteFacts
  <2>5. CASE /\ req'[q] = req[q] /\ pc'[q] = pc[q] /\ batch'[q] = batch[q] /\ told'[q] = told[q]
    BY <1>4, <2>5
  <2> QED BY <2>1, <2>2, <2>3, <2>4, <2>5, OwnHandler DEF Handles
<1> QED BY <1>3, <1>4

\* A pairing is answered after a call that kfc-userapi has executed and answered.
LEMMA PairingMoves ==
    ASSUME TypeOK, KindsOfSteps, [Next]_vars,
           NEW q \in Requests, pc[q] # "idle", Pairs(req[q].kind),
           pc[q] \notin {"email", "reply", "ok"}, pc'[q] \in {"email", "reply", "ok"}
    PROVE  \E op \in CacheOps :
              /\ Execute(CallOf(q, op)) /\ CallOf(q, op) \in Calls
              /\ req[q].kind = "pairAll" => op = "cacheCodes"
              /\ batch'[q] = batch[q]
<1>1. CASE Arrives(q) \/ LoadForUpdate(q) \/ LoadForDelete(q) \/ LoadForPair(q) \/ ListDevices(q)
             \/ AuthorizeCreate(q) \/ AuthorizePairAll(q) \/ LookUpSerial(q)
  BY <1>1, ArriveFacts, LoadFacts, ListFacts, QueryFacts DEF TypeOK
<1>2. CASE InsertDevice(q) \/ UpdateRow(q) \/ DeleteRow(q)
  BY <1>2, RowFacts, KindFacts DEF Pairs
<1>3. CASE SendEmail(q) \/ Reply(q) \/ GivesUp(q)
  BY <1>3, EndFacts DEF TypeOK
<1>4. CASE RevokeForDelete(q) \/ RevokeOldCode(q) \/ CacheCode(q) \/ CacheAllCodes(q)
  <2>1. PICK op \in CacheOps :
           /\ CallStep(q, op) /\ Execute(CallOf(q, op))
           /\ pc[q] = "cache" \/ op = "cacheCodes"
    BY <1>4, HandlerCalls DEF CacheOps, TypeOK
  <2>2. op \in Operations
    BY DEF CacheOps, Operations
  <2> QED BY <2>1, <2>2, CallFacts, KindFacts
<1> QED BY <1>1, <1>2, <1>3, <1>4, OwnHandler DEF Handles

LEMMA OldCodesStep ==
    ASSUME TypeOK, KindsOfSteps, Placed, Batches, LateCalls, CodesOfPairings, OldCodesGone,
           [Next]_vars
    PROVE  OldCodesGone'
<1>1. Lasting /\ RowsStay
  BY LastingStep, RowsStep
<1>2. ASSUME NEW q \in Requests, NEW p \in before'[q]
      PROVE  p # q /\ pc'[p] \in Ended
  <2>1. CASE Arrives(q)
    <3>1. pc[q] = "idle" /\ p \in Requests /\ pc[p] \in Ended
      BY <1>2, <2>1, ArriveFacts DEF TypeOK
    <3> QED BY <1>1, <3>1 DEF Lasting, Ended
  <2>2. CASE before'[q] = before[q]
    <3>1. p \in Requests /\ p # q /\ pc[p] \in Ended
      BY <1>2, <2>2 DEF OldCodesGone, TypeOK
    <3> QED BY <1>1, <3>1 DEF Lasting
  <2>3. CASE Handles(q)
    <3>1. pc[q] # "idle"
      BY <2>3, QueryFacts, RowFacts, LoadFacts, ListFacts, EndFacts, HandlerCalls
      DEF Handles, Running
    <3> QED BY <1>1, <2>2, <3>1 DEF Lasting
  <2> QED BY <2>1, <2>2, <2>3, OwnHandler
<1>3. ASSUME NEW q \in Requests, Pairs(req'[q].kind), pc'[q] \in {"email", "reply", "ok"},
             NEW d \in Devices, Replaces(q, d)', NEW p \in Outdated(q)', codes'[d] = p
      PROVE  FALSE
  <2>1. pc[q] # "idle"
    <3>1. CASE Arrives(q)
      BY <1>3, <3>1, ArriveFacts DEF TypeOK
    <3>2. CASE Handles(q)
      BY <3>2, QueryFacts, RowFacts, LoadFacts, ListFacts, EndFacts, HandlerCalls
      DEF Handles, Running
    <3> QED BY <1>3, <3>1, <3>2, OwnHandler
  <2>2. req'[q] = req[q] /\ before'[q] = before[q]
    BY <1>1, <2>1 DEF Lasting
  <2>3. /\ p \in before[q] /\ p \in Requests /\ p # q /\ pc[p] \in Ended
        /\ p \in Outdated(q) /\ p # None
        /\ p \notin Unsure("cacheCode") \cup Unsure("cacheCodes")
    <3>1. p \in before[q] /\ p \in Requests
      BY <1>3, <2>2 DEF Outdated, TypeOK
    <3>2. p \notin Unsure("cacheCode") \cup Unsure("cacheCodes")
      BY <1>1, <1>3 DEF Outdated, Unsure, Lasting
    <3> QED BY <3>1, <3>2, DevicePairingAssumption DEF Outdated, OldCodesGone
  <2>4. codes[d] = p
    BY <1>3, <2>3, CodesStep DEF CodeMoves, Caches, Ended
  <2>5. devices[d].state # "none"
    BY <2>3, <2>4 DEF CodesOfPairings, Batches
  <2>6. CASE pc[q] \in {"email", "reply", "ok"}
    <3>1. batch'[q] = batch[q]
      BY <1>1, <2>6 DEF Lasting, Preparing
    <3>2. Replaces(q, d)
      BY <1>1, <1>3, <2>2, <2>5, <3>1 DEF Replaces, RowsStay
    <3> QED BY <1>3, <2>2, <2>3, <2>4, <2>6, <3>2 DEF OldCodesGone
  <2>7. CASE pc[q] \notin {"email", "reply", "ok"}
    <3>1. PICK op \in CacheOps :
             /\ Execute(CallOf(q, op)) /\ CallOf(q, op) \in Calls
             /\ req[q].kind = "pairAll" => op = "cacheCodes"
             /\ batch'[q] = batch[q]
      BY <1>3, <2>1, <2>2, <2>7, PairingMoves
    <3>2. /\ CallOf(q, op).from = q /\ CallOf(q, op).op = op
          /\ CallOf(q, op).on = batch[q] /\ CallOf(q, op).in = req[q].in
      BY DEF CallOf
    <3>3. d \in batch[q] => codes'[d] = q
      BY <3>1, <3>2, ExecuteFacts
    <3>4. d \notin batch[q] => req[q].kind = "pairAll" /\ devices[d].restaurant = req[q].in
      BY <1>1, <1>3, <2>2, <2>5, <3>1 DEF Replaces, RowsStay
    <3>5. d \notin batch[q] => codes'[d] = None
      BY <3>1, <3>2, <3>4, ExecuteFacts
    <3> QED BY <1>3, <2>3, <3>3, <3>5
  <2> QED BY <2>6, <2>7
<1> QED BY <1>2, <1>3 DEF OldCodesGone, Pairs

-----------------------------------------------------------------------------
(* The theorems.                                                           *)

LEMMA InitIInv == ASSUME Init PROVE IInv
<1>1. TypeOK
  BY DevicePairingAssumption DEF Init, TypeOK, NoRequest, Request, Changes
<1>2. Placed
  BY DevicePairingAssumption DEF Init, Placed
<1>3. KindsOfSteps /\ Batches /\ PairedInScope
  BY DEF Init, KindsOfSteps, Batches, PairedInScope, NoRequest, Preparing, Pairs
<1>4. LateCalls /\ CodesOfPairings /\ CutOff /\ Stored /\ OldCodesGone
  BY DEF Init, LateCalls, CodesOfPairings, CutOff, Stored, OldCodesGone, NoRequest, Pairs
<1> QED BY <1>1, <1>2, <1>3, <1>4 DEF IInv

LEMMA NextIInv == ASSUME IInv, [Next]_vars PROVE IInv'
BY TypeStep, KindsStep, RowsStep, BatchesStep, ScopeStep, LateStep, CodesKept, CutOffStep,
   StoredStep, OldCodesStep
DEF IInv

\* The inductive invariant: what the handlers hold, which codes and calls come
\* from whom, and what deletions and answers are worth at every step.
THEOREM DevicesAlways == Spec => []IInv
<1>1. Init => IInv
  BY InitIInv
<1>2. IInv /\ [Next]_vars => IInv'
  BY NextIInv
<1> QED BY <1>1, <1>2, PTL DEF Spec

LEMMA ListsAreComplete == ASSUME TypeOK, Placed PROVE ReadableIsListed
<1> SUFFICES ASSUME NEW a \in Actors, NEW d \in Readable(Staff[a])
             PROVE  d \in Listed(Staff[a], devices[d].restaurant)
  BY DEF ReadableIsListed
<1> DEFINE user == Staff[a]
           filter == IF user.role \in {"super_admin", "regional_manager"}
                     THEN devices[d].restaurant ELSE user.restaurant
<1>1. /\ d \in Devices /\ Live(d) /\ CheckPermission(user, "device.read")
      /\ CanAccessRestaurant(user, devices[d].restaurant, restaurants)
  BY DEF Readable, CanReadDevice
<1>2. devices[d].restaurant # None
  BY <1>1 DEF Placed, Live
<1>3. filter = devices[d].restaurant
  BY <1>1 DEF CanAccessRestaurant
<1>4. d \in List(filter)
  BY <1>1, <1>3 DEF List
<1>5. Listed(user, devices[d].restaurant) = List(filter)
  <2>1. user.role = "super_admin" \/ filter # None
    BY <1>2, <1>3
  <2> QED BY <1>1, <2>1, Zenon DEF Listed
<1> QED BY <1>4, <1>5

LEMMA CodesAreInScope == ASSUME TypeOK, CodesOfPairings, PairedInScope PROVE CodesFromScope
BY DEF TypeOK, CodesOfPairings, PairedInScope, CodesFromScope, MayPair

\* Every code comes from somebody who may pair the device, however late
\* kfc-userapi stores it, and whoever may open a device finds it on its list.
THEOREM DevicesSound == Spec => []DevicesInv
<1>1. IInv => DevicesInv
  BY ListsAreComplete, CodesAreInScope DEF IInv, DevicesInv
<1> QED BY <1>1, DevicesAlways, PTL

\* A deletion that was answered has cut the device off for good, however it was
\* paired before, unless a call got no answer or a pairing ran beside it.
THEOREM DeletedStaysCutOff == Spec => []DeletedIsCutOff
<1>1. IInv => DeletedIsCutOff
  BY DEF IInv, CutOff, DeletedIsCutOff, Unsure
<1> QED BY <1>1, DevicesAlways, PTL

\* A code that somebody was shown works until it is used, ends or is replaced.
THEOREM ShownCodesWork == Spec => []ShownWorks
<1>1. IInv => ShownWorks
  BY DEF IInv, Batches, Stored, ShownWorks
<1> QED BY <1>1, DevicesAlways, PTL

\* When a pairing is answered, the codes of requests that had been answered before
\* it came are gone for good, those of the restaurant's other devices included.
THEOREM OldCodesAreSuperseded == Spec => []Superseded
<1>1. IInv => Superseded
  BY DEF IInv, OldCodesGone, Superseded, Replaces, Outdated
<1> QED BY <1>1, DevicesAlways, PTL

=============================================================================
