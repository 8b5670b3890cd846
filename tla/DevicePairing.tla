----------------------------- MODULE DevicePairing -----------------------------
(***************************************************************************)
(* The devices of the restaurants and their pairing: the handlers of       *)
(* internal/service/device_service.go on the devices table and on          *)
(* kfc-userapi, which alone keeps the pairing codes and the devices'       *)
(* tokens (internal/client/userapi_client.go).  kfc-userapi is external    *)
(* and no transaction spans it and the table: one step per query or call.  *)
(* A call that fails may have taken effect, or take effect later.          *)
(*                                                                         *)
(* A device is named by its serial number, which is unique for ever, and a *)
(* code by the request that generated it.  Failures take from MaxFaults.   *)
(***************************************************************************)
EXTENDS RBAC, FiniteSets

CONSTANTS
    Devices, Installed, \* serial numbers; the devices table at first
    Actors, Staff,      \* the accounts that send requests, and their rows
    Requests,
    Asks,               \* bound: what each of them may ask for
    Removals,           \* bound: restaurants that get deleted
    MaxFaults           \* bound: failed calls and crashes in a behaviour

Kinds == {"create", "update", "delete", "pair", "pairAll"}
Changes == {"on", "off", "keep"}

Request == [kind : Kinds \cup {"none"}, by : Actors \cup {None},
            on : Devices \cup {None}, in : Restaurants \cup {None}, change : Changes]

Row == [state : {"none", "live", "deleted"}, restaurant : Restaurants \cup {None},
        active : BOOLEAN]

ASSUME DevicePairingAssumption ==
    /\ Installed \in [Devices -> Row]
    /\ \A d \in Devices : Installed[d].state = "none" <=> Installed[d].restaurant = None
    /\ \A q \in Requests : \A r \in Asks[q] :
          /\ r \in Request /\ r.kind # "none" /\ r.by # None
          /\ IF r.kind = "pairAll" THEN r.on = None ELSE r.on # None
          /\ r.kind \in {"create", "pairAll"} <=> r.in # None
    /\ Removals \subseteq Restaurants
    /\ MaxFaults \in Nat
    /\ None \notin Devices \cup Requests

VARIABLES
    devices,        \* the devices table
    restaurants,    \* restaurants that are not soft-deleted
    codes,          \* kfc-userapi: codes[d], the code that would pair d
    tokens,         \* kfc-userapi: the devices with a live token
    late,           \* calls given up on that may still be executed
    req,            \* req[q]: what request q asks for
    pc,             \* pc[q]: where q's handler stands
    batch,          \* batch[q]: the devices q's handler holds
    loaded,         \* loaded[q]: the is_active an Update read
    told,           \* told[q]: those whose code from q somebody has seen
    before,         \* history: the requests answered before q arrived
    over,           \* history: codes somebody else used, ended or replaced
    timedOut,       \* history: the calls that failed, by request
    disturbed,      \* history: deletions that ran beside a pairing
    faults

userapiVars == <<codes, tokens, late, over>>
handlerVars == <<req, batch, loaded, told, before>>
historyVars == <<timedOut, disturbed>>
vars == <<devices, restaurants, codes, tokens, late, req, pc, batch, loaded, told,
          before, over, timedOut, disturbed, faults>>

Running == {"authorize", "serial", "insert", "load", "list", "write", "revoke",
            "revokeDevice", "remove", "cache", "cacheAll", "email", "reply"}
Ended == {"ok", "refused", "failed"}

NoRequest == [kind |-> "none", by |-> None, on |-> None, in |-> None, change |-> "keep"]

Operations == {"revokeCode", "revokeDevice", "cacheCode", "cacheCodes"}

Calls == [op : Operations, from : Requests, on : SUBSET Devices, in : Restaurants \cup {None}]

Init ==
    /\ devices = Installed
    /\ restaurants = Restaurants
    /\ codes = [d \in Devices |-> None] /\ tokens = {} /\ late = {}
    /\ req = [q \in Requests |-> NoRequest]
    /\ pc = [q \in Requests |-> "idle"]
    /\ loaded = [q \in Requests |-> FALSE]
    /\ batch = [q \in Requests |-> {}] /\ told = [q \in Requests |-> {}]
    /\ before = [q \in Requests |-> {}]
    /\ over = {} /\ timedOut = {} /\ disturbed = {}
    /\ faults = 0

Fault == faults < MaxFaults /\ faults' = faults + 1

\* The repository: no lookup sees a deleted row.
Live(d) == devices[d].state = "live"
GetBySerialNumber(d) == Live(d)
List(filter) ==
    {d \in Devices : Live(d) /\ (filter = None \/ devices[d].restaurant = filter)}
ListByRestaurant(s) == {d \in Devices : Live(d) /\ devices[d].restaurant = s}

\* The unique index has the deleted ones too.
Insertable(d) == devices[d].state = "none"

Insert(d, s) ==
    devices' = [devices EXCEPT ![d] = [state |-> "live", restaurant |-> s, active |-> FALSE]]

Writable(d) == Live(d)

Write(d, active) ==
    devices' = [devices EXCEPT ![d] = [@ EXCEPT !.state = "live", !.active = active]]

SoftDelete(d) ==
    devices' = [devices EXCEPT ![d] = [@ EXCEPT !.state = "deleted", !.active = FALSE]]

\* The handler goes on to `to` if `ok`, and answers with an error otherwise.
Decide(q, from, ok, to) ==
    pc[q] = from /\ pc' = [pc EXCEPT ![q] = IF ok THEN to ELSE "refused"]

Actor(q) == Staff[req[q].by]

-----------------------------------------------------------------------------
(* The rules for devices.                                                  *)

CanCreateDevice(user, s) ==
    /\ CheckPermission(user, "device.create")
    /\ s \in restaurants
    /\ CanAccessRestaurant(user, s, restaurants)

CanReadDevice(user, d) ==
    /\ CheckPermission(user, "device.read")
    /\ CanAccessRestaurant(user, devices[d].restaurant, restaurants)

CanUpdateDevice(user, d) ==
    /\ CheckPermission(user, "device.update")
    /\ CanAccessRestaurant(user, devices[d].restaurant, restaurants)

CanDeleteDevice(user, d) ==
    /\ CheckPermission(user, "device.delete")
    /\ CanAccessRestaurant(user, devices[d].restaurant, restaurants)

CanPairDevices(user, s) ==
    /\ CheckPermission(user, "device.pair")
    /\ s \in restaurants
    /\ CanAccessRestaurant(user, s, restaurants)

\* Mutant: the scope is forgotten.
CanPairAnywhere(user, d) == CheckPermission(user, "device.pair")

CanPairDevice(user, d) ==
    /\ CheckPermission(user, "device.pair")
    /\ CanAccessRestaurant(user, devices[d].restaurant, restaurants)

\* GetByID.
Readable(user) == {d \in Devices : Live(d) /\ CanReadDevice(user, d)}

\* List, asked for the restaurant s; None asks for all.  (Pages: Directory.)
Listed(user, s) ==
    LET filter == IF user.role \in {"super_admin", "regional_manager"}
                  THEN s ELSE user.restaurant
    IN IF CheckPermission(user, "device.read") /\ (user.role = "super_admin" \/ filter # None)
       THEN List(filter) ELSE {}

-----------------------------------------------------------------------------
(* A request arrives.                                                      *)

Arrive(q, kind, first) ==
    /\ pc[q] = "idle"
    /\ \E r \in Asks[q] : r.kind = kind /\ req' = [req EXCEPT ![q] = r]
    /\ pc' = [pc EXCEPT ![q] = first]
    /\ before' = [before EXCEPT ![q] = {p \in Requests : pc[p] \in Ended}]
    /\ UNCHANGED <<devices, restaurants, userapiVars, batch, loaded, told,
                   historyVars, faults>>

Create(q) == Arrive(q, "create", "authorize")
Update(q) == Arrive(q, "update", "load")
Delete(q) == Arrive(q, "delete", "load")
PairOne(q) == Arrive(q, "pair", "load")
PairAll(q) == Arrive(q, "pairAll", "authorize")

-----------------------------------------------------------------------------
(* Queries.                                                                *)

AuthorizeCreate(q) ==
    /\ req[q].kind = "create"
    /\ Decide(q, "authorize", CanCreateDevice(Actor(q), req[q].in), "serial")
    /\ UNCHANGED <<devices, restaurants, userapiVars, handlerVars, historyVars, faults>>

\* The rule and PairAll itself both ask whether the restaurant exists.
AuthorizePairAll(q) ==
    /\ req[q].kind = "pairAll"
    /\ Decide(q, "authorize", CanPairDevices(Actor(q), req[q].in), "list")
    /\ UNCHANGED <<devices, restaurants, userapiVars, handlerVars, historyVars, faults>>

LookUpSerial(q) ==
    /\ Decide(q, "serial", ~GetBySerialNumber(req[q].on), "insert")
    /\ UNCHANGED <<devices, restaurants, userapiVars, handlerVars, historyVars, faults>>

InsertDevice(q) ==
    LET d == req[q].on IN
    /\ Decide(q, "insert", Insertable(d), "ok")
    /\ IF Insertable(d) THEN Insert(d, req[q].in) ELSE UNCHANGED devices
    /\ UNCHANGED <<restaurants, userapiVars, handlerVars, historyVars, faults>>

\* Deletions of d under way.
Deletions(d) ==
    {p \in Requests : /\ req[p].kind = "delete" /\ req[p].on = d
                      /\ pc[p] \in {"revoke", "revokeDevice", "remove"}}

Pairs(kind) == kind \in {"pair", "pairAll"}

\* Pairings that will, or may still, store a code for d.
PairingsOf(d) ==
    {p \in Requests : Pairs(req[p].kind) /\ pc[p] \in Running /\ d \in batch[p]}
        \cup {c.from : c \in {k \in late : k.op \in {"cacheCode", "cacheCodes"} /\ d \in k.on}}

\* GetByID and the rule for the row it found.
Load(q, kind, allowed, to) ==
    /\ req[q].kind = kind
    /\ LET ok == Live(req[q].on) /\ allowed IN
       /\ Decide(q, "load", ok, to)
       /\ batch' = [batch EXCEPT ![q] = IF ok THEN {req[q].on} ELSE {}]
    /\ UNCHANGED <<devices, restaurants, userapiVars, req, told, before, timedOut, faults>>

LoadForUpdate(q) ==
    /\ Load(q, "update", CanUpdateDevice(Actor(q), req[q].on), "write")
    /\ loaded' = [loaded EXCEPT ![q] = devices[req[q].on].active]
    /\ UNCHANGED disturbed

LoadForDelete(q) ==
    /\ Load(q, "delete", CanDeleteDevice(Actor(q), req[q].on), "revoke")
    /\ UNCHANGED loaded
    /\ disturbed' = IF PairingsOf(req[q].on) # {} THEN disturbed \cup {q} ELSE disturbed

LoadForPair(q) ==
    /\ Load(q, "pair", CanPairDevice(Actor(q), req[q].on), "revoke")
    /\ UNCHANGED loaded
    /\ disturbed' = disturbed \cup Deletions(req[q].on)

\* The devices of the restaurant, and a code for each.  A code may not come about (fault).
ListDevices(q) ==
    LET found == ListByRestaurant(req[q].in) IN
    /\ \/ /\ batch' = [batch EXCEPT ![q] = found]
          /\ UNCHANGED faults
       \/ /\ Fault
          /\ \E some \in SUBSET found :
                some # found /\ batch' = [batch EXCEPT ![q] = some]
    /\ Decide(q, "list", batch'[q] # {}, "cacheAll")
    /\ disturbed' = disturbed \cup UNION {Deletions(d) : d \in batch'[q]}
    /\ UNCHANGED <<devices, restaurants, userapiVars, req, loaded, told, before, timedOut>>

\* Update writes what the request says, or what was loaded.
NewActive(q) ==
    CASE req[q].change = "on" -> TRUE
      [] req[q].change = "off" -> FALSE
      [] OTHER -> loaded[q]

UpdateRow(q) ==
    LET d == req[q].on IN
    /\ Decide(q, "write", Writable(d), "ok")
    /\ IF Writable(d) THEN Write(d, NewActive(q)) ELSE UNCHANGED devices
    /\ UNCHANGED <<restaurants, userapiVars, handlerVars, historyVars, faults>>

DeleteRow(q) ==
    LET d == req[q].on IN
    /\ Decide(q, "remove", Live(d), "ok")
    /\ IF Live(d) THEN SoftDelete(d) ELSE UNCHANGED devices
    /\ UNCHANGED <<restaurants, userapiVars, handlerVars, historyVars, faults>>

-----------------------------------------------------------------------------
(* Calls of kfc-userapi.                                                   *)

\* Mutant: a batch leaves the other codes of the restaurant.
KeptBatch(c, d) == IF d \in c.on THEN c.from ELSE codes[d]

\* A batch replaces the restaurant's codes (device_service.go:335).
Replaced(c, d) ==
    IF d \in c.on THEN c.from
    ELSE IF devices[d].restaurant = c.in THEN None ELSE codes[d]

CodesAfter(c) ==
    CASE c.op = "revokeCode" -> [d \in Devices |-> IF d \in c.on THEN None ELSE codes[d]]
      [] c.op = "cacheCode" -> [d \in Devices |-> IF d \in c.on THEN c.from ELSE codes[d]]
      [] c.op = "cacheCodes" -> [d \in Devices |-> Replaced(c, d)]
      [] c.op = "revokeDevice" -> codes

\* kfc-userapi executes c.  What ends a code of another request is noted.
Execute(c) ==
    /\ codes' = CodesAfter(c)
    /\ tokens' = IF c.op = "revokeDevice" THEN tokens \ c.on ELSE tokens
    /\ over' = over \cup {<<codes[d], d>> : d \in {e \in Devices :
                              /\ codes[e] \notin {None, c.from}
                              /\ codes'[e] # codes[e]}}

Answered(q, c, to) ==
    /\ Execute(c)
    /\ pc' = [pc EXCEPT ![q] = to]
    /\ UNCHANGED <<devices, restaurants, late, handlerVars, historyVars, faults>>

\* An error: refused, or timed out, and then executed or not or later on.
Unanswered(q, c, to) ==
    /\ Fault
    /\ pc' = [pc EXCEPT ![q] = to]
    /\ timedOut' = timedOut \cup {<<q, c.op>>}
    /\ \/ UNCHANGED userapiVars
       \/ Execute(c) /\ UNCHANGED late
       \/ late' = late \cup {c} /\ UNCHANGED <<codes, tokens, over>>
    /\ UNCHANGED <<devices, restaurants, handlerVars, disturbed>>

ExecuteLate ==
    \E c \in late :
        /\ Execute(c)
        /\ late' = late \ {c}
        /\ UNCHANGED <<devices, restaurants, pc, handlerVars, historyVars, faults>>

CallOf(q, op) == [op |-> op, from |-> q, on |-> batch[q], in |-> req[q].in]

RevokePairingCode(q, to) ==
    \/ Answered(q, CallOf(q, "revokeCode"), to)
    \/ Unanswered(q, CallOf(q, "revokeCode"), to)

RevokeDevice(q, to) ==
    \/ Answered(q, CallOf(q, "revokeDevice"), to)
    \/ Unanswered(q, CallOf(q, "revokeDevice"), to)

CachePairingCode(q, to, onError) ==
    \/ Answered(q, CallOf(q, "cacheCode"), to)
    \/ Unanswered(q, CallOf(q, "cacheCode"), onError)

CachePairingCodes(q, to, onError) ==
    \/ Answered(q, CallOf(q, "cacheCodes"), to)
    \/ Unanswered(q, CallOf(q, "cacheCodes"), onError)

-----------------------------------------------------------------------------
(* Delete: the code first, then the tokens, then the row.                  *)

\* Mutant: the other way round.
TokensThenCode(q) ==
    /\ req[q].kind = "delete"
    /\ \/ pc[q] = "revoke" /\ RevokeDevice(q, "revokeDevice")
       \/ pc[q] = "revokeDevice" /\ RevokePairingCode(q, "remove")

RevokeForDelete(q) ==
    /\ req[q].kind = "delete"
    /\ \/ pc[q] = "revoke" /\ RevokePairingCode(q, "revokeDevice")
       \/ pc[q] = "revokeDevice" /\ RevokeDevice(q, "remove")

\* PairDevice.
RevokeOldCode(q) ==
    /\ req[q].kind = "pair" /\ pc[q] = "revoke"
    /\ RevokePairingCode(q, "cache")

\* Mutant: the answer is not waited for.
ShowAnyway(q) == pc[q] = "cache" /\ CachePairingCode(q, "reply", "reply")

CacheCode(q) == pc[q] = "cache" /\ CachePairingCode(q, "reply", "refused")

\* PairAllDevicesInRestaurant.
CacheAllCodes(q) == pc[q] = "cacheAll" /\ CachePairingCodes(q, "email", "refused")

\* The e-mail reaches the manager, or the error is logged.
SendEmail(q) ==
    /\ pc[q] = "email"
    /\ pc' = [pc EXCEPT ![q] = "reply"]
    /\ \/ told' = [told EXCEPT ![q] = batch[q]] /\ UNCHANGED faults
       \/ Fault /\ UNCHANGED told
    /\ UNCHANGED <<devices, restaurants, userapiVars, req, batch, loaded, before, historyVars>>

Reply(q) ==
    /\ pc[q] = "reply"
    /\ pc' = [pc EXCEPT ![q] = "ok"]
    /\ told' = [told EXCEPT ![q] = batch[q]]
    /\ UNCHANGED <<devices, restaurants, userapiVars, req, batch, loaded, before,
                   historyVars, faults>>

\* A query fails, no code can be generated, or the process dies.
GivesUp(q) ==
    /\ pc[q] \in Running
    /\ Fault
    /\ pc' = [pc EXCEPT ![q] = "failed"]
    /\ UNCHANGED <<devices, restaurants, userapiVars, handlerVars, historyVars>>

-----------------------------------------------------------------------------
(* Around the requests: kfc-userapi, the devices and restaurant deletions. *)

\* Somebody types in a code that was shown; it works once.
Redeem(d) ==
    /\ codes[d] # None /\ d \in told[codes[d]]
    /\ codes' = [codes EXCEPT ![d] = None]
    /\ tokens' = tokens \cup {d}
    /\ over' = over \cup {<<codes[d], d>>}
    /\ UNCHANGED <<devices, restaurants, late, handlerVars, pc, historyVars, faults>>

CodeExpires(d) ==
    /\ codes[d] # None
    /\ codes' = [codes EXCEPT ![d] = None]
    /\ over' = over \cup {<<codes[d], d>>}
    /\ UNCHANGED <<devices, restaurants, tokens, late, handlerVars, pc, historyVars, faults>>

RemoveRestaurant(s) ==
    /\ s \in Removals \cap restaurants
    /\ restaurants' = restaurants \ {s}
    /\ UNCHANGED <<devices, userapiVars, handlerVars, pc, historyVars, faults>>

-----------------------------------------------------------------------------
Arrives(q) == Create(q) \/ Update(q) \/ Delete(q) \/ PairOne(q) \/ PairAll(q)

Handles(q) ==
    \/ AuthorizeCreate(q) \/ AuthorizePairAll(q) \/ LookUpSerial(q) \/ InsertDevice(q)
    \/ LoadForUpdate(q) \/ UpdateRow(q)
    \/ LoadForDelete(q) \/ RevokeForDelete(q) \/ DeleteRow(q)
    \/ LoadForPair(q) \/ RevokeOldCode(q) \/ CacheCode(q)
    \/ ListDevices(q) \/ CacheAllCodes(q) \/ SendEmail(q)
    \/ Reply(q) \/ GivesUp(q)

Elsewhere ==
    \/ ExecuteLate
    \/ \E d \in Devices : Redeem(d) \/ CodeExpires(d)
    \/ \E s \in Restaurants : RemoveRestaurant(s)

Next == (\E q \in Requests : Arrives(q) \/ Handles(q)) \/ Elsewhere

Spec == Init /\ [][Next]_vars

-----------------------------------------------------------------------------
(* Properties.                                                             *)

TypeOK ==
    /\ devices \in [Devices -> Row]
    /\ restaurants \subseteq Restaurants
    /\ codes \in [Devices -> Requests \cup {None}]
    /\ tokens \subseteq Devices
    /\ late \subseteq Calls
    /\ req \in [Requests -> Request]
    /\ pc \in [Requests -> Running \cup Ended \cup {"idle"}]
    /\ loaded \in [Requests -> BOOLEAN]
    /\ batch \in [Requests -> SUBSET Devices]
    /\ told \in [Requests -> SUBSET Devices]
    /\ before \in [Requests -> SUBSET Requests]
    /\ over \subseteq Requests \X Devices
    /\ timedOut \subseteq Requests \X Operations
    /\ disturbed \subseteq Requests
    /\ faults \in 0..MaxFaults

\* Requests that got no answer to a call.
Unsure(op) == {q \in Requests : <<q, op>> \in timedOut}

\* When Delete has answered, and kfc-userapi has answered it, the device has
\* neither a code nor a token and gets none again, however it was paired
\* before, unless a pairing was under way beside the deletion.
DeletedIsCutOff ==
    \A q \in Requests :
        req[q].kind = "delete" /\ pc[q] = "ok" /\ q \notin Unsure("revokeCode") \cup Unsure("revokeDevice") \cup disturbed
            => codes[req[q].on] = None /\ req[q].on \notin tokens

\* A code that somebody has been shown, or sent, is stored: it works until it
\* is used or expires or another request revokes or replaces it.
ShownWorks ==
    \A q \in Requests \ Unsure("revokeCode") : \A d \in told[q] :
        codes[d] = q \/ <<q, d>> \in over

\* No code from before comes back: when a pairing is answered, the codes that
\* earlier requests left for its device, or for any device of its restaurant,
\* are gone for good.
Superseded ==
    \A q \in Requests, d \in Devices :
        /\ Pairs(req[q].kind) /\ pc[q] = "ok"
        /\ d \in batch[q] \/ (req[q].kind = "pairAll" /\ devices[d].restaurant = req[q].in)
        => codes[d] \notin before[q] \ (Unsure("cacheCode") \cup Unsure("cacheCodes"))

\* A code comes from somebody who may pair devices and whose scope has, or had
\* when the request came, the device's restaurant.
CodesFromScope ==
    \A d \in Devices : codes[d] # None =>
        LET user == Actor(codes[d]) IN
        /\ CheckPermission(user, "device.pair")
        /\ CanAccessRestaurant(user, devices[d].restaurant, Restaurants)

\* Whoever may open a device finds it on the list of its restaurant.
ReadableIsListed ==
    \A a \in Actors : \A d \in Readable(Staff[a]) :
        d \in Listed(Staff[a], devices[d].restaurant)

\* Typed; codes come from those who may pair, and lists omit no readable device.
DevicesInv == TypeOK /\ CodesFromScope /\ ReadableIsListed

=============================================================================
