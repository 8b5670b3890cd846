------------------------------ MODULE Sessions ------------------------------
(***************************************************************************)
(* Sign-in sessions of one staff account: the Login, RefreshToken and      *)
(* Logout handlers (internal/service/auth_service.go), the Auth middleware *)
(* in front of every protected route, and the Redis keys they share        *)
(* (internal/repository/token_repo.go).  No key, no index and no counter   *)
(* is shared by two accounts, so one account is enough.                    *)
(*                                                                         *)
(* Requests run concurrently, on any replica: one step per Redis command   *)
(* or database query, because nothing locks across them and a Redis        *)
(* Pipeline (unlike TxPipeline) lets other clients' commands in between.   *)
(* A token pair is named by the request that was issued it.  Redis errors, *)
(* database errors and crashes take from the budget MaxFaults.             *)
(***************************************************************************)
EXTENDS Naturals, FiniteSets

CONSTANTS
    Requests,           \* the requests of a behaviour; also names of tokens
    Kinds,              \* bound: the kinds of request each of them may be
    Events,             \* bound: what may happen around the requests
    MaxLoginFailures,   \* maxLoginFailures (10 in the code)
    MaxFaults,          \* bound: errors and crashes in a behaviour
    NoToken

AllKinds == {"login", "mistype", "refresh", "logout", "call"}

\* "expiry" and "access": refresh and access tokens run out; "reset": Redis
\* restarts without its data.
AllEvents == {"account", "window", "expiry", "access", "reset"}

ASSUME SessionsAssumption ==
    /\ Kinds \in [Requests -> SUBSET AllKinds]
    /\ Events \subseteq AllEvents
    /\ MaxLoginFailures \in Nat \ {0}
    /\ MaxFaults \in Nat
    /\ NoToken \notin Requests

VARIABLES
    account,        \* the users row: "active", "inactive" or "deleted"
    failures,       \* login:fail:<email>; 0 when the key is absent
    keys,           \* refresh tokens whose refresh_token:<user>:<hash> lives
    index,          \* user_tokens:<user>, the set of the account's hashes
    timed,          \* the index key has a TTL
    outlived,       \* the tokens SET before the index's last EXPIRE
    blacklist,      \* access tokens with a live blacklist:<hash>
    expired,        \* access tokens past their exp claim
    kind,           \* kind[r]: "none" until r arrives
    token,          \* token[r]: the token pair r's token belongs to
    pc,             \* pc[r]: where r's handler stands
    hashes,         \* hashes[r]: what SMEMBERS returned, still to be deleted
    before,         \* history: the requests answered before r arrived
    swallowed,      \* history: requests that ran on after a Redis error, and
                    \* logouts of which Redis lost the effect
    shut,           \* history: the account has not been active since r arrived
    locked,         \* history: the throttle has been full since r arrived
    faults          \* errors and crashes so far

indexVars == <<index, timed, outlived>>
tokenVars == <<keys, indexVars>>
accessVars == <<blacklist, expired>>
storeVars == <<failures, tokenVars, accessVars>>
handlerVars == <<kind, token, before>>
historyVars == <<shut, locked>>
quietVars == <<handlerVars, hashes, swallowed, historyVars, faults>>
vars == <<account, failures, keys, index, timed, outlived, blacklist, expired,
          kind, token, pc, hashes, before, swallowed, shut, locked, faults>>

LoginSteps == {"guard", "lookup", "count", "reset"}
AuthSteps == {"auth", "loadAuth"}
RefreshSteps == {"check", "loadRefresh", "del", "srem"}
StoreSteps == {"set", "sadd", "expire", "reply"}
LogoutSteps == {"list", "dels", "blacklist"}
Running == LoginSteps \cup AuthSteps \cup RefreshSteps \cup StoreSteps \cup LogoutSteps

Answered == {r \in Requests : pc[r] \in {"ok", "refused"}}

LoggedOut == {o \in Requests : kind[o] = "logout" /\ pc[o] = "ok"}

\* The token pairs a client holds.
Issued == {t \in Requests : kind[t] \in {"login", "refresh"} /\ pc[t] = "ok"}

TypeOK ==
    /\ account \in {"active", "inactive", "deleted"}
    /\ failures \in Nat
    /\ keys \subseteq Requests
    /\ index \subseteq Requests
    /\ timed \in BOOLEAN
    /\ outlived \subseteq Requests
    /\ blacklist \subseteq Requests
    /\ expired \subseteq Requests
    /\ kind \in [Requests -> AllKinds \cup {"none"}]
    /\ token \in [Requests -> Requests \cup {NoToken}]
    /\ pc \in [Requests -> Running \cup {"idle", "ok", "refused"}]
    /\ hashes \in [Requests -> SUBSET Requests]
    /\ before \in [Requests -> SUBSET Requests]
    /\ swallowed \subseteq Requests
    /\ shut \subseteq Requests
    /\ locked \subseteq Requests
    /\ faults \in 0..MaxFaults

Init ==
    /\ account = "active"
    /\ failures = 0
    /\ keys = {} /\ index = {} /\ timed = FALSE /\ outlived = {}
    /\ blacklist = {} /\ expired = {}
    /\ kind = [r \in Requests |-> "none"]
    /\ token = [r \in Requests |-> NoToken]
    /\ pc = [r \in Requests |-> "idle"]
    /\ hashes = [r \in Requests |-> {}]
    /\ before = [r \in Requests |-> {}]
    /\ swallowed = {} /\ shut = {} /\ locked = {}
    /\ faults = 0

Fault == faults < MaxFaults /\ faults' = faults + 1

\* r's handler moves on from `from` to `to`.
Step(r, from, to) == pc[r] = from /\ pc' = [pc EXCEPT ![r] = to]

\* A Redis error that the handler logs and ignores.
Swallow(r) == Fault /\ swallowed' = swallowed \cup {r}

-----------------------------------------------------------------------------
(* Arrival of a request.                                                   *)

FirstStep(k) ==
    CASE k \in {"login", "mistype"} -> "guard"
      [] k = "refresh" -> "check"
      [] k \in {"logout", "call"} -> "auth"

\* A login presents no token; other requests without one are turned away.
Presented(k, t) ==
    IF k \in {"login", "mistype"} THEN t = NoToken ELSE t \in Issued

Arrive(r, k, t) ==
    /\ kind[r] = "none"
    /\ Presented(k, t)
    /\ Step(r, "idle", FirstStep(k))
    /\ kind' = [kind EXCEPT ![r] = k]
    /\ token' = [token EXCEPT ![r] = t]
    /\ before' = [before EXCEPT ![r] = Answered]
    /\ shut' = IF account = "active" THEN shut ELSE shut \cup {r}
    /\ locked' = IF failures >= MaxLoginFailures THEN locked \cup {r} ELSE locked
    /\ UNCHANGED <<account, storeVars, hashes, swallowed, faults>>

-----------------------------------------------------------------------------
(* Login: the throttle, the account, the password.                         *)

TooManyOffByOne == failures > MaxLoginFailures

TooMany == failures >= MaxLoginFailures

LoginGuard(r) ==
    /\ Step(r, "guard", IF TooMany THEN "refused" ELSE "lookup")
    /\ UNCHANGED <<account, storeVars, quietVars>>

\* The guard lets the login pass when Redis cannot be read.
GuardFails(r) ==
    /\ Step(r, "guard", "lookup")
    /\ Swallow(r)
    /\ UNCHANGED <<account, storeVars, handlerVars, hashes, historyVars>>

\* GetByEmail finds no deleted user; IsActive is looked at last.
LookUp(r) ==
    /\ Step(r, "lookup",
            IF kind[r] = "mistype" \/ account = "deleted" THEN "count"
            ELSE IF account = "active" THEN "reset" ELSE "refused")
    /\ UNCHANGED <<account, storeVars, quietVars>>

\* A database error is counted as a failed login too.
LookUpFails(r) ==
    /\ Step(r, "lookup", "count")
    /\ Fault
    /\ UNCHANGED <<account, storeVars, handlerVars, hashes, swallowed, historyVars>>

RegisterLoginFailure(r) ==
    /\ Step(r, "count", "refused")
    /\ failures' = failures + 1
    /\ UNCHANGED <<account, tokenVars, accessVars, quietVars>>

\* The INCR is lost, or sent again by the client after a lost answer.
RegisterFails(r) ==
    /\ Step(r, "count", "refused")
    /\ Swallow(r)
    /\ failures' \in {failures, failures + 2}
    /\ UNCHANGED <<account, tokenVars, accessVars, handlerVars, hashes, historyVars>>

ResetLoginFailures(r) ==
    /\ Step(r, "reset", "set")
    /\ failures' = 0
    /\ locked' = {}
    /\ UNCHANGED <<account, tokenVars, accessVars, handlerVars, hashes, swallowed, shut, faults>>

ResetFails(r) ==
    /\ Step(r, "reset", "set")
    /\ Swallow(r)
    /\ UNCHANGED <<account, storeVars, handlerVars, hashes, historyVars>>

\* The window's TTL, set by the first failure only, runs out.
WindowEnds ==
    /\ "window" \in Events
    /\ failures > 0
    /\ failures' = 0
    /\ locked' = {}
    /\ UNCHANGED <<account, tokenVars, accessVars, handlerVars, pc, hashes, swallowed, shut, faults>>

-----------------------------------------------------------------------------
(* StoreRefreshToken: SET, SADD and EXPIRE in one plain pipeline.          *)

SetKey(r) ==
    /\ Step(r, "set", "sadd")
    /\ keys' = keys \cup {r}
    /\ UNCHANGED <<account, failures, indexVars, accessVars, quietVars>>

AddToIndex(r) ==
    /\ Step(r, "sadd", "expire")
    /\ index' = index \cup {r}
    /\ UNCHANGED <<account, failures, keys, timed, outlived, accessVars, quietVars>>

ForgetExpire(r) ==
    /\ Step(r, "expire", "reply")
    /\ UNCHANGED <<account, storeVars, quietVars>>

\* Every key that lives now was SET earlier with the same ttl, so the index
\* outlives it.
ExtendIndex(r) ==
    /\ Step(r, "expire", "reply")
    /\ timed' = (index # {})
    /\ outlived' = IF index # {} THEN keys ELSE {}
    /\ UNCHANGED <<account, failures, keys, index, accessVars, quietVars>>

Reply(r) ==
    /\ Step(r, "reply", "ok")
    /\ UNCHANGED <<account, storeVars, quietVars>>

-----------------------------------------------------------------------------
(* RefreshToken: check the key, load the user, revoke the old token (DEL   *)
(* and SREM in one plain pipeline), store the new one.                     *)

CheckRefresh(r) ==
    /\ Step(r, "check", IF token[r] \in keys THEN "loadRefresh" ELSE "refused")
    /\ UNCHANGED <<account, storeVars, quietVars>>

LoadAnyAccount(r) ==
    /\ Step(r, "loadRefresh", IF account # "deleted" THEN "del" ELSE "refused")
    /\ UNCHANGED <<account, storeVars, quietVars>>

LoadForRefresh(r) ==
    /\ Step(r, "loadRefresh", IF account = "active" THEN "del" ELSE "refused")
    /\ UNCHANGED <<account, storeVars, quietVars>>

KeepOldKey(r) ==
    /\ Step(r, "del", "srem")
    /\ UNCHANGED <<account, storeVars, quietVars>>

DeleteOldKey(r) ==
    /\ Step(r, "del", "srem")
    /\ keys' = keys \ {token[r]}
    /\ UNCHANGED <<account, failures, indexVars, accessVars, quietVars>>

\* Redis deletes a set with its last member, and the TTL with it.
DropFromIndex(r) ==
    /\ Step(r, "srem", "set")
    /\ index' = index \ {token[r]}
    /\ timed' = (timed /\ index' # {})
    /\ outlived' = IF index' # {} THEN outlived ELSE {}
    /\ UNCHANGED <<account, failures, keys, accessVars, quietVars>>

\* The pipeline breaks before DEL or before SREM; the refresh goes on.
RevokeFails(r) ==
    /\ \/ Step(r, "del", "set")
       \/ Step(r, "srem", "set")
    /\ Swallow(r)
    /\ UNCHANGED <<account, storeVars, handlerVars, hashes, historyVars>>

-----------------------------------------------------------------------------
(* Auth, before Logout and before every protected call.                    *)

CheckBlacklist(r) ==
    /\ Step(r, "auth", IF token[r] \in blacklist THEN "refused" ELSE "loadAuth")
    /\ UNCHANGED <<account, storeVars, quietVars>>

\* Validate the token, then load the user fresh.
AuthLoad(r) ==
    /\ Step(r, "loadAuth",
            IF token[r] \in expired \/ account # "active" THEN "refused"
            ELSE IF kind[r] = "logout" THEN "list" ELSE "ok")
    /\ UNCHANGED <<account, storeVars, quietVars>>

-----------------------------------------------------------------------------
(* Logout: SMEMBERS, then DEL of each key and of the index in one plain    *)
(* pipeline, then the blacklist.                                           *)

ListTokens(r) ==
    /\ Step(r, "list", IF index = {} THEN "blacklist" ELSE "dels")
    /\ hashes' = [hashes EXCEPT ![r] = index]
    /\ UNCHANGED <<account, storeVars, handlerVars, swallowed, historyVars, faults>>

DeleteKey(r) ==
    /\ pc[r] = "dels"
    /\ \E t \in hashes[r] :
          /\ keys' = keys \ {t}
          /\ hashes' = [hashes EXCEPT ![r] = @ \ {t}]
    /\ UNCHANGED <<account, failures, indexVars, accessVars, handlerVars, pc, swallowed, historyVars, faults>>

DeleteIndexOnly(r) ==
    /\ Step(r, "dels", "blacklist")
    /\ index' = {} /\ timed' = FALSE /\ outlived' = {}
    /\ UNCHANGED <<account, failures, keys, accessVars, quietVars>>

DeleteIndex(r) ==
    /\ hashes[r] = {}
    /\ Step(r, "dels", "blacklist")
    /\ index' = {} /\ timed' = FALSE /\ outlived' = {}
    /\ UNCHANGED <<account, failures, keys, accessVars, quietVars>>

BlacklistAccessToken(r) ==
    /\ Step(r, "blacklist", "ok")
    /\ blacklist' = blacklist \cup {token[r]}
    /\ UNCHANGED <<account, failures, tokenVars, expired, quietVars>>

BlacklistFails(r) ==
    /\ Step(r, "blacklist", "ok")
    /\ Swallow(r)
    /\ UNCHANGED <<account, storeVars, handlerVars, hashes, historyVars>>

-----------------------------------------------------------------------------
(* What ends a request early, and what happens around the requests.        *)

\* An error the handler answers with, or the process dies: a pipeline that
\* broke has done a prefix of its commands.
GivesUp(r) ==
    /\ \E s \in Running : Step(r, s, "refused")
    /\ hashes' = [hashes EXCEPT ![r] = {}]
    /\ Fault
    /\ UNCHANGED <<account, storeVars, handlerVars, swallowed, historyVars>>

\* UserService.Update and Delete, as far as these handlers see them.
SetAccount(a) ==
    /\ "account" \in Events
    /\ account # "deleted"
    /\ a # account
    /\ account' = a
    /\ shut' = IF a = "active" THEN {} ELSE shut
    /\ UNCHANGED <<storeVars, handlerVars, pc, hashes, swallowed, locked, faults>>

KeyExpires(t) ==
    /\ "expiry" \in Events
    /\ t \in keys
    /\ keys' = keys \ {t}
    /\ UNCHANGED <<account, failures, indexVars, accessVars, pc, quietVars>>

\* Assumed: the index, days old, does not expire in the instant between a
\* pipeline's SADD and its EXPIRE.
IndexExpires ==
    /\ "expiry" \in Events
    /\ timed
    /\ keys \cap outlived = {}
    /\ \A r \in Requests : pc[r] # "expire"
    /\ index' = {} /\ timed' = FALSE /\ outlived' = {}
    /\ UNCHANGED <<account, failures, keys, accessVars, pc, quietVars>>

AccessExpires(t) ==
    /\ "access" \in Events
    /\ t \in Issued \ expired
    /\ expired' = expired \cup {t}
    /\ UNCHANGED <<account, failures, tokenVars, blacklist, pc, quietVars>>

\* Its TTL is the whole access duration, counted from the logout.
BlacklistExpires(t) ==
    /\ "access" \in Events
    /\ t \in blacklist \cap expired
    /\ blacklist' = blacklist \ {t}
    /\ UNCHANGED <<account, failures, tokenVars, expired, pc, quietVars>>

RedisLost ==
    /\ "reset" \in Events
    /\ Fault
    /\ failures' = 0 /\ keys' = {} /\ index' = {} /\ timed' = FALSE
    /\ outlived' = {} /\ blacklist' = {} /\ locked' = {}
    /\ swallowed' = swallowed \cup LoggedOut
    /\ UNCHANGED <<account, expired, handlerVars, pc, hashes, shut>>

Handler(r) ==
    \/ LoginGuard(r) \/ GuardFails(r) \/ LookUp(r) \/ LookUpFails(r)
    \/ RegisterLoginFailure(r) \/ RegisterFails(r) \/ ResetLoginFailures(r) \/ ResetFails(r)
    \/ SetKey(r) \/ AddToIndex(r) \/ ExtendIndex(r) \/ Reply(r)
    \/ CheckRefresh(r) \/ LoadForRefresh(r)
    \/ DeleteOldKey(r) \/ DropFromIndex(r) \/ RevokeFails(r)
    \/ CheckBlacklist(r) \/ AuthLoad(r)
    \/ ListTokens(r) \/ DeleteKey(r) \/ DeleteIndex(r)
    \/ BlacklistAccessToken(r) \/ BlacklistFails(r)
    \/ GivesUp(r)

Environment ==
    \/ WindowEnds \/ IndexExpires \/ RedisLost
    \/ \E a \in {"active", "inactive", "deleted"} : SetAccount(a)
    \/ \E t \in Requests : KeyExpires(t) \/ AccessExpires(t) \/ BlacklistExpires(t)

Next ==
    \/ \E r \in Requests :
          \/ \E k \in Kinds[r], t \in Requests \cup {NoToken} : Arrive(r, k, t)
          \/ Handler(r)
    \/ Environment

Spec == Init /\ [][Next]_vars

-----------------------------------------------------------------------------
(* Properties.                                                             *)

\* Neither request was answered before the other arrived.
Overlap(a, b) == a \notin before[b] /\ b \notin before[a]

\* No logout ran while the token pair t was being issued.
Undisturbed(t) ==
    \A l \in Requests \ {t} : kind[l] = "logout" => ~Overlap(l, t)

\* Logout (auth_service.go:214) ends every session of the account that began
\* before it: once it has answered, no refresh token handed out before it
\* arrived is live, if no logout ran while that token was issued.
LogoutRevokesSettled ==
    \A o \in LoggedOut :
        \A t \in before[o] \cap Issued : Undisturbed(t) => t \notin keys

\* RefreshToken rotates (auth_service.go:175-186): a refresh token that was
\* exchanged cannot be exchanged again by a later request, unless Redis
\* failed while the first exchange revoked it.
RotatedOnce ==
    \A q, r \in Requests :
        /\ kind[q] = "refresh" /\ pc[q] = "ok" /\ q \notin swallowed
        /\ kind[r] = "refresh" /\ token[r] = token[q] /\ q \in before[r]
        => pc[r] \in {"check", "refused"}

\* After a logout that could blacklist its access token (auth_service.go:220)
\* no later request gets through Auth with that token, however long the
\* token and the blacklist entry live, unless Redis has lost its data since.
AccessRevoked ==
    \A o \in LoggedOut \ swallowed, r \in Requests :
        /\ kind[r] \in {"call", "logout"}
        /\ token[r] = token[o] /\ o \in before[r]
        => pc[r] \in {"auth", "loadAuth", "refused"}

\* Deactivating or deleting the account shuts it out at once (auth.go:42-51,
\* auth_service.go:85, 170): a request that arrived since then neither gets
\* tokens nor reaches a handler, whatever it was issued before.
ShutOut == \A r \in shut : pc[r] \notin StoreSteps \cup LogoutSteps \cup {"ok"}

\* The throttle (auth_service.go:58-63): a login that arrives when the
\* account is locked is not looked at for as long as the lock lasts, unless
\* the throttle could not be read.
LockHolds ==
    \A r \in locked \ swallowed :
        kind[r] \in {"login", "mistype"} => pc[r] \in {"guard", "refused"}

-----------------------------------------------------------------------------
(* The inductive invariant of SessionsProofs.                              *)

KindsOfSteps ==
    \A r \in Requests :
        /\ pc[r] = "idle" <=> kind[r] = "none"
        /\ pc[r] \in LoginSteps => kind[r] \in {"login", "mistype"}
        /\ pc[r] = "reset" => kind[r] = "login"
        /\ pc[r] \in RefreshSteps => kind[r] = "refresh"
        /\ pc[r] \in StoreSteps => kind[r] \in {"login", "refresh"}
        /\ pc[r] \in AuthSteps => kind[r] \in {"logout", "call"}
        /\ pc[r] \in LogoutSteps => kind[r] = "logout"

Arrivals ==
    \A r \in Requests :
        /\ before[r] \subseteq Answered \ {r}
        /\ kind[r] \in {"refresh", "logout", "call"} => token[r] \in before[r] \cap Issued

KeysWereStored ==
    \A t \in keys :
        /\ kind[t] \in {"login", "refresh"}
        /\ pc[t] \in {"sadd", "expire", "reply", "ok", "refused"}

\* A live key whose store no logout disturbed is in the index, and the index
\* outlives it.
Indexed ==
    \A t \in keys :
        pc[t] \in {"expire", "reply", "ok"} /\ Undisturbed(t)
        => t \in index /\ (pc[t] # "expire" => t \in outlived)

\* What a logout has still to delete.
Listed ==
    \A l \in Requests, t \in keys :
        pc[l] = "dels" /\ t \in before[l] /\ pc[t] = "ok" /\ Undisturbed(t)
        => t \in hashes[l]

Closed ==
    \A l \in Requests, t \in keys :
        kind[l] = "logout" /\ pc[l] \in {"blacklist", "ok"}
        => ~(t \in before[l] /\ pc[t] = "ok" /\ Undisturbed(t))

Revoked ==
    \A q \in Requests :
        /\ kind[q] = "refresh"
        /\ pc[q] = "srem" \/ (pc[q] \in StoreSteps \cup {"ok"} /\ q \notin swallowed)
        => token[q] \notin keys

Blacklisted ==
    \A o \in LoggedOut \ swallowed :
        /\ token[o] \in blacklist \cup expired
        /\ \A r \in Requests :
              token[r] = token[o] /\ o \in before[r] /\ pc[r] = "loadAuth"
              => token[o] \in expired

ShutOutEverywhere ==
    /\ shut # {} => account # "active"
    /\ \A r \in shut :
          pc[r] \notin StoreSteps \cup LogoutSteps \cup {"reset", "del", "srem", "ok"}

Throttled == (locked # {} => failures >= MaxLoginFailures) /\ LockHolds

IInv ==
    /\ TypeOK
    /\ KindsOfSteps
    /\ Arrivals
    /\ KeysWereStored
    /\ Indexed
    /\ Listed
    /\ Closed
    /\ Revoked
    /\ RotatedOnce
    /\ Blacklisted
    /\ AccessRevoked
    /\ ShutOutEverywhere
    /\ Throttled

=============================================================================
