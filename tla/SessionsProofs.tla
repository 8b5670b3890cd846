--------------------------- MODULE SessionsProofs ---------------------------
(* Proofs about the sessions of an account, for any number of requests.    *)
EXTENDS Sessions, TLAPS

USE DEF indexVars, tokenVars, accessVars, storeVars, handlerVars, historyVars, quietVars

-----------------------------------------------------------------------------
(* Types.                                                                  *)

LEMMA TypeInit == Init => TypeOK
<1> SUFFICES ASSUME Init PROVE TypeOK
  OBVIOUS
<1>1. 0 \in 0..MaxFaults
  BY SessionsAssumption
<1>2. QED
  BY <1>1 DEF Init, TypeOK

\* Every action keeps the types.
LEMMA TypeStep ==
    ASSUME TypeOK, KindsOfSteps, Arrivals, [Next]_vars
    PROVE  TypeOK'
<1> USE DEF TypeOK
<1>1. ASSUME Fault PROVE faults' \in 0..MaxFaults
  BY <1>1, SessionsAssumption DEF Fault
<1>2. ASSUME NEW r \in Requests, NEW from, NEW to \in Running \cup {"idle", "ok", "refused"},
             Step(r, from, to)
      PROVE  pc' \in [Requests -> Running \cup {"idle", "ok", "refused"}]
  BY <1>2 DEF Step
<1> DEFINE Steps == Running \cup {"idle", "ok", "refused"}
<1>3. /\ LoginSteps \cup AuthSteps \cup RefreshSteps \cup StoreSteps \cup LogoutSteps
             \cup {"ok", "refused"} \subseteq Steps
      /\ \A k \in AllKinds : FirstStep(k) \in Steps
  BY DEF Running, LoginSteps, AuthSteps, RefreshSteps, StoreSteps, LogoutSteps,
         FirstStep, AllKinds
<1>4. ASSUME NEW r \in Requests, NEW k \in Kinds[r], NEW t \in Requests \cup {NoToken},
             Arrive(r, k, t)
      PROVE  TypeOK'
  <2>1. k \in AllKinds
    BY SessionsAssumption
  <2>2. pc' \in [Requests -> Steps]
    BY <1>2, <1>3, <1>4, <2>1 DEF Arrive
  <2>3. Answered \subseteq Requests
    BY DEF Answered
  <2>4. QED
    BY <1>4, <2>1, <2>2, <2>3 DEF Arrive
<1>5. ASSUME NEW r \in Requests,
             \/ LoginGuard(r) \/ GuardFails(r) \/ LookUp(r) \/ LookUpFails(r)
             \/ RegisterLoginFailure(r) \/ RegisterFails(r)
             \/ ResetLoginFailures(r) \/ ResetFails(r)
      PROVE  TypeOK'
  <2>1. pc' \in [Requests -> Steps]
    BY <1>3, <1>5 DEF LoginGuard, GuardFails, LookUp, LookUpFails, RegisterLoginFailure,
       RegisterFails, ResetLoginFailures, ResetFails, Step, LoginSteps, StoreSteps
  <2>2. failures' \in Nat
    BY <1>5 DEF LoginGuard, GuardFails, LookUp, LookUpFails, RegisterLoginFailure,
       RegisterFails, ResetLoginFailures, ResetFails
  <2>3. faults' \in 0..MaxFaults /\ swallowed' \subseteq Requests
    BY <1>1, <1>5 DEF LoginGuard, GuardFails, LookUp, LookUpFails, RegisterLoginFailure,
       RegisterFails, ResetLoginFailures, ResetFails, Swallow
  <2>4. QED
    BY <1>5, <2>1, <2>2, <2>3 DEF LoginGuard, GuardFails, LookUp, LookUpFails,
       RegisterLoginFailure, RegisterFails, ResetLoginFailures, ResetFails
<1>6. ASSUME NEW r \in Requests,
             SetKey(r) \/ AddToIndex(r) \/ ExtendIndex(r) \/ Reply(r)
      PROVE  TypeOK'
  <2>1. pc' \in [Requests -> Steps]
    BY <1>3, <1>6 DEF SetKey, AddToIndex, ExtendIndex, Reply, Step, StoreSteps
  <2>2. QED
    BY <1>6, <2>1 DEF SetKey, AddToIndex, ExtendIndex, Reply
<1>7. ASSUME NEW r \in Requests,
             CheckRefresh(r) \/ LoadForRefresh(r) \/ DeleteOldKey(r) \/ DropFromIndex(r)
             \/ RevokeFails(r)
      PROVE  TypeOK'
  <2>1. pc' \in [Requests -> Steps]
    BY <1>3, <1>7 DEF CheckRefresh, LoadForRefresh, DeleteOldKey, DropFromIndex, RevokeFails,
       Step, RefreshSteps, StoreSteps
  <2>2. faults' \in 0..MaxFaults /\ swallowed' \subseteq Requests
    BY <1>1, <1>7 DEF CheckRefresh, LoadForRefresh, DeleteOldKey, DropFromIndex, RevokeFails,
       Swallow
  <2>3. QED
    BY <1>7, <2>1, <2>2 DEF CheckRefresh, LoadForRefresh, DeleteOldKey, DropFromIndex,
       RevokeFails
<1>8. ASSUME NEW r \in Requests,
             CheckBlacklist(r) \/ AuthLoad(r) \/ ListTokens(r) \/ DeleteKey(r)
             \/ DeleteIndex(r)
      PROVE  TypeOK'
  <2>1. pc' \in [Requests -> Steps]
    BY <1>3, <1>8 DEF CheckBlacklist, AuthLoad, ListTokens, DeleteKey, DeleteIndex, Step,
       AuthSteps, LogoutSteps
  <2>2. hashes' \in [Requests -> SUBSET Requests]
    BY <1>8 DEF CheckBlacklist, AuthLoad, ListTokens, DeleteKey, DeleteIndex
  <2>3. QED
    BY <1>8, <2>1, <2>2 DEF CheckBlacklist, AuthLoad, ListTokens, DeleteKey, DeleteIndex
<1>9. ASSUME NEW r \in Requests,
             BlacklistAccessToken(r) \/ BlacklistFails(r) \/ GivesUp(r)
      PROVE  TypeOK'
  <2>1. pc' \in [Requests -> Steps]
    BY <1>3, <1>9 DEF BlacklistAccessToken, BlacklistFails, GivesUp, Step
  <2>2. faults' \in 0..MaxFaults /\ swallowed' \subseteq Requests
    BY <1>1, <1>9 DEF BlacklistAccessToken, BlacklistFails, GivesUp, Swallow
  <2>3. blacklist' \subseteq Requests
    BY <1>9
       DEF BlacklistAccessToken, BlacklistFails, GivesUp, KindsOfSteps, Arrivals, Issued,
           LogoutSteps, Step
  <2>4. QED
    BY <1>9, <2>1, <2>2, <2>3 DEF BlacklistAccessToken, BlacklistFails, GivesUp
<1>10. CASE Environment
  <2>1. CASE WindowEnds \/ IndexExpires \/ RedisLost
    <3>1. CASE WindowEnds
      BY <3>1 DEF WindowEnds
    <3>2. CASE IndexExpires
      BY <3>2 DEF IndexExpires
    <3>3. CASE RedisLost
      BY <1>1, <3>3 DEF RedisLost, LoggedOut
    <3>4. QED
      BY <2>1, <3>1, <3>2, <3>3
  <2>2. CASE \E a \in {"active", "inactive", "deleted"} : SetAccount(a)
    BY <2>2 DEF SetAccount
  <2>3. CASE \E t \in Requests : KeyExpires(t) \/ AccessExpires(t) \/ BlacklistExpires(t)
    BY <2>3 DEF KeyExpires, AccessExpires, BlacklistExpires
  <2>4. QED
    BY <1>10, <2>1, <2>2, <2>3 DEF Environment
<1>11. CASE UNCHANGED vars
  BY <1>11 DEF vars
<1>12. QED
  BY <1>4, <1>5, <1>6, <1>7, <1>8, <1>9, <1>10, <1>11 DEF Next, Handler

-----------------------------------------------------------------------------
(* What the steps do to the requests: one arrives, or one moves on.        *)

\* No handler changes what its request is or presented.
LEMMA HandlerFrame ==
    ASSUME TypeOK, NEW r \in Requests, Handler(r)
    PROVE  /\ UNCHANGED handlerVars
           /\ pc[r] \in Running
           /\ pc' = [pc EXCEPT ![r] = pc'[r]]
           /\ swallowed \subseteq swallowed'
<1> USE DEF TypeOK, Step, Running, LoginSteps, AuthSteps, RefreshSteps, StoreSteps, LogoutSteps
<1>1. CASE LoginGuard(r) \/ GuardFails(r) \/ LookUp(r) \/ LookUpFails(r)
  BY <1>1 DEF LoginGuard, GuardFails, LookUp, LookUpFails, Swallow
<1>2. CASE RegisterLoginFailure(r) \/ RegisterFails(r) \/ ResetLoginFailures(r) \/ ResetFails(r)
  BY <1>2 DEF RegisterLoginFailure, RegisterFails, ResetLoginFailures, ResetFails, Swallow
<1>3. CASE SetKey(r) \/ AddToIndex(r) \/ ExtendIndex(r) \/ Reply(r)
  BY <1>3 DEF SetKey, AddToIndex, ExtendIndex, Reply
<1>4. CASE \/ CheckRefresh(r) \/ LoadForRefresh(r)
           \/ DeleteOldKey(r) \/ DropFromIndex(r) \/ RevokeFails(r)
  BY <1>4 DEF CheckRefresh, LoadForRefresh, DeleteOldKey, DropFromIndex, RevokeFails, Swallow
<1>5. CASE CheckBlacklist(r) \/ AuthLoad(r) \/ ListTokens(r) \/ DeleteKey(r) \/ DeleteIndex(r)
  BY <1>5 DEF CheckBlacklist, AuthLoad, ListTokens, DeleteKey, DeleteIndex
<1>6. CASE BlacklistAccessToken(r) \/ BlacklistFails(r) \/ GivesUp(r)
  BY <1>6 DEF BlacklistAccessToken, BlacklistFails, GivesUp, Swallow
<1>7. QED
  BY <1>1, <1>2, <1>3, <1>4, <1>5, <1>6 DEF Handler

\* Nothing around the requests moves one.
LEMMA EnvironmentFrame ==
    ASSUME Environment
    PROVE  UNCHANGED <<handlerVars, pc, hashes>> /\ swallowed \subseteq swallowed'
  BY DEF Environment, WindowEnds, IndexExpires, RedisLost, SetAccount, KeyExpires,
     AccessExpires, BlacklistExpires

\* The step a handler goes to is one of its own kind of request.
LEMMA HandlerKinds ==
    ASSUME TypeOK, KindsOfSteps, NEW r \in Requests, Handler(r)
    PROVE  /\ pc'[r] # "idle"
           /\ pc'[r] \in LoginSteps => kind[r] \in {"login", "mistype"}
           /\ pc'[r] = "reset" => kind[r] = "login"
           /\ pc'[r] \in RefreshSteps => kind[r] = "refresh"
           /\ pc'[r] \in StoreSteps => kind[r] \in {"login", "refresh"}
           /\ pc'[r] \in AuthSteps => kind[r] \in {"logout", "call"}
           /\ pc'[r] \in LogoutSteps => kind[r] = "logout"
<1> USE DEF TypeOK, Step, KindsOfSteps, LoginSteps, AuthSteps, RefreshSteps, StoreSteps,
            LogoutSteps
<1>1. CASE LoginGuard(r) \/ GuardFails(r) \/ LookUp(r) \/ LookUpFails(r)
  BY <1>1 DEF LoginGuard, GuardFails, LookUp, LookUpFails
<1>2. CASE RegisterLoginFailure(r) \/ RegisterFails(r) \/ ResetLoginFailures(r) \/ ResetFails(r)
  BY <1>2 DEF RegisterLoginFailure, RegisterFails, ResetLoginFailures, ResetFails
<1>3. CASE SetKey(r) \/ AddToIndex(r) \/ ExtendIndex(r) \/ Reply(r)
  BY <1>3 DEF SetKey, AddToIndex, ExtendIndex, Reply
<1>4. CASE \/ CheckRefresh(r) \/ LoadForRefresh(r)
           \/ DeleteOldKey(r) \/ DropFromIndex(r) \/ RevokeFails(r)
  BY <1>4 DEF CheckRefresh, LoadForRefresh, DeleteOldKey, DropFromIndex, RevokeFails
<1>5. CASE CheckBlacklist(r) \/ AuthLoad(r) \/ ListTokens(r) \/ DeleteKey(r) \/ DeleteIndex(r)
  BY <1>5 DEF CheckBlacklist, AuthLoad, ListTokens, DeleteKey, DeleteIndex
<1>6. CASE BlacklistAccessToken(r) \/ BlacklistFails(r) \/ GivesUp(r)
  BY <1>6 DEF BlacklistAccessToken, BlacklistFails, GivesUp
<1>7. QED
  BY <1>1, <1>2, <1>3, <1>4, <1>5, <1>6 DEF Handler

\* An arrival fills one idle slot.
LEMMA ArriveFrame ==
    ASSUME TypeOK, KindsOfSteps, NEW r \in Requests, NEW k \in Kinds[r],
           NEW t \in Requests \cup {NoToken}, Arrive(r, k, t)
    PROVE  /\ kind[r] = "none" /\ pc[r] = "idle"
           /\ k \in AllKinds
           /\ kind' = [kind EXCEPT ![r] = k]
           /\ token' = [token EXCEPT ![r] = t]
           /\ before' = [before EXCEPT ![r] = Answered]
           /\ pc' = [pc EXCEPT ![r] = FirstStep(k)]
           /\ k \in {"refresh", "logout", "call"} => t \in Issued
           /\ UNCHANGED <<keys, index, timed, outlived, hashes, swallowed>>
<1>1. k \in AllKinds
  BY SessionsAssumption
<1>2. QED
  BY <1>1 DEF Arrive, Step, Presented, AllKinds

LEMMA KindsStep ==
    ASSUME TypeOK, KindsOfSteps, [Next]_vars
    PROVE  KindsOfSteps'
<1>1. ASSUME NEW r \in Requests, NEW k \in Kinds[r], NEW t \in Requests \cup {NoToken},
             Arrive(r, k, t)
      PROVE  KindsOfSteps'
  BY <1>1, ArriveFrame
     DEF TypeOK, KindsOfSteps, FirstStep, AllKinds, LoginSteps, AuthSteps, RefreshSteps,
         StoreSteps, LogoutSteps
<1>2. ASSUME NEW r \in Requests, Handler(r) PROVE KindsOfSteps'
  <2>1. UNCHANGED handlerVars /\ pc' = [pc EXCEPT ![r] = pc'[r]] /\ pc[r] \in Running
    BY <1>2, HandlerFrame
  <2>2. kind[r] # "none"
    BY <2>1 DEF KindsOfSteps, Running, LoginSteps, AuthSteps, RefreshSteps, StoreSteps,
       LogoutSteps
  <2>3. QED
    BY <1>2, <2>1, <2>2, HandlerKinds DEF TypeOK, KindsOfSteps
<1>3. CASE Environment
  BY <1>3, EnvironmentFrame DEF KindsOfSteps
<1>4. CASE UNCHANGED vars
  BY <1>4 DEF vars, KindsOfSteps
<1>5. QED
  BY <1>1, <1>2, <1>3, <1>4 DEF Next

\* An answered request stays answered, with the same answer.
LEMMA AnswersStay ==
    ASSUME TypeOK, KindsOfSteps, [Next]_vars, NEW q \in Requests
    PROVE  /\ pc[q] \in {"ok", "refused"} => pc'[q] = pc[q]
           /\ pc[q] # "idle" => /\ pc'[q] # "idle" /\ kind'[q] = kind[q]
                                /\ token'[q] = token[q] /\ before'[q] = before[q]
           /\ q \in swallowed => q \in swallowed'
<1>1. ASSUME NEW r \in Requests, NEW k \in Kinds[r], NEW t \in Requests \cup {NoToken},
             Arrive(r, k, t)
      PROVE  /\ pc[q] # "idle" => pc'[q] = pc[q] /\ kind'[q] = kind[q]
                                  /\ token'[q] = token[q] /\ before'[q] = before[q]
             /\ swallowed' = swallowed
  BY <1>1, ArriveFrame DEF TypeOK
<1>2. ASSUME NEW r \in Requests, Handler(r)
      PROVE  /\ pc[q] \in {"ok", "refused"} => pc'[q] = pc[q]
             /\ pc[q] # "idle" => pc'[q] # "idle"
             /\ UNCHANGED handlerVars
             /\ swallowed \subseteq swallowed'
  BY <1>2, HandlerFrame, HandlerKinds
     DEF TypeOK, Running, LoginSteps, AuthSteps, RefreshSteps, StoreSteps, LogoutSteps
<1>3. CASE Environment
  BY <1>3, EnvironmentFrame
<1>4. CASE UNCHANGED vars
  BY <1>4 DEF vars
<1>5. QED
  BY <1>1, <1>2, <1>3, <1>4 DEF Next

\* A request beyond the first step of its handler had arrived before.
LEMMA HadArrived ==
    ASSUME TypeOK, KindsOfSteps, [Next]_vars, NEW q \in Requests,
           pc'[q] \notin {"idle", "guard", "check", "auth"}
    PROVE  pc[q] # "idle"
<1>1. ASSUME NEW r \in Requests, NEW k \in Kinds[r], NEW t \in Requests \cup {NoToken},
             Arrive(r, k, t)
      PROVE  pc[q] # "idle"
  BY <1>1, ArriveFrame DEF TypeOK, FirstStep, AllKinds
<1>2. ASSUME NEW r \in Requests, Handler(r) PROVE pc[q] # "idle"
  BY <1>2, HandlerFrame
     DEF TypeOK, Running, LoginSteps, AuthSteps, RefreshSteps, StoreSteps, LogoutSteps
<1>3. CASE Environment
  BY <1>3, EnvironmentFrame
<1>4. CASE UNCHANGED vars
  BY <1>4 DEF vars
<1>5. QED
  BY <1>1, <1>2, <1>3, <1>4 DEF Next

LEMMA ArrivalsStep ==
    ASSUME TypeOK, KindsOfSteps, Arrivals, [Next]_vars
    PROVE  Arrivals'
<1>1. \A q \in Answered : q \in Answered'
  BY AnswersStay DEF Answered
<1>2. \A t \in Issued : t \in Issued'
  BY AnswersStay DEF Issued, KindsOfSteps
<1>3. ASSUME NEW r \in Requests, NEW k \in Kinds[r], NEW t \in Requests \cup {NoToken},
             Arrive(r, k, t)
      PROVE  Arrivals'
  <2>1. Issued \subseteq Answered /\ r \notin Answered
    BY <1>3, ArriveFrame DEF Issued, Answered
  <2>2. \A q \in Requests : before'[q] \subseteq Answered \ {q}
    BY <1>3, <2>1, ArriveFrame DEF TypeOK, Arrivals
  <2>3. ASSUME NEW q \in Requests, kind'[q] \in {"refresh", "logout", "call"}
        PROVE  token'[q] \in before'[q] \cap Issued
    <3>1. CASE q = r
      BY <1>3, <2>1, <2>3, <3>1, ArriveFrame DEF TypeOK
    <3>2. CASE q # r
      BY <1>3, <2>3, <3>2, ArriveFrame DEF TypeOK, Arrivals
    <3>3. QED
      BY <3>1, <3>2
  <2>4. QED
    BY <1>1, <1>2, <2>2, <2>3 DEF Arrivals
<1>4. CASE UNCHANGED handlerVars
  BY <1>1, <1>2, <1>4 DEF Arrivals
<1>5. QED
  <2>1. ASSUME NEW r \in Requests, Handler(r) PROVE UNCHANGED handlerVars
    BY <2>1, HandlerFrame
  <2>2. CASE Environment
    BY <1>4, <2>2, EnvironmentFrame
  <2>3. CASE UNCHANGED vars
    BY <1>4, <2>3 DEF vars
  <2>4. QED
    BY <1>3, <1>4, <2>1, <2>2, <2>3 DEF Next

-----------------------------------------------------------------------------
(* The refresh tokens in Redis.                                            *)

\* A request that is beyond its arrival was not undisturbed before it.
LEMMA UndisturbedBefore ==
    ASSUME TypeOK, KindsOfSteps, [Next]_vars, NEW t \in Requests,
           pc[t] # "idle", Undisturbed(t)'
    PROVE  Undisturbed(t)
<1> SUFFICES ASSUME NEW l \in Requests \ {t}, kind[l] = "logout"
             PROVE  ~Overlap(l, t)
  BY DEF Undisturbed
<1>1. pc[l] # "idle"
  BY DEF KindsOfSteps
<1>2. kind'[l] = "logout" /\ before'[l] = before[l] /\ before'[t] = before[t]
  BY <1>1, AnswersStay
<1>3. QED
  BY <1>2 DEF Undisturbed, Overlap

\* The steps that touch the refresh tokens; what any other step may do.
TokenStep(r) ==
    \/ SetKey(r) \/ AddToIndex(r) \/ ExtendIndex(r) \/ DeleteOldKey(r) \/ DropFromIndex(r)
    \/ ListTokens(r) \/ DeleteKey(r) \/ DeleteIndex(r) \/ GivesUp(r)

QuietMove(q) ==
    /\ pc'[q] \in {"sadd", "expire", "reply", "dels", "blacklist", "srem"} => pc[q] = pc'[q]
    /\ pc'[q] = "ok" => \/ pc[q] \in {"reply", "blacklist", "ok"}
                        \/ pc[q] = "loadAuth" /\ kind[q] = "call"
    /\ pc'[q] \in StoreSteps => \/ pc[q] = pc'[q]
                                \/ q \in swallowed'
                                \/ kind[q] \in {"login", "mistype"}

Quiet ==
    /\ UNCHANGED <<keys, index, outlived, hashes>>
    /\ \A q \in Requests : QuietMove(q)

LEMMA TokenFrame ==
    ASSUME TypeOK, KindsOfSteps, [Next]_vars
    PROVE  \/ \E r \in Requests : TokenStep(r)
           \/ \E t \in Requests : KeyExpires(t)
           \/ IndexExpires
           \/ RedisLost
           \/ Quiet
<1> USE DEF TypeOK, Quiet, QuietMove, StoreSteps
<1>1. ASSUME NEW r \in Requests, NEW k \in Kinds[r], NEW t \in Requests \cup {NoToken},
             Arrive(r, k, t)
      PROVE  Quiet
  BY <1>1, ArriveFrame DEF FirstStep, AllKinds
<1>2. ASSUME NEW r \in Requests, Handler(r) PROVE TokenStep(r) \/ Quiet
  <2> USE DEF Step, KindsOfSteps, LoginSteps, AuthSteps, RefreshSteps, LogoutSteps
  <2>1. CASE LoginGuard(r) \/ GuardFails(r) \/ LookUp(r) \/ LookUpFails(r)
    BY <2>1 DEF LoginGuard, GuardFails, LookUp, LookUpFails, Swallow
  <2>2. CASE \/ RegisterLoginFailure(r) \/ RegisterFails(r)
             \/ ResetLoginFailures(r) \/ ResetFails(r)
    BY <2>2 DEF RegisterLoginFailure, RegisterFails, ResetLoginFailures, ResetFails, Swallow
  <2>3. CASE Reply(r) \/ CheckRefresh(r) \/ LoadForRefresh(r) \/ RevokeFails(r)
    BY <2>3 DEF Reply, CheckRefresh, LoadForRefresh, RevokeFails, Swallow
  <2>4. CASE CheckBlacklist(r) \/ BlacklistAccessToken(r) \/ BlacklistFails(r)
    BY <2>4 DEF CheckBlacklist, BlacklistAccessToken, BlacklistFails, Swallow
  <2>5. CASE AuthLoad(r)
    BY <2>5 DEF AuthLoad
  <2>6. QED
    BY <1>2, <2>1, <2>2, <2>3, <2>4, <2>5 DEF Handler, TokenStep
<1>3. CASE Environment
  BY <1>3, EnvironmentFrame DEF Environment, WindowEnds, SetAccount, AccessExpires, BlacklistExpires
<1>4. CASE UNCHANGED vars
  BY <1>4 DEF vars
<1>5. QED
  BY <1>1, <1>2, <1>3, <1>4 DEF Next

\* The steps that can take a key away, and the one that makes it.
LEMMA KeysShrink ==
    ASSUME TypeOK, KindsOfSteps, [Next]_vars, NEW t \in Requests, t \in keys'
    PROVE  t \in keys \/ (SetKey(t) /\ pc[t] = "set" /\ pc'[t] = "sadd")
<1>1. ASSUME NEW r \in Requests, TokenStep(r) PROVE t \in keys \/ (SetKey(r) /\ r = t)
  BY <1>1 DEF TokenStep, SetKey, AddToIndex, ExtendIndex, DeleteOldKey, DropFromIndex,
     ListTokens, DeleteKey, DeleteIndex, GivesUp
<1>2. ASSUME SetKey(t) PROVE pc[t] = "set" /\ pc'[t] = "sadd"
  BY <1>2 DEF SetKey, Step, TypeOK
<1>3. QED
  BY <1>1, <1>2, TokenFrame DEF KeyExpires, IndexExpires, RedisLost, Quiet

\* Once its key is SET, a request can only finish storing it or give up.
LEMMA StoredMoves ==
    ASSUME TypeOK, KindsOfSteps, [Next]_vars, NEW t \in Requests,
           pc[t] \in {"sadd", "expire", "reply", "ok", "refused"}
    PROVE  pc'[t] \in {"sadd", "expire", "reply", "ok", "refused"}
<1>1. ASSUME NEW r \in Requests, NEW k \in Kinds[r], NEW u \in Requests \cup {NoToken},
             Arrive(r, k, u)
      PROVE  pc'[t] = pc[t]
  BY <1>1, ArriveFrame DEF TypeOK
<1>2. ASSUME NEW r \in Requests, Handler(r), r # t PROVE pc'[t] = pc[t]
  BY <1>2, HandlerFrame DEF TypeOK
<1>3. ASSUME Handler(t) PROVE pc'[t] \in {"sadd", "expire", "reply", "ok", "refused"}
  <2>1. pc[t] \in {"sadd", "expire", "reply"}
    BY <1>3, HandlerFrame
       DEF Running, LoginSteps, AuthSteps, RefreshSteps, StoreSteps, LogoutSteps
  <2>2. AddToIndex(t) \/ ExtendIndex(t) \/ Reply(t) \/ GivesUp(t)
    BY <1>3, <2>1
       DEF Handler, Step, LoginGuard, GuardFails, LookUp, LookUpFails, RegisterLoginFailure,
           RegisterFails, ResetLoginFailures, ResetFails, SetKey, CheckRefresh,
           LoadForRefresh, DeleteOldKey, DropFromIndex, RevokeFails, CheckBlacklist,
           AuthLoad, ListTokens, DeleteKey, DeleteIndex, BlacklistAccessToken, BlacklistFails
  <2>3. QED
    BY <2>2 DEF AddToIndex, ExtendIndex, Reply, GivesUp, Step, TypeOK
<1>4. CASE Environment
  BY <1>4, EnvironmentFrame
<1>5. CASE UNCHANGED vars
  BY <1>5 DEF vars
<1>6. QED
  BY <1>1, <1>2, <1>3, <1>4, <1>5 DEF Next

LEMMA KeysWereStoredStep ==
    ASSUME TypeOK, TypeOK', KindsOfSteps, KeysWereStored, [Next]_vars
    PROVE  KeysWereStored'
<1> SUFFICES ASSUME NEW t \in keys'
             PROVE  /\ kind'[t] \in {"login", "refresh"}
                    /\ pc'[t] \in {"sadd", "expire", "reply", "ok", "refused"}
  BY DEF KeysWereStored
<1>1. t \in Requests
  BY DEF TypeOK
<1>2. CASE t \notin keys
  BY <1>1, <1>2, KeysShrink, AnswersStay DEF KindsOfSteps, StoreSteps
<1>3. CASE t \in keys
  <2>1. kind'[t] \in {"login", "refresh"}
    BY <1>1, <1>3, AnswersStay DEF KeysWereStored
  <2>2. QED
    BY <1>1, <1>3, <2>1, StoredMoves DEF KeysWereStored
<1>4. QED
  BY <1>2, <1>3

\* A key that survives a step was stored before it, unless it is new.
LEMMA StoredBefore ==
    ASSUME TypeOK, KindsOfSteps, KeysWereStored, [Next]_vars, NEW t \in Requests,
           t \in keys', pc'[t] # "sadd"
    PROVE  /\ t \in keys /\ pc[t] # "idle"
           /\ pc[t] \in {"sadd", "expire", "reply", "ok", "refused"}
  BY KeysShrink DEF KeysWereStored

\* A running logout arrived after a request it does not disturb had finished.
LEMMA Finished ==
    ASSUME TypeOK, KindsOfSteps, Arrivals, NEW l \in Requests, NEW t \in Requests,
           pc[l] \in LogoutSteps, l # t, Undisturbed(t)
    PROVE  t \in before[l]
<1>1. kind[l] = "logout" /\ l \notin Answered
  BY DEF KindsOfSteps, Answered, LogoutSteps
<1>2. l \notin before[t]
  BY <1>1 DEF Arrivals
<1>3. QED
  BY <1>1, <1>2 DEF Undisturbed, Overlap

LEMMA IndexedStep ==
    ASSUME TypeOK, TypeOK', KindsOfSteps, Arrivals, KeysWereStored, Indexed, Listed, Revoked,
           [Next]_vars
    PROVE  Indexed'
<1> SUFFICES ASSUME NEW t \in keys', pc'[t] \in {"expire", "reply", "ok"}, Undisturbed(t)'
             PROVE  t \in index' /\ (pc'[t] # "expire" => t \in outlived')
  BY DEF Indexed
<1>1. /\ t \in Requests
      /\ t \in keys
      /\ pc[t] \in {"sadd", "expire", "reply", "ok", "refused"}
      /\ kind[t] \in {"login", "refresh"}
      /\ Undisturbed(t)
  <2>1. t \in Requests
    BY DEF TypeOK
  <2>2. QED
    BY <2>1, StoredBefore, UndisturbedBefore DEF KeysWereStored
<1>2. ASSUME NEW r \in Requests, TokenStep(r)
      PROVE  t \in index' /\ (pc'[t] # "expire" => t \in outlived')
  <2> USE DEF TypeOK, Step
  <2>1. CASE SetKey(r)
    BY <1>1, <2>1 DEF SetKey, Indexed
  <2>2. CASE AddToIndex(r)
    BY <1>1, <2>2 DEF AddToIndex, Indexed
  <2>3. CASE ExtendIndex(r)
    BY <1>1, <2>3 DEF ExtendIndex, Indexed
  <2>4. CASE DeleteOldKey(r)
    BY <1>1, <2>4 DEF DeleteOldKey, Indexed
  <2>5. CASE DropFromIndex(r)
    <3>1. token[r] # t
      BY <1>1, <2>5 DEF DropFromIndex, Revoked, KindsOfSteps, RefreshSteps
    <3>2. QED
      BY <1>1, <2>5, <3>1 DEF DropFromIndex, Indexed
  <2>6. CASE ListTokens(r) \/ DeleteKey(r)
    BY <1>1, <2>6 DEF ListTokens, DeleteKey, Indexed
  <2>7. CASE DeleteIndex(r)
    <3>1. pc[r] = "dels" /\ hashes[r] = {} /\ pc' = [pc EXCEPT ![r] = "blacklist"]
      BY <2>7 DEF DeleteIndex
    <3>2. t # r /\ t \in before[r]
      BY <1>1, <3>1, Finished DEF LogoutSteps
    <3>3. pc[t] = "ok"
      BY <1>1, <3>1, <3>2 DEF Arrivals, Answered
    <3>4. t \in hashes[r]
      BY <1>1, <3>1, <3>2, <3>3 DEF Listed
    <3>5. QED
      BY <3>1, <3>4
  <2>8. CASE GivesUp(r)
    BY <1>1, <2>8 DEF GivesUp, Indexed
  <2>9. QED
    BY <1>2, <2>1, <2>2, <2>3, <2>4, <2>5, <2>6, <2>7, <2>8 DEF TokenStep
<1>3. ASSUME NEW u \in Requests, KeyExpires(u)
      PROVE  t \in index' /\ (pc'[t] # "expire" => t \in outlived')
  BY <1>1, <1>3 DEF KeyExpires, Indexed
<1>4. CASE IndexExpires
  BY <1>1, <1>4 DEF IndexExpires, Indexed
<1>5. CASE RedisLost
  BY <1>5 DEF RedisLost
<1>6. CASE Quiet
  BY <1>1, <1>6 DEF Quiet, QuietMove, Indexed
<1>7. QED
  BY <1>2, <1>3, <1>4, <1>5, <1>6, TokenFrame

LEMMA ListedStep ==
    ASSUME TypeOK, TypeOK', KindsOfSteps, Arrivals, KeysWereStored, Indexed, Listed,
           [Next]_vars
    PROVE  Listed'
<1> SUFFICES ASSUME NEW l \in Requests, NEW t \in keys',
                    pc'[l] = "dels", t \in before'[l], pc'[t] = "ok", Undisturbed(t)'
             PROVE  t \in hashes'[l]
  BY DEF Listed
<1>1. /\ t \in Requests
      /\ t \in keys
      /\ pc[t] \in {"sadd", "expire", "reply", "ok", "refused"}
      /\ Undisturbed(t)
  <2>1. t \in Requests
    BY DEF TypeOK
  <2>2. QED
    BY <2>1, StoredBefore, UndisturbedBefore
<1>2. CASE pc[l] = "dels"
  <2>1. t \in before[l] /\ pc[t] = "ok"
    BY <1>1, <1>2, AnswersStay DEF Arrivals, Answered
  <2>2. t \in hashes[l]
    BY <1>1, <1>2, <2>1 DEF Listed
  <2>3. ASSUME NEW r \in Requests, TokenStep(r) PROVE t \in hashes'[l]
    <3> USE DEF TypeOK, Step
    <3>1. CASE DeleteKey(r)
      BY <2>2, <3>1 DEF DeleteKey
    <3>2. CASE ListTokens(r)
      BY <1>2, <2>2, <3>2 DEF ListTokens
    <3>3. CASE GivesUp(r)
      BY <1>2, <2>2, <3>3 DEF GivesUp
    <3>4. CASE \/ SetKey(r) \/ AddToIndex(r) \/ ExtendIndex(r) \/ DeleteOldKey(r)
               \/ DropFromIndex(r) \/ DeleteIndex(r)
      BY <2>2, <3>4 DEF SetKey, AddToIndex, ExtendIndex, DeleteOldKey, DropFromIndex,
         DeleteIndex
    <3>5. QED
      BY <2>3, <3>1, <3>2, <3>3, <3>4 DEF TokenStep
  <2>4. QED
    BY <2>2, <2>3, TokenFrame DEF KeyExpires, IndexExpires, RedisLost, Quiet
<1>3. CASE pc[l] # "dels"
  <2>1. ListTokens(l)
    <3>1. ASSUME NEW r \in Requests, TokenStep(r), ~ListTokens(r) PROVE FALSE
      BY <1>3, <3>1 DEF TokenStep, SetKey, AddToIndex, ExtendIndex, DeleteOldKey,
         DropFromIndex, DeleteKey, DeleteIndex, GivesUp, TypeOK, Step
    <3>2. ASSUME NEW r \in Requests, ListTokens(r) PROVE r = l
      BY <1>3, <3>2 DEF ListTokens, TypeOK, Step
    <3>3. QED
      BY <1>3, <3>1, <3>2, TokenFrame DEF KeyExpires, IndexExpires, RedisLost, Quiet, QuietMove
  <2>2. pc[l] = "list" /\ hashes'[l] = index /\ UNCHANGED <<before, keys>>
    BY <2>1 DEF ListTokens, Step, TypeOK
  <2>3. pc[t] = "ok"
    BY <1>1, <2>2, AnswersStay DEF Arrivals, Answered
  <2>4. QED
    BY <1>1, <2>2, <2>3 DEF Indexed
<1>4. QED
  BY <1>2, <1>3

LEMMA ClosedStep ==
    ASSUME TypeOK, TypeOK', KindsOfSteps, Arrivals, KeysWereStored, Indexed, Listed, Closed,
           [Next]_vars
    PROVE  Closed'
<1> SUFFICES ASSUME NEW l \in Requests, NEW t \in keys',
                    kind'[l] = "logout", pc'[l] \in {"blacklist", "ok"},
                    t \in before'[l], pc'[t] = "ok", Undisturbed(t)'
             PROVE  FALSE
  BY DEF Closed
<1>1. /\ t \in Requests
      /\ t \in keys
      /\ pc[t] \in {"sadd", "expire", "reply", "ok", "refused"}
      /\ Undisturbed(t)
  <2>1. t \in Requests
    BY DEF TypeOK
  <2>2. QED
    BY <2>1, StoredBefore, UndisturbedBefore
<1>2. pc[l] # "idle"
  BY HadArrived
<1>3. kind[l] = "logout" /\ t \in before[l] /\ pc[t] = "ok"
  <2>1. kind[l] = "logout" /\ t \in before[l]
    BY <1>2, AnswersStay
  <2>2. QED
    BY <1>1, <2>1, AnswersStay DEF Arrivals, Answered
<1>4. CASE pc[l] \in {"blacklist", "ok"}
  BY <1>1, <1>3, <1>4 DEF Closed
<1>5. CASE pc[l] \notin {"blacklist", "ok"}
  <2>1. ASSUME NEW r \in Requests, TokenStep(r) PROVE FALSE
    <3> USE DEF TypeOK, Step
    <3>1. CASE ListTokens(r)
      <4>1. r = l /\ index = {}
        BY <1>5, <3>1 DEF ListTokens
      <4>2. QED
        BY <1>1, <1>3, <4>1 DEF Indexed
    <3>2. CASE DeleteIndex(r)
      <4>1. r = l /\ pc[l] = "dels" /\ hashes[l] = {}
        BY <1>5, <3>2 DEF DeleteIndex
      <4>2. QED
        BY <1>1, <1>3, <4>1 DEF Listed
    <3>3. CASE \/ SetKey(r) \/ AddToIndex(r) \/ ExtendIndex(r) \/ DeleteOldKey(r)
               \/ DropFromIndex(r) \/ DeleteKey(r) \/ GivesUp(r)
      BY <1>5, <3>3 DEF SetKey, AddToIndex, ExtendIndex, DeleteOldKey, DropFromIndex,
         DeleteKey, GivesUp
    <3>4. QED
      BY <2>1, <3>1, <3>2, <3>3 DEF TokenStep
  <2>2. CASE Quiet
    <3>1. pc[l] = "reply"
      BY <1>3, <1>5, <2>2 DEF Quiet, QuietMove
    <3>2. QED
      BY <1>3, <3>1 DEF KindsOfSteps, StoreSteps
  <2>3. QED
    BY <1>5, <2>1, <2>2, TokenFrame DEF KeyExpires, IndexExpires, RedisLost
<1>6. QED
  BY <1>4, <1>5

LEMMA RevokedStep ==
    ASSUME TypeOK, TypeOK', KindsOfSteps, Arrivals, KeysWereStored, Revoked, [Next]_vars
    PROVE  Revoked'
<1> SUFFICES ASSUME NEW q \in Requests, kind'[q] = "refresh", token'[q] \in keys',
                    \/ pc'[q] = "srem"
                    \/ pc'[q] \in StoreSteps \cup {"ok"} /\ q \notin swallowed'
             PROVE  FALSE
  BY DEF Revoked
<1>1. pc[q] # "idle" /\ kind[q] = "refresh" /\ token'[q] = token[q]
  <2>1. pc[q] # "idle"
    BY HadArrived DEF StoreSteps
  <2>2. QED
    BY <2>1, AnswersStay
<1>2. /\ token[q] \in Requests /\ pc[token[q]] = "ok"
      /\ token[q] \in keys
  <2>1. token[q] \in Requests /\ pc[token[q]] = "ok"
    BY <1>1 DEF Arrivals, Issued
  <2>2. QED
    BY <1>1, <2>1, KeysShrink
<1>3. q \notin swallowed' => q \notin swallowed
  BY AnswersStay
<1>4. /\ pc[q] # "srem"
      /\ pc[q] \in StoreSteps \cup {"ok"} => q \in swallowed
  BY <1>1, <1>2 DEF Revoked
<1>5. ASSUME NEW r \in Requests, TokenStep(r) PROVE FALSE
  <2> USE DEF TypeOK, Step, StoreSteps
  <2>1. CASE DeleteOldKey(r)
    <3>1. CASE r = q
      BY <1>1, <2>1, <3>1 DEF DeleteOldKey
    <3>2. CASE r # q
      BY <1>3, <1>4, <2>1, <3>2 DEF DeleteOldKey
    <3>3. QED
      BY <3>1, <3>2
  <2>2. CASE SetKey(r) \/ AddToIndex(r) \/ ExtendIndex(r) \/ DropFromIndex(r)
    BY <1>3, <1>4, <2>2 DEF SetKey, AddToIndex, ExtendIndex, DropFromIndex
  <2>3. CASE ListTokens(r) \/ DeleteKey(r) \/ DeleteIndex(r) \/ GivesUp(r)
    BY <1>3, <1>4, <2>3 DEF ListTokens, DeleteKey, DeleteIndex, GivesUp
  <2>4. QED
    BY <1>5, <2>1, <2>2, <2>3 DEF TokenStep
<1>6. CASE Quiet
  <2>1. /\ pc'[q] = "srem" => pc[q] = "srem"
        /\ pc'[q] \in StoreSteps => pc[q] = pc'[q] \/ q \in swallowed'
    BY <1>1, <1>6 DEF Quiet, QuietMove
  <2>2. pc'[q] = "ok" => pc[q] \in {"reply", "blacklist", "ok"}
    BY <1>1, <1>6 DEF Quiet, QuietMove
  <2>3. pc[q] # "blacklist"
    BY <1>1 DEF KindsOfSteps, LogoutSteps
  <2>4. QED
    BY <1>3, <1>4, <2>1, <2>2, <2>3 DEF StoreSteps
<1>7. CASE (\E u \in Requests : KeyExpires(u)) \/ IndexExpires \/ RedisLost
  BY <1>3, <1>4, <1>7 DEF KeyExpires, IndexExpires, RedisLost
<1>8. QED
  BY <1>5, <1>6, <1>7, TokenFrame

LEMMA RotatedOnceStep ==
    ASSUME TypeOK, KindsOfSteps, Arrivals, Revoked, RotatedOnce, [Next]_vars
    PROVE  RotatedOnce'
<1> SUFFICES ASSUME NEW q \in Requests, NEW r \in Requests,
                    kind'[q] = "refresh", pc'[q] = "ok", q \notin swallowed',
                    kind'[r] = "refresh", token'[r] = token'[q], q \in before'[r]
             PROVE  pc'[r] \in {"check", "refused"}
  BY DEF RotatedOnce
<1>1. q \notin swallowed
  BY AnswersStay
<1>2. ASSUME NEW s \in Requests, NEW k \in Kinds[s], NEW u \in Requests \cup {NoToken},
             Arrive(s, k, u)
      PROVE  pc'[r] \in {"check", "refused"}
  <2>1. CASE s = r
    BY <1>2, <2>1, ArriveFrame DEF TypeOK, FirstStep, AllKinds
  <2>2. CASE s # r
    <3>1. UNCHANGED <<kind[r], token[r], before[r], pc[r]>>
      BY <1>2, <2>2, ArriveFrame DEF TypeOK
    <3>2. q \in Answered
      BY <3>1 DEF Arrivals
    <3>3. UNCHANGED <<kind[q], token[q], pc[q]>>
      BY <3>2, AnswersStay DEF Answered
    <3>4. QED
      BY <1>1, <3>1, <3>3 DEF RotatedOnce
  <2>3. QED
    BY <2>1, <2>2
<1>3. ASSUME UNCHANGED handlerVars PROVE pc[q] = "ok" /\ pc[r] \in {"check", "refused"}
  <2>1. pc[q] \in {"ok", "refused"}
    BY <1>3 DEF Arrivals, Answered
  <2>2. pc[q] = "ok"
    BY <2>1, AnswersStay
  <2>3. QED
    BY <1>1, <1>3, <2>2 DEF RotatedOnce
<1>4. ASSUME NEW s \in Requests, Handler(s) PROVE pc'[r] \in {"check", "refused"}
  <2>1. UNCHANGED handlerVars /\ pc' = [pc EXCEPT ![s] = pc'[s]] /\ pc[s] \in Running
    BY <1>4, HandlerFrame
  <2>2. pc[q] = "ok" /\ pc[r] \in {"check", "refused"}
    BY <1>3, <2>1
  <2>3. CASE s # r
    BY <2>1, <2>2, <2>3 DEF TypeOK
  <2>4. CASE s = r
    <3>1. pc[r] = "check"
      BY <2>1, <2>2, <2>4
         DEF Running, LoginSteps, AuthSteps, RefreshSteps, StoreSteps, LogoutSteps
    <3>2. CheckRefresh(r) \/ GivesUp(r)
      BY <1>4, <2>4, <3>1
         DEF Handler, Step, LoginGuard, GuardFails, LookUp, LookUpFails,
             RegisterLoginFailure, RegisterFails, ResetLoginFailures, ResetFails, SetKey,
             AddToIndex, ExtendIndex, Reply, LoadForRefresh, DeleteOldKey, DropFromIndex,
             RevokeFails, CheckBlacklist, AuthLoad, ListTokens, DeleteKey, DeleteIndex,
             BlacklistAccessToken, BlacklistFails
    <3>3. token[r] \notin keys
      BY <1>1, <2>1, <2>2 DEF Revoked
    <3>4. QED
      BY <3>2, <3>3 DEF CheckRefresh, GivesUp, Step, TypeOK
  <2>5. QED
    BY <2>3, <2>4
<1>5. CASE Environment
  BY <1>3, <1>5, EnvironmentFrame
<1>6. CASE UNCHANGED vars
  BY <1>3, <1>6 DEF vars
<1>7. QED
  BY <1>2, <1>4, <1>5, <1>6 DEF Next

-----------------------------------------------------------------------------
(* Access tokens, the account's state and the throttle.                    *)

\* How a blacklist entry can go, and how a logout comes to its answer.
LEMMA BlacklistFrame ==
    ASSUME TypeOK, KindsOfSteps, [Next]_vars
    PROVE  /\ expired \subseteq expired'
           /\ \A t \in blacklist : \/ t \in blacklist' \cup expired'
                                   \/ LoggedOut' \subseteq swallowed'
           /\ \A o \in LoggedOut' : \/ o \in LoggedOut
                                    \/ token'[o] \in blacklist'
                                    \/ o \in swallowed'
           /\ \A r \in Requests : pc'[r] = "loadAuth" =>
                 \/ pc[r] = "loadAuth"
                 \/ CheckBlacklist(r) /\ token[r] \notin blacklist
<1>1. ASSUME NEW r \in Requests, NEW k \in Kinds[r], NEW t \in Requests \cup {NoToken},
             Arrive(r, k, t)
      PROVE  /\ UNCHANGED <<expired, blacklist>>
             /\ LoggedOut' \subseteq LoggedOut
             /\ \A q \in Requests : pc'[q] = "loadAuth" => pc[q] = "loadAuth"
  <2>1. UNCHANGED <<expired, blacklist>>
    BY <1>1 DEF Arrive
  <2>2. QED
    BY <1>1, <2>1, ArriveFrame DEF TypeOK, LoggedOut, FirstStep, AllKinds
<1>2. ASSUME NEW r \in Requests, Handler(r)
      PROVE  /\ expired' = expired /\ blacklist \subseteq blacklist'
             /\ \A o \in LoggedOut' : \/ o \in LoggedOut
                                      \/ token'[o] \in blacklist'
                                      \/ o \in swallowed'
             /\ \A q \in Requests : pc'[q] = "loadAuth" =>
                   \/ pc[q] = "loadAuth"
                   \/ CheckBlacklist(q) /\ token[q] \notin blacklist
  <2> USE DEF TypeOK, KindsOfSteps, LoggedOut, Step, LoginSteps, AuthSteps, RefreshSteps,
              StoreSteps, LogoutSteps
  <2>1. CASE LoginGuard(r) \/ GuardFails(r) \/ LookUp(r) \/ LookUpFails(r)
    BY <2>1 DEF LoginGuard, GuardFails, LookUp, LookUpFails
  <2>2. CASE \/ RegisterLoginFailure(r) \/ RegisterFails(r)
             \/ ResetLoginFailures(r) \/ ResetFails(r)
    BY <2>2 DEF RegisterLoginFailure, RegisterFails, ResetLoginFailures, ResetFails
  <2>3. CASE SetKey(r) \/ AddToIndex(r) \/ ExtendIndex(r) \/ Reply(r)
    BY <2>3 DEF SetKey, AddToIndex, ExtendIndex, Reply
  <2>4. CASE \/ CheckRefresh(r) \/ LoadForRefresh(r)
             \/ DeleteOldKey(r) \/ DropFromIndex(r) \/ RevokeFails(r)
    BY <2>4 DEF CheckRefresh, LoadForRefresh, DeleteOldKey, DropFromIndex, RevokeFails
  <2>5. CASE CheckBlacklist(r) \/ AuthLoad(r)
    BY <2>5 DEF CheckBlacklist, AuthLoad
  <2>6. CASE ListTokens(r) \/ DeleteKey(r) \/ DeleteIndex(r) \/ GivesUp(r)
    BY <2>6 DEF ListTokens, DeleteKey, DeleteIndex, GivesUp
  <2>7. CASE BlacklistAccessToken(r) \/ BlacklistFails(r)
    BY <2>7 DEF BlacklistAccessToken, BlacklistFails, Swallow
  <2>8. QED
    BY <1>2, <2>1, <2>2, <2>3, <2>4, <2>5, <2>6, <2>7 DEF Handler
<1>3. CASE Environment
  <2>1. UNCHANGED <<kind, pc>>
    BY <1>3, EnvironmentFrame
  <2>2. /\ expired \subseteq expired'
        /\ \A t \in blacklist : t \in blacklist' \cup expired' \/ LoggedOut' \subseteq swallowed'
    BY <1>3, <2>1 DEF Environment, WindowEnds, IndexExpires, RedisLost, SetAccount, KeyExpires,
       AccessExpires, BlacklistExpires, LoggedOut
  <2>3. QED
    BY <2>1, <2>2 DEF LoggedOut
<1>4. CASE UNCHANGED vars
  BY <1>4 DEF vars, LoggedOut
<1>5. QED
  BY <1>1, <1>2, <1>3, <1>4 DEF Next

LEMMA BlacklistedStep ==
    ASSUME TypeOK, KindsOfSteps, Arrivals, Blacklisted, [Next]_vars
    PROVE  Blacklisted'
<1> SUFFICES ASSUME NEW o \in LoggedOut', o \notin swallowed'
             PROVE  /\ token'[o] \in blacklist' \cup expired'
                    /\ \A r \in Requests :
                          token'[r] = token'[o] /\ o \in before'[r] /\ pc'[r] = "loadAuth"
                          => token'[o] \in expired'
  BY DEF Blacklisted
<1>1. o \in Requests /\ o \notin swallowed /\ pc[o] # "idle"
  <2>1. o \in Requests
    BY DEF LoggedOut
  <2>2. o \notin swallowed
    BY <2>1, AnswersStay
  <2>3. pc[o] # "idle"
    BY <2>1, HadArrived DEF LoggedOut
  <2>4. QED
    BY <2>1, <2>2, <2>3
<1>2. token'[o] = token[o]
  BY <1>1, AnswersStay
<1>3. token[o] \in blacklist' \cup expired'
  BY <1>1, <1>2, BlacklistFrame DEF Blacklisted
<1>4. ASSUME NEW r \in Requests, token'[r] = token[o], o \in before'[r], pc'[r] = "loadAuth"
      PROVE  token[o] \in expired'
  <2>1. pc[r] = "loadAuth" \/ (CheckBlacklist(r) /\ token[r] \notin blacklist)
    BY <1>4, BlacklistFrame
  <2>2. pc[r] # "idle"
    BY <2>1 DEF CheckBlacklist, Step
  <2>3. token[r] = token[o] /\ o \in before[r]
    BY <1>4, <2>2, AnswersStay
  <2>4. o \in LoggedOut
    <3>1. o \in Answered
      BY <2>3 DEF Arrivals
    <3>2. QED
      BY <1>1, <3>1, AnswersStay DEF Answered, LoggedOut
  <2>5. token[o] \in expired
    BY <1>1, <2>1, <2>3, <2>4 DEF Blacklisted
  <2>6. QED
    BY <2>5, BlacklistFrame
<1>5. QED
  BY <1>2, <1>3, <1>4

LEMMA AccessRevokedStep ==
    ASSUME TypeOK, KindsOfSteps, Arrivals, Blacklisted, AccessRevoked, [Next]_vars
    PROVE  AccessRevoked'
<1> SUFFICES ASSUME NEW o \in LoggedOut', o \notin swallowed', NEW r \in Requests,
                    kind'[r] \in {"call", "logout"},
                    token'[r] = token'[o], o \in before'[r]
             PROVE  pc'[r] \in {"auth", "loadAuth", "refused"}
  BY DEF AccessRevoked
<1>1. o \in Requests /\ o \notin swallowed
  BY AnswersStay DEF LoggedOut
<1>2. ASSUME NEW s \in Requests, NEW k \in Kinds[s], NEW u \in Requests \cup {NoToken},
             Arrive(s, k, u), s = r
      PROVE  pc'[r] \in {"auth", "loadAuth", "refused"}
  BY <1>2, ArriveFrame DEF TypeOK, FirstStep, AllKinds
<1>3. ASSUME UNCHANGED <<kind[r], token[r], before[r]>>
      PROVE  /\ pc[r] \in {"auth", "loadAuth", "refused"}
             /\ pc[r] = "loadAuth" => token[r] \in expired
  <2>1. o \in Answered
    BY <1>3 DEF Arrivals
  <2>2. o \in LoggedOut /\ token[r] = token[o]
    BY <1>1, <1>3, <2>1, AnswersStay DEF Answered, LoggedOut
  <2>3. QED
    BY <1>1, <1>3, <2>2 DEF AccessRevoked, Blacklisted
<1>4. ASSUME NEW s \in Requests, NEW k \in Kinds[s], NEW u \in Requests \cup {NoToken},
             Arrive(s, k, u), s # r
      PROVE  pc'[r] \in {"auth", "loadAuth", "refused"}
  BY <1>3, <1>4, ArriveFrame DEF TypeOK
<1>5. ASSUME NEW s \in Requests, Handler(s)
      PROVE  pc'[r] \in {"auth", "loadAuth", "refused"}
  <2>1. UNCHANGED handlerVars /\ pc' = [pc EXCEPT ![s] = pc'[s]] /\ pc[s] \in Running
    BY <1>5, HandlerFrame
  <2>2. /\ pc[r] \in {"auth", "loadAuth", "refused"}
        /\ pc[r] = "loadAuth" => token[r] \in expired
    BY <1>3, <2>1
  <2>3. CASE s # r
    BY <2>1, <2>2, <2>3 DEF TypeOK
  <2>4. CASE s = r
    <3>1. pc[r] \in AuthSteps
      BY <2>1, <2>2, <2>4
         DEF Running, LoginSteps, AuthSteps, RefreshSteps, StoreSteps, LogoutSteps
    <3>2. CheckBlacklist(r) \/ AuthLoad(r) \/ GivesUp(r)
      BY <1>5, <2>4, <3>1
         DEF AuthSteps, Handler, Step, LoginGuard, GuardFails, LookUp, LookUpFails,
             RegisterLoginFailure, RegisterFails, ResetLoginFailures, ResetFails, SetKey,
             AddToIndex, ExtendIndex, Reply, CheckRefresh, LoadForRefresh, DeleteOldKey,
             DropFromIndex, RevokeFails, ListTokens, DeleteKey, DeleteIndex,
             BlacklistAccessToken, BlacklistFails
    <3>3. QED
      BY <2>2, <3>2 DEF CheckBlacklist, AuthLoad, GivesUp, Step, TypeOK
  <2>5. QED
    BY <2>3, <2>4
<1>6. CASE Environment
  BY <1>3, <1>6, EnvironmentFrame
<1>7. CASE UNCHANGED vars
  BY <1>3, <1>7 DEF vars
<1>8. QED
  BY <1>2, <1>4, <1>5, <1>6, <1>7 DEF Next

\* What the handlers leave to the environment.
LEMMA AccountFrame ==
    ASSUME NEW r \in Requests, Handler(r)
    PROVE  account' = account /\ shut' = shut
  BY DEF Handler, LoginGuard, GuardFails, LookUp, LookUpFails, RegisterLoginFailure,
     RegisterFails, ResetLoginFailures, ResetFails, SetKey, AddToIndex, ExtendIndex, Reply,
     CheckRefresh, LoadForRefresh, DeleteOldKey, DropFromIndex, RevokeFails, CheckBlacklist,
     AuthLoad, ListTokens, DeleteKey, DeleteIndex, BlacklistAccessToken, BlacklistFails,
     GivesUp

\* The account is looked up again on every way to a token or a handler.
LEMMA ShutOutStep ==
    ASSUME TypeOK, TypeOK', KindsOfSteps, ShutOutEverywhere, [Next]_vars
    PROVE  ShutOutEverywhere'
<1> DEFINE Beyond == StoreSteps \cup LogoutSteps \cup {"reset", "del", "srem", "ok"}
<1>1. shut' # {} => account' # "active"
  <2>1. ASSUME NEW r \in Requests, NEW k \in Kinds[r], NEW t \in Requests \cup {NoToken},
               Arrive(r, k, t)
        PROVE  shut' # {} => account' # "active"
    BY <2>1 DEF Arrive, ShutOutEverywhere
  <2>2. ASSUME NEW r \in Requests, Handler(r) PROVE shut' # {} => account' # "active"
    BY <2>2, AccountFrame DEF ShutOutEverywhere
  <2>3. CASE Environment
    BY <2>3 DEF ShutOutEverywhere, Environment, WindowEnds, IndexExpires, RedisLost,
       SetAccount, KeyExpires, AccessExpires, BlacklistExpires
  <2>4. CASE UNCHANGED vars
    BY <2>4 DEF vars, ShutOutEverywhere
  <2>5. QED
    BY <2>1, <2>2, <2>3, <2>4 DEF Next
<1> SUFFICES ASSUME NEW r \in shut' PROVE pc'[r] \notin Beyond
  BY <1>1 DEF ShutOutEverywhere
<1> r \in Requests
  BY DEF TypeOK
<1>2. ASSUME NEW s \in Requests, NEW k \in Kinds[s], NEW t \in Requests \cup {NoToken},
             Arrive(s, k, t)
      PROVE  pc'[r] \notin Beyond
  <2>1. CASE s = r
    BY <1>2, <2>1, ArriveFrame DEF TypeOK, FirstStep, AllKinds, StoreSteps, LogoutSteps
  <2>2. CASE s # r
    <3>1. r \in shut
      BY <1>2, <2>2 DEF Arrive
    <3>2. pc'[r] = pc[r]
      BY <1>2, <2>2, ArriveFrame DEF TypeOK
    <3>3. QED
      BY <3>1, <3>2 DEF ShutOutEverywhere
  <2>3. QED
    BY <2>1, <2>2
<1>3. ASSUME NEW s \in Requests, Handler(s) PROVE pc'[r] \notin Beyond
  <2>1. /\ pc' = [pc EXCEPT ![s] = pc'[s]]
        /\ r \in shut
        /\ pc[r] \notin Beyond
        /\ account # "active"
    BY <1>3, HandlerFrame, AccountFrame DEF ShutOutEverywhere
  <2>2. CASE s # r
    BY <2>1, <2>2 DEF TypeOK
  <2>3. CASE s = r
    <3> USE DEF TypeOK, Step, StoreSteps, LogoutSteps
    <3>1. CASE \/ LoginGuard(r) \/ GuardFails(r) \/ LookUp(r) \/ LookUpFails(r)
               \/ RegisterLoginFailure(r) \/ RegisterFails(r)
      BY <2>1, <3>1 DEF LoginGuard, GuardFails, LookUp, LookUpFails, RegisterLoginFailure,
         RegisterFails
    <3>2. CASE CheckRefresh(r) \/ LoadForRefresh(r) \/ CheckBlacklist(r) \/ AuthLoad(r)
      BY <2>1, <3>2 DEF CheckRefresh, LoadForRefresh, CheckBlacklist, AuthLoad
    <3>3. CASE GivesUp(r)
      BY <3>3 DEF GivesUp
    <3>4. QED
      BY <1>3, <2>1, <2>3, <3>1, <3>2, <3>3
         DEF Handler, ResetLoginFailures, ResetFails, SetKey, AddToIndex, ExtendIndex, Reply,
             DeleteOldKey, DropFromIndex, RevokeFails, ListTokens, DeleteKey, DeleteIndex,
             BlacklistAccessToken, BlacklistFails
  <2>4. QED
    BY <2>2, <2>3
<1>4. CASE Environment
  <2>1. r \in shut
    BY <1>4 DEF Environment, WindowEnds, IndexExpires, RedisLost, SetAccount, KeyExpires,
       AccessExpires, BlacklistExpires
  <2>2. QED
    BY <1>4, <2>1, EnvironmentFrame DEF ShutOutEverywhere
<1>5. CASE UNCHANGED vars
  BY <1>5 DEF vars, ShutOutEverywhere
<1>6. QED
  BY <1>2, <1>3, <1>4, <1>5 DEF Next

\* Only a reset of the counter or the end of its window lifts the lock.
LEMMA ThrottledStep ==
    ASSUME TypeOK, TypeOK', KindsOfSteps, Throttled, [Next]_vars
    PROVE  Throttled'
<1> USE DEF TypeOK
<1>1. ASSUME NEW r \in Requests, NEW k \in Kinds[r], NEW t \in Requests \cup {NoToken},
             Arrive(r, k, t)
      PROVE  Throttled'
  <2>1. locked' # {} => failures' >= MaxLoginFailures
    BY <1>1 DEF Arrive, Throttled
  <2>2. ASSUME NEW q \in locked', q \notin swallowed', kind'[q] \in {"login", "mistype"}
        PROVE  pc'[q] \in {"guard", "refused"}
    <3>1. CASE q = r
      BY <1>1, <2>2, <3>1, ArriveFrame DEF FirstStep, AllKinds
    <3>2. CASE q # r
      <4>1. q \in locked
        BY <1>1, <2>2, <3>2 DEF Arrive
      <4>2. QED
        BY <1>1, <2>2, <3>2, <4>1, ArriveFrame DEF Throttled, LockHolds
    <3>3. QED
      BY <3>1, <3>2
  <2>3. QED
    BY <2>1, <2>2 DEF Throttled, LockHolds
<1>2. ASSUME NEW r \in Requests, Handler(r), locked' # {}
      PROVE  /\ locked' = locked
             /\ failures \in Nat /\ failures' \in Nat /\ failures' >= failures
  BY <1>2 DEF Handler, LoginGuard, GuardFails, LookUp, LookUpFails, RegisterLoginFailure,
     RegisterFails, ResetLoginFailures, ResetFails, SetKey, AddToIndex, ExtendIndex, Reply,
     CheckRefresh, LoadForRefresh, DeleteOldKey, DropFromIndex, RevokeFails, CheckBlacklist,
     AuthLoad, ListTokens, DeleteKey, DeleteIndex, BlacklistAccessToken, BlacklistFails,
     GivesUp
<1>3. ASSUME NEW r \in Requests, Handler(r), locked' # {} PROVE Throttled'
  <2>1. failures >= MaxLoginFailures
    BY <1>2, <1>3 DEF Throttled
  <2>2. failures' >= MaxLoginFailures
    BY <1>2, <1>3, <2>1, SessionsAssumption
  <2>3. ASSUME NEW q \in locked', q \notin swallowed', kind'[q] \in {"login", "mistype"}
        PROVE  pc'[q] \in {"guard", "refused"}
    <3>1. /\ pc' = [pc EXCEPT ![r] = pc'[r]] /\ pc[r] \in Running
          /\ q \in locked /\ q \notin swallowed /\ kind[q] \in {"login", "mistype"}
      BY <1>2, <1>3, <2>3, HandlerFrame
    <3>2. pc[q] \in {"guard", "refused"}
      BY <3>1 DEF Throttled, LockHolds
    <3>3. CASE q # r
      BY <3>1, <3>2, <3>3
    <3>4. CASE q = r
      <4>1. pc[r] = "guard"
        BY <3>1, <3>2, <3>4
           DEF Running, LoginSteps, AuthSteps, RefreshSteps, StoreSteps, LogoutSteps
      <4>2. LoginGuard(r) \/ GuardFails(r) \/ GivesUp(r)
        BY <1>3, <4>1
           DEF Handler, Step, LookUp, LookUpFails, RegisterLoginFailure, RegisterFails,
               ResetLoginFailures, ResetFails, SetKey, AddToIndex, ExtendIndex, Reply,
               CheckRefresh, LoadForRefresh, DeleteOldKey, DropFromIndex, RevokeFails,
               CheckBlacklist, AuthLoad, ListTokens, DeleteKey, DeleteIndex,
               BlacklistAccessToken, BlacklistFails
      <4>3. CASE LoginGuard(r)
        BY <2>1, <3>4, <4>3 DEF LoginGuard, TooMany, Step
      <4>4. CASE GuardFails(r)
        BY <2>3, <3>4, <4>4 DEF GuardFails, Swallow
      <4>5. CASE GivesUp(r)
        BY <3>4, <4>5 DEF GivesUp, Step
      <4>6. QED
        BY <4>2, <4>3, <4>4, <4>5
    <3>5. QED
      BY <3>3, <3>4
  <2>4. QED
    BY <2>2, <2>3 DEF Throttled, LockHolds
<1>4. CASE locked' = {}
  BY <1>4 DEF Throttled, LockHolds
<1>5. CASE UNCHANGED <<failures, locked, swallowed, kind, pc>>
  BY <1>5 DEF Throttled, LockHolds
<1>6. QED
  <2>1. ASSUME Environment
        PROVE  locked' = {} \/ UNCHANGED <<failures, locked, swallowed, kind, pc>>
    BY <2>1, EnvironmentFrame
       DEF Environment, WindowEnds, IndexExpires, RedisLost, SetAccount, KeyExpires,
           AccessExpires, BlacklistExpires
  <2>2. CASE UNCHANGED vars
    BY <1>5, <2>2 DEF vars
  <2>3. QED
    BY <1>1, <1>3, <1>4, <1>5, <2>1, <2>2 DEF Next

-----------------------------------------------------------------------------
(* The theorems.                                                           *)

LEMMA IInvInit == Init => IInv
<1> SUFFICES ASSUME Init PROVE IInv
  OBVIOUS
<1>1. TypeOK
  BY TypeInit
<1>2. KindsOfSteps
  BY DEF Init, KindsOfSteps, LoginSteps, AuthSteps, RefreshSteps, StoreSteps, LogoutSteps
<1>3. Arrivals /\ KeysWereStored /\ Indexed /\ Listed /\ Closed
  BY DEF Init, Arrivals, KeysWereStored, Indexed, Listed, Closed
<1>4. Revoked /\ RotatedOnce
  BY DEF Init, Revoked, RotatedOnce
<1>5. Blacklisted /\ AccessRevoked
  BY DEF Init, Blacklisted, AccessRevoked, LoggedOut
<1>6. ShutOutEverywhere /\ Throttled
  BY DEF Init, ShutOutEverywhere, Throttled, LockHolds
<1>7. QED
  BY <1>1, <1>2, <1>3, <1>4, <1>5, <1>6 DEF IInv

LEMMA IInvStep == IInv /\ [Next]_vars => IInv'
<1> SUFFICES ASSUME IInv, [Next]_vars PROVE IInv'
  OBVIOUS
<1> USE DEF IInv
<1>1. TypeOK' /\ KindsOfSteps' /\ Arrivals'
  BY TypeStep, KindsStep, ArrivalsStep
<1>2. KeysWereStored' /\ Indexed' /\ Listed' /\ Closed'
  BY <1>1, KeysWereStoredStep, IndexedStep, ListedStep, ClosedStep
<1>3. Revoked' /\ RotatedOnce'
  BY <1>1, RevokedStep, RotatedOnceStep
<1>4. Blacklisted' /\ AccessRevoked'
  BY BlacklistedStep, AccessRevokedStep
<1>5. ShutOutEverywhere' /\ Throttled'
  BY <1>1, ShutOutStep, ThrottledStep
<1>6. QED
  BY <1>1, <1>2, <1>3, <1>4, <1>5

\* The inductive invariant holds in every reachable state.
THEOREM SessionsInvariant == Spec => []IInv
  BY IInvInit, IInvStep, PTL DEF Spec

\* The handlers' variables and the Redis keys have their types throughout.
THEOREM SessionsTyped == Spec => []TypeOK
<1>1. IInv => TypeOK
  BY DEF IInv
<1>2. QED
  BY <1>1, SessionsInvariant, PTL

\* RevokeAllRefreshTokens: however requests interleave and Redis fails, an
\* answered logout leaves no refresh token alive that had been issued before
\* it arrived and without another logout running at the time.
THEOREM LogoutRevokes == Spec => []LogoutRevokesSettled
<1>1. IInv => LogoutRevokesSettled
  BY DEF IInv, Closed, LogoutRevokesSettled, LoggedOut, Issued
<1>2. QED
  BY <1>1, SessionsInvariant, PTL

\* RefreshToken: a token whose exchange was revoked in Redis is never
\* exchanged by a later request.
THEOREM ExchangedOnce == Spec => []RotatedOnce
<1>1. IInv => RotatedOnce
  BY DEF IInv
<1>2. QED
  BY <1>1, SessionsInvariant, PTL

\* Auth: a blacklisted access token opens no handler again, as long as Redis
\* keeps its data.
THEOREM AccessStaysRevoked == Spec => []AccessRevoked
<1>1. IInv => AccessRevoked
  BY DEF IInv, AccessRevoked
<1>2. QED
  BY <1>1, SessionsInvariant, PTL

\* Auth, Login and RefreshToken: an account that is not active gets nothing.
THEOREM InactiveShutOut == Spec => []ShutOut
<1>1. IInv => ShutOut
  BY DEF IInv, ShutOutEverywhere, ShutOut
<1>2. QED
  BY <1>1, SessionsInvariant, PTL

\* Login: a locked account's logins wait for the end of the lock.
THEOREM LockIsKept == Spec => []LockHolds
<1>1. IInv => LockHolds
  BY DEF IInv, Throttled
<1>2. QED
  BY <1>1, SessionsInvariant, PTL

=============================================================================
