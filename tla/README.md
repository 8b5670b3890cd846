# A verification of the KFC CRM

`kfc-crm` is the back office of a restaurant chain: a Go service with a REST
API for the staff, a gRPC API for the other services, PostgreSQL for its data,
Redis for its sessions, MinIO for photos and an outbox that feeds Kafka. This
directory holds TLA+ modules that model it, the TLC configurations that check
them on small instances and the theorems about them that TLAPS proves.

    tlc -workers 2 -config MCOutbox.cfg MCOutbox     # one run
    tlapm OutboxProofs.tla                           # one component's proofs

`PROJECT.json` names the runs, maps every definition to the lines it models,
and lists the hazards, findings and theorems.

## 1. Inventory

| Component | State it keeps | Operations | What is hard | What makes it correct |
|---|---|---|---|---|
| Outbox and relay (`pkg/outbox`, `internal/events`, wiring in `app.go`) | `outbox` table, an advisory lock, each relay's batch and backoff, the Kafka topic | insert an event, poll, drain in batches, mark, purge | replicas, lost sessions, partial batches, lost answers, crashes, brokers that fail with what they alone have | marked only after the partition had it; order per key; the lock excludes; every committed event reaches Kafka |
| Authentication and sessions (`auth_service`, `token_repo`, `middleware/auth`) | Redis: `refresh_token:*`, `user_tokens:*`, `blacklist:*`, `login:fail:*` | Login, RefreshToken, Logout, the Auth middleware | commands of concurrent requests in between (plain pipelines), swallowed Redis errors, TTLs | a logout revokes; a refresh token works once; an inactive account is shut out; the throttle holds |
| Roles and permissions (`domain/rbac`, `rbac_service`) | none | one rule per operation | rules read stale rows; three columns describe a scope | no escalation, no reach beyond the creator's |
| Staff accounts (`user_service`, `user_repo`) | `users` | CreateUser, Update, Delete, FirstLoginSetup, ChangePassword, List, GetByID | read, decide, write in separate queries; soft deletes; fire-and-forget mail | one account per address; deletions are final; decisions stay valid |
| Effective menu (`effective_menu_service`, `effective_menu_repo`, gRPC `menu_server`) | none; reads six tables | GetEffectiveMenu | queries without a snapshot, promotion boundaries, prices | the menu is that of one moment; what is for sale all along is on it; `ValidUntil` |
| Menu catalogue (categories, items, variations, overrides, promotions) | the six tables | create, update, delete each; publish the change | read-modify-write, publication after the commit | whatever changes a menu is announced |
| Device pairing (`device_service`, `userapi_client`) | `devices`; codes and tokens live in kfc-userapi | Create, Update, Delete, PairDevice, PairAllDevices | two systems, no transaction; calls that time out after they took effect | a deleted device cannot be paired; the code shown is the one stored |
| Photo storage (`pkg/storage`, SetPhoto and RemovePhoto) | MinIO objects, `image_key` columns | upload, replace, remove | row and object are written apart; a sticky `sync.Once` | a row points at an object that kiosks can read; no orphans but explained ones |
| Regions and restaurants | two tables | create, update, soft delete | dependants of deleted rows | nothing refers to what cannot be found |
| Restaurant directory (gRPC) and orders view | none | lists built by offset paging | rows come and go between pages | what exists throughout is listed once |
| Customers and loyalty | kept by kfc-loyalty | AdjustPoints, lookups | retried calls | an adjustment counts once unless something failed |
| Migration runner (`pkg/migrate`) | `schema_migrations`, an advisory lock | Up | replicas starting together, crashes, lost sessions | each file applied once, in order; who serves finds its schema |
| Wiring and shutdown (`app.go`, `main.go`, both servers) | clients and pools of a process | start, serve, drain, close | one timeout for both servers; goroutines nobody waits for | requests are cut off only when time is out; a stop ends |
| HTTP routing, gRPC interceptors, configuration, passwords, tokens, validation, logging, metrics, pools, generated code | none of their own | | | not modelled; see section 14 |

How they interact. A handler calls one service; the service asks
`RBACService` with the row the Auth middleware loaded for the caller, reads and
writes through repositories, one query at a time, and after a menu change calls
`events.Publisher`, which inserts into the outbox. The relay of each replica
reads that table and writes to Kafka, where kfc-userapi listens to drop its
cached menus; it then asks the CRM for the effective menu by gRPC. Sessions
and accounts meet in the Auth middleware, which loads the `users` row for each
request. Pairing calls kfc-userapi and kfc-notification directly. The only
transactions span a promotion with its items and the relay's batch; the only
lock is the relay's advisory lock. Everything else interleaves.

## 2. Plan

In the order of what depends on it and what breaks most. All eight steps are done:

1. `AtLeastOnceQueue`, `Outbox`, `OutboxProofs`.
2. `Sessions`, `SessionsProofs`.
3. `RBAC`, `Users`, `UsersProofs`.
4. `EffectiveMenu`, `EffectiveMenuProofs`.
5. `Catalogue`: the catalogue's handlers, `AtLeastOnceQueue` in place of the
   outbox (which is proved to implement it, so relays and locks need not be
   modelled again), and kfc-userapi's cache; `CatalogueProofs`.
6. `DevicePairing`: devices, codes and tokens over an unreliable call;
   `DevicePairingProofs`.
7. `Photos`: rows and objects, with ambiguous answers and the sticky check;
   `PhotosProofs`.
8. `Organisation`, extended by `Directory`, extended by `Orders`; `Replicas`,
   extended by `Peers`; `PeersProofs` about both, which share no variable: what
   passes between this service and its peers.

Every safety property of the passing runs is now a theorem as well. Left: larger
scenarios of three requests for `Catalogue`, and the parts that section 14 lists as
left out of the modelled components.

## 3. Conventions

One step per query, Redis command or remote call; what Go code does between two
of them is part of the step. Errors and crashes consume `MaxFaults`, so that
"at most k failures" is a bound of the run and not of the theorems. Entities
that exist at most once per request carry its name: an account is named by the
request that created it, a token pair by the request it was issued to, an
outbox row by the change it announces. Handlers that have many steps and few
branches (`Catalogue`, `Photos`, `Organisation`, `Directory`) are given as a
script, the sequence of their queries, of which `todo[q]` is the rest; what a
query does and when the handler ends in an error is written once for all that
share it. `Scenarios`, `Asks`, `Calls` and `Sendings` bound what requests ask for
in a run, together where their combination matters. History variables are marked "history"
where they are declared and are read by no guard. Operators under a comment
"Mutant" and those named `...Anyway`, `...Unchecked` and the like are broken
variants of the definition that follows them; `PROJECT.json` says which property
each of them breaks. Nothing else uses them.

A run checks conjunctions where facts belong together; the sections below speak of
their parts, which are definitions of their own:

| Checked as | In | Parts |
|---|---|---|
| `IInv` | `outbox` | `TypeOK`, `LeaderOwnsBatch`, `SentReachedKafka`, `NoOvertaking` and what the proofs add |
| `IInv` | `sessions` | `TypeOK`, `AccessRevoked`, `RotatedOnce` and what the proofs add |
| `IInv` | `users` | `TypeOK`, `OldPasswordDead`, `NoEscalation`, `AdminsStay`, and `RowsSound`, which implies `OneAccountPerEmail` |
| `WritesSound` | `users_manage` | `ChangedByOverseer`, `DeletedStaysDeleted`, `ReactivatedKnowingly` |
| `IInv` | `effective_menu` | the types, `StaysOnMenu`, `StaysOff` and what the proofs add |
| `CatalogueInv`, `ChangesSound` | `catalogue` | `TypeOK`, `StaleIsAnnounced`; `ChangedWithinScope`, `DeletedStaysDeleted`, `ActivatedKnowingly` |
| `OrdersInv`, `ChangesSound` | `orders` | `OrdersTypeOK`, `ToldOnlyVisible`, `OrdersInScope`; `ChangedWithinScope`, `DeletedStaysDeleted`, `CancelledInScope` |
| `PhotosInv` | `photos` | `TypeOK`, `PointsAtObject`, `PhotoServed`, `ChangeIsTold` |
| `PeersInv`, `AllEnd` | `replicas` | `TypeOK`, `AppliedIfAnswered`, `TwiceNeedsFault`, `MailLostByStop`; `StartEnds`, `StopEnds` |
| `DevicesInv` | `devices` | `TypeOK`, `CodesFromScope`, `ReadableIsListed` |

## 4. Outbox

| Model | Code |
|---|---|
| `row[c]`, `id`, `lastId` | the row of change `c`: published_at, BIGSERIAL id |
| `ApplyChange`, `DrawId`, `CommitInsert`, `InsertFails` | a service's commit, then `PublishMenuUpdated` and `Enqueue`, whose error is logged only |
| `lock`, `CanLock`, `TryLock`, `NotLeader`, `LoseSession` | `pg_try_advisory_xact_lock` in the relay's transaction, and the loss of its session |
| `Wake`, `BackoffOver`, `LeaveBatch`, `NextDelay` | `Run`: ticker or notify, drain loop, backoff |
| `SelectRows`, `WriteMessage`, `AckLost`, `WriteDone`, `WriteFails`, `LateArrival`, `MarkSent`, `MarkFails` | `publishBatch`: SELECT, WriteMessages, UPDATE and COMMIT |
| `Purge`, `Crash`, `Restart` | the cleanup ticker, shutdown or death of a replica |
| `LeaderFails`, `dropped` | a partition's leader that dies with messages its followers do not have (external) |

Kafka is external, seen through kafka-go as the code configures it
(`producer.go:26-28`): the hash balancer keeps a key on one partition,
`WriteMessages` is not asynchronous, and `RequireOne` makes it wait for the
partition's leader and for no follower. A message whose answer was lost may be
appended again, or later (`late`), also after the writer gave up. A message that was
acknowledged may be lost: `LeaderFails` cuts any number of the newest messages off
a partition, as when a follower that lacks them takes over. How far the followers
have come is not a variable: any prefix may be what they have, so the choice is made
when the leader fails. That includes what every follower had (an unclean election,
or all replicas gone), so a little more is lost than Kafka would lose. `dropped` is
the history of what was; `Reached` says that an event is in its partition or was lost
so. The relay does not notice, marks the row and purges it.

What is promised is therefore: no fault of the database, of a replica or of a write
makes the relay mark or purge a row that its partition never had
(`SentReachedKafka`), and what is missing in Kafka after that is in `dropped`, which
only a failing leader fills. That the event stays in Kafka is not promised, nor that
a later event of its key does not come without it.

`id` is drawn by the INSERT before it commits, so a row may become visible
after one with a larger id was sent. "In order" can only mean: in order of id
among rows committed earlier. `behind[c]` records exactly these, and
`NoOvertaking` says they are in the topic before `c`, but for those in `dropped`.
It needs most of the protocol: selecting the oldest rows, writing a key's rows in
order and never marking a batch of which a part is missing.

`AtLeastOnceQueue` is the promise without replicas, lock, batches or failures:
accept, deliver (again), retire what was delivered; its partitions may lose their
newest messages at any time (`Drop`). `ImplementsQueue` is its `Spec` under the
mapping `Status`; `ImplementsFairQueue` its `FairSpec`.

Runs. `outbox` (two events of one key, two relays, batches of two, two failures)
has all safety properties, the inductive invariant, the refinement and, under
fairness, the fair refinement. Two events of one key are what it takes to
overtake, a batch of two can be full or partly written, a second relay gives
contention, and two failures of any kind at any point are enough to depose a
leader while it writes and to hit its successor, or to lose a message that was
acknowledged and then its copy. `outbox_lost` is a finding.

Fairness. `WF` of a request's INSERT (the goroutine goes on unless something
fails), of a relay's own steps (the ticker fires every second, and the loop
returns to it from everywhere) and of a restart (the orchestrator's). No
fairness for changes, failures, purges and late messages, nor for winning the
lock: with failures bounded, a lock that is free is taken by whoever polls.

Proofs (`OutboxProofs`), for any changes, keys, replicas, batch size and number
of failures. What is wanted is not inductive: a deposed leader may still write,
so nothing about the present lock holder says why its late messages do not
overtake. `IInv` adds what a relay holds in `batch` whether or not it still
leads (`HoldsBatch`: it comes with every row ahead of it that has not reached Kafka),
and what is on its way (`TopicInv`). An event that has reached Kafka counts as such
for ever (`ReachedStays`), which is what makes the rest independent of leaders that
fail: their cut moves events from the topic to `dropped`, and leaves the order of the
others as it was (`CutKeepsReached`, `CutKeepsOrder`). From `IInv` follow
`SentReachedKafka`, `NoOvertaking` and `LeaderOwnsBatch`; `QueueImplemented` uses them to map each
step to an `Accept`, `Deliver`, `Drop`, `Retire` or a stutter. `NoDuplicateWithoutFault`
needs an invariant of its own, of behaviours without a failure (`Undisturbed`):
nothing is on its way without a writer, a relay past the lock still has it, and an
event in Kafka that is not marked is one this relay holds as acknowledged. The
fair refinement is checked by TLC only.

## 5. Sessions

| Model | Code |
|---|---|
| `failures` | `login:fail:<email>` with its window |
| `keys`, `index`, `timed`, `outlived` | `refresh_token:<user>:<hash>`, the set `user_tokens:<user>` and how far its TTL reaches |
| `blacklist`, `expired` | `blacklist:<hash>`, access tokens past `exp` |
| `LoginGuard` .. `ResetLoginFailures` | Login: throttle, account, password, reset |
| `SetKey`, `AddToIndex`, `ExtendIndex` | StoreRefreshToken, a plain pipeline |
| `CheckRefresh` .. `DropFromIndex`, `RevokeFails` | RefreshToken |
| `CheckBlacklist`, `AuthLoad` | the Auth middleware |
| `ListTokens`, `DeleteKey`, `DeleteIndex`, `BlacklistAccessToken` | Logout |
| `GuardFails`, `RegisterFails`, `ResetFails`, `RevokeFails`, `BlacklistFails` | Redis errors that are logged and ignored |
| `SetAccount`, `KeyExpires`, `IndexExpires`, `AccessExpires`, `BlacklistExpires`, `WindowEnds`, `RedisLost` | what happens around the requests |

One account is enough: no key is shared by two. Redis runs a command at a time;
`Pipeline`, unlike `TxPipeline`, lets other clients in between, so each command
is a step. One assumption: the index, which lives for days, does not expire
between the SADD and the EXPIRE of one pipeline. Signing and parsing of tokens
and bcrypt are not modelled: a token is the request it was issued to, a login
with a wrong password is its own kind of request.

Properties. A request *arrived after* another was answered is `a \in before[b]`;
otherwise they overlap, and most promises can only hold for requests in order.
`LogoutRevokesSettled` excludes tokens whose issue overlapped some logout: for
those the promise is false (section 13). `RotatedOnce` excludes an
exchange whose revocation Redis refused, which the code ignores on purpose;
`LockHolds` a login whose guard could not read the counter. `AccessRevoked` and
`ShutOut` are about what Auth lets through; tokens whose logout was answered
before Redis lost its data are in `swallowed`, and not promised anything.

Run. `sessions`: three requests of one account that is deactivated, reactivated
or deleted at any point, keys expiring, and two errors, crashes or losses of
Redis' data. The mixes of requests (`Mixed`) are a session that is used,
exchanged and closed beside another one, and right and wrong passwords around a
throttle of one failure; the real limit of ten differs from one only in how often
`count` is taken. What cannot interact is kept apart by the kinds a request may
be of. No fairness: a request may stop anywhere, and nothing here promises that
something happens. Deadlock is not checked: when all requests are answered nothing
need happen.

Proofs (`SessionsProofs`), for any number of requests and failures. The
invariant behind the logout: a live key whose store no logout disturbed is in
the index, and the index outlives it (`Indexed`); a logout between SMEMBERS and
its last DEL still has it in its list (`Listed`); after that it is gone
(`Closed`). `RotatedOnce` needs that a token once deleted is never SET again
(`KeysWereStored`, `Revoked`). `AccessStaysRevoked` rests on a blacklist
entry that lives as long as any token it stands for, from the same duration
counted later (`Blacklisted`).

## 6. RBAC and Users

`RBAC` holds the permissions, the levels and the rules for users as pure
operators on rows and is extended by `Users`. Regions and restaurants can be
deleted under way (`Removals`).

| Model | Code |
|---|---|
| `users` | the table; soft-deleted rows stay and keep their unique e-mail address |
| `Arrive...`, `actor` | the Auth middleware loads the caller, the services decide by that row |
| `FindRegion`, `FindRestaurant`, `CheckEmail`, `InsertUser`, `InsertConflicts` | CreateUser and CanCreateUser, a query a step |
| `LoadForUpdate`, `WriteUpdate` and the like | Update, Delete, FirstLoginSetup, ChangePassword: load, decide, write back |
| `Reply`, `GivesUp` | the answer; an error or crash, before or after the write |
| `Listed`, `CanReadUser` | List's filter, GetByID |

A password is the account it was generated for or the request that chose it.
Names and phone numbers are left out; the welcome mail, which a detached
goroutine sends and nobody waits for, is in `Peers`.

Properties. `NoEscalation`: rank and reach go down along any chain of creations;
this relies on role, region and restaurant never changing, which in turn relies
on every UPDATE writing back the columns of a row loaded earlier.
`ChangedByOverseer` and `ReactivatedKnowingly` say what the read-modify-write
can and cannot do; `OpenedIsListed` relates two rules written apart;
`OldPasswordDead` needs the check, the write and the answer of several handlers.

Runs. `users`: two creations and a third request by whoever exists by then, a
region and a restaurant being deleted: two creations in a row are the shortest
chain, the third works on the result, and the five bodies of `Hires` cover each
combination of region and restaurant, inconsistent and foreign ones included.
`users_manage`: an update, a set-up or password change, and a deletion side by
side by three ranks in two regions, with one failure. `users_activation`
is a finding. No fairness; deadlock unchecked, as above.

Proofs (`UsersProofs`), for any organisation, staff, addresses, bodies and
number of requests. Decisions are taken on copies; what saves them is that a
copy may be stale in its activation and its password but never in rank and
scope (`SamePost` in `HandlersSound`). That part of the invariant carries
`NoEscalation`, `AdminsStay` and `ChangedByOverseer`. `PasswordsSound` says that a
password belongs to one account for ever and a replaced one to none.
`WritesAreSound` puts the three action properties together.
`OpenedIsListed` holds for any two rows, reachable or not, by a case analysis, and is
proved too (`ListCoversReads`).

## 7. Effective menu

| Model | Code |
|---|---|
| `db` | the six tables behind a menu, one restaurant's overrides; a soft-deleted row is `"deleted"` |
| `CreateCategory` .. `DeletePromotion` | the repositories' statements; a promotion and its items in one transaction |
| `pc`, `LoadCategories` .. `loadPromotionItems` | computeEffectiveMenu, a query a step; promotions first, then the items of each |
| `buildPromotionIndex`, `applyDiscount`, `buildEffectiveItem`, `Assemble` | the merge, in memory, in one step |
| `NextPromotionChange`, `validUntil` | the last query |
| `QueryFails` | any error: no menu |
| `Tick` | the clock: `time.Now()` is taken for the promotions and again for `GeneratedAt` |

`IsMenu(m, t, x)` says what a menu of the tables `t` at the instant `x` is,
without folding over anything: who is on it, the set of promotions that nothing
running is better than, the price. The code's merge is checked against it in
every state the run reaches.

Properties. `MenuOfOneMoment`: the menu is the one before or the one after a
write that came in between. That a single write never mixes is not a matter of
course: an item's row, its override and its category are read at three moments,
and it holds because what one write changes is read once, before or after it.
Two exceptions were found by leaving their premise out: two writes can give a
menu that never was, and so can one update of a promotion that replaces its
items (`retargeted`), whose row and items are read by two queries
(`effective_menu_repo.go:174`, `180`), so that the old discount is given on the
new items. `StaysOnMenu` and `StaysOff` hold for any number of writes. The item
has to stay in its category: one that moves to a category created after
LoadCategories ran is in neither category. `StaysValid` is the promise of `ValidUntil`;
without `NothingTurns` it is false, since a promotion that starts or ends
between the two readings of the clock is neither applied nor a boundary any
more.

Run. `effective_menu`: two categories, two items, a size, two promotions, four
initial catalogues, two writes and two ticks of the clock. One item can be moved
while another stays, an item can be targeted or not, and two promotions can
compete or hand over to each other; the offers are a percentage, an amount and an
amount above any price, with adjoining periods. Two writes are what separates the
properties about one moment from those about what stayed. Nothing here promises
an answer, so there is no fairness, and a computation that is done stops.

Proofs (`EffectiveMenuProofs`), for any catalogue, schedule and number of
writes. Every write is an `Edit` to tables of their types, so one lemma shows what
a write preserves: the sets of what stayed so only shrink, and what was read
agrees with them (`ReadsAgree`), whichever moment it was read at. `StaysValid`
follows from the bound on `validUntil` and the order of the two instants
(`ClockSound`).

`MenuOfOneMoment` has an invariant of its own, `MomentInv`. It is not enough that the
menu is right when it is done: half-way through, it must be known that it will be. So
`MomentInv` says that until the second write there is a moment, the first or the
present one, such that all that was read is of that moment (`ReadFrom`) and all that
is left to read is alike in it and in the tables (`LeftAlike`). A query extends the
first part by the second. A write changes one table (`OneTable`): if that table has
been read, the moment before the write stays the one; if not, nothing read so far
tells the two apart, and the moment after it takes over (`WriteSplitsMoments`). The
promotions are the one table read by two queries, which is why the write must not
replace the items of one that exists. That the merge of what was read of one moment
is `IsMenu` of it (`AssembledMenu`) rests on the order of the promotions: the index
keeps for each item one that nothing running is better than (`BestOfMoment`). The
loop of the index is a recursive function, and what it computes is shown by taking
the least place at which the claim would fail. One assumption is added: the promotions
are finitely many, as rows of a table are, so that the query lists them all.

Not modelled: the load of the restaurant (its region is fixed), names, images and
order of the entries, floating-point rounding of percentages.

## 8. Menu catalogue and what kiosks see

| Model (`Catalogue`) | Code |
|---|---|
| `rows`, `Found`, `Write`, `Remove`, `Upsert` | the five tables of the catalogue; a deleted category, item or promotion is hidden by `deleted_at`, a deleted variation is only inactive, a deleted override is gone |
| `CreateCategory` .. `DeletePromotion`, `Script` | the fifteen handlers of the five services, as sequences of queries |
| `Load`, `FindParent`, `CheckScope`, `checkPromotionScope` | GetByID, the existence of the category or item, the scope of an override or a promotion |
| `Publish`, `KeyOf` | `PublishMenuUpdated` after the write, for one restaurant or for all; its error is logged |
| `Deliver`, `Outbox!...` | the outbox, as `AtLeastOnceQueue` promises it: an event is repeated only when something has failed (`DuplicatesNeedFaults`) |
| `LeaderFails` | a Kafka leader that fails with acknowledged messages, of which kfc-userapi, which is given only what the followers have, has read none (external) |
| `Consume`, `Compute`, `Store`, `Expire` | kfc-userapi (external): it drops menus on an event and fills them from GetEffectiveMenu, a computation that may be stored after the event |
| `GivesUp` | an error or crash, before or after the write |

A row's content is named by the request that wrote it, so a menu is stale exactly
if it is not made of what the rows were last written by. `blind` is a history: the
restaurants of a change whose event was lost (a crash between write and INSERT,
or the INSERT's error, which is the finding `outbox_lost`), those whose event was
acknowledged and then lost with its leader (`RequireOne`), and those with a menu
being computed while an event is consumed, which is then stored although it may be
older than the change. A later event or the end of the entry's time heals all three. `StaleIsAnnounced` says that these are the only ways to be
stale without an event under way; it relates the tables, the handlers, the outbox
and the cache, and is broken when any of fifteen handlers announces too early or
for the wrong restaurant. `StaleEnds` is its liveness half. `ChangedWithinScope`
compares what was checked on a loaded row with whose menus changed;
`ActivatedKnowingly` and `DeletedStaysDeleted` are about updates that write back
what they loaded.

Run. `catalogue`: eleven pairs of concurrent requests by three ranks in two
restaurants of two regions, chosen to be of every kind and to meet on a row, its
parent or its scope; two failures of any kind, so that a message can be lost, or
repeated, beside a handler that fails. Two requests are what it
takes for a write to be overtaken and its event to arrive after another's. Fair are
handlers that run, the first delivery of each event (which `ImplementsFairQueue`
justifies) and the consumer; nothing makes a kiosk ask or an entry expire, so
`StaleEnds` does not lean on either.

Proofs (`CatalogueProofs`), for any rows, accounts, scenarios, restaurants and
failures. One thing is assumed of the rows that is in the schema: an override is
the row of one item at one restaurant (`UNIQUE (restaurant_id, menu_item_id)`,
`008_menu_item_overrides.sql:12`), so `Overrides` gives each a place for ever. The
invariant behind `StaleIsAnnounced` speaks of two menus per restaurant, the one served
and the one that was computed and is yet to be stored (`Fresh`): each is made of what
the rows say now, or somebody is about to announce the difference (`Announced`). A
write breaks the first and makes the second true, which needs that the handler will
announce the place where the row is *now*, though it took the place from a row it read
earlier: the row has not moved since, whoever changed it (`Known`, `Placed`). An
announcement is kept up by the queue (`Queued`), consuming one drops the menu
served and marks the one under way, and a leader that fails marks every place whose
announcement is gone (`Lost`), while the others stay announced. `ChangesSound` follows from the same `Known` with
the check of scope that a handler has behind it (`ScopeKept`).

## 9. Device pairing

| Model (`DevicePairing`) | Code |
|---|---|
| `devices` | the table; the serial number is unique among deleted rows too |
| `codes`, `tokens` | kfc-userapi (external); a batch replaces the restaurant's codes, as `device_service.go:335` says |
| `Create` .. `PairAll`, `Load...`, `UpdateRow`, `DeleteRow` | the handlers, a query a step |
| `RevokePairingCode`, `RevokeDevice`, `CachePairingCode(s)` | the calls of `userapi_client.go` |
| `Answered`, `Unanswered`, `ExecuteLate`, `late` | an answer; or an error, with the call executed, not executed, or executed later |
| `SendEmail`, `Reply`, `told` | who has seen a code |
| `Redeem`, `CodeExpires`, `RemoveRestaurant` | what happens around the requests |

Two systems without a transaction. `DeletedIsCutOff` needs the order of the two
revocations in Delete: revoking the tokens before the code would let the code be
redeemed in between. It excepts deletions with a pairing beside them
(`disturbed`): that pairing may store a code afterwards, and the device, deleted
by then, can be paired. `ShownWorks` says that a code is shown only when it is
stored, and `Superseded` that no code of an earlier request comes back, for one
device or the whole restaurant, unless one of its calls had timed out and is
executed late. `CodesFromScope` and `ReadableIsListed` relate rules written apart.

Run. `devices`: pairings of one device and of its restaurant beside each other, a
deletion, an update, a creation and a pairing from out of scope, with one failed
call and the restaurant deleted at any point. Three requests are the shortest way
to two pairings of which a deletion meets one, or to a late call that meets a
later code. Safety only: no fairness, no deadlock check.

Proofs (`DevicePairingProofs`), for any devices, restaurants, requests and failures.
The invariant follows three things separately. A call that may still be executed late
is one its handler has given up on (`LateCalls`), so whatever it stores is the code of
a pairing in `timedOut`. From the query in which a deletion loaded its device, no
pairing has it in hand unless it is recorded as disturbing the deletion (`CutOff`);
this is what makes the order of the two revocations enough, and `DeletedIsCutOff`
follows. A code is stored from its answer on until somebody takes it over (`Stored`),
and a finished pairing has ousted the codes of all that ended before it came, except
those whose calls timed out (`OldCodesGone`): `ShownWorks` and `Superseded`.

## 10. Photos

| Model (`Photos`) | Code |
|---|---|
| `image`, `live` | the image columns of categories and items, and their `deleted_at` |
| `objects`, `bucket` | MinIO |
| `once`, `ensureErr`, `BucketExists`, `MakeBucket`, `SetBucketPolicy`, `Ensured` | `ensure`, a `sync.Once` whose error stays |
| `SetCategoryPhoto` .. `RemoveItemPhoto` | SetPhoto and RemovePhoto of the two services, as scripts |
| `Rollback`, `DeleteNew`, `DeleteOld` | the deletion of the new object after an error, of the old one after success |
| `Write`, `Hide` | an update form and a deletion of the row, which leave the columns alone |

An object is named by the request that uploaded it. `PointsAtObject` depends on
the order put, set, clean, and excepts one case: SetImage reports an error after
it took effect, and the roll-back deletes what the row now points at.
`OrphansExplained` says that only overlapping requests for one row (`beside`) or a
failure leave an object behind. `ReplacedOnPurpose` is why forms must not write
the columns. `PhotoServed`: nothing is uploaded past a check that failed, so what
a row points at is readable. `RequestsEnd`: requests that wait for the check do
not wait for ever, also when it fails. That an error of the first check disables
uploads until a restart is in the model (`Broken`), and seen by whoever reads it.

Run. `photos`: five mixes of three requests on a category and an item, an old
photo, an outside link or none, the bucket there or not, and two failures: one to
break a step and one to break its roll-back. Fair are the handlers' steps; a crash
ends all requests.

Proofs (`PhotosProofs`), for any rows, requests and failures. A request is at a step of
its script (`Scripted`, `Stage`), and an object has one home: its key is recorded for
one row only and by its own request (`Homes`). The object is there before the row
points at it, and no row points at an old one when it is deleted (`Ordered`);
`PointsAtObject` is inductive with these. For the orphans, one that has loaded its
row either knows the image that is there now or has a request beside it (`Loaded`), so
that every object has a row, a request or a reason to answer for it (`Accounted`). One
request checks the bucket (`Checked`), for `PhotoServed`. `RequestsEnd` stays with TLC.

## 11. Regions, restaurants, directory and orders

| Model | Code |
|---|---|
| `Organisation`: `table`, scripts, `Insert`, `Write`, `Reload`, `Remove` | RegionService, RestaurantService and their repositories |
| `Directory`: `Begin`, `plan`, `Count`, `PageOn`, `PageOnce` | a list: one query counts, one reads a page by offset, ORDER BY name |
| `ListRegions`, `ListRestaurants`, `GetRestaurant` | the gRPC directory: everything active, in pages of 100 (`MaxPage`), joined in memory |
| `StaffRegions` .. `StaffRestaurant` | the lists and single reads of staff, with their filters |
| `Orders`: `resolveScope`, `empty`, `QueryOrders` | OrderService: the restaurants of an account, asked of kfc-order |
| `FetchOrder`, `CheckAccess`, `UpdateOrderStatus`, `Complete` | GetByID and Cancel, beside the kitchen |

A reader's call spans many queries while the tables change, so nothing can be
said of one moment. `was` and `always` collect what a reader might have been told
at some moment, and at every moment, of its call. `ToldOnlyVisible`: what it was
told is in `was`, and the restaurants of a region that is gone are not shown, though
deleting a region leaves them in place. One list is excepted by name (`Unfiltered`):
an account without a region or a restaurant sets no filter and lists all
restaurants, also those it may not open one by one. `CompleteWhenQuiet`: if nothing
changed during the call and names differ (`NamesDiffer`, over both tables: only the
codes are unique), the list is exact whatever the page size. Without those premises the directory does skip rows (a row deleted on an earlier page
shifts the later ones; two rows of one name may swap pages). `CallsEnd`: the loop
ends, because of its test for an empty page. `OrdersInScope` is about the empty list,
which kfc-order reads as all; `CancelledInScope` about a check on an order read
before.

Run. `orders`: nine pairs of changes by five accounts, one of which has lost its
region, twenty-two calls, pages of two and of one row, a negative offset, three
restaurants and one to come: the directory needs two pages, and a third when a row
is added. `MaxOffset` caps the offset at a value that no call gets to, or `CallsEnd`
would fail; the theorems hold for any. Fair are the readers' queries, which are answered.

Proofs (`PeersProofs`), for any tables, accounts, requests, calls and orders and any
sizes of pages. The only assumptions are that the tables are finite, that regions
and restaurants are different things, and that a call is well formed: staff have an
account, and a call about one row names a row of its table. `OrdersSound` is
inductive. For a request it says that what is left of its script is a rest of one of
the six scripts, and, once its scope was checked, that the account may change the
row (`Scripted`); `ChangesSound` follows, since a request only writes what it may
and a deleted row is never writable. For a reader it says what is left of its call
(`Planned`) and what it holds by then: the rows of its pages are in `was` (`Seen`),
and staff hold rows of their scope only (`Held`); the directory's single read found
its restaurant and then its region (`Single`); an order is shown or cancelled only
after its restaurant was found in scope (`Found`). `was` only grows during a call,
which is why a row that was seen on an earlier page may still be told of.

`CompleteWhenQuiet` needs more than what the reader may see: that it saw everything.
`Gathers` says that, as long as a call is steady and names differ, each list so far
is the first `offset` rows of the sorted table. It is inductive because the sorted
table is one sequence (`OneOrder`): rows with different names can be sorted in one
way only. That needs no induction over the length, which the prover does not do: the
place of a row is the number of rows with a smaller name (`PlaceOf`), whatever the
sequence. From one page to the next (`NextPage`), the list grows by the next
`MaxPage` rows, so that an empty page, or as many rows as were counted, means that
nothing is missing, as long as a page holds at least one row. `CallsEnd` is checked
by TLC only.

## 12. Replicas and peers

| Model | Code |
|---|---|
| `Replicas`: `Launch`, `NewPostgres`, `NewRedis` | main and app.New up to serving |
| `AcquireLock`, `ReadApplied`, `Apply`, `Record`, `Commit`, `LeaveLoop`, `Unlock` | `migrate.Up`, on a session of its own, each file in a transaction with its record |
| `SessionLost`, `Crash`, `Reap` | a session that ends, also in a commit; a process that dies, whose session PostgreSQL notices later (`"ghost"`) |
| `Terminate`, `Expire`, `HTTPShutdown`, `GRPCShutdown`, `Close`, `Exit` | App.Shutdown within one timeout |
| `Peers`: `AdjustPoints`, `LoyaltyApplies`, `Timeout`, `Interrupted` | customer_service, loyalty_client; kfc-loyalty is external |
| `CreateUser`, `AnswerCreated`, `SendWelcomeEmail`, `Unsent` | the welcome mail's goroutine |

`MigratedOnceInOrder`, `ServesMigrated` and `StartsTogether` say what the lock and
the transactions are for: replicas of different builds start together and die, and
each file still takes effect once, in order, and before anybody serves who needs
it. `CutOnlyLate`, `TwiceNeedsFault` and `MailLostByStop` are about what a stop does to
requests: an orderly one that has time left cuts nothing off, so restarts alone do
not lead to an adjustment being applied twice; but it does lose a welcome mail,
and the only copy of the initial password with it. `StartEnds` and `StopEnds`: each
start and stop comes to an end, with handlers that hang.

Run. `replicas`: a rolling upgrade from two to three files, one of which is blank,
two replicas, one fault, one request over HTTP that is sent up to twice, one read
over gRPC. Fair are a replica's own steps and its timer, PostgreSQL noticing a dead
session, and (strongly) the lock, which PostgreSQL grants in the order it was
asked for. Handlers, clients and peers are not fair.

Proofs (`PeersProofs`), for any replicas, files, requests and number of faults, and any
builds that are prefixes of the one sequence of files (`ReplicasAssumption`), as the
builds of a repository that only adds migrations are. `SchemaInv` adds to the three properties what a replica knows: a
transaction is open only with the session that holds the lock (`TxnHeld`), a
replica that reads or migrates with its session knows exactly what is recorded
(`Knows`), and one past the loop has all its files recorded (`PastMigration`). A
replica whose session was lost while it committed does not know whether the commit
took place; it gives up, and what it believes no longer matters. `RequestsInv` is the
same for requests. An adjustment has been applied at most as often as it was sent
(`Tried`); without trouble, one that was applied is or will be answered with success,
so it is not sent again (`Adjusted`); an account's mail is with a replica that lives,
sent, or lost to a stop or a fault (`Mailed`); and a request is still in flight past
the stop of its server only when time is up (`Drained`), from which `CutOnlyLate` is
a matter of the order in which `Shutdown` stops things. One assumption: no replica is
named like a state of a mail. `StartEnds` and `StopEnds` are checked by TLC only.

## 13. Findings: what comments or the README say and the code does not do

| Run | Says | Does |
|---|---|---|
| `outbox_lost` | `outbox.go:3`: the event is written in the transaction of the change | `publisher.go:60` inserts after the commit, outside of it; a crash in between loses the event |
| `users_activation` | `rbac_service.go:347`: a self-update never changes the activation | it writes back the activation it loaded, undoing a deactivation in between |

Seen while modelling, and not given a run:

- Outbox: `outbox.go:6` speaks of insertion order, the relay of id order, which
  differ for concurrent INSERTs. `app.go:85` says that "a Kafka outage delays cache
  invalidation instead of losing it", and `outbox.go:7` that delivery is at least
  once; `producer.go:27` takes the answer of the partition's leader alone, so an
  event that was acknowledged and marked is lost when that leader fails before its
  followers have it (`LeaderFails`), and kiosks keep the old menu until another
  event or the end of its time.
- Sessions: `token_repo.go:27` says that all refresh tokens are removed, but a token
  stored between SMEMBERS and DEL of the index survives, also later logouts;
  `auth_service.go:58` locks for the rest of the window, but a correct login already
  past the guard resets the counter; `README.md:50` says nothing in Redis is
  authoritative, while the blacklist and the throttle are nowhere else.
- Accounts: `README.md:94` lets a regional manager manage the users of the region,
  but `canManageUser` compares the region column only, NULL for staff created with a
  restaurant; `README.md:96` lets a shift manager see staff, which
  `rbac_service.go:406` refuses; accounts without a region or a restaurant, which
  CreateUser accepts, get unfiltered lists (`user_service.go:243`); FirstLoginSetup
  tests `completed` on a loaded copy, so two can both succeed; the welcome mail with
  the only copy of the password is not waited for by a shutdown
  (`user_service.go:447`).
- Effective menu: `domain/effective_menu.go:15` says that `ValidUntil` is when the
  menu changes by itself, but see `NothingTurns`; a promotion and its items are
  read apart (section 7).
- Catalogue: a delete of a variation only clears `is_active`, and an update revives
  it; an item may land in a category that is deleted meanwhile; a restaurant manager
  may list promotions but not open one; regional managers may change global
  promotions; updates that do not say `is_active` write back the value they loaded.
- Devices: `device_service.go:110` and `338` say that pairing activates a device,
  but nothing in this repository sets `is_active` on pairing; `device_service.go:495`
  says a new code supersedes the old one when the revocation failed, but a revocation
  that timed out may be executed after the new code was stored; the regional
  manager's list (`184`) does not compare the restaurant's region; a super admin can
  pair one device of a deleted restaurant, but not all of them.
- Photos: SetImage's error after its effect (`menu_category_service.go:287`) leaves a
  row pointing at nothing; deleted rows keep their objects; the key's extension comes
  from the content, the served type from the form.
- Lists: `restaurant_server.go:17` pages through everything, but rows that come and go
  shift the pages; `regionService.List` filters a regional manager's own region after
  the page was read; restaurants stay when their region is deleted; unique codes
  include soft-deleted rows.
- Process: the shutdown timeout of gRPC (`config.go:52`, `169`) is configured and not
  used; after a transport failure main exits with 0; a blank migration is skipped and
  never recorded; the session of a dead replica keeps the advisory lock, and others
  from starting, until PostgreSQL notices.

## 14. What is not modelled, and why

Routing, decoding, validation, formatting, logging, metrics, connection set-up and
interceptors, which keep no state the properties depend on; configuration, parsed
once at start; JWT, bcrypt and random generation, pure; generated protocol code. The
IP rate limiter in front of the login only ever refuses. Reads that are forwarded
or that return a row (customers and their transactions, the catalogue's own lists,
statistics' sums) keep no state and decide nothing. Kafka, MinIO, kfc-userapi,
kfc-notification, kfc-order and kfc-loyalty are not in the repository and are
modelled from how it calls them; what they do inside is not shown by anything here.

TLC only, on the instances above: liveness under fairness (`ImplementsFairQueue`,
whose safety part is proved, `StaleEnds`, `CallsEnd`, `RequestsEnd`, `StartEnds`,
`StopEnds`), for which the prover has no rules. Shown by counterexample only: the
findings.
