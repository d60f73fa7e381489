# TLA+ verification of the help-session platform

The repository is a peer-support platform: a *seeker* asks for help, a
*volunteer* listens, the two chat, and the seeker pays with a daily *ticket*.
This directory holds TLA+ models of its backend (`src/backend`, NestJS over
PostgreSQL, Redis and BullMQ), of the mobile app (`src/mobile`) and of the admin
dashboard (`src/admin`), TLC configurations that check them on small instances
and TLAPS proofs that hold for every size. All line numbers refer to files under
`src/`; `SS` is `backend/src/session/session.service.ts`, `SP`
`session.processor.ts`, `TS` `ticket.service.ts`, `GW`
`backend/src/chat/chat.gateway.ts`.

```
tlc  -workers 2 -config AcceptRace.cfg MC_SessionLifecycle.tla
tlapm Journey_Proofs.tla
```

## 1. Inventory

| Component | State it keeps | Operations | Interacts with |
|---|---|---|---|
| TicketService | Redis hash `ticket:{seeker}:{UTC date}` | tryReserve, releaseReserved, consumeReserved (Lua), getRemaining | called by SessionService and SessionProcessor |
| SessionService | rows `chat_session`, `user_problem`; Redis `session:{id}`, `sessions:waiting`, `idempotency:*`, `volunteer:{id}:accepting` | connect, accept, rate, history, tickets, waiting list | TicketService, MatchingService, the `sessions` queue, ChatGateway (notices) |
| SessionProcessor | the `sessions` BullMQ queue | match:timeout (3 min), session:grace-end (3 min), session:timeout (45 min) | PostgreSQL, Redis, TicketService |
| MatchingService | Redis set `volunteer:pool` | findBestVolunteer | the pool is filled by ChatGateway |
| ChatGateway, ChatService | socket maps, rooms, `session:{id}` hash, message buffer, stored public keys, rate-limit keys | connect/disconnect, room:join, message:send, key:exchange, session:end, session:request | SessionService's rows, the pool, the chat queues |
| Chat processors | reconnect-expire (60 s) and 30-minute session-timeout queues | end a session through ChatService.endSession | PostgreSQL, Redis |
| AuthService | `refresh_token` families, one-time codes | register, login, refresh, logout, reset | PostgreSQL, Redis |
| VolunteerService, AdminService, ReportsService, BlocksService | applications, profiles, account actions, reports, blocks | apply, review, act, report, block, set availability | decide who may be matched and pooled |
| Account, Device, Lookup services; guards; shell | rows of their own | edits of one account | – |
| Mobile: API client and token store | tokens in memory and in SecureStore, `failedQueue` | interceptors, sign-in, sign-out, hydrate | AuthService over HTTP |
| Mobile: chat client | refs and state of `useChat`, the stored secret key | key exchange, messages, sync after a reconnect | ChatGateway over a socket |
| Mobile: waiting list and waiting screen | the cached list, what each phone shows | poll, hear notices, accept, cancel | SessionService over HTTP, notices over the socket |
| Mobile: volunteer profile | the query cache and an open form | optimistic switch, edit, refetch | VolunteerService over HTTP |
| Mobile: screens | the router's stack, the form of the seeker | navigation, the gate, the popups | all of the above |
| Admin dashboard | a table, its filters and page, one open row | fetch, decide, refresh of tokens in several tabs | AdminService, AuthService over HTTP |

**What is hard.** Every handler is a sequence of `await`s over three stores
without a common transaction: other handlers, delayed jobs and socket
callbacks run between any two of them. Three different timers and two
people may end the same session. A volunteer taken by `accept()` and one taken
by `connect()` come from different lists. A job may fail or its worker die
between two of its steps; a lock or a hash may expire under a running handler.
Sockets displace each other, lose notices and come back; answers get lost or
come after the screen they were for has gone; caches are changed before the
backend has agreed and put back after it has refused.

**What must hold.** Tickets: never more than the daily allowance; no chat
without a ticket, no charge without a chat; no ticket left hanging. Sessions:
one active per seeker and per volunteer, one winner among the volunteers who
tap Accept, an ended session stays ended, stores agree on who listens, no
seeker waits forever. Chat: the pool holds who can listen and nobody else, a
running chat has its timer, a lost connection is noticed, keys agree, messages
come once and in order. Accounts: a refresh token is used once and a logout is
final; a decision stands; unique things stay unique. Phones: a screen tells the
truth and leads on; nobody gets past the gate; what was typed stays typed.

`PROJECT.json` lists every component with its status and every hazard with its
line.

## 2. Modules

| Module | What it is |
|---|---|
| `TicketOps` | the ticket hash and the Lua scripts as operators on it |
| `Tickets` | several seekers' sessions reserve and settle while UTC dates change and the limit is redeployed |
| `SessionLifecycle` | `connect()`, `accept()`, the three jobs, the chat's end, the pool, on shared rows, Redis keys and jobs; extends `TicketOps` |
| `SessionContract` | the abstract session: opened waiting or matched, matched at most once, ended once; `SessionLifecycle`, `Journey` and `ChatPresence` implement it |
| `SessionInvariant` | the inductive invariants `ClaimProtocol` and `EndsCome`, and `Calm` |
| `SessionCrossing` | `SessionLifecycle` with a history of which connects ran together and which sessions were charged; how far the promises to a seeker are kept |
| `ChatPresence` | sockets, the pool, rooms, timers and the ways a chat ends |
| `ChatRelay` | keys and messages of one chat, gateway and two apps |
| `Journey` | what two phones show from the tap on Connect to the chat |
| `AuthTokens` | refresh-token families and the clients that hold them |
| `Moderation` | applications, reports, ratings, standings: decisions by people |
| `AccountRecords` | registrations and the edits of one account |
| `ProfileCache` | a volunteer's profile and its cached copy |
| `Navigation` | which screen leads to which, and what answers navigate to |
| `ConnectForm` | the seeker's form and its popups |
| `Dashboard` | the admins' tables |
| `MC_…` | instances. `MC_Accounts` puts AuthTokens, Moderation, AccountRecords and Tickets, `MC_Screens` the four screen modules side by side: the parts share no state and a behaviour is one of one part |
| `…_Proofs` | the theorems of section 4 |

Definitions named `Mut_…` are plausible slips in the definition that follows
them; nothing in a specification refers to them. They exist to show that each
property notices such a slip.

In all modules one action is what runs between two awaits (on a phone: what
JavaScript runs without waiting); two awaits whose effects nobody else can
observe separately are one action, and the comment says so. There is no clock:
a delayed job may run any time after it was added, an answer may come any time
after its request. The rarer disturbances are named – `Allow` in the session
modules, `Mishap`, `Overlap`, `Trouble`, `Slip` elsewhere – and listed with
their meaning at the head of each module. A property that the code keeps only
without some of them names these, and says why in its comment; the name of a
disturbance in a property is therefore a statement about the code as well.

### Tickets

`ticket[a]` is the hash at today's key. The key is built from the date of the
*call* (`TS:145`), so a session that reserved before midnight UTC settles
against the next day's key; `Midnight` therefore replaces the hash by an
untouched one and keeps which session holds a reservation of which date; `strays`
counts the reservations of today that were used up for a session of an earlier
date. `Redeploy`
changes `DAILY_TICKET_LIMIT` in the middle of a day; the stored `daily` field
keeps the old one for that date. The 36 h TTL is renewed by every write and
never ends a key on its own date, so it is not an action.

### SessionLifecycle

A handler is a process with a program counter (`cpc` for connect requests,
`apc` for accept calls, the state of a job for the worker).

| State | Code |
|---|---|
| `db`, `problem` | `chat_session.status/listener_id`, `user_problem.status` |
| `hash`, `waiting`, `pool`, `ticket`, `idem`, `lock` | the Redis keys `session:{id}`, `sessions:waiting`, `volunteer:pool`, `ticket:*`, `idempotency:*`, `volunteer:{id}:accepting` |
| `job` | the jobs `match-timeout-{id}`, `grace-end-{id}`, `session-timeout-{id}` |
| `closing` | a chat whose row is ended and whose teardown is still due |
| `winners` | history: the volunteers that accept() wrote to the row |

| Actions | Code |
|---|---|
| `CheckKey` … `FindVolunteer` | `SS:84-201`, MatchingService |
| `CreateMatched`, `StoreActiveHash`, `ScheduleMatched` | Path A, `SS:203-296` |
| `CreateWaiting`, `PublishWaiting`, `ScheduleMatchTimeout` | Path B, `SS:362-443` |
| `StoreAnswer` | the idempotency key, `SS:297-312` and `444-470` |
| `ConnectThrows`, `Rollback`, `RefundFailed` | the catch blocks, `SS:313-360` and `496-549` |
| `TakeLock`, `CheckVolunteer`, `ReadHash`, `Claim`, `Activate`, `CheckBlocks`, `Persist`, `CancelMatchTimeout`, `ScheduleAccepted`, `Unlock`, `AcceptThrows` | `SS:558-894` |
| `StartMatchTimeout` … `DropUnmatched` | `SP:211-321` |
| `StartGraceEnd`, `Charge`, `AckGraceEnd` | `SP:96-122` |
| `StartSessionTimeout`, `FinishSessionTimeout` | `SP:136-187` |
| `EndChat`, `FinishChat` | `session:end` `GW:512-573`; also the 30-minute and reconnect timers, which end a session through the same `ChatService.endSession` |
| `GoOnline`, `GoOffline`, `PruneWaiting` | `GW:93-158`, `SS:1131-1154` |
| `WorkerCrash`, `JobThrows`, `ExpireHash`, `ExpireLock` | BullMQ and Redis, external |

| `Allow` contains | then |
|---|---|
| `parallel_connect` | a seeker's connect may start while another of hers is in flight |
| `early_end` | a chat may end before its grace-end job has run |
| `timeout_during_accept` | match:timeout may run while an accept() that saw the session waiting is in flight |
| `end_during_accept` | a session may be accepted *and ended* while another accept() sits between its read and its HSETNX |
| `hash_expiry` | Redis may expire a waiting hash, or an active one that no call is about |
| `lock_expiry` | an accept() may outlive the 60 s of its lock |
| `throw` | a database, Redis or queue call may throw, and a catch block's own calls too |
| `worker_crash` | the worker may die inside a job, which BullMQ then runs again |

With `Allow = {}` a model is the code on a quiet day. A pass under some `Allow`
covers every smaller one.

`SessionCrossing` adds three variables that only watch: `overlapped` (connects of
one seeker in flight together), `raced` (those that both stood between the check
of `SS:108-122` and the creation of their rows) and `charged` (sessions whose
grace-end consumed a ticket). No step reads them, so `CrossSpec` has the
behaviours of `Spec`. The promises of the documentation that these connects break
are stated twice: as they are written, in `SessionLifecycle`, where a run refutes
them, and in `SessionCrossing` with the one interleaving that breaks them named.

### ChatPresence

A socket passes `handleConnection` in three awaits (`MapSocket`, `AddOnline`,
`AddToPool`) and `handleDisconnect` in three (`Unmap`, `DeleteMapping`,
`LeavePools`); `unmapSocket` is not atomic (`chat.service.ts:42-48`). A session
has the name of the request that opened it, over the socket
(`CheckRequest` … `ReturnClaimed`, `GW:196-273`) or elsewhere (`ConnectElsewhere`,
`AcceptElsewhere`: what SessionService leaves behind). `ValidateJoin`,
`EnterRoom`, `Rejoin`, `StartTimer` are `room:join`; `SessionEnd`,
`ReconnectExpire` and `ChatTimeout` the three ends, which all go through
`endSession`, and `ClearSession` … `ReturnListener` the teardown. `SessionTimeout`
is the job of the `sessions` queue in short.

### ChatRelay

Two apps, two FIFO channels each (`up`, `down`), the gateway's `room`, `keys` and
`msgs`. `OpenChat`, `RerunEffect`, `ReadKey`, `JoinRoom`, `SendMessage`, `Receive`
and `LeaveChat` are `useChat` with its effects and cleanup; `HandleJoin`,
`EnterRoom`, `SyncMissed`, `HandleKey`, `BufferMessage`, `RelayMessage` the
handlers. A secret is the set of the two key pairs it was derived from, a message
opens with its own secret only. Sockets start connected, perhaps not yet
authenticated; a chat mounted before its socket connects behaves as after a
token refresh.

### Journey

Each server step decides at once (SessionLifecycle has the steps) and then emits
its notices one by one in the order of the code. A notice reaches a socket that
is registered at that moment, and a screen that listens. `Connecting` and
`TakeConnectAnswer` are the seeker's request, `Accepting` the volunteer's,
`MatchTimeout` and `EmitEnded` the job's, `HearSeeker` and `HearVolunteer` the
listeners, `Poll`, `Snapshot` and `TakeList` the list, `Drop`,
`LoseConnectAnswer` and `LoseAcceptAnswer` the mishaps, `Reopen` and `Register` the
way back of a socket.

### AuthTokens, Moderation, AccountRecords

AuthTokens: `rows` is `refresh_token`; a pair of tokens is named by the second it
was signed in, because two pairs of one second are the same strings. A phone and
the tabs of a browser hold pairs in `mem`, phones also on `disk`, written key by
key. `flow` is what an interceptor awaits: one refresh at a time, the other 401s
in `failedQueue`. On the server the transactions run under READ COMMITTED (Prisma
sets no other level): `RevocationBegins` is the moment at which the `updateMany`
that revokes a family takes its snapshot, `Swept` the rows it then revokes; a
rotation (`auth.service.ts:379-399`) that commits in between adds a row that it
does not see, and the family is remembered in `escaped`.

Moderation: a *task* is a call that has read its item and not yet written it, so
two tasks on one item are the overlap the code does not exclude; `late` remembers
the calls that had read an item before it was decided.

AccountRecords: registrations, the replacement of languages, the change of the
password, device tokens and one-time codes, each as its read and its write; what
keeps them right is a unique index, a transaction, or nothing.

### ProfileCache, Navigation, ConnectForm, Dashboard

ProfileCache: the row of the backend, the copy in the query cache, two screens
with a switch (optimistic, with rollback) and one with a form. Navigation: the
router's stack; a route is the path of its layouts and its page, *push* adds a
route and *replace* replaces the entry of the deepest navigator that the two
routes share, with all inside it; calls in flight navigate from whatever screen
is in front. ConnectForm: the sheets and the two timers that end in one POST.
Dashboard: one list with its filters and pages, fetches that overtake each other,
decisions in the table and on a row's own page.

## 3. Runs

| Run | Instance | Checks | Distinct states |
|---|---|---|---|
| `accept_race` | 1 session, 3 volunteers (one blocked), `early_end` | `OneWinner`, `StoresAgree`, `ImplementsContract` | 346 thousand |
| `lifecycle` | 2 connects of one seeker with one key, 2 accepts of one volunteer, `parallel_connect`, `early_end` | `LockExclusion`, `OneAccepted`, `ChargesAreRight`, `OneActiveUnlessRaced`, `OneSessionUnlessOverlapped`, `TicketsAccounted` | 789 thousand |
| `faults` | 1 session, 1 accept, every disturbance but `parallel_connect` | `OnlyAcceptReopens` | 418 thousand |
| `liveness` | 1 session, 2 accepts, `early_end`, `timeout_during_accept`, `FairSpec` | `WaitingResolved`, `SessionEnds` | 79 thousand |
| `presence` | a volunteer with 2 sockets, a seeker with 1, 2 requests, one mishap of 12 | `PoolIsRight`, `DropsAreNoticed`, `SessionsAreSound`, `EndsRight` | 1.14 million |
| `relay` | 2 apps, 2 messages, 2 keys each, a buffer of 1, one mishap of 7 | `SecretsAgree`, `DeliveredInOrder`, `KeysReachBoth` | 227 thousand |
| `journey` | a seeker, a volunteer, 2 requests (one direct), one mishap, `FairSpec` | `ScreensTellTruth`, `Truth`, `NobodyAlone`, `JourneyEnds` | 207 thousand |
| `accounts` | a phone and a browser with 2 tabs; a seeker and a volunteer; 2 calls in flight everywhere; one mishap of 10; the tickets of 2 seekers, 4 sessions, limits 1 and 2, 2 midnights (`MaxDay`) | `RowsAreSound`, `TokensAgree`, `NoRequestHangs`, `LogoutSticks`, `DecisionsStand`, `BarredDoNothing`, `RecordsAgree`, `RecordsHold`, `DailyBound`, `ReservationsAccounted`, `SpentStaysSpent` | 698 thousand |
| `screens` | 2 PATCH calls; a stack of 5; 2 categories; 2 rows on 2 pages; one mishap of each part | `ProfileShown`, `EditsSurvive`, `HomeIsVerified`, `OwnScreens`, `AskedAsShown`, `DashboardIsRight` | 719 thousand |
| `direct_match` | a request matched at once | *expects a violation of* `BothToldOfMatch` | – |
| `early_end` | a session matched and closed before its grace-end | *expects a violation of* `TicketsSettled` | – |
| `double_tap` | 2 connects with one key in flight together | *expects a violation of* `OneSessionPerKey` | – |

**Why the bounds are enough.** One session suffices for everything about claims,
because a call concerns one session and sessions share only the volunteers,
the worker and the tickets; three volunteers give a refused claimant, a winner
and a loser at once. Lock and double booking need two sessions and one
volunteer who taps both. Charging needs two sessions of one seeker under a limit
of two, so that a wrong refund or charge hits the other session's reservation.
Two connects with one key give what the seeker's promises turn on: a retry after
the answer, a double tap, and a second connect that comes between the first's row
and its key and must be refused because the first is active. (A later session
under another key takes a third connect and is left to the theorems.) A worker's crash
between any two steps of a job, a throw, an expiry and a late timer come together
in `faults`, with one session and one volunteer: there the question is who writes
the row. The tickets have three sessions of one seeker under limits of one and
two, and two midnights, so that a session may outlive its date and meet a newer
one. Presence needs a second socket to displace the first and a second session
for what a first one leaves behind; a volunteer who is in the first session's
teardown and the second's room at once is in the run. The relay has a message
more than its buffer, so that trimming happens, and a second key for each app, so
that a stale one can be left. Two calls in flight are what an overlap takes. One
mishap per behaviour keeps the cases apart: a property that fails after a mishap
names it, and the theorems of section 4 show where any number of them does no
more harm than one. A stack of five holds every path of the app to its home and
one screen on top. The bounds are only on the number of requests, calls, sockets,
messages, keys, seconds, rows, midnights and mishaps; they are CONSTANTS with
*bound* in their comments and stand in guards.

**Deadlock.** It is checked in the session runs: there volunteers may go on- and
offline at any time. The runs
`presence`, `relay`, `journey`, `accounts` and `screens` say `CHECK_DEADLOCK FALSE`
because their bounded requests, sockets, messages and calls are used up at last
and everybody may then rest.

**Fairness.** `SessionLifecycle!FairSpec`: weak fairness of `Connect(r)`,
`Accept(a)` and `FinishChat(r)`, because the event loop continues a handler it
has started; strong fairness of `Worker(r)`, because the jobs of other sessions
may occupy the single worker in between and BullMQ takes due jobs in order of
their time, so a due job is not passed over forever. `liveness` has no throws: a
job whose handler throws is not tried again (no `attempts`), and then nothing
ends its session. `Journey!FairSpec`: weak fairness of a started `connect()` and
its answer, of match:timeout and its notice, of a started `accept()`, of the
listeners and of the poll; strong fairness of `TakeList`, because every reconnect
starts the fetch again. Nothing is assumed of people and networks: no tap, no
reconnect and no end of a chat has to happen. `JourneyEnds` says what the phones
then do by themselves.

### What disagrees with the documentation

Three runs expect a violation:

- `direct_match`: a session that `connect()` matches itself (Path A, `SS:203-312`)
  is announced to nobody, so the phone of the volunteer it took from the pool,
  which opens the chat on the event `session:matched`
  (`mobile/src/app/_layout.tsx:76-104`), never shows it.
  `backend/README.md:1017` says the event "Notifies both parties that a match has
  been made".
- `early_end`: `session:end` touches no ticket (`GW:524`), and the grace-end job
  of a session that is over only logs (`SP:116`), so a session closed within three
  minutes keeps its ticket reserved until the day's key expires.
  `backend/README.md:954` says "the reserved ticket is released".
  `TicketsAccounted` is what is left: these are the only tickets that stay
  reserved, and every other one is released or consumed once.
- `double_tap`: the idempotency key is looked up first (`SS:98`) and stored last
  (306, 453), so two requests in flight with one key both open a session. The
  comment at `SS:96` says it protects against "network retries, double-taps,
  browser refreshes". `OneSessionUnlessOverlapped` is what is left: a repetition
  sent after the answer opens none.

Others can be seen in the models and have no run of their own. In the backend:

- match:timeout reads the hash (`SP:219`), accept() claims it, match:timeout
  cancels the row (254), accept() writes `active` over it (`SS:739`; the comment
  at `SP:203` excludes this);
- match:timeout run again after dying behind the cancellation returns at `SP:281`
  without refund or cleanup (`SP:207`);
- two connects of a seeker that are in flight together both pass the check for an
  active session (`SS:108-122`), and he has two, where `backend/README.md:67`
  promises "at most 1 active session at any time"; `OneActiveUnlessRaced` says
  that he has two in no other way;
- a volunteer who also seeks help may be matched with himself:
  `backend/README.md:76` allows both roles on one account and 610 names the
  "self-match exclusion", which the query of `matching.service.ts:39` does not
  make. The models keep seekers and volunteers apart;
- a family of refresh tokens whose reuse was detected keeps a live token if a
  rotation commits while it is being revoked: `auth.service.ts:334` says "Revoke
  ALL tokens in this family", the `updateMany` below it sees the rows committed
  before it began. `RowsAreSound` excepts the families in `escaped`;
- accept() leaves the volunteer in the pool and connect() does not check whom it
  takes (`backend/README.md:67`);
- a refused accept sets the hash to waiting but does not put the session back
  into `sessions:waiting` (`SS:718-720`), and a match:timeout that meets a claim
  which is undone afterwards returns for good (`SP:223`): such a session has
  neither listener nor timer. `liveness` has no blocked volunteer for this reason
  (one who taps forever also re-arms the job forever);
- a waiting hash that expires or is deleted between two claims lets HSETNX answer
  1 twice (`SS:647-649`); a grace-end job run again after a crash consumes a
  second reservation (`SP:111`), although `SP:40` calls the ticket operations
  idempotent; a ticket reserved before midnight UTC and settled after it is
  charged to no day or takes the reservation of a newer session (`TS:145`,
  `SP:93`);
- the disconnect of a displaced socket marks its account as away, and a volunteer
  as offline, although the new socket is connected (`GW:155`); a disconnect
  between the check and the SADD of a return leaves a volunteer in the pool who is
  gone; one that comes before the mapping leaves him there as well;
- `session:timeout` of a session that is over deletes the account records of the
  next one (`SP:179-186`) and never returns the volunteer to the pool; a session
  opened by `session:request` has no timer until somebody joins it; `Job.remove()`
  throws for a running job and ends the teardown (`GW:544`); isAvailable set to
  true does not pool a connected volunteer;
- two parallel `session:request`s of one seeker for two problems may both open a
  session if two volunteers are in the pool; ChatPresence calls it the mishap
  `double_request`;
- `message:receive` does not leave out duplicates, the sync does; a send after the
  purge creates the keys of the session again (`GW:420`); an index sent after
  trimming stays at the last place (`backend/README.md:694`);
- a logout answered 401 refreshes first and then revokes only the old token
  (`README_API_ENDPOINTS.md:161`); a lost answer to a refresh makes the next one
  look like reuse and logs out; two tabs of the dashboard that refresh at once
  revoke their family; changePassword revokes no refresh token; the reset token of
  verifyOtp has no consumer; a barred account keeps its access token for up to
  15 minutes;
- a suspension after a ban overwrites it, and `expiresAt` is never applied; an
  approval and a rejection at once leave the role; two reviewers and a new
  application leave two open ones.

On the phones:

- a sign-out during a refresh leaves the new tokens stored; a process that dies
  between the two SecureStore writes keeps half of a pair; a 401 during
  `await clearTokens` waits forever (`mobile/src/api/client.ts:94-101`); a late one
  erases the tokens of the next sign-in;
- Cancel on the waiting screen only goes back; a lost accept answer makes the
  second tap fail with 409; an older snapshot brings a taken session back;
- after leaving and losing the connection, a refresh, a restart or an early event
  a chat may stay without a secret;
- `mobile/src/app/index.tsx:11` says that a volunteer whose profile cannot be
  fetched "falls back to volunteer home (never blocks the user)"; the code
  (29-35) and its own comment hold him at the pending screen. `HomeIsVerified`
  takes the side of the code; by the comment it would be false;
- the form's ticket count is read once; *Other* sends `categories[0]`; the sign-in
  of a volunteer does not pass the gate of the splash screen; the dashboard's page
  of an account keeps its old status after an action.

## 4. Proofs

All theorems are checked by TLAPS for every value of the constants that satisfies
the named assumptions of each module. Those are: the bounds are natural numbers,
the functions on constants have the domains their names say, accounts of
different kinds are different, and values such as `None` are none of the others.
They state no size; only the sessions of `ReservationsAccountedHold`, the
languages and the problem categories are assumed to be finitely many.
`TicketOps_Proofs` holds lemmas only.

| Module | Theorem (→ the property of a run it states) | Assumes |
|---|---|---|
| `Tickets_Proofs` | `TypeCorrect`, `DailyBoundHolds` → `DailyBound`, `RemainingHonest`, `SpentStays` → `SpentStaysSpent` | – |
| | `ReservationsAccountedHold` → `ReservationsAccounted` | finitely many sessions |
| `SessionLifecycle_Proofs` | `TypeCorrect`, `DailyBoundHolds`, `UnlocksOnlyOwn`, `OnlyAcceptReopensHolds` → `OnlyAcceptReopens` | – (crashes, throws and expiries included) |
| | `LockExcludes` → `LockExclusion` | no `lock_expiry` |
| | `ClaimsHold`, `OneWinnerHolds` → `OneWinner`, `ClaimStandsHolds`, `EndedStaysEndedHolds`, `NoneForgottenHolds`, `ContractImplemented` → `ImplementsContract` | `Calm` |
| | `OneAcceptedHolds` → `OneAccepted` | no `lock_expiry` |
| | `StoresAgreeHolds` → `StoresAgree`, `ChargesAreRightHolds` → `ChargesAreRight` | `Calm` |
| | `OneActiveHolds` → `OneActiveUnlessRaced`, `OneSessionHolds` → `OneSessionUnlessOverlapped`, `TicketsAccountedHolds` → `TicketsAccounted` (of `CrossSpec`) | `Calm` |
| `Journey_Proofs` | `TypeCorrect`, `TruthHolds` → `Truth`, `PhonesTellTruth` → `ScreensTellTruth`, `NobodySitsAlone` → `NobodyAlone`, `ContractKept` (its `ImplementsContract`) | – |
| `Accounts_Proofs` | `TokensTyped`, `RowsStaySound` → `RowsAreSound`, `QueueIsServed` → `NoRequestHangs`, `LogoutIsFinal` → `LogoutSticks`, `TokensStayInStep` → `TokensAgree`, `DecisionsTyped`, `DecisionsLast` → `DecisionsStand`, `BarredStayOut` → `BarredDoNothing`, `RecordsStayInStep` → `RecordsAgree`, `RecordsCorrect` → `RecordsHold` | – |
| `ChatPresence_Proofs` | `PresenceTyped`, `PresenceSessionsSound` → `SessionsAreSound`, `PresenceEndsRight` → `EndsRight`, `PresenceDropsNoticed` → `DropsAreNoticed`, `PresencePoolRight` → `PoolIsRight`, `PresenceKeepsContract` (its `ImplementsContract`) | – |
| `ChatRelay_Proofs` | `RelayTyped`, `RelaySecretsAgree` → `SecretsAgree`, `RelayKeysReachBoth` → `KeysReachBoth`, `RelayDeliveredInOrder` → `DeliveredInOrder` | – |
| `Screens_Proofs` | `ShownProfile` → `ProfileShown`, `EditsKept` → `EditsSurvive`, `HomeGated` → `HomeIsVerified`, `OwnScreensHold` → `OwnScreens`, `AskedForm` → `AskedAsShown`, `RightDashboard` → `DashboardIsRight` | – |

**What the hypotheses mean.** They speak of `Allow` and each has instances in the
runs. `Calm` is `Allow ⊆ {parallel_connect, early_end, lock_expiry}`: connects in
parallel, chats that end early and locks that expire are allowed; no step throws
or crashes, no waiting hash expires, and neither match:timeout nor a whole chat
falls into the few milliseconds of a claim. It is needed: with
`timeout_during_accept` the row is cancelled under the claim and opened again, an
expired hash gives two winners, and a catch block that deletes the row of a
published session leaves a claim without a row. It rules out neither the double
tap nor the early end: the theorems about connects and tickets hold with both,
and say what they do. The properties of the other modules name their exceptions
themselves, so their theorems need no hypothesis. The theorems of the parts of
`MC_Accounts` and `MC_Screens` are about the specification of the part
(`TokensSpec`, `DecisionsSpec`, `RecordsSpec`, `ProfileSpec`, `NavSpec`,
`FormSpec`, `DashSpec`).

**Tickets and types.** The first invariant of the session system is `Sound`:
types, every running call has a session, and every ticket key satisfies `KeyOK`
(its counters add up to at most its allowance). Types alone are not inductive:
`consumed` and `reserved` stay natural numbers only because the scripts guard
their decrements. `TicketOps_Proofs` shows that each script keeps `KeyOK`; each
handler step then either leaves `ticket` alone or applies a script.
`ReservationsAccounted` compares a counter with the size of a set, from both sides,
so its proof needs what a step does to that cardinality; the lower bound counts
the strays, for a release or a charge by a session of an earlier date takes from
the key and not from the set.

**Who writes a row.** `OnlyAcceptReopens` needs no hypothesis: every update but two
carries its guard in its own `where`. What has to be shown is where the other two
may happen: `RowsWritten` sorts the steps by what they do to a row, and
`RowsComeFromConnect`, with `OpenedOnce`, says that a connect() that has come to
its transaction finds no row of its request and never comes back to it, so it
writes over none.

**The lock.** `LockExclusion` is not inductive. `LockHeld` is: a call that has
begun and not left its finally block owns its volunteer's key, and two calls of a
volunteer cannot both own it. With it `TakenOnce` – the session a volunteer holds
through a claim or a row – gives `OneAccepted`: the check of `SS:591` is made
under the lock, so nothing of the same volunteer comes between it and the row.

**The claim protocol.** `OneWinner`, `ClaimStands` and `EndedStaysEnded` rest
on an agreement between components that no single line states:

1. HSETNX is won on a hash that is still *waiting and unnamed*, and such a hash
   belongs to an unmatched row, or to one that match:timeout has cancelled and
   is about to drop (`WaitingIsOpen`).
2. While an accept() stands between its read and its row update, match:timeout
   is not running and the hash exists (`ClaimWindow`), so the second case of 1 is
   excluded.
3. From HSETNX to the update the hash names the caller, the row is unmatched
   and no other call is in the same place (`WinnerHolds`, `OneClaimant`).
4. A row with a listener has left the waiting state in Redis for good, and only
   such a row has a session:timeout or a chat to tear down
   (`MatchedLeftWaiting`), so deleting the hash cannot reopen the claim.
5. connect() publishes a session only when its row exists, unmatched
   (`ConnectProgress`), so the calls find one.

`ClaimProtocol` is the conjunction, and inductive. Its proof has one lemma per
kind of step: a step of connect(), the worker or the chat changes one session
and no call (`FrameSession`); a step of accept() changes one call and its
session (`FrameAccept`). The refinement and `EndedStaysEnded` follow from
`RowSteps`: under the protocol a step opens one row, gives one unmatched row a
listener, ends one active row, or leaves the rows alone. The protocol does *not*
need the volunteer's lock, so `lock_expiry` is allowed.

**One contract, three granularities.** `SessionContract` is what a session
promises. `SessionLifecycle` keeps it between any two awaits of `connect()`,
`accept()` and the jobs (`ContractImplemented`, under `Calm`); `Journey` with whole
handlers and phones that lose answers (`ContractKept`); `ChatPresence` with the
WebSocket way in and the three ways out of a chat, whatever mishaps happen
(`PresenceKeepsContract`). In each a lemma sorts the steps by what they do to
the rows, and every kind is a step of the contract or a stutter.

**No session is forgotten.** `NoneForgotten` is the half of `WaitingResolved` and
`SessionEnds` that a safety proof reaches: a row that is active and unmatched has
its match:timeout waiting, or a handler that is about to add it; a matched one
its session:timeout. It is not inductive, for match:timeout gives way when the
hash names a listener, and accept() removes the job. `EndKept` says why that is
safe: the hash of an unmatched row names only a caller who is still going to
write it (a `Winner`, who by the claim protocol will), and a job that has begun
to end a session has ended it. `EndsCome` is both. What fairness adds, that a
waiting job runs and a handler goes on, stays with TLC.

**The stores and the books.** `ListenerKnown` says who is named in the hash of a
running session, also while an accept() stands past the row update; it is
`StoresAgree` without the exception. For the promises to a seeker `CrossingsKnown`
follows a connect from the point where it takes its place: past the check for an
active session it is `Placed` until its session is over, past the lookup of its key
it is `Entered` for good once it has a row, and it leaves with the key stored
(`KeysStored`). Two that are placed together have raced; two that have entered
one key have overlapped. `Books` is the account of a seeker's tickets: with
*paying* the sessions that hold or have used a ticket, reserved + consumed is the
number of paying sessions, and the paying ones that are not yet consumed are at
most the reserved ones. So a release or a charge never finds the counter at zero,
where the script would do nothing and the ticket would be lost or free.
`ChargesKnown` says that consumed counts the sessions grace-end charged, each
once; with `Ends` (a session without a listener ends by match:timeout alone, which
releases) the reserved tickets of a seeker at rest are then those of the matched
sessions that were not charged.

**Presence.** `Base` is types, what hangs on a row that does not exist or is over
(`RowOK`) and what a socket is that is not there (`SocketOK`). `Timers` says who
may have touched a chat without its job: only joins that are about to add it.
`OneSocket` (without `overlap` an account has one socket that is present) and
`AwayOut` (whom the chat counts as away has no socket in the room but one whose
join is about to clear the flag) give `EndsRight`. `OneChat` and
`OneChatOfSeeker` say that a volunteer is claimed, matched or being put back for
one request at a time, a seeker open in one; with them `NoStray` says that
the record of an account in a running chat names that chat and that all its
earlier chats are torn down, hence `DropsAreNoticed`. `Mapped` ties the socket maps to
`handleConnection` and `handleDisconnect` and `Pooled` accounts for every
volunteer who is connected: in the pool, in a session, or on the way from one to
the other. Each invariant is stated under the mishaps that spoil it and no
others. `DropsAreNoticed` as it stood before could not be proved: it held in
the run only because a behaviour has one mishap there. Two mishaps together (a
dropped socket whose join is handled late) and two requests of a seeker at once
refute it; its hypothesis `Recorded` now names them, and the second is the
mishap `double_request`.

**Keys and messages.** `AllKnown`: outside the room no key is on its way to an app
and a connected one has no secret (`Barred`); the last key on its way is the one
the other has stored (`LastIsStored`); with none on its way the secret is made
with that one (`SecretIsStored`). That is inductive under every mishap and gives
`SecretsAgree` once the queues are empty. `AllOrder`, for the behaviours of
`KeysReachBoth`, follows join and key through the queues: no key reaches the
gateway before a join (`InOrder`), so it is stored (`Stored`); who has entered
when the other's key is stored has it or soon will (`Handed`); the join of a
reconnection, which brings no key, is not the last one (`Rejoining`).
`AllSmooth`, for a session without a mishap, is two things. `Plain`: each party
has one key, what is sent is sent with the one secret, and finds a receiver who
has it or has the key in front of the message. `Flow`: of the numbers of a
party's messages those on their way to the gateway, those to be relayed, those
on their way down and those shown follow one another, each rising, and together
those past the gateway are the log. So the numbers shown are the first of
those logged. That the sequences `FromPeer` and `From` keep are then one the
beginning of the other is a matter of counting: the n-th kept element stands
at the member of rank n (`Ranks`, `NthRank`, `KeptSeq`), and sets of which one is
the lower part of the other have the same n-th members (`Counted`, `First`).
`Kept` is an indexed function, not a recursive operator, and the induction over
ranks is the well-foundedness of the naturals (`Smallest`, with `WFMin`).

**Phones.** `Journey_Proofs` shows that what is on its way is true: every notice in
an inbox, every answer, every entry of a list is of a session that is or was in
that state (`Truth`), so a phone shows nothing else. `NobodyAlone` is about the
order of three things: the seeker's answer, her notice and what she taps. Its
invariant `Company` says where the evidence is at each moment: a session is
accepted only after it waited and the seeker was told (`WaitedFirst`,
`AcceptedWaited`), calls come from an offer (`CallsFromOffer`), she asks from her
home screen and once (`AsksFromHome`, `AsksOnce`), and so a seeker who lost
nothing knows of the match or has a message on its way (`SeekerKnows`).

**Tokens.** Rows first: `RowsInv`, in which a revocation that has begun knows the
rows it will revoke and a row of its family that it does not know is that of a
rotation, with `Counted` (the clock plus the calls in
flight stay within the grace of a barred account, whose tokens are therefore
bounded in number). `AllWait`: a request in `failedQueue` belongs to a refresh
that is under way. `Clearing` follows the two writes of clearTokens. Under the
mild mishaps (`Mild`: lost, late_401, idle, bar) `TokensKept` keeps the tokens of
two families apart and those a client has left dead. `AllTidy` relates memory and
disk during each flow, `AllValid` what a client will hold when its flow ends; at
rest these are `TokensAgree`.

**Decisions and records.** A call in flight on an item that is decided is *late*:
it had read the item before. Every write of a decided item is by such a call, and
when no two calls on one item crossed there is none, so the records written with
it agree (`Agreement`). `RecordsInv` has one conjunct for what an index, a
transaction or a single statement keeps.

**Screens.** `ProfileInv`: screens that wait for an answer are mounted
(`ScreensMounted`), a switch shows the cache or its call (`SwitchesAgree`), what a
call will put back is what it found (`CopiesMatch`), one toggle at a time
(`OneToggle`), and when all is answered the cache is or will be right
(`WillBeRight`, `ChoiceArrives`). `EditInv`: a form opened on a cached profile is
left alone by every write that can still come (`EditsRead`, `OneSave`, `NoToggle`,
`OwnSave`). `HomeInv`: whatever screen of the volunteers' part is in the stack, he
was approved when it was entered, and no button outside leads in. `Own`: the
screens of a role stand on top of the others and are all of the account signed in,
so the replace of a sign-out, which cuts below them, takes them all. `FormInv`: a
popup, its timer and the tap that opened it belong together. `DashInv`: the last
fetch of the table, if no answer overtook it, will show the rows of its filter
(`TableWillBeRight`), and a decision on a row's page its status (`RowWillBeRight`).

**Proved and in no run.** `TypeOK` of the ticket, session, phone, token,
moderation, presence and relay models, `RemainingIsHonest`, `ClaimStands`,
`ClaimProtocol`, `EndsCome`, `NoneForgotten`, `EndedStaysEnded`, `UnlockOnlyOwn`,
`DailyBound` of the session model and
the refinements of `SessionContract` by Journey and ChatPresence were checked by
TLC while the models grew; since they are proved for every instance, no run
repeats them.

**Only model-checked.** Liveness (`WaitingResolved`, `SessionEnds`,
`JourneyEnds`): liveness and ENABLED are beyond TLAPS here; `NoneForgotten` is as
far as the proofs go. Every other property of a passing run is a theorem. The
modules use no RECURSIVE operator.

## 5. Abstractions

- Scores, languages, texts, response bodies and push messages are left out.
  `FindVolunteer` takes *some* unblocked pooled volunteer; the score chooses
  which. It may also find none with the pool not empty, because the code has
  paths to that (unknown category, a volunteer pooled after the read).
- `Blocked` does not change during a behaviour. Seekers and volunteers are
  different accounts.
- `session:request` opens a session without a ticket. The shipped app never sends
  it; `ChargesAreRight` speaks of sessions of `connect()`.
- In SessionLifecycle the chat ends only after the app was told of the match
  (`Told`): it joins the room then, and all three ways to end a chat need a
  participant in the room. ChatPresence has those ways step by step.
- The idempotency key's TTL (300 s) is not an action: `OneSessionPerKey` and
  `OneSessionUnlessOverlapped` speak of requests within it. accept() leaves
  `user_problem.status` as Path B wrote it; so does the model.
- The date of the ticket key is modelled in `Tickets`, not in
  `SessionLifecycle`, where all sessions happen on one date.
- The flag `AUTH_BYPASS` of development builds (`mobile/src/app/index.tsx:48-51`),
  which skips accounts and the gate, is off.
- The effects of the profile's form run when a value changes. The mapped list of
  specialisations (`editVolunteerProfile.tsx:33`) is the same value from render to
  render only because the React compiler memoizes it (`app.config.ts:99`).
- `session:timeout` may run of a session at any time after the session is there,
  once; that it ends one before the chat's own 30 minutes are over is the mishap
  `never_joined`.
- One process serves HTTP and sockets, and one worker each queue with its default
  concurrency of one (`SP:58` sets no other).
- A key pair is a name, an encrypted message its number and secret, a pair of
  tokens the second it was signed in, a profile one edited value per field.
- A page of a dashboard's table is the set of its rows, whose order is that of the
  list. Page names of the router are strings without blanks (`TnS-agree` for
  "TnS agree").

**Not modelled.** Layout, animations, texts and styles; DTO validation; the seed;
SessionController's routing, LookupService and the start-up of the application;
`message:seen`, typing and the rate limit of 30 messages a minute; blocks made
while a session is matched; screens that nothing leads to (PeertoPeer,
P2P-P2V-withCategory, the category dropdowns) and dialogs that nothing imports
(ReportBottomSheet, BlockConfirmationDialog); the session history, which reads
`p.sessions` of an answer that has `data`.

## 6. Plan

The order was: tickets and sessions, the chat, accounts, phones, then proofs from
the centre outwards. What is left:

1. A refinement of `Journey`'s server steps by those of `SessionLifecycle`, and of
   the chat's end in `SessionLifecycle` by ChatPresence's: all three implement
   `SessionContract`, which says nothing of queues, sockets and phones.
2. The reconnection of a chat: what `SyncMissed` replays after a drop, where
   `DeliveredInOrder` says nothing yet, with a client that numbers what it has seen.
3. The hazards in `PROJECT.json` that no property covers; their notes say what
   each would take.
