-------------------------- MODULE SessionLifecycle ---------------------------
(***************************************************************************)
(* How a help session is created, matched, charged and ended: the HTTP     *)
(* handlers connect() and accept() of SessionService, the three delayed    *)
(* jobs of SessionProcessor and the chat side's end of a session, all      *)
(* working on the same PostgreSQL rows, Redis keys and BullMQ jobs.        *)
(*                                                                         *)
(* A handler runs as a process with a program counter and gives way at     *)
(* each await, so every action is what the code does between two awaits    *)
(* (awaits that touch nothing another process can see are one action).     *)
(* A connect request creates at most one session, so a session, its        *)
(* UserProblem and its jobs are named by the request that created them.    *)
(*                                                                         *)
(* There is no clock: a delayed job may fire at any time after it was      *)
(* added.  What the delays and the TTLs normally rule out is listed in     *)
(* Disturbance, and `Allow` says which of it a run lets happen.            *)
(***************************************************************************)
EXTENDS TicketOps, FiniteSets

CONSTANTS
  Seeker,        \* accounts that ask for help
  Volunteer,     \* approved, available volunteers
  Request,       \* POST /session/connect requests
  SeekerOf,      \* the seeker of each request
  Key,           \* idempotency keys the app made up
  KeyOf,         \* the key each request carries
  Acceptor,      \* POST /session/:id/accept calls that may be in flight
  VolunteerOf,   \* the volunteer of each of them
  Blocked,       \* pairs <<seeker, volunteer>> with a block either way
  DailyLimit,    \* DAILY_TICKET_LIMIT
  Allow,         \* the disturbances that may happen
  None           \* no volunteer, no acceptor, no request

(* parallel_connect: a seeker's connect starts while another is in flight. *)
(* early_end: a session ends before its grace-end job (3 min) has run.     *)
(* timeout_during_accept: match:timeout (3 min) runs while an accept()     *)
(*   that saw the session waiting is in flight.                            *)
(* end_during_accept: a session is accepted and ended again while another  *)
(*   accept() sits between its read of the hash and its HSETNX.            *)
(* hash_expiry: Redis expires a session hash that a handler still needs.   *)
(* lock_expiry: an accept() outlives the 60 s of its lock.                 *)
(* throw: a database, Redis or queue call throws.                          *)
(* worker_crash: the worker dies inside a job; BullMQ runs it again.       *)
Disturbance ==
  {"parallel_connect", "early_end", "timeout_during_accept",
   "end_during_accept", "hash_expiry", "lock_expiry", "throw", "worker_crash"}

ASSUME LifecycleConstants ==
  /\ SeekerOf \in [Request -> Seeker]
  /\ KeyOf \in [Request -> Key]
  /\ \A q, r \in Request : KeyOf[q] = KeyOf[r] => SeekerOf[q] = SeekerOf[r]
  /\ VolunteerOf \in [Acceptor -> Volunteer]
  /\ Blocked \subseteq Seeker \X Volunteer
  /\ DailyLimit \in Nat \ {0}
  /\ Allow \subseteq Disturbance
  /\ None \notin Volunteer \cup Acceptor \cup Request

VARIABLES
  db,        \* chat_session rows: [status, listener]
  problem,   \* user_problem.status
  hash,      \* Redis hash session:{id}: [status, listener]
  waiting,   \* Redis set sessions:waiting
  pool,      \* Redis set volunteer:pool
  ticket,    \* Redis hash ticket:{seeker}:{date}
  idem,      \* idempotency:session-connect:{seeker}:{key} -> stored session
  lock,      \* volunteer:{id}:accepting -> the acceptor holding it
  job,       \* BullMQ jobs of the sessions queue, per session and name
  cpc,       \* where each connect request is
  found,     \* the volunteer each connect request took from the pool
  apc,       \* where each accept call is
  target,    \* the session each accept call is about
  closing,   \* the listener of each session whose chat-side teardown is due
  winners    \* history: the volunteers written to a session's row by accept

dbVars == <<db, problem>>
redisVars == <<hash, waiting, pool, ticket, idem, lock>>
pcVars == <<cpc, found, apc, target, closing>>
vars == <<db, problem, hash, waiting, pool, ticket, idem, lock, job,
          cpc, found, apc, target, closing, winners>>

-----------------------------------------------------------------------------

(* No code sets the two other statuses of the schema, cancelled_grace and  *)
(* cancelled_admin.                                                        *)
Terminal == {"completed", "cancelled_disconnect", "cancelled_timeout"}

Row ==
  [status: {"absent", "active"} \cup Terminal, listener: Volunteer \cup {None}]
SessionHash ==
  [status: {"none", "waiting", "active"}, listener: Volunteer \cup {None}]

NoRow == [status |-> "absent", listener |-> None]
NoHash == [status |-> "none", listener |-> None]

(* A job is "none" if never added or removed, "done" once processed and    *)
(* "failed" if its handler threw.  JobBusy says where in the handler the   *)
(* worker is.                                                              *)
JobName == {"match", "grace", "timeout"}

JobIdle == {"none", "delayed", "done", "failed"}
JobBusy == {"cancel", "refund", "drop", "charge", "ack", "cleanup"}

ConnectPc ==
  {"idle", "check", "reserve", "problem", "match", "createB", "publishB",
   "jobB", "createA", "hashA", "jobsA", "key", "rollback", "refund", "done"}
AcceptPc ==
  {"idle", "check", "read", "claim", "multi", "blocks", "persist", "cancel",
   "schedule", "unlock"}

TypeOK ==
  /\ db \in [Request -> Row]
  /\ problem \in [Request -> {"absent", "waiting", "matched", "expired"}]
  /\ hash \in [Request -> SessionHash]
  /\ waiting \subseteq Request
  /\ pool \subseteq Volunteer
  /\ ticket \in [Seeker -> TicketHash]
  /\ idem \in [Key -> Request \cup {None}]
  /\ lock \in [Volunteer -> Acceptor \cup {None}]
  /\ job \in [Request -> [JobName -> JobIdle \cup JobBusy]]
  /\ cpc \in [Request -> ConnectPc]
  /\ found \in [Request -> Volunteer \cup {None}]
  /\ apc \in [Acceptor -> AcceptPc]
  /\ target \in [Acceptor -> Request \cup {None}]
  /\ closing \in [Request -> Volunteer \cup {None}]
  /\ winners \in [Request -> SUBSET Volunteer]

Init ==
  /\ db = [r \in Request |-> NoRow]
  /\ problem = [r \in Request |-> "absent"]
  /\ hash = [r \in Request |-> NoHash]
  /\ waiting = {}
  /\ pool = {}
  /\ ticket = [k \in Seeker |-> EmptyKey]
  /\ idem = [k \in Key |-> None]
  /\ lock = [v \in Volunteer |-> None]
  /\ job = [r \in Request |-> [n \in JobName |-> "none"]]
  /\ cpc = [r \in Request |-> "idle"]
  /\ found = [r \in Request |-> None]
  /\ apc = [a \in Acceptor |-> "idle"]
  /\ target = [a \in Acceptor |-> None]
  /\ closing = [r \in Request |-> None]
  /\ winners = [r \in Request |-> {}]

Active(r) == db[r].status = "active"
Unmatched(r) == Active(r) /\ db[r].listener = None

-----------------------------------------------------------------------------
(* BullMQ.  add() with the jobId of a job that still exists does nothing;  *)
(* a finished job is gone (removeOnComplete), a failed one is kept for a   *)
(* day and not tried again (no `attempts` is set).  Job.remove() throws on *)
(* a job the worker is processing.  One worker serves the sessions queue   *)
(* with the default concurrency of 1.                                      *)

Added(state) == IF state \in {"none", "done"} THEN "delayed" ELSE state
Removed(state) == IF state = "delayed" THEN "none" ELSE state

SetJob(r, n, state) == job' = [job EXCEPT ![r][n] = state]
WorkerFree == \A r \in Request, n \in JobName : job[r][n] \in JobIdle

-----------------------------------------------------------------------------
(* connect(): SessionService.connect                                       *)

InFlight(r) == cpc[r] \notin {"idle", "done"}
Step(r, from, to) == cpc[r] = from /\ cpc' = [cpc EXCEPT ![r] = to]

Mut_KeyIgnored(r) ==
  /\ \/ "parallel_connect" \in Allow
     \/ \A q \in Request : SeekerOf[q] = SeekerOf[r] => ~InFlight(q)
  /\ Step(r, "idle", "check")
  /\ UNCHANGED <<dbVars, redisVars, job, found, apc, target, closing, winners>>

(* Step 1: a key already answered gets the stored answer.                  *)
CheckKey(r) ==
  /\ \/ "parallel_connect" \in Allow
     \/ \A q \in Request : SeekerOf[q] = SeekerOf[r] => ~InFlight(q)
  /\ Step(r, "idle", IF idem[KeyOf[r]] = None THEN "check" ELSE "done")
  /\ UNCHANGED <<dbVars, redisVars, job, found, apc, target, closing, winners>>

Mut_CheckMatchedOnly(r) ==
  /\ Step(r, "check",
          IF \E q \in Request : /\ SeekerOf[q] = SeekerOf[r]
                               /\ Active(q) /\ db[q].listener # None
            THEN "done" ELSE "reserve")
  /\ UNCHANGED <<dbVars, redisVars, job, found, apc, target, closing, winners>>

(* Step 2: 409 if the seeker has an active session.                        *)
CheckActive(r) ==
  /\ Step(r, "check",
          IF \E q \in Request : SeekerOf[q] = SeekerOf[r] /\ Active(q)
            THEN "done" ELSE "reserve")
  /\ UNCHANGED <<dbVars, redisVars, job, found, apc, target, closing, winners>>

(* Step 3: 403 if there is no ticket left today.                           *)
ReserveTicket(r) ==
  LET k == SeekerOf[r] IN
  /\ Step(r, "reserve",
          IF CanReserve(ticket[k], DailyLimit) THEN "problem" ELSE "done")
  /\ ticket' = [ticket EXCEPT ![k] = TryReserve(@, DailyLimit)]
  /\ UNCHANGED <<dbVars, hash, waiting, pool, idem, lock, job,
                 found, apc, target, closing, winners>>

CreateProblem(r) ==
  /\ Step(r, "problem", "match")
  /\ problem' = [problem EXCEPT ![r] = "waiting"]
  /\ UNCHANGED <<db, redisVars, job, found, apc, target, closing, winners>>

(* Steps 5 and 6: findBestVolunteer takes one of the pooled volunteers     *)
(* without a block (SREM answers 1 to one caller only); the score decides  *)
(* which, and is left open here.  It may find none with the pool not       *)
(* empty: the category is unknown, or he was pooled after its SMEMBERS.    *)
Matchable(r) == {v \in pool : <<SeekerOf[r], v>> \notin Blocked}

FindVolunteer(r) ==
  /\ \/ \E v \in Matchable(r) :
          /\ Step(r, "match", "createA")
          /\ pool' = pool \ {v}
          /\ found' = [found EXCEPT ![r] = v]
     \/ /\ Step(r, "match", "createB")
        /\ UNCHANGED <<pool, found>>
  /\ UNCHANGED <<dbVars, hash, waiting, ticket, idem, lock, job,
                 apc, target, closing, winners>>

(* Path A: one transaction for the session and its problem, then the hash, *)
(* then the two jobs of a running session.                                 *)
CreateMatched(r) ==
  /\ Step(r, "createA", "hashA")
  /\ db' = [db EXCEPT ![r] = [status |-> "active", listener |-> found[r]]]
  /\ problem' = [problem EXCEPT ![r] = "matched"]
  /\ UNCHANGED <<redisVars, job, found, apc, target, closing, winners>>

StoreActiveHash(r) ==
  /\ Step(r, "hashA", "jobsA")
  /\ hash' = [hash EXCEPT ![r] = [status |-> "active", listener |-> found[r]]]
  /\ UNCHANGED <<dbVars, waiting, pool, ticket, idem, lock, job,
                 found, apc, target, closing, winners>>

ScheduleSessionJobs(r) ==
  job' = [job EXCEPT ![r].grace = Added(@), ![r].timeout = Added(@)]

ScheduleMatched(r) ==
  /\ Step(r, "jobsA", "key")
  /\ ScheduleSessionJobs(r)
  /\ UNCHANGED <<dbVars, redisVars, found, apc, target, closing, winners>>

(* Path B: a session without a listener.  Nobody can name it before it is  *)
(* in sessions:waiting, so the hash and the set entry are one action.      *)
CreateWaiting(r) ==
  /\ Step(r, "createB", "publishB")
  /\ db' = [db EXCEPT ![r] = [status |-> "active", listener |-> None]]
  /\ UNCHANGED <<problem, redisVars, job, found, apc, target, closing, winners>>

PublishWaiting(r) ==
  /\ Step(r, "publishB", "jobB")
  /\ hash' = [hash EXCEPT ![r].status = "waiting"]
  /\ waiting' = waiting \cup {r}
  /\ UNCHANGED <<dbVars, pool, ticket, idem, lock, job,
                 found, apc, target, closing, winners>>

Mut_NoMatchTimeout(r) ==
  /\ Step(r, "jobB", "key")
  /\ UNCHANGED <<dbVars, redisVars, job, found, apc, target, closing, winners>>

ScheduleMatchTimeout(r) ==
  /\ Step(r, "jobB", "key")
  /\ SetJob(r, "match", Added(job[r].match))
  /\ UNCHANGED <<dbVars, redisVars, found, apc, target, closing, winners>>

StoreAnswer(r) ==
  /\ Step(r, "key", "done")
  /\ idem' = [idem EXCEPT ![KeyOf[r]] = r]
  /\ UNCHANGED <<dbVars, hash, waiting, pool, ticket, lock, job,
                 found, apc, target, closing, winners>>

(* A call threw.  Before the session exists there is only the ticket to    *)
(* give back, and steps 5 and 6 are outside every try: they keep it.  Of   *)
(* the two jobs of a matched session the first may have been added.        *)
ConnectThrows(r) ==
  /\ "throw" \in Allow
  /\ \/ Step(r, "match", "done") /\ UNCHANGED job
     \/ \E pc \in {"problem", "createA", "createB"} :
          Step(r, pc, "refund") /\ UNCHANGED job
     \/ \E pc \in {"hashA", "jobsA", "publishB", "jobB", "key"} :
          Step(r, pc, "rollback") /\ UNCHANGED job
     \/ Step(r, "jobsA", "rollback") /\ SetJob(r, "grace", Added(job[r].grace))
  /\ UNCHANGED <<dbVars, redisVars, found, apc, target, closing, winners>>

(* The catch blocks: delete the session, reset its problem, give the       *)
(* ticket back; both are best-effort, so each may throw and be skipped.    *)
(* The hash, the waiting entry, the jobs and the volunteer stay as they    *)
(* are.                                                                    *)
Rollback(r) ==
  /\ Step(r, "rollback", "refund")
  /\ \/ /\ db' = [db EXCEPT ![r] = NoRow]
        /\ problem' = [problem EXCEPT ![r] = "waiting"]
     \/ UNCHANGED dbVars
  /\ UNCHANGED <<redisVars, job, found, apc, target, closing, winners>>

RefundFailed(r) ==
  /\ Step(r, "refund", "done")
  /\ \/ ticket' = [ticket EXCEPT ![SeekerOf[r]] = ReleaseReserved(@)]
     \/ UNCHANGED ticket
  /\ UNCHANGED <<dbVars, hash, waiting, pool, idem, lock, job,
                 found, apc, target, closing, winners>>

Connect(r) ==
  \/ CheckActive(r) \/ ReserveTicket(r) \/ CreateProblem(r)
  \/ FindVolunteer(r)
  \/ CreateMatched(r) \/ StoreActiveHash(r) \/ ScheduleMatched(r)
  \/ CreateWaiting(r) \/ PublishWaiting(r) \/ ScheduleMatchTimeout(r)
  \/ StoreAnswer(r)
  \/ Rollback(r) \/ RefundFailed(r)

-----------------------------------------------------------------------------
(* accept(): SessionService.accept                                         *)

Go(a, from, to) == apc[a] = from /\ apc' = [apc EXCEPT ![a] = to]

(* A volunteer learns of a session from sessions:waiting or the push       *)
(* notification, so only of those connect() published.                     *)
Published(r) ==
  /\ found[r] = None /\ problem[r] # "absent"
  /\ cpc[r] \in {"jobB", "key", "rollback", "refund", "done"}

Mut_TakeLockAnyway(a, r) ==
  /\ Published(r)
  /\ Go(a, "idle", "check")
  /\ lock' = [lock EXCEPT ![VolunteerOf[a]] = a]
  /\ target' = [target EXCEPT ![a] = r]
  /\ UNCHANGED <<dbVars, hash, waiting, pool, ticket, idem, job,
                 cpc, found, closing, winners>>

(* Step 0: SET NX on the volunteer's lock; a caller that finds it taken is *)
(* refused without any effect.                                             *)
TakeLock(a, r) ==
  /\ Published(r)
  /\ lock[VolunteerOf[a]] = None
  /\ Go(a, "idle", "check")
  /\ lock' = [lock EXCEPT ![VolunteerOf[a]] = a]
  /\ target' = [target EXCEPT ![a] = r]
  /\ UNCHANGED <<dbVars, hash, waiting, pool, ticket, idem, job,
                 cpc, found, closing, winners>>

Mut_NoVolunteerCheck(a) ==
  /\ Go(a, "check", "read")
  /\ UNCHANGED <<dbVars, redisVars, job, cpc, found, target, closing, winners>>

(* Step 1: 409 if the volunteer is already listening to someone.           *)
CheckVolunteer(a) ==
  /\ Go(a, "check",
        IF \E q \in Request : Active(q) /\ db[q].listener = VolunteerOf[a]
          THEN "unlock" ELSE "read")
  /\ UNCHANGED <<dbVars, redisVars, job, cpc, found, target, closing, winners>>

Mut_ReadAnyHash(a) ==
  /\ Go(a, "read", "claim")
  /\ UNCHANGED <<dbVars, redisVars, job, cpc, found, target, closing, winners>>

(* Steps 2 and 3: the hash must exist and say waiting.                     *)
ReadHash(a) ==
  /\ Go(a, "read",
        IF hash[target[a]].status = "waiting" THEN "claim" ELSE "unlock")
  /\ "timeout_during_accept" \in Allow \/ job[target[a]].match \in JobIdle
  /\ UNCHANGED <<dbVars, redisVars, job, cpc, found, target, closing, winners>>

Mut_ClaimBySet(a) ==
  /\ Go(a, "claim", "multi")
  /\ hash' = [hash EXCEPT ![target[a]].listener = VolunteerOf[a]]
  /\ UNCHANGED <<dbVars, waiting, pool, ticket, idem, lock, job,
                 cpc, found, target, closing, winners>>

(* Step 4: HSETNX; it creates the hash again if it is gone.                *)
Claim(a) ==
  LET r == target[a]
      free == hash[r].listener = None
  IN
  /\ Go(a, "claim", IF free THEN "multi" ELSE "unlock")
  /\ hash' = IF free THEN [hash EXCEPT ![r].listener = VolunteerOf[a]] ELSE hash
  /\ UNCHANGED <<dbVars, waiting, pool, ticket, idem, lock, job,
                 cpc, found, target, closing, winners>>

Activate(a) ==
  LET r == target[a] IN
  /\ Go(a, "multi", "blocks")
  /\ hash' = [hash EXCEPT ![r].status = "active"]
  /\ waiting' = waiting \ {r}
  /\ UNCHANGED <<dbVars, pool, ticket, idem, lock, job,
                 cpc, found, target, closing, winners>>

(* The undo of a claim: the hash is waiting again, and the session is not  *)
(* put back into sessions:waiting.                                         *)
UndoClaim(r) ==
  hash' = [hash EXCEPT ![r] = [status |-> "waiting", listener |-> None]]

Mut_RefuseKeepsClaim(a) ==
  /\ Go(a, "blocks",
        IF <<SeekerOf[target[a]], VolunteerOf[a]>> \in Blocked
          THEN "unlock" ELSE "persist")
  /\ UNCHANGED <<dbVars, redisVars, job, cpc, found, target, closing, winners>>

(* Step 5: 403 if either has blocked the other.                            *)
CheckBlocks(a) ==
  LET r == target[a]
      refused == <<SeekerOf[r], VolunteerOf[a]>> \in Blocked
  IN
  /\ Go(a, "blocks", IF refused THEN "unlock" ELSE "persist")
  /\ IF refused THEN UndoClaim(r) ELSE UNCHANGED hash
  /\ UNCHANGED <<dbVars, waiting, pool, ticket, idem, lock, job,
                 cpc, found, target, closing, winners>>

(* Step 6: the row is updated by its id alone; only a missing row fails,   *)
(* and undoes the claim.                                                   *)
Persist(a) ==
  LET r == target[a] IN
  /\ \/ /\ Go(a, "persist", "cancel")
        /\ db[r].status # "absent"
        /\ db' = [db EXCEPT ![r] = [status |-> "active",
                                    listener |-> VolunteerOf[a]]]
        /\ winners' = [winners EXCEPT ![r] = @ \cup {VolunteerOf[a]}]
        /\ UNCHANGED hash
     \/ /\ Go(a, "persist", "unlock")
        /\ db[r].status = "absent" \/ "throw" \in Allow
        /\ UndoClaim(r)
        /\ UNCHANGED <<db, winners>>
  /\ UNCHANGED <<problem, waiting, pool, ticket, idem, lock, job,
                 cpc, found, target, closing>>

(* Step 7: remove match:timeout (an error is only logged), then add the    *)
(* jobs of a running session.                                              *)
CancelMatchTimeout(a) ==
  LET r == target[a] IN
  /\ Go(a, "cancel", "schedule")
  /\ \/ SetJob(r, "match", Removed(job[r].match))
     \/ "throw" \in Allow /\ UNCHANGED job
  /\ UNCHANGED <<dbVars, redisVars, cpc, found, target, closing, winners>>

Mut_NoSessionTimeout(a) ==
  LET r == target[a] IN
  /\ Go(a, "schedule", "unlock")
  /\ SetJob(r, "grace", Added(job[r].grace))
  /\ UNCHANGED <<dbVars, redisVars, cpc, found, target, closing, winners>>

ScheduleAccepted(a) ==
  LET r == target[a] IN
  /\ Go(a, "schedule", "unlock")
  /\ \/ ScheduleSessionJobs(r)
     \/ "throw" \in Allow /\ SetJob(r, "grace", Added(job[r].grace))
  /\ UNCHANGED <<dbVars, redisVars, cpc, found, target, closing, winners>>

(* An accept() that found r waiting has not written the row yet. *)
Claiming(r) ==
  \E a \in Acceptor :
    target[a] = r /\ apc[a] \in {"claim", "multi", "blocks", "persist"}

(* finally: delete the lock if it still carries this call's token; an      *)
(* error is only logged.                                                   *)
Unlock(a) ==
  LET v == VolunteerOf[a] IN
  /\ Go(a, "unlock", "idle")
  /\ \/ lock' = [lock EXCEPT ![v] = IF @ = a THEN None ELSE @]
     \/ "throw" \in Allow /\ UNCHANGED lock
  /\ target' = [target EXCEPT ![a] = None]
  /\ UNCHANGED <<dbVars, hash, waiting, pool, ticket, idem, job,
                 cpc, found, closing, winners>>

(* A call threw: straight to finally.  Only an error that a command of the *)
(* MULTI reports, and a failed row update (Persist), undo the claim; a     *)
(* rejected exec(), block lookup or queue call leaves it standing.         *)
AcceptThrows(a) ==
  /\ "throw" \in Allow
  /\ \/ \E pc \in {"check", "read", "claim", "multi", "blocks", "schedule"} :
          Go(a, pc, "unlock") /\ UNCHANGED hash
     \/ Go(a, "multi", "unlock") /\ UndoClaim(target[a])
  /\ UNCHANGED <<dbVars, waiting, pool, ticket, idem, lock, job,
                 cpc, found, target, closing, winners>>

Accept(a) ==
  \/ CheckVolunteer(a) \/ ReadHash(a) \/ Claim(a) \/ Activate(a)
  \/ CheckBlocks(a) \/ Persist(a) \/ CancelMatchTimeout(a)
  \/ ScheduleAccepted(a) \/ Unlock(a)

-----------------------------------------------------------------------------
(* The worker of the sessions queue: SessionProcessor                      *)

(* match:timeout fires.  It bails out if the hash names a listener.        *)
StartMatchTimeout(r) ==
  /\ job[r].match = "delayed"
  /\ WorkerFree
  /\ "timeout_during_accept" \in Allow \/ ~Claiming(r)
  /\ SetJob(r, "match", IF hash[r].listener = None THEN "cancel" ELSE "done")
  /\ UNCHANGED <<dbVars, redisVars, pcVars, winners>>

Mut_CancelAsRead(r) ==
  /\ job[r].match = "cancel"
  /\ db' = [db EXCEPT ![r].status = "cancelled_timeout"]
  /\ problem' = [problem EXCEPT ![r] = "expired"]
  /\ SetJob(r, "match", "refund")
  /\ UNCHANGED <<redisVars, pcVars, winners>>

(* The row is cancelled only if it is still active and has no listener;    *)
(* the reads before this transaction check nothing the transaction does    *)
(* not check again.                                                        *)
CancelUnmatched(r) ==
  /\ job[r].match = "cancel"
  /\ IF Unmatched(r)
       THEN /\ db' = [db EXCEPT ![r].status = "cancelled_timeout"]
            /\ problem' = [problem EXCEPT ![r] = "expired"]
            /\ SetJob(r, "match", "refund")
       ELSE SetJob(r, "match", "done") /\ UNCHANGED dbVars
  /\ UNCHANGED <<redisVars, pcVars, winners>>

Mut_NoRefund(r) ==
  /\ job[r].match = "refund"
  /\ SetJob(r, "match", "drop")
  /\ UNCHANGED <<dbVars, redisVars, pcVars, winners>>

RefundUnmatched(r) ==
  /\ job[r].match = "refund"
  /\ SetJob(r, "match", "drop")
  /\ ticket' = [ticket EXCEPT ![SeekerOf[r]] = ReleaseReserved(@)]
  /\ UNCHANGED <<dbVars, hash, waiting, pool, idem, lock, pcVars, winners>>

DropUnmatched(r) ==
  /\ job[r].match = "drop"
  /\ SetJob(r, "match", "done")
  /\ hash' = [hash EXCEPT ![r] = NoHash]
  /\ waiting' = waiting \ {r}
  /\ UNCHANGED <<dbVars, pool, ticket, idem, lock, pcVars, winners>>

(* session:grace-end charges a session that is still active.               *)
StartGraceEnd(r) ==
  /\ job[r].grace = "delayed"
  /\ WorkerFree
  /\ SetJob(r, "grace", IF Active(r) THEN "charge" ELSE "done")
  /\ UNCHANGED <<dbVars, redisVars, pcVars, winners>>

Mut_ChargeReleases(r) ==
  /\ job[r].grace = "charge"
  /\ SetJob(r, "grace", "ack")
  /\ ticket' = [ticket EXCEPT ![SeekerOf[r]] = ReleaseReserved(@)]
  /\ UNCHANGED <<dbVars, hash, waiting, pool, idem, lock, pcVars, winners>>

Charge(r) ==
  /\ job[r].grace = "charge"
  /\ SetJob(r, "grace", "ack")
  /\ ticket' = [ticket EXCEPT ![SeekerOf[r]] = ConsumeReserved(@)]
  /\ UNCHANGED <<dbVars, hash, waiting, pool, idem, lock, pcVars, winners>>

AckGraceEnd(r) ==
  /\ job[r].grace = "ack"
  /\ SetJob(r, "grace", "done")
  /\ UNCHANGED <<dbVars, redisVars, pcVars, winners>>

(* session:timeout, added with grace-end and due 42 min after it.          *)
StartSessionTimeout(r) ==
  /\ job[r].timeout = "delayed"
  /\ job[r].grace # "delayed"
  /\ WorkerFree
  /\ "end_during_accept" \in Allow \/ ~Claiming(r)
  /\ db' = [db EXCEPT ![r].status = IF @ = "active" THEN "completed" ELSE @]
  /\ SetJob(r, "timeout", "cleanup")
  /\ UNCHANGED <<problem, redisVars, pcVars, winners>>

FinishSessionTimeout(r) ==
  /\ job[r].timeout = "cleanup"
  /\ SetJob(r, "timeout", "done")
  /\ hash' = [hash EXCEPT ![r] = NoHash]
  /\ UNCHANGED <<dbVars, waiting, pool, ticket, idem, lock, pcVars, winners>>

(* The worker dies inside a handler: the job stalls and is run again.      *)
WorkerCrash(r) ==
  /\ "worker_crash" \in Allow
  /\ \E n \in JobName : job[r][n] \in JobBusy /\ SetJob(r, n, "delayed")
  /\ UNCHANGED <<dbVars, redisVars, pcVars, winners>>

(* A call inside a handler threw: the job has failed. *)
JobThrows(r) ==
  /\ "throw" \in Allow
  /\ \E n \in JobName :
       /\ job[r][n] \in JobBusy \/ (job[r][n] = "delayed" /\ WorkerFree)
       /\ SetJob(r, n, "failed")
  /\ UNCHANGED <<dbVars, redisVars, pcVars, winners>>

Worker(r) ==
  \/ StartMatchTimeout(r) \/ CancelUnmatched(r)
  \/ RefundUnmatched(r) \/ DropUnmatched(r)
  \/ StartGraceEnd(r) \/ Charge(r) \/ AckGraceEnd(r)
  \/ StartSessionTimeout(r) \/ FinishSessionTimeout(r)

-----------------------------------------------------------------------------
(* The chat side ends a session: session:end, the 30-minute timer or       *)
(* reconnect-expire, each through ChatService.endSession, whose guarded    *)
(* update lets one of them win and do the teardown.  All three need a      *)
(* participant in the room, which the app joins when it is told of the     *)
(* match, after the last step of connect() or accept() that changes state. *)

Told(r) ==
  /\ db[r].listener # None
  /\ found[r] # None => cpc[r] = "done"
  /\ \A a \in Acceptor : target[a] = r => apc[a] \notin {"cancel", "schedule"}

EndChat(r) ==
  /\ Active(r) /\ Told(r)
  /\ "end_during_accept" \in Allow \/ ~Claiming(r)
  /\ "early_end" \in Allow \/ job[r].grace \in {"done", "failed"}
  /\ \E end \in {"completed", "cancelled_disconnect"} :
       db' = [db EXCEPT ![r].status = end]
  /\ closing' = [closing EXCEPT ![r] = db[r].listener]
  /\ UNCHANGED <<problem, redisVars, job, cpc, found, apc, target, winners>>

(* Purge the hash; the volunteer is pooled again if he is online.          *)
FinishChat(r) ==
  /\ closing[r] # None
  /\ closing' = [closing EXCEPT ![r] = None]
  /\ hash' = [hash EXCEPT ![r] = NoHash]
  /\ pool' \in {pool, pool \cup {closing[r]}}
  /\ UNCHANGED <<dbVars, waiting, ticket, idem, lock, job,
                 cpc, found, apc, target, winners>>

(* A volunteer's socket connects (pooled unless in an active session) or   *)
(* disconnects.                                                            *)
GoOnline(v) ==
  /\ v \notin pool
  /\ ~\E r \in Request : Active(r) /\ db[r].listener = v
  /\ pool' = pool \cup {v}
  /\ UNCHANGED <<dbVars, hash, waiting, ticket, idem, lock, job, pcVars, winners>>

GoOffline(v) ==
  /\ v \in pool
  /\ pool' = pool \ {v}
  /\ UNCHANGED <<dbVars, hash, waiting, ticket, idem, lock, job, pcVars, winners>>

(* GET /session/waiting drops the entries whose hash is not waiting.       *)
PruneWaiting(r) ==
  /\ r \in waiting /\ hash[r].status # "waiting"
  /\ waiting' = waiting \ {r}
  /\ UNCHANGED <<dbVars, hash, pool, ticket, idem, lock, job, pcVars, winners>>

(* A waiting hash, claimed or not, lives for the 3 min of match:timeout, an *)
(* active one for 45 min, longer than any accept() takes.                  *)
ExpireHash(r) ==
  /\ "hash_expiry" \in Allow
  /\ hash[r].status = "waiting"
     \/ (hash[r].status = "active" /\ \A a \in Acceptor : target[a] # r)
  /\ hash' = [hash EXCEPT ![r] = NoHash]
  /\ UNCHANGED <<dbVars, waiting, pool, ticket, idem, lock, job, pcVars, winners>>

ExpireLock(v) ==
  /\ "lock_expiry" \in Allow
  /\ lock[v] # None
  /\ lock' = [lock EXCEPT ![v] = None]
  /\ UNCHANGED <<dbVars, hash, waiting, pool, ticket, idem, job, pcVars, winners>>

-----------------------------------------------------------------------------

Next ==
  \/ \E r \in Request :
       \/ CheckKey(r) \/ Connect(r) \/ ConnectThrows(r)
       \/ Worker(r) \/ WorkerCrash(r) \/ JobThrows(r)
       \/ EndChat(r) \/ FinishChat(r) \/ PruneWaiting(r) \/ ExpireHash(r)
  \/ \E a \in Acceptor :
       (\E r \in Request : TakeLock(a, r)) \/ Accept(a) \/ AcceptThrows(a)
  \/ \E v \in Volunteer : GoOnline(v) \/ GoOffline(v) \/ ExpireLock(v)

Spec == Init /\ [][Next]_vars

(* The server goes on with a handler it has started and BullMQ runs every  *)
(* due job; nobody has to send a request, end a chat or stay online.       *)
Fairness ==
  /\ \A r \in Request : WF_vars(Connect(r)) /\ WF_vars(FinishChat(r))
  /\ \A r \in Request : SF_vars(Worker(r))
  /\ \A a \in Acceptor : WF_vars(Accept(a))

FairSpec == Spec /\ Fairness

-----------------------------------------------------------------------------
(* Tickets                                                                 *)

(* However many connects, refunds and charges of a seeker interleave, the  *)
(* tickets reserved and consumed never exceed the day's allowance.         *)
DailyBound ==
  \A k \in Seeker :
    /\ ticket[k].consumed + ticket[k].reserved <= ticket[k].daily
    /\ ticket[k].daily \in {0, DailyLimit}

RequestsOf(k) == {r \in Request : SeekerOf[r] = k}

(* Nobody talks for free: every active session of a seeker has a ticket,   *)
(* reserved or already consumed, behind it.                                *)
RunningIsPaid ==
  \A k \in Seeker :
    Cardinality({r \in RequestsOf(k) : Active(r)})
      <= ticket[k].reserved + ticket[k].consumed

(* A seeker is charged at most once for each session that ever had a       *)
(* listener, and never for one that nobody accepted.                       *)
ChargedForMatched ==
  \A k \in Seeker :
    ticket[k].consumed <=
      Cardinality({r \in RequestsOf(k) :
                     winners[r] # {} \/ (found[r] # None /\ problem[r] = "matched")})

(* Tickets and sessions agree in both directions. *)
ChargesAreRight == RunningIsPaid /\ ChargedForMatched

(* Nothing of request r is left to run. *)
Settled(r) ==
  /\ ~InFlight(r) /\ ~Active(r) /\ closing[r] = None
  /\ \A n \in JobName : job[r][n] \in {"none", "done", "failed"}
  /\ \A a \in Acceptor : target[a] # r

(* backend/README.md:954, as it is written: a session that either side     *)
(* closes within the grace period releases its ticket, the others consume  *)
(* it, so once all of a seeker's sessions are over and their jobs have run *)
(* no ticket is still reserved.  The code releases none in that case:      *)
(* handleSessionEnd leaves the ticket to grace-end, which skips a session  *)
(* that is over; SessionCrossing states what is kept.                      *)
TicketsSettled ==
  \A k \in Seeker :
    (\A r \in RequestsOf(k) : Settled(r)) => ticket[k].reserved = 0

-----------------------------------------------------------------------------
(* The volunteer's side of accept()                                        *)

(* Two accept calls of one volunteer never run at the same time.           *)
LockExclusion ==
  \A a, b \in Acceptor :
    a # b /\ VolunteerOf[a] = VolunteerOf[b] => apc[a] = "idle" \/ apc[b] = "idle"

(* A call that finds its lock expired and re-taken by another call leaves  *)
(* the other's lock alone: only the holder's own step, or the TTL, ends it.*)
UnlockOnlyOwn ==
  [][\A a, b \in Acceptor :
       a # b /\ lock[VolunteerOf[b]] = b /\ apc'[a] # apc[a]
         => lock'[VolunteerOf[b]] = b]_vars

(* Accepting never puts a volunteer into two sessions: of the active       *)
(* sessions he accepted there is at most one.                              *)
OneAccepted ==
  \A v \in Volunteer :
    Cardinality({r \in Request :
                   Active(r) /\ db[r].listener = v /\ v \in winners[r]}) <= 1

(* Only one of the volunteers who tap Accept gets the session.             *)
OneWinner == \A r \in Request : Cardinality(winners[r]) <= 1

(* Between the HSETNX and the row update, the session is still unmatched   *)
(* and the hash names the caller: what accept() writes to the row is what  *)
(* the claim in Redis promised.                                            *)
ClaimStands ==
  \A a \in Acceptor :
    apc[a] \in {"multi", "blocks", "persist"} =>
      /\ Unmatched(target[a])
      /\ hash[target[a]].listener = VolunteerOf[a]

(* Redis and PostgreSQL agree on the listener once nobody is in between.   *)
StoresAgree ==
  \A r \in Request :
    (hash[r].status = "active" /\ \A a \in Acceptor : target[a] # r) =>
      db[r].listener = hash[r].listener

-----------------------------------------------------------------------------
(* Sessions                                                                *)

(* A session that is over is never opened again or given another end.      *)
EndedStaysEnded ==
  [][\A r \in Request : db[r].status \in Terminal => db'[r] = db[r]]_vars

(* session.processor.ts:37: "DB writes use conditional guards", so that no  *)
(* job that runs late, or again after a crash, does harm.  Of a session    *)
(* that exists an end is written once, a cancellation for want of a        *)
(* volunteer never over one who has been matched, whatever throws, dies or *)
(* expires in between.  The two writes without a guard are the row update  *)
(* of accept() (session.service.ts:739), for the volunteer who claimed, and *)
(* the deletion by a connect() that failed.                                *)
OnlyAcceptReopens ==
  [][\A r \in Request :
       db[r].status # "absent" /\ db'[r] # db[r] =>
         \/ /\ Active(r) /\ db'[r].status \in Terminal
            /\ db'[r].listener = db[r].listener
            /\ db'[r].status = "cancelled_timeout" => db[r].listener = None
         \/ db'[r] = NoRow /\ cpc[r] = "rollback"
         \/ \E a \in Acceptor :
              /\ apc[a] = "persist" /\ target[a] = r
              /\ db'[r] = [status |-> "active", listener |-> VolunteerOf[a]]]_vars

(* session.service.ts:96, as it is written: an idempotency key protects    *)
(* "against: network retries, double-taps": its requests open one session  *)
(* between them.  connect() reads the key in step 1 and stores it after    *)
(* step 8, so two requests in flight together open two; SessionCrossing    *)
(* states how far the promise is kept.                                     *)
OneSessionPerKey ==
  \A k \in Key : Cardinality({r \in Request : KeyOf[r] = k /\ db[r] # NoRow}) <= 1

(* No seeker waits forever: a waiting session is matched or cancelled.     *)
WaitingResolved == \A r \in Request : Unmatched(r) ~> ~Unmatched(r)

(* Every session ends, even if nobody ends it.                             *)
SessionEnds == \A r \in Request : Active(r) ~> ~Active(r)

(* The rows, seen by the people in the sessions. *)
Phase(r) ==
  CASE db[r].status = "absent" -> "none"
    [] Unmatched(r) -> "waiting"
    [] Active(r) /\ ~Unmatched(r) -> "matched"
    [] db[r].status \in Terminal -> "ended"

Contract == INSTANCE SessionContract WITH
  Session <- Request, Listener <- Volunteer, Nobody <- None,
  phase <- [r \in Request |-> Phase(r)],
  listener <- [r \in Request |-> db[r].listener]

(* Handlers, jobs and stores together keep the contract of a session.      *)
ImplementsContract == Contract!Spec

=============================================================================
