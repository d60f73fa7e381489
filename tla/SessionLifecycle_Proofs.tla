----------------------- MODULE SessionLifecycle_Proofs ------------------------
(***************************************************************************)
(* What holds of SessionLifecycle for any seekers, volunteers, requests    *)
(* and accept calls, and any daily limit.                                  *)
(***************************************************************************)
EXTENDS SessionCrossing, TicketOps_Proofs, FiniteSetTheorems

(* A call in flight is about a session. *)
TargetsNamed == \A a \in Acceptor : apc[a] # "idle" => target[a] \in Request

(* Types and the soundness of every seeker's ticket key go together: a key *)
(* stays a record of naturals because no script takes it below zero.       *)
Sound ==
  /\ TypeOK
  /\ TargetsNamed
  /\ \A k \in Seeker : KeyOK(ticket[k], {DailyLimit})

LEMMA SoundInit == Init => Sound
  <1> SUFFICES ASSUME Init PROVE Sound
    OBVIOUS
  <1>1. EmptyKey \in TicketHash
    BY DEF EmptyKey, TicketHash
  <1>2. TypeOK
    BY <1>1, LifecycleConstants
      DEF Init, TypeOK, NoRow, NoHash, JobName, JobIdle, ConnectPc, AcceptPc,
          Row, SessionHash
  <1>3. QED
    BY <1>2, EmptyKeyOK DEF Init, Sound, TargetsNamed

JobState == JobIdle \cup JobBusy

(* What setting one job, and scheduling the two jobs of a running session, *)
(* does to the table of jobs.                                              *)
LEMMA JobSet ==
  ASSUME TypeOK, NEW r \in Request, NEW n \in JobName, NEW s \in JobState,
         SetJob(r, n, s)
  PROVE  /\ job' \in [Request -> [JobName -> JobState]]
         /\ job'[r][n] = s
         /\ \A q \in Request, m \in JobName :
              q # r \/ m # n => job'[q][m] = job[q][m]
  <1>1. job \in [Request -> [JobName -> JobState]]
    BY DEF TypeOK, JobState
  <1>2. job' = [job EXCEPT ![r] = [job[r] EXCEPT ![n] = s]]
    BY <1>1 DEF SetJob
  <1>3. job[r] \in [JobName -> JobState]
    BY <1>1
  <1>4. QED
    BY <1>1, <1>2, <1>3

LEMMA JobsScheduled ==
  ASSUME TypeOK, NEW r \in Request, ScheduleSessionJobs(r)
  PROVE  /\ job' \in [Request -> [JobName -> JobState]]
         /\ job'[r].grace = Added(job[r].grace)
         /\ job'[r].timeout = Added(job[r].timeout)
         /\ job'[r].match = job[r].match
         /\ \A q \in Request : q # r => job'[q] = job[q]
  <1>1. job \in [Request -> [JobName -> JobState]]
    BY DEF TypeOK, JobState
  <1>2. job' = [job EXCEPT ![r] = [[job[r] EXCEPT !.grace = Added(@)]
                                     EXCEPT !.timeout = Added(@)]]
    BY <1>1 DEF ScheduleSessionJobs
  <1>3. /\ job[r] \in [JobName -> JobState]
        /\ Added(job[r].grace) \in JobState
        /\ Added(job[r].timeout) \in JobState
    BY <1>1 DEF Added, JobName, JobState, JobIdle
  <1>4. QED
    BY <1>1, <1>2, <1>3 DEF JobName

(* The steps of connect() that leave the tickets alone. *)
LEMMA ConnectTypes ==
  ASSUME TypeOK, NEW r \in Request,
         \/ CheckKey(r) \/ CheckActive(r) \/ CreateProblem(r)
         \/ FindVolunteer(r) \/ CreateMatched(r) \/ StoreActiveHash(r)
         \/ ScheduleMatched(r) \/ CreateWaiting(r) \/ PublishWaiting(r)
         \/ ScheduleMatchTimeout(r) \/ StoreAnswer(r)
         \/ ConnectThrows(r) \/ Rollback(r)
  PROVE  TypeOK' /\ UNCHANGED ticket
  <1> USE LifecycleConstants
        DEF TypeOK, Step, dbVars, redisVars, pcVars, ConnectPc
  <1>1. CASE CheckKey(r)
    BY <1>1 DEF CheckKey
  <1>2. CASE CheckActive(r)
    BY <1>2 DEF CheckActive
  <1>3. CASE CreateProblem(r)
    BY <1>3 DEF CreateProblem
  <1>4. CASE FindVolunteer(r)
    <2>1. CASE Step(r, "match", "createB") /\ UNCHANGED <<pool, found>>
      BY <1>4, <2>1 DEF FindVolunteer
    <2>2. ASSUME NEW v \in Matchable(r),
                 Step(r, "match", "createA"),
                 pool' = pool \ {v},
                 found' = [found EXCEPT ![r] = v]
          PROVE TypeOK' /\ UNCHANGED ticket
      BY <1>4, <2>2 DEF FindVolunteer, Matchable
    <2>3. QED
      BY <1>4, <2>1, <2>2 DEF FindVolunteer
  <1>5. CASE CreateMatched(r)
    BY <1>5 DEF CreateMatched, Row
  <1>6. CASE StoreActiveHash(r)
    BY <1>6 DEF StoreActiveHash, SessionHash
  <1>7. CASE ScheduleMatched(r)
    BY <1>7, JobsScheduled DEF ScheduleMatched, JobState
  <1>8. CASE CreateWaiting(r)
    BY <1>8 DEF CreateWaiting, Row
  <1>9. CASE PublishWaiting(r)
    <2>1. hash' = [hash EXCEPT ![r] = [hash[r] EXCEPT !.status = "waiting"]]
      BY <1>9 DEF PublishWaiting
    <2>2. hash[r] \in SessionHash
      OBVIOUS
    <2>3. [hash[r] EXCEPT !.status = "waiting"] \in SessionHash
      BY <2>2 DEF SessionHash
    <2>4. hash' \in [Request -> SessionHash]
      BY <2>1, <2>3
    <2>5. QED
      BY <1>9, <2>4 DEF PublishWaiting
  <1>10. CASE ScheduleMatchTimeout(r)
    <2>1. "match" \in JobName /\ Added(job[r].match) \in JobState
      BY DEF Added, JobName, JobState, JobIdle
    <2>2. QED
      BY <1>10, <2>1, JobSet DEF ScheduleMatchTimeout, JobState
  <1>11. CASE StoreAnswer(r)
    BY <1>11 DEF StoreAnswer
  <1>12. CASE ConnectThrows(r)
    <2>1. cpc' \in [Request -> ConnectPc]
      <3>1. PICK from \in ConnectPc, to \in ConnectPc : Step(r, from, to)
        BY <1>12 DEF ConnectThrows
      <3>2. QED
        BY <3>1
    <2>2. "grace" \in JobName /\ Added(job[r].grace) \in JobState
      BY DEF Added, JobName, JobState, JobIdle
    <2>3. job' \in [Request -> [JobName -> JobState]]
      BY <1>12, <2>2, JobSet DEF ConnectThrows, JobState
    <2>4. QED
      BY <1>12, <2>1, <2>3 DEF ConnectThrows, JobState
  <1>13. CASE Rollback(r)
    <2>1. db' = [db EXCEPT ![r] = NoRow] \/ UNCHANGED db
      BY <1>13 DEF Rollback
    <2>2. problem' = [problem EXCEPT ![r] = "waiting"] \/ UNCHANGED problem
      BY <1>13 DEF Rollback
    <2>3. db' \in [Request -> Row]
      <3>1. NoRow \in Row
        BY DEF NoRow, Row
      <3>2. QED
        BY <2>1, <3>1
    <2>4. problem' \in [Request -> {"absent", "waiting", "matched", "expired"}]
      BY <2>2
    <2>5. cpc' \in [Request -> ConnectPc]
      BY <1>13 DEF Rollback
    <2>6. UNCHANGED <<redisVars, job, found, apc, target, closing, winners>>
      BY <1>13 DEF Rollback
    <2>7. QED
      BY <2>3, <2>4, <2>5, <2>6
  <1>14. QED
    BY <1>1, <1>2, <1>3, <1>4, <1>5, <1>6, <1>7, <1>8, <1>9, <1>10, <1>11,
       <1>12, <1>13

(* The steps of accept(). *)
LEMMA AcceptTypes ==
  ASSUME TypeOK, TargetsNamed, NEW a \in Acceptor,
         \/ \E r \in Request : TakeLock(a, r)
         \/ Accept(a)
         \/ AcceptThrows(a)
  PROVE  TypeOK' /\ TargetsNamed' /\ UNCHANGED ticket
  <1> USE LifecycleConstants
        DEF TypeOK, TargetsNamed, Go, dbVars, redisVars, pcVars, AcceptPc
  <1> DEFINE r == target[a]
  <1>0. /\ apc[a] # "idle" => r \in Request
        /\ VolunteerOf[a] \in Volunteer
    OBVIOUS
  <1>1. CASE \E q \in Request : TakeLock(a, q)
    BY <1>1 DEF TakeLock
  <1>2. CASE CheckVolunteer(a)
    BY <1>2 DEF CheckVolunteer
  <1>3. CASE ReadHash(a)
    BY <1>3 DEF ReadHash
  <1>4. CASE Claim(a)
    <2>1. r \in Request /\ hash[r] \in SessionHash
      BY <1>0, <1>4 DEF Claim
    <2> DEFINE h == [hash[r] EXCEPT !.listener = VolunteerOf[a]]
    <2>2. h \in SessionHash
      BY <2>1, <1>0 DEF SessionHash
    <2>3. hash' = [hash EXCEPT ![r] = h] \/ UNCHANGED hash
      BY <1>4, <2>1 DEF Claim
    <2> HIDE DEF h
    <2>4. hash' \in [Request -> SessionHash]
      <3>1. CASE hash' = [hash EXCEPT ![r] = h]
        BY <2>1, <2>2, <3>1
      <3>2. CASE UNCHANGED hash
        BY <3>2
      <3>3. QED
        BY <2>3, <3>1, <3>2
    <2>5. QED
      BY <1>4, <2>4 DEF Claim
  <1>5. CASE Activate(a)
    <2>1. r \in Request /\ hash[r] \in SessionHash
      BY <1>0, <1>5 DEF Activate
    <2>2. [hash[r] EXCEPT !.status = "active"] \in SessionHash
      BY <2>1 DEF SessionHash
    <2>3. hash' = [hash EXCEPT ![r] = [hash[r] EXCEPT !.status = "active"]]
      BY <1>5, <2>1 DEF Activate
    <2>4. hash' \in [Request -> SessionHash]
      BY <2>1, <2>2, <2>3
    <2>5. QED
      BY <1>5, <2>4 DEF Activate
  <1>6. ASSUME NEW q \in Request, UndoClaim(q) PROVE hash' \in [Request -> SessionHash]
    <2>1. [status |-> "waiting", listener |-> None] \in SessionHash
      BY DEF SessionHash
    <2>2. QED
      BY <1>6, <2>1 DEF UndoClaim
  <1>7. CASE CheckBlocks(a)
    <2>1. r \in Request
      BY <1>0, <1>7 DEF CheckBlocks
    <2>2. hash' \in [Request -> SessionHash]
      BY <1>6, <1>7, <2>1 DEF CheckBlocks
    <2>3. QED
      BY <1>7, <2>2 DEF CheckBlocks
  <1>8. CASE Persist(a)
    <2>1. r \in Request
      BY <1>0, <1>8 DEF Persist
    <2>2. hash' \in [Request -> SessionHash]
      BY <1>6, <1>8, <2>1 DEF Persist
    <2>3. [status |-> "active", listener |-> VolunteerOf[a]] \in Row
      BY <1>0 DEF Row
    <2>4. /\ db' \in [Request -> Row]
          /\ winners' \in [Request -> SUBSET Volunteer]
      <3>1. CASE UNCHANGED <<db, winners>>
        BY <3>1
      <3>2. CASE /\ db' = [db EXCEPT ![r] = [status |-> "active",
                                             listener |-> VolunteerOf[a]]]
                 /\ winners' = [winners EXCEPT ![r] = @ \cup {VolunteerOf[a]}]
        BY <1>0, <2>3, <3>2
      <3>3. QED
        BY <1>8, <3>1, <3>2 DEF Persist
    <2>5. apc' \in [Acceptor -> AcceptPc] /\ \A b \in Acceptor : b # a => apc'[b] = apc[b]
      BY <1>8 DEF Persist
    <2>6. UNCHANGED <<problem, waiting, pool, ticket, idem, lock, job,
                      cpc, found, target, closing>>
      BY <1>8 DEF Persist
    <2>7. QED
      BY <1>0, <2>1, <2>2, <2>4, <2>5, <2>6
  <1>9. CASE CancelMatchTimeout(a)
    <2>1. r \in Request
      BY <1>0, <1>9 DEF CancelMatchTimeout
    <2>2. "match" \in JobName /\ Removed(job[r].match) \in JobState
      BY <2>1 DEF Removed, JobName, JobState, JobIdle
    <2>3. job' \in [Request -> [JobName -> JobState]]
      BY <1>9, <2>1, <2>2, JobSet DEF CancelMatchTimeout, JobState
    <2>4. QED
      BY <1>9, <2>3 DEF CancelMatchTimeout, JobState
  <1>10. CASE ScheduleAccepted(a)
    <2>1. r \in Request
      BY <1>0, <1>10 DEF ScheduleAccepted
    <2>2. "grace" \in JobName /\ Added(job[r].grace) \in JobState
      BY <2>1 DEF Added, JobName, JobState, JobIdle
    <2>3. job' \in [Request -> [JobName -> JobState]]
      BY <1>10, <2>1, <2>2, JobSet, JobsScheduled DEF ScheduleAccepted
    <2>4. QED
      BY <1>10, <2>3 DEF ScheduleAccepted, JobState
  <1>11. CASE Unlock(a)
    <2>1. lock' \in [Volunteer -> Acceptor \cup {None}]
      BY <1>11 DEF Unlock
    <2>2. QED
      BY <1>11, <2>1 DEF Unlock
  <1>12. CASE AcceptThrows(a)
    <2>1. r \in Request
      BY <1>0, <1>12 DEF AcceptThrows
    <2>2. hash' \in [Request -> SessionHash]
      BY <1>6, <1>12, <2>1 DEF AcceptThrows
    <2>3. \E from \in AcceptPc \ {"idle"} : Go(a, from, "unlock")
      BY <1>12 DEF AcceptThrows
    <2>4. apc' \in [Acceptor -> AcceptPc] /\ \A b \in Acceptor : b # a => apc'[b] = apc[b]
      BY <2>3
    <2>5. QED
      BY <1>0, <1>12, <2>1, <2>2, <2>4 DEF AcceptThrows
  <1>13. QED
    BY <1>1, <1>2, <1>3, <1>4, <1>5, <1>7, <1>8, <1>9, <1>10, <1>11, <1>12
      DEF Accept

LEMMA RowStatus ==
  ASSUME NEW d \in Row
  PROVE  /\ d.status \in {"absent", "active"} \cup Terminal
         /\ d.listener \in Volunteer \cup {None}
         /\ \A st \in {"absent", "active"} \cup Terminal :
              [d EXCEPT !.status = st] \in Row
  BY DEF Row

(* The worker and everything else that leaves the tickets alone. *)
LEMMA JobTypes ==
  ASSUME TypeOK, NEW r \in Request,
         \/ StartMatchTimeout(r) \/ CancelUnmatched(r) \/ DropUnmatched(r)
         \/ StartGraceEnd(r) \/ AckGraceEnd(r)
         \/ StartSessionTimeout(r) \/ FinishSessionTimeout(r)
         \/ WorkerCrash(r) \/ JobThrows(r)
  PROVE  TypeOK' /\ UNCHANGED <<ticket, apc, target>>
  <1> USE LifecycleConstants DEF TypeOK, dbVars, redisVars, pcVars
  <1>1. PICK n \in JobName, s \in JobState : SetJob(r, n, s)
    BY DEF StartMatchTimeout, CancelUnmatched, DropUnmatched, StartGraceEnd,
           AckGraceEnd, StartSessionTimeout, FinishSessionTimeout, WorkerCrash,
           JobThrows, JobName, JobState, JobIdle, JobBusy
  <1>2. job' \in [Request -> [JobName -> JobIdle \cup JobBusy]]
    BY <1>1, JobSet DEF JobState
  <1>3. hash' \in [Request -> SessionHash]
    <2>1. NoHash \in SessionHash
      BY DEF NoHash, SessionHash
    <2>2. hash' = [hash EXCEPT ![r] = NoHash] \/ UNCHANGED hash
      BY DEF StartMatchTimeout, CancelUnmatched, DropUnmatched, StartGraceEnd,
             AckGraceEnd, StartSessionTimeout, FinishSessionTimeout, WorkerCrash,
             JobThrows
    <2>3. QED
      BY <2>1, <2>2
  <1>4. db' \in [Request -> Row]
    <2>1. CASE CancelUnmatched(r)
      <3>1. \/ UNCHANGED db
            \/ db' = [db EXCEPT ![r] = [db[r] EXCEPT !.status = "cancelled_timeout"]]
        BY <2>1 DEF CancelUnmatched
      <3>2. [db[r] EXCEPT !.status = "cancelled_timeout"] \in Row
        BY RowStatus DEF Terminal
      <3>3. QED
        BY <3>1, <3>2
    <2>2. CASE StartSessionTimeout(r)
      <3>1. db' = [db EXCEPT ![r] = [db[r] EXCEPT !.status =
                     IF db[r].status = "active" THEN "completed" ELSE db[r].status]]
        BY <2>2 DEF StartSessionTimeout
      <3>2. db[r] \in Row /\ db[r].status \in {"absent", "active"} \cup Terminal
        BY RowStatus
      <3>3. [db[r] EXCEPT !.status =
               IF db[r].status = "active" THEN "completed" ELSE db[r].status] \in Row
        BY <3>2, RowStatus DEF Terminal
      <3>4. QED
        BY <3>1, <3>3
    <2>3. CASE ~CancelUnmatched(r) /\ ~StartSessionTimeout(r)
      BY <2>3 DEF StartMatchTimeout, DropUnmatched, StartGraceEnd, AckGraceEnd,
                  FinishSessionTimeout, WorkerCrash, JobThrows
    <2>4. QED
      BY <2>1, <2>2, <2>3
  <1>5. /\ problem' = [problem EXCEPT ![r] = "expired"] \/ UNCHANGED problem
        /\ waiting' = waiting \ {r} \/ UNCHANGED waiting
        /\ UNCHANGED <<pool, ticket, idem, lock, pcVars, winners>>
    BY DEF StartMatchTimeout, CancelUnmatched, DropUnmatched, StartGraceEnd,
           AckGraceEnd, StartSessionTimeout, FinishSessionTimeout, WorkerCrash,
           JobThrows
  <1>6. problem' \in [Request -> {"absent", "waiting", "matched", "expired"}]
    BY <1>5
  <1>7. QED
    BY <1>2, <1>3, <1>4, <1>5, <1>6

LEMMA OtherTypes ==
  ASSUME TypeOK,
         \/ \E r \in Request : \/ EndChat(r) \/ FinishChat(r)
                              \/ PruneWaiting(r) \/ ExpireHash(r)
         \/ \E v \in Volunteer : GoOnline(v) \/ GoOffline(v) \/ ExpireLock(v)
  PROVE  TypeOK' /\ UNCHANGED <<ticket, apc, target>>
  <1> USE LifecycleConstants DEF TypeOK, dbVars, redisVars, pcVars
  <1>0. NoHash \in SessionHash
    BY DEF NoHash, SessionHash
  <1>1. ASSUME NEW r \in Request, EndChat(r)
        PROVE TypeOK' /\ UNCHANGED <<ticket, apc, target>>
    <2>1. PICK st \in Terminal :
                 db' = [db EXCEPT ![r] = [db[r] EXCEPT !.status = st]]
      BY <1>1 DEF EndChat, Terminal
    <2>2. [db[r] EXCEPT !.status = st] \in Row
      BY RowStatus
    <2>3. db' \in [Request -> Row]
      BY <2>1, <2>2
    <2>4. db[r].listener \in Volunteer \cup {None}
      BY RowStatus
    <2>5. QED
      BY <1>1, <2>3, <2>4 DEF EndChat
  <1>2. ASSUME NEW r \in Request, FinishChat(r)
        PROVE TypeOK' /\ UNCHANGED <<ticket, apc, target>>
    BY <1>0, <1>2 DEF FinishChat
  <1>3. ASSUME NEW r \in Request, PruneWaiting(r) \/ ExpireHash(r)
        PROVE TypeOK' /\ UNCHANGED <<ticket, apc, target>>
    <2>1. CASE PruneWaiting(r)
      BY <2>1 DEF PruneWaiting
    <2>2. CASE ExpireHash(r)
      <3>1. hash' = [hash EXCEPT ![r] = NoHash]
        BY <2>2 DEF ExpireHash
      <3>2. UNCHANGED <<dbVars, waiting, pool, ticket, idem, lock, job, pcVars, winners>>
        BY <2>2 DEF ExpireHash
      <3>3. QED
        BY <1>0, <3>1, <3>2
    <2>3. QED
      BY <1>3, <2>1, <2>2
  <1>4. ASSUME NEW v \in Volunteer, GoOnline(v) \/ GoOffline(v)
        PROVE TypeOK' /\ UNCHANGED <<ticket, apc, target>>
    BY <1>4 DEF GoOnline, GoOffline
  <1>5. ASSUME NEW v \in Volunteer, ExpireLock(v)
        PROVE TypeOK' /\ UNCHANGED <<ticket, apc, target>>
    BY <1>5 DEF ExpireLock
  <1>6. QED
    BY <1>1, <1>2, <1>3, <1>4, <1>5

(* The four steps that run a ticket script. *)
LEMMA TicketSteps ==
  ASSUME Sound, NEW r \in Request,
         \/ ReserveTicket(r) \/ RefundFailed(r)
         \/ RefundUnmatched(r) \/ Charge(r)
  PROVE  Sound'
  <1> USE LifecycleConstants DEF Sound, TypeOK, dbVars, redisVars, pcVars
  <1> DEFINE k == SeekerOf[r]
  <1>1. k \in Seeker /\ KeyOK(ticket[k], {DailyLimit}) /\ DailyLimit \in Nat \ {0}
    OBVIOUS
  <1>2. /\ KeyOK(TryReserve(ticket[k], DailyLimit), {DailyLimit})
        /\ KeyOK(ReleaseReserved(ticket[k]), {DailyLimit})
        /\ KeyOK(ConsumeReserved(ticket[k]), {DailyLimit})
    <2>1. {DailyLimit} \in SUBSET Nat /\ DailyLimit \in {DailyLimit} /\ DailyLimit # 0
      BY <1>1
    <2>2. QED
      BY <1>1, <2>1, ReserveOK, ReleaseOK, ConsumeOK
  <1>3. \/ UNCHANGED ticket
        \/ ticket' = [ticket EXCEPT ![k] = TryReserve(@, DailyLimit)]
        \/ ticket' = [ticket EXCEPT ![k] = ReleaseReserved(@)]
        \/ ticket' = [ticket EXCEPT ![k] = ConsumeReserved(@)]
    BY DEF ReserveTicket, RefundFailed, RefundUnmatched, Charge
  <1> HIDE DEF k
  <1>4. PICK t : /\ KeyOK(t, {DailyLimit})
                 /\ UNCHANGED ticket \/ ticket' = [ticket EXCEPT ![k] = t]
    BY <1>1, <1>2, <1>3
  <1>5. /\ ticket' \in [Seeker -> TicketHash]
        /\ \A s \in Seeker : KeyOK(ticket'[s], {DailyLimit})
    <2>1. t \in TicketHash
      BY <1>4 DEF KeyOK
    <2>2. CASE UNCHANGED ticket
      BY <2>2
    <2>3. CASE ticket' = [ticket EXCEPT ![k] = t]
      BY <1>1, <1>4, <2>1, <2>3
    <2>4. QED
      BY <1>4, <2>2, <2>3
  <1>6. /\ job' \in [Request -> [JobName -> JobIdle \cup JobBusy]]
        /\ cpc' \in [Request -> ConnectPc]
    <2>1. CASE ReserveTicket(r) \/ RefundFailed(r)
      <3>1. UNCHANGED job
        BY <2>1 DEF ReserveTicket, RefundFailed
      <3>2. \E from \in ConnectPc, to \in ConnectPc : Step(r, from, to)
        BY <2>1 DEF ReserveTicket, RefundFailed, ConnectPc
      <3>3. QED
        BY <3>1, <3>2 DEF Step
    <2>2. CASE RefundUnmatched(r) \/ Charge(r)
      <3>1. PICK n \in JobName, s \in JobState : SetJob(r, n, s)
        BY <2>2 DEF RefundUnmatched, Charge, JobName, JobState, JobBusy
      <3>2. QED
        BY <2>2, <3>1, JobSet DEF JobState, RefundUnmatched, Charge
    <2>3. QED
      BY <2>1, <2>2
  <1>7. UNCHANGED <<dbVars, hash, waiting, pool, idem, lock,
                    found, apc, target, closing, winners>>
    BY DEF ReserveTicket, RefundFailed, RefundUnmatched, Charge
  <1>8. QED
    BY <1>5, <1>6, <1>7 DEF TargetsNamed

LEMMA SoundNext == Sound /\ [Next]_vars => Sound'
  <1> SUFFICES ASSUME Sound, [Next]_vars PROVE Sound'
    OBVIOUS
  <1>1. ASSUME TypeOK', TargetsNamed', UNCHANGED ticket PROVE Sound'
    BY <1>1 DEF Sound
  <1>2. ASSUME TypeOK', UNCHANGED <<ticket, apc, target>> PROVE Sound'
    BY <1>2 DEF Sound, TargetsNamed
  <1>3. ASSUME NEW r \in Request, CheckKey(r) \/ Connect(r) \/ ConnectThrows(r)
        PROVE Sound'
    <2>1. CASE ReserveTicket(r) \/ RefundFailed(r)
      BY <2>1, TicketSteps
    <2>2. CASE \/ CheckKey(r) \/ CheckActive(r) \/ CreateProblem(r)
               \/ FindVolunteer(r) \/ CreateMatched(r) \/ StoreActiveHash(r)
               \/ ScheduleMatched(r) \/ CreateWaiting(r) \/ PublishWaiting(r)
               \/ ScheduleMatchTimeout(r) \/ StoreAnswer(r)
               \/ ConnectThrows(r) \/ Rollback(r)
      <3>1. TypeOK' /\ UNCHANGED ticket
        BY <2>2, ConnectTypes DEF Sound
      <3>2. UNCHANGED <<apc, target>>
        BY <2>2 DEF CheckKey, CheckActive, CreateProblem, FindVolunteer,
             CreateMatched, StoreActiveHash, ScheduleMatched, CreateWaiting,
             PublishWaiting, ScheduleMatchTimeout, StoreAnswer, ConnectThrows,
             Rollback
      <3>3. QED
        BY <1>2, <3>1, <3>2
    <2>3. QED
      BY <1>3, <2>1, <2>2 DEF Connect
  <1>4. ASSUME NEW r \in Request, Worker(r) \/ WorkerCrash(r) \/ JobThrows(r)
        PROVE Sound'
    <2>1. CASE RefundUnmatched(r) \/ Charge(r)
      BY <2>1, TicketSteps
    <2>2. CASE ~(RefundUnmatched(r) \/ Charge(r))
      BY <1>2, <1>4, <2>2, JobTypes DEF Sound, Worker
    <2>3. QED
      BY <2>1, <2>2
  <1>5. CASE \/ \E r \in Request : \/ EndChat(r) \/ FinishChat(r)
                                  \/ PruneWaiting(r) \/ ExpireHash(r)
             \/ \E v \in Volunteer : GoOnline(v) \/ GoOffline(v) \/ ExpireLock(v)
    BY <1>2, <1>5, OtherTypes DEF Sound
  <1>6. ASSUME NEW a \in Acceptor,
               \/ \E r \in Request : TakeLock(a, r)
               \/ Accept(a) \/ AcceptThrows(a)
        PROVE Sound'
    BY <1>1, <1>6, AcceptTypes DEF Sound
  <1>7. CASE UNCHANGED vars
    BY <1>7 DEF vars, Sound, TypeOK, TargetsNamed
  <1>8. QED
    BY <1>3, <1>4, <1>5, <1>6, <1>7 DEF Next

LEMMA SoundAlways == Spec => []Sound
  <1>1. QED
    BY SoundInit, SoundNext, PTL DEF Spec

(* Every reachable state is well typed, with every disturbance allowed. *)
THEOREM TypeCorrect == Spec => []TypeOK
  <1>1. Sound => TypeOK
    BY DEF Sound
  <1>2. QED
    BY <1>1, SoundAlways, PTL

(* However connects, refunds, charges, crashes and retries interleave, a   *)
(* seeker's tickets never exceed the day's allowance.                      *)
THEOREM DailyBoundHolds == Spec => []DailyBound
  <1>1. Sound => DailyBound
    BY DEF Sound, KeyOK, DailyBound
  <1>2. QED
    BY <1>1, SoundAlways, PTL

-----------------------------------------------------------------------------
(* The lock of accept().  While nothing expires it, a call that has begun  *)
(* and not reached the end of its finally block holds its volunteer's lock.*)
LockHeld == \A a \in Acceptor : apc[a] # "idle" => lock[VolunteerOf[a]] = a

(* Only TakeLock, Unlock and the TTL touch the locks, and only TakeLock    *)
(* starts a call.                                                          *)
LEMMA LocksKept ==
  ASSUME TypeOK, [Next]_vars,
         ~(\E a \in Acceptor : Unlock(a) \/ \E r \in Request : TakeLock(a, r)),
         ~(\E v \in Volunteer : ExpireLock(v))
  PROVE  /\ UNCHANGED lock
         /\ \A a \in Acceptor : apc'[a] # "idle" => apc[a] # "idle"
  <1> USE DEF dbVars, redisVars, pcVars
  <1>1. CASE \E r \in Request : CheckKey(r) \/ Connect(r) \/ ConnectThrows(r)
    BY <1>1 DEF Connect, CheckKey, CheckActive, ReserveTicket, CreateProblem,
         FindVolunteer, CreateMatched, StoreActiveHash, ScheduleMatched,
         CreateWaiting, PublishWaiting, ScheduleMatchTimeout, StoreAnswer,
         ConnectThrows, Rollback, RefundFailed
  <1>2. CASE \E r \in Request : Worker(r) \/ WorkerCrash(r) \/ JobThrows(r)
    BY <1>2 DEF Worker, StartMatchTimeout, CancelUnmatched, RefundUnmatched,
         DropUnmatched, StartGraceEnd, Charge, AckGraceEnd,
         StartSessionTimeout, FinishSessionTimeout, WorkerCrash, JobThrows
  <1>3. CASE \E r \in Request : EndChat(r) \/ FinishChat(r) \/ PruneWaiting(r) \/ ExpireHash(r)
    BY <1>3 DEF EndChat, FinishChat, PruneWaiting, ExpireHash
  <1>4. CASE \E v \in Volunteer : GoOnline(v) \/ GoOffline(v)
    BY <1>4 DEF GoOnline, GoOffline
  <1>5. ASSUME NEW a \in Acceptor, Accept(a) \/ AcceptThrows(a), ~Unlock(a)
        PROVE  /\ UNCHANGED lock
               /\ \A b \in Acceptor : apc'[b] # "idle" => apc[b] # "idle"
    <2>1. UNCHANGED lock
      BY <1>5 DEF Accept, CheckVolunteer, ReadHash, Claim, Activate, CheckBlocks,
           Persist, CancelMatchTimeout, ScheduleAccepted, AcceptThrows
    <2>2. \E from, to \in AcceptPc : from # "idle" /\ Go(a, from, to)
      BY <1>5 DEF Accept, CheckVolunteer, ReadHash, Claim, Activate, CheckBlocks,
           Persist, CancelMatchTimeout, ScheduleAccepted, AcceptThrows, AcceptPc
    <2>3. QED
      BY <2>1, <2>2 DEF Go, TypeOK
  <1>6. CASE UNCHANGED vars
    BY <1>6 DEF vars
  <1>7. QED
    BY <1>1, <1>2, <1>3, <1>4, <1>5, <1>6 DEF Next

LEMMA LockHeldNext ==
  ASSUME "lock_expiry" \notin Allow, Sound, LockHeld, [Next]_vars
  PROVE  LockHeld'
  <1> USE LifecycleConstants DEF Sound, TypeOK, LockHeld
  <1>1. ASSUME NEW a \in Acceptor, NEW r \in Request, TakeLock(a, r) PROVE LockHeld'
    BY <1>1 DEF TakeLock, Go
  <1>2. ASSUME NEW a \in Acceptor, Unlock(a) PROVE LockHeld'
    BY <1>2 DEF Unlock, Go
  <1>3. ~(\E v \in Volunteer : ExpireLock(v))
    BY DEF ExpireLock
  <1>4. CASE ~(\E a \in Acceptor : Unlock(a) \/ \E r \in Request : TakeLock(a, r))
    BY <1>3, <1>4, LocksKept
  <1>5. QED
    BY <1>1, <1>2, <1>4

(* While the lock does not expire, two accept calls of one volunteer never *)
(* run at the same time, whatever else fails or races.                     *)
THEOREM LockExcludes ==
  ASSUME "lock_expiry" \notin Allow
  PROVE  Spec => []LockExclusion
  <1>1. Init => LockHeld
    BY DEF Init, LockHeld
  <1>2. Sound /\ LockHeld /\ [Next]_vars => LockHeld'
    BY LockHeldNext
  <1>3. Sound /\ LockHeld => LockExclusion
    BY LifecycleConstants DEF LockHeld, LockExclusion, Sound, TypeOK
  <1>4. QED
    BY <1>1, <1>2, <1>3, SoundAlways, PTL DEF Spec

(* Even when locks expire under running calls, no call's step frees the    *)
(* lock another call holds.                                                *)
THEOREM UnlocksOnlyOwn == Spec => UnlockOnlyOwn
  <1> DEFINE A == \A a, b \in Acceptor :
                    a # b /\ lock[VolunteerOf[b]] = b /\ apc'[a] # apc[a]
                      => lock'[VolunteerOf[b]] = b
  <1>1. Sound /\ [Next]_vars => [A]_vars
    <2> SUFFICES ASSUME Sound, [Next]_vars PROVE A
      OBVIOUS
    <2> USE LifecycleConstants DEF Sound, TypeOK
    <2>1. ASSUME NEW c \in Acceptor, NEW r \in Request, TakeLock(c, r) PROVE A
      BY <2>1 DEF TakeLock, Go
    <2>2. ASSUME NEW c \in Acceptor, Unlock(c) PROVE A
      BY <2>2 DEF Unlock, Go
    <2>3. ASSUME NEW v \in Volunteer, ExpireLock(v) PROVE A
      BY <2>3 DEF ExpireLock, pcVars
    <2>4. CASE /\ ~(\E a \in Acceptor : Unlock(a) \/ \E r \in Request : TakeLock(a, r))
               /\ ~(\E v \in Volunteer : ExpireLock(v))
      BY <2>4, LocksKept
    <2>5. QED
      BY <2>1, <2>2, <2>3, <2>4
  <1>2. QED
    BY <1>1, SoundAlways, PTL DEF Spec, UnlockOnlyOwn

-----------------------------------------------------------------------------
(* Who writes the row of a session, whatever throws, dies or expires.  A   *)
(* request whose connect() has not come to the transaction has no row.     *)
Unopened == {"idle", "check", "reserve", "problem", "match", "createA", "createB"}
RowsComeFromConnect == \A r \in Request : cpc[r] \in Unopened => db[r] = NoRow

RowClosed(r) ==
  /\ Active(r) /\ db'[r].status \in Terminal /\ db'[r].listener = db[r].listener
  /\ db'[r].status = "cancelled_timeout" => db[r].listener = None
RowAccepted(r) ==
  \E a \in Acceptor :
    /\ apc[a] = "persist" /\ target[a] = r /\ db[r].status # "absent"
    /\ db'[r] = [status |-> "active", listener |-> VolunteerOf[a]]
RowWritten(r) ==
  \/ db'[r] = db[r]
  \/ cpc[r] \in {"createA", "createB"} /\ cpc'[r] \notin Unopened
  \/ db'[r] = NoRow /\ cpc[r] = "rollback"
  \/ RowClosed(r)
  \/ RowAccepted(r)

LEMMA RowsWritten ==
  ASSUME Sound, [Next]_vars, NEW r \in Request
  PROVE  RowWritten(r)
  <1> USE DEF Sound, TypeOK
  <1>1. ASSUME NEW q \in Request, CheckKey(q) \/ Connect(q) \/ ConnectThrows(q)
        PROVE  RowWritten(r)
    <2>1. CASE CreateMatched(q) \/ CreateWaiting(q)
      BY <2>1 DEF CreateMatched, CreateWaiting, Step, RowWritten, Unopened
    <2>2. CASE Rollback(q)
      BY <2>2 DEF Rollback, Step, RowWritten, dbVars
    <2>3. CASE ~(CreateMatched(q) \/ CreateWaiting(q) \/ Rollback(q))
      BY <1>1, <2>3 DEF Connect, CheckKey, CheckActive, ReserveTicket,
         CreateProblem, FindVolunteer, StoreActiveHash, ScheduleMatched,
         PublishWaiting, ScheduleMatchTimeout, StoreAnswer, RefundFailed,
         ConnectThrows, dbVars, RowWritten
    <2>4. QED
      BY <2>1, <2>2, <2>3
  <1>2. ASSUME NEW q \in Request,
               \/ Worker(q) \/ WorkerCrash(q) \/ JobThrows(q) \/ EndChat(q)
               \/ FinishChat(q) \/ PruneWaiting(q) \/ ExpireHash(q)
        PROVE  RowWritten(r)
    <2>1. CASE CancelUnmatched(q)
      BY <2>1 DEF CancelUnmatched, dbVars, RowWritten, RowClosed, Unmatched, Active,
         Terminal, Row
    <2>2. CASE StartSessionTimeout(q)
      BY <2>2 DEF StartSessionTimeout, RowWritten, RowClosed, Active, Terminal, Row
    <2>3. CASE EndChat(q)
      BY <2>3 DEF EndChat, RowWritten, RowClosed, Active, Terminal, Row
    <2>4. CASE ~(CancelUnmatched(q) \/ StartSessionTimeout(q) \/ EndChat(q))
      BY <1>2, <2>4 DEF Worker, StartMatchTimeout, RefundUnmatched,
         DropUnmatched, StartGraceEnd, Charge, AckGraceEnd,
         FinishSessionTimeout, WorkerCrash, JobThrows, FinishChat,
         PruneWaiting, ExpireHash, dbVars, RowWritten
    <2>5. QED
      BY <2>1, <2>2, <2>3, <2>4
  <1>3. ASSUME NEW a \in Acceptor,
               (\E q \in Request : TakeLock(a, q)) \/ Accept(a) \/ AcceptThrows(a)
        PROVE  RowWritten(r)
    <2>1. CASE Persist(a)
      BY <2>1 DEF Persist, Go, RowWritten, RowAccepted
    <2>2. CASE ~Persist(a)
      BY <1>3, <2>2 DEF TakeLock, Accept, CheckVolunteer, ReadHash, Claim, Activate,
         CheckBlocks, CancelMatchTimeout, ScheduleAccepted, Unlock, AcceptThrows,
         dbVars, RowWritten
    <2>3. QED
      BY <2>1, <2>2
  <1>4. ASSUME NEW v \in Volunteer, GoOnline(v) \/ GoOffline(v) \/ ExpireLock(v)
        PROVE  RowWritten(r)
    BY <1>4 DEF GoOnline, GoOffline, ExpireLock, dbVars, RowWritten
  <1>5. CASE UNCHANGED vars
    BY <1>5 DEF vars, dbVars, RowWritten
  <1>6. QED
    BY <1>1, <1>2, <1>3, <1>4, <1>5 DEF Next

(* A connect() that has come to the transaction does not go back to it.    *)
LEMMA OpenedOnce ==
  ASSUME Sound, [Next]_vars, NEW r \in Request
  PROVE  cpc'[r] \in Unopened => cpc[r] \in Unopened
  <1> USE DEF Sound, TypeOK
  <1>1. ASSUME NEW q \in Request, CheckKey(q) \/ Connect(q) \/ ConnectThrows(q)
        PROVE  cpc'[r] \in Unopened => cpc[r] \in Unopened
    BY <1>1 DEF Connect, CheckKey, CheckActive, ReserveTicket,
         CreateProblem, FindVolunteer, CreateMatched, StoreActiveHash, ScheduleMatched,
         CreateWaiting, PublishWaiting, ScheduleMatchTimeout, StoreAnswer, Rollback,
         RefundFailed, ConnectThrows, Step, Unopened
  <1>2. ASSUME ~\E q \in Request : CheckKey(q) \/ Connect(q) \/ ConnectThrows(q)
        PROVE  UNCHANGED cpc
    BY <1>2 DEF Next, vars, Worker, StartMatchTimeout, CancelUnmatched, RefundUnmatched,
         DropUnmatched, StartGraceEnd, Charge, AckGraceEnd, StartSessionTimeout,
         FinishSessionTimeout, WorkerCrash, JobThrows, EndChat, FinishChat,
         PruneWaiting, ExpireHash, TakeLock, Accept, CheckVolunteer, ReadHash, Claim,
         Activate, CheckBlocks, Persist, CancelMatchTimeout, ScheduleAccepted, Unlock,
         AcceptThrows, GoOnline, GoOffline, ExpireLock, pcVars
  <1>3. QED
    BY <1>1, <1>2

LEMMA RowsComeFromConnectNext ==
  ASSUME Sound, RowsComeFromConnect, [Next]_vars
  PROVE  RowsComeFromConnect'
  <1> SUFFICES ASSUME NEW r \in Request, cpc'[r] \in Unopened PROVE db'[r] = NoRow
    BY DEF RowsComeFromConnect
  <1>1. db[r] = NoRow
    BY OpenedOnce DEF RowsComeFromConnect
  <1>2. db[r].status = "absent" /\ ~Active(r)
    BY <1>1 DEF NoRow, Active
  <1>3. ~RowClosed(r) /\ ~RowAccepted(r)
    BY <1>2 DEF RowClosed, RowAccepted
  <1>4. RowWritten(r)
    BY RowsWritten
  <1>5. QED
    BY <1>1, <1>3, <1>4 DEF RowWritten

(* Whatever throws, dies, comes late or expires: a row is closed once, and *)
(* only accept() and the undo of connect() write one without a guard.      *)
THEOREM OnlyAcceptReopensHolds == Spec => OnlyAcceptReopens
  <1> DEFINE A == \A r \in Request :
       db[r].status # "absent" /\ db'[r] # db[r] =>
         \/ RowClosed(r)
         \/ db'[r] = NoRow /\ cpc[r] = "rollback"
         \/ RowAccepted(r)
  <1>1. Init => RowsComeFromConnect
    BY DEF Init, RowsComeFromConnect, Unopened
  <1>2. Sound /\ RowsComeFromConnect /\ [Next]_vars => A
    BY RowsWritten DEF RowWritten, RowsComeFromConnect, Unopened, NoRow
  <1>3. A => [\A r \in Request :
       db[r].status # "absent" /\ db'[r] # db[r] =>
         \/ /\ Active(r) /\ db'[r].status \in Terminal
            /\ db'[r].listener = db[r].listener
            /\ db'[r].status = "cancelled_timeout" => db[r].listener = None
         \/ db'[r] = NoRow /\ cpc[r] = "rollback"
         \/ \E a \in Acceptor :
              /\ apc[a] = "persist" /\ target[a] = r
              /\ db'[r] = [status |-> "active", listener |-> VolunteerOf[a]]]_vars
    BY DEF RowClosed, RowAccepted
  <1>4. QED
    BY <1>1, <1>2, <1>3, RowsComeFromConnectNext, SoundAlways, PTL
      DEF Spec, OnlyAcceptReopens

-----------------------------------------------------------------------------
(***************************************************************************)
(* The claim protocol of SessionInvariant is inductive in a calm system,   *)
(* for any number of sessions, volunteers and accept calls.                *)
(*                                                                         *)
(* A step of connect(), of the worker or of the chat side changes one      *)
(* session r and no accept call; a step of accept() changes one call and   *)
(* the session it is about.  FrameSession and FrameAccept say what is left *)
(* to show of such a step: the session's part, and that of the calls about *)
(* it.                                                                     *)
(***************************************************************************)

Same(q) ==
  /\ cpc'[q] = cpc[q] /\ found'[q] = found[q] /\ problem'[q] = problem[q]
  /\ db'[q] = db[q] /\ hash'[q] = hash[q]
  /\ job'[q].match = job[q].match /\ job'[q].timeout = job[q].timeout
  /\ closing'[q] = closing[q] /\ winners'[q] = winners[q]

(* No call about r is in flight. *)
NoCalls(r) == \A a \in Acceptor : target[a] = r => apc[a] = "idle"

CallsKept(r) == \A a \in Acceptor : target[a] = r => AcceptPart(a)'

LEMMA SessionKept ==
  ASSUME NEW q \in Request, SessionPart(q), Same(q), Claiming(q)' => Claiming(q)
  PROVE  SessionPart(q)'
  <1>1. Active(q)' = Active(q) /\ Unmatched(q)' = Unmatched(q)
    BY DEF Same, Active, Unmatched
  <1>2. ConnectProgress(q)'
    BY <1>1 DEF SessionPart, ConnectProgress, Same, Untouched
  <1>3. WaitingIsOpen(q)' /\ ActiveIsClaimed(q)' /\ MatchedLeftWaiting(q)'
    BY <1>1 DEF SessionPart, WaitingIsOpen, ActiveIsClaimed,
         MatchedLeftWaiting, Same
  <1>4. WinnerIsListener(q)'
    BY DEF SessionPart, WinnerIsListener, Same
  <1>5. QED
    BY <1>2, <1>3, <1>4 DEF SessionPart

LEMMA CallKept ==
  ASSUME ClaimProtocol, NEW a \in Acceptor,
         apc'[a] = apc[a], target'[a] = target[a],
         apc[a] # "idle" => Same(target[a])
  PROVE  AcceptPart(a)'
  <1>1. CASE apc[a] = "idle"
    BY <1>1 DEF AcceptPart, ClaimWindow, WinnerHolds, AcceptProgress, Winning
  <1>2. CASE apc[a] # "idle"
    <2>1. Same(target[a]) /\ AcceptPart(a)
      BY <1>2 DEF ClaimProtocol
    <2>2. /\ Unmatched(target[a])' = Unmatched(target[a])
          /\ Published(target[a])' = Published(target[a])
      BY <2>1 DEF Same, Active, Unmatched, Published
    <2>3. QED
      BY <2>1, <2>2 DEF AcceptPart, ClaimWindow, WinnerHolds,
           AcceptProgress, Same
  <1>3. QED
    BY <1>1, <1>2

LEMMA FrameSession ==
  ASSUME Sound, ClaimProtocol, NEW r \in Request,
         UNCHANGED <<apc, target>>,
         \A q \in Request : q # r => Same(q),
         SessionPart(r)',
         CallsKept(r)
  PROVE  ClaimProtocol'
  <1>1. ASSUME NEW q \in Request, q # r PROVE SessionPart(q)'
    <2>1. SessionPart(q) /\ Same(q) /\ Claiming(q)' = Claiming(q)
      BY <1>1 DEF ClaimProtocol, Claiming
    <2>2. QED
      BY <2>1, SessionKept
  <1>2. ASSUME NEW a \in Acceptor PROVE AcceptPart(a)'
    <2>1. CASE target[a] = r
      BY <2>1 DEF CallsKept
    <2>2. CASE target[a] # r
      <3>1. apc[a] # "idle" => Same(target[a])
        BY <2>2 DEF Sound, TargetsNamed
      <3>2. QED
        BY <3>1, CallKept
    <2>3. QED
      BY <2>1, <2>2
  <1>3. OneClaimant'
    BY DEF ClaimProtocol, OneClaimant
  <1>4. QED
    BY <1>1, <1>2, <1>3 DEF ClaimProtocol

LEMMA FrameAccept ==
  ASSUME Sound, ClaimProtocol, NEW a \in Acceptor, NEW r \in Request,
         target[a] = r \/ apc[a] = "idle",
         target'[a] \in {r, None},
         \A b \in Acceptor : b # a => apc'[b] = apc[b] /\ target'[b] = target[b],
         \A q \in Request : q # r => Same(q),
         SessionPart(r)',
         AcceptPart(a)',
         \A b \in Acceptor : b # a /\ target[b] = r => AcceptPart(b)',
         OneClaimant'
  PROVE  ClaimProtocol'
  <1>1. ASSUME NEW q \in Request, q # r PROVE SessionPart(q)'
    <2>1. SessionPart(q) /\ Same(q)
      BY <1>1 DEF ClaimProtocol
    <2>2. Claiming(q)' => Claiming(q)
      BY <1>1, LifecycleConstants DEF Claiming
    <2>3. QED
      BY <2>1, <2>2, SessionKept
  <1>2. ASSUME NEW b \in Acceptor PROVE AcceptPart(b)'
    <2>1. CASE b = a \/ target[b] = r
      BY <2>1
    <2>2. CASE b # a /\ target[b] # r
      <3>1. apc[b] # "idle" => Same(target[b])
        BY <2>2 DEF Sound, TargetsNamed
      <3>2. QED
        BY <2>2, <3>1, CallKept
    <2>3. QED
      BY <2>1, <2>2
  <1>3. QED
    BY <1>1, <1>2 DEF ClaimProtocol

(* Calls about a session whose connect() has not published it, and calls   *)
(* that are past or before the claim window.                               *)
LEMMA UnpublishedHasNoCalls ==
  ASSUME ClaimProtocol, NEW r \in Request, ~Published(r)
  PROVE  NoCalls(r)
  BY DEF ClaimProtocol, AcceptPart, AcceptProgress, NoCalls

LEMMA NoCallsKept ==
  ASSUME NEW r \in Request, NoCalls(r), UNCHANGED <<apc, target>>
  PROVE  CallsKept(r) /\ ~Claiming(r) /\ ~Claiming(r)'
  BY DEF NoCalls, CallsKept, AcceptPart, ClaimWindow, WinnerHolds,
         AcceptProgress, Winning, Claiming

LEMMA QuietCallsKept ==
  ASSUME ClaimProtocol, NEW r \in Request, ~Claiming(r),
         UNCHANGED <<apc, target>>,
         Published(r) => Published(r)',
         db[r].listener # None => db'[r].listener # None
  PROVE  CallsKept(r) /\ ~Claiming(r)'
  BY DEF ClaimProtocol, CallsKept, AcceptPart, ClaimWindow, WinnerHolds,
         AcceptProgress, Winning, Claiming

LEMMA BusyTimeoutHasNoClaim ==
  ASSUME ClaimProtocol, NEW r \in Request, job[r].match \notin JobIdle
  PROVE  ~Claiming(r)
  BY DEF ClaimProtocol, AcceptPart, ClaimWindow, Winning, Claiming

-----------------------------------------------------------------------------
(* connect()                                                               *)

PublishedPc == {"jobB", "key", "rollback", "refund", "done"}

LEMMA UnpublishedPc ==
  ASSUME NEW r \in Request, cpc[r] \notin PublishedPc
  PROVE  ~Published(r)
  BY DEF Published, PublishedPc

(* What a step of connect() leaves alone. *)
LEMMA ConnectFrame ==
  ASSUME Sound, NEW r \in Request,
         \/ CheckKey(r) \/ CheckActive(r) \/ ReserveTicket(r)
         \/ CreateProblem(r) \/ FindVolunteer(r)
         \/ CreateMatched(r) \/ StoreActiveHash(r) \/ ScheduleMatched(r)
         \/ CreateWaiting(r) \/ PublishWaiting(r) \/ ScheduleMatchTimeout(r)
         \/ StoreAnswer(r)
  PROVE  /\ UNCHANGED <<apc, target, closing, winners>>
         /\ \A q \in Request : q # r => Same(q)
  <1> USE DEF Sound, TypeOK, Same, Step, dbVars, redisVars
  <1>1. UNCHANGED <<apc, target, closing, winners>>
    BY DEF CheckKey, CheckActive, ReserveTicket, CreateProblem, FindVolunteer,
         CreateMatched, StoreActiveHash, ScheduleMatched, CreateWaiting,
         PublishWaiting, ScheduleMatchTimeout, StoreAnswer
  <1>2. CASE CheckKey(r) \/ CheckActive(r) \/ ReserveTicket(r) \/ StoreAnswer(r)
    BY <1>2 DEF CheckKey, CheckActive, ReserveTicket, StoreAnswer
  <1>3. CASE CreateProblem(r)
    BY <1>3 DEF CreateProblem
  <1>4. CASE FindVolunteer(r)
    BY <1>4 DEF FindVolunteer
  <1>5. CASE CreateMatched(r) \/ CreateWaiting(r)
    BY <1>5 DEF CreateMatched, CreateWaiting
  <1>6. CASE StoreActiveHash(r) \/ PublishWaiting(r)
    BY <1>6 DEF StoreActiveHash, PublishWaiting
  <1>7. CASE ScheduleMatched(r)
    BY <1>7, JobsScheduled DEF ScheduleMatched
  <1>8. CASE ScheduleMatchTimeout(r)
    <2>1. "match" \in JobName /\ Added(job[r].match) \in JobState
      BY DEF Added, JobName, JobState, JobIdle
    <2>2. \A q \in Request, n \in JobName : q # r => job'[q][n] = job[q][n]
      BY <1>8, <2>1, JobSet DEF ScheduleMatchTimeout
    <2>3. QED
      BY <1>8, <2>2 DEF ScheduleMatchTimeout, JobName
  <1>9. QED
    BY <1>1, <1>2, <1>3, <1>4, <1>5, <1>6, <1>7, <1>8

(* Steps before the session is opened. *)
LEMMA EarlyConnectSteps ==
  ASSUME Sound, ClaimProtocol, NEW r \in Request,
         \/ CheckKey(r) \/ CheckActive(r) \/ ReserveTicket(r)
         \/ CreateProblem(r) \/ FindVolunteer(r)
  PROVE  SessionPart(r)' /\ CallsKept(r)
  <1> USE DEF Sound, TypeOK
  <1>1. /\ cpc[r] \in {"idle", "check", "reserve", "problem", "match"}
        /\ UNCHANGED <<apc, target, db, hash, job, closing, winners>>
    BY DEF CheckKey, CheckActive, ReserveTicket, CreateProblem, FindVolunteer,
         Step, dbVars, redisVars
  <1>2. /\ cpc'[r] \in {"check", "reserve", "problem", "match", "createA",
                        "createB", "done"}
        /\ cpc'[r] # "createA" => found'[r] = found[r]
        /\ cpc'[r] = "createA" => found'[r] # None
    <2>1. CASE FindVolunteer(r)
      <3>1. CASE Step(r, "match", "createB") /\ UNCHANGED found
        BY <3>1 DEF Step
      <3>2. ASSUME NEW v \in pool, Step(r, "match", "createA"),
                   found' = [found EXCEPT ![r] = v]
            PROVE  cpc'[r] = "createA" /\ found'[r] # None
        BY <3>2, LifecycleConstants DEF Step
      <3>3. QED
        BY <2>1, <3>1, <3>2 DEF FindVolunteer, Matchable
    <2>2. CASE ~FindVolunteer(r)
      BY <2>2 DEF CheckKey, CheckActive, ReserveTicket, CreateProblem, Step
    <2>3. QED
      BY <2>1, <2>2
  <1>3. SessionPart(r)
    BY DEF ClaimProtocol
  <1>4. CallsKept(r) /\ ~Claiming(r) /\ ~Claiming(r)'
    BY <1>1, UnpublishedPc, UnpublishedHasNoCalls, NoCallsKept DEF PublishedPc
  <1>5. ConnectProgress(r)'
    BY <1>1, <1>2, <1>3 DEF SessionPart, ConnectProgress, BeforeRow, Undo,
       Untouched, Active, Unmatched
  <1>6. QED
    BY <1>1, <1>3, <1>4, <1>5 DEF SessionPart, WaitingIsOpen, ActiveIsClaimed,
       MatchedLeftWaiting, WinnerIsListener, Active, Unmatched

(* Path A and Path B. *)
LEMMA OpenSteps ==
  ASSUME Sound, ClaimProtocol, NEW r \in Request,
         CreateMatched(r) \/ CreateWaiting(r)
  PROVE  SessionPart(r)' /\ CallsKept(r)
  <1> USE DEF Sound, TypeOK
  <1>1. SessionPart(r)
    BY DEF ClaimProtocol
  <1>2. /\ cpc[r] \in {"createA", "createB"}
        /\ UNCHANGED <<apc, target, hash, job, found, closing, winners>>
        /\ db'[r].status = "active"
        /\ \/ /\ cpc[r] = "createA" /\ cpc'[r] = "hashA"
              /\ db'[r].listener = found[r]
           \/ /\ cpc[r] = "createB" /\ cpc'[r] = "publishB"
              /\ db'[r].listener = None
    BY DEF CreateMatched, CreateWaiting, Step, dbVars, redisVars
  <1>3. CallsKept(r) /\ ~Claiming(r) /\ ~Claiming(r)'
    BY <1>2, UnpublishedPc, UnpublishedHasNoCalls, NoCallsKept DEF PublishedPc
  <1>4. /\ db[r].status = "absent" /\ db[r].listener = None /\ Untouched(r)
        /\ cpc[r] = "createA" => found[r] # None
        /\ cpc[r] = "createB" => found[r] = None
    BY <1>1, <1>2 DEF SessionPart, ConnectProgress, BeforeRow
  <1>5. ConnectProgress(r)'
    BY <1>2, <1>4 DEF ConnectProgress, BeforeRow, Undo, Untouched, Active, Unmatched
  <1>6. MatchedLeftWaiting(r)' /\ WaitingIsOpen(r)' /\ ActiveIsClaimed(r)'
    BY <1>1, <1>2, <1>3, <1>4 DEF SessionPart, MatchedLeftWaiting, WaitingIsOpen,
       ActiveIsClaimed, Untouched
  <1>7. WinnerIsListener(r)'
    BY <1>1, <1>2, <1>4 DEF SessionPart, WinnerIsListener
  <1>8. QED
    BY <1>3, <1>5, <1>6, <1>7 DEF SessionPart

LEMMA StoreSteps ==
  ASSUME Sound, ClaimProtocol, NEW r \in Request,
         StoreActiveHash(r) \/ PublishWaiting(r)
  PROVE  SessionPart(r)' /\ CallsKept(r)
  <1> USE DEF Sound, TypeOK
  <1>1. SessionPart(r)
    BY DEF ClaimProtocol
  <1>2. /\ cpc[r] \in {"hashA", "publishB"}
        /\ UNCHANGED <<apc, target, db, job, found, closing, winners>>
    BY DEF StoreActiveHash, PublishWaiting, Step, dbVars, redisVars
  <1>3. \/ /\ cpc[r] = "hashA" /\ cpc'[r] = "jobsA"
           /\ hash'[r].status = "active" /\ hash'[r].listener = found[r]
        \/ /\ cpc[r] = "publishB" /\ cpc'[r] = "jobB"
           /\ hash'[r].status = "waiting" /\ hash'[r].listener = hash[r].listener
    <2>1. CASE StoreActiveHash(r)
      BY <2>1 DEF StoreActiveHash, Step
    <2>2. CASE PublishWaiting(r)
      <3>1. hash' = [hash EXCEPT ![r] = [hash[r] EXCEPT !.status = "waiting"]]
        BY <2>2 DEF PublishWaiting
      <3>2. hash[r] \in SessionHash
        OBVIOUS
      <3>3. QED
        BY <2>2, <3>1, <3>2 DEF PublishWaiting, Step, SessionHash
    <2>3. QED
      BY <2>1, <2>2
  <1>4. CallsKept(r) /\ ~Claiming(r) /\ ~Claiming(r)'
    BY <1>2, UnpublishedPc, UnpublishedHasNoCalls, NoCallsKept DEF PublishedPc
  <1>5. /\ Active(r) /\ Untouched(r)
        /\ cpc[r] = "hashA" => found[r] # None /\ db[r].listener # None
        /\ cpc[r] = "publishB" => found[r] = None /\ Unmatched(r)
    BY <1>1, <1>2 DEF SessionPart, ConnectProgress, Unmatched
  <1>6. ConnectProgress(r)'
    BY <1>2, <1>3, <1>5 DEF ConnectProgress, BeforeRow, Undo, Untouched, Active,
       Unmatched
  <1>7. MatchedLeftWaiting(r)' /\ WaitingIsOpen(r)' /\ ActiveIsClaimed(r)'
    BY <1>1, <1>2, <1>3, <1>4, <1>5 DEF SessionPart, MatchedLeftWaiting,
       WaitingIsOpen, ActiveIsClaimed, Untouched, Unmatched, Active
  <1>8. WinnerIsListener(r)'
    BY <1>1, <1>2 DEF SessionPart, WinnerIsListener
  <1>9. QED
    BY <1>4, <1>6, <1>7, <1>8 DEF SessionPart

LEMMA ScheduleMatchedStep ==
  ASSUME Sound, ClaimProtocol, NEW r \in Request, ScheduleMatched(r)
  PROVE  SessionPart(r)' /\ CallsKept(r)
  <1> USE DEF Sound, TypeOK
  <1>1. SessionPart(r)
    BY DEF ClaimProtocol
  <1>2. /\ cpc[r] = "jobsA" /\ cpc'[r] = "key"
        /\ UNCHANGED <<apc, target, db, hash, found, closing, winners>>
        /\ ScheduleSessionJobs(r)
    BY DEF ScheduleMatched, Step, dbVars, redisVars
  <1>3. job'[r].match = job[r].match /\ job'[r].timeout = Added(job[r].timeout)
    BY <1>2, JobsScheduled
  <1>4. CallsKept(r) /\ ~Claiming(r) /\ ~Claiming(r)'
    BY <1>2, UnpublishedPc, UnpublishedHasNoCalls, NoCallsKept DEF PublishedPc
  <1>5. Active(r) /\ db[r].listener # None /\ job[r].timeout = "none"
    BY <1>1, <1>2 DEF SessionPart, ConnectProgress
  <1>6. job'[r].timeout = "delayed"
    BY <1>3, <1>5 DEF Added
  <1>7. ConnectProgress(r)'
    BY <1>2, <1>5 DEF ConnectProgress, BeforeRow, Undo, Active
  <1>8. MatchedLeftWaiting(r)' /\ WaitingIsOpen(r)' /\ ActiveIsClaimed(r)'
    BY <1>1, <1>2, <1>3, <1>4, <1>5, <1>6 DEF SessionPart, MatchedLeftWaiting,
       WaitingIsOpen, ActiveIsClaimed, Unmatched, Active
  <1>9. QED
    BY <1>1, <1>2, <1>4, <1>7, <1>8 DEF SessionPart, WinnerIsListener

LEMMA ScheduleMatchTimeoutStep ==
  ASSUME Sound, ClaimProtocol, NEW r \in Request, ScheduleMatchTimeout(r)
  PROVE  SessionPart(r)' /\ CallsKept(r)
  <1> USE DEF Sound, TypeOK
  <1>1. SessionPart(r)
    BY DEF ClaimProtocol
  <1>2. /\ cpc[r] = "jobB" /\ cpc'[r] = "key"
        /\ UNCHANGED <<apc, target, db, problem, hash, found, closing, winners>>
        /\ SetJob(r, "match", Added(job[r].match))
    BY DEF ScheduleMatchTimeout, Step, dbVars, redisVars
  <1>3. "match" \in JobName /\ "timeout" \in JobName /\ Added(job[r].match) \in JobState
    BY DEF Added, JobName, JobState, JobIdle
  <1>4. job'[r].match = Added(job[r].match) /\ job'[r].timeout = job[r].timeout
    BY <1>2, <1>3, JobSet
  <1>5. Published(r)' = Published(r) /\ Claiming(r)' = Claiming(r)
    BY <1>2 DEF Published, Claiming
  <1>6. /\ job[r].match \in JobIdle => job'[r].match \in JobIdle
        /\ job[r].match \in {"refund", "drop"} => job'[r].match = job[r].match
    BY <1>4 DEF Added, JobIdle
  <1>7. CallsKept(r)
    <2> SUFFICES ASSUME NEW a \in Acceptor, target[a] = r PROVE AcceptPart(a)'
      BY DEF CallsKept
    <2>1. AcceptPart(a)
      BY DEF ClaimProtocol
    <2>2. QED
      BY <1>2, <1>5, <1>6, <2>1 DEF AcceptPart, ClaimWindow, WinnerHolds,
         AcceptProgress, Unmatched, Active
  <1>8. db[r].status # "absent"
    BY <1>1, <1>2 DEF SessionPart, ConnectProgress
  <1>9. ConnectProgress(r)'
    BY <1>2, <1>8 DEF ConnectProgress, BeforeRow, Undo
  <1>10. MatchedLeftWaiting(r)' /\ WaitingIsOpen(r)' /\ ActiveIsClaimed(r)'
    BY <1>1, <1>2, <1>4, <1>5, <1>6 DEF SessionPart, MatchedLeftWaiting,
       WaitingIsOpen, ActiveIsClaimed, Unmatched, Active
  <1>11. QED
    BY <1>1, <1>2, <1>7, <1>9, <1>10 DEF SessionPart, WinnerIsListener

LEMMA StoreAnswerStep ==
  ASSUME Sound, ClaimProtocol, NEW r \in Request, StoreAnswer(r)
  PROVE  SessionPart(r)' /\ CallsKept(r)
  <1> USE DEF Sound, TypeOK
  <1>1. SessionPart(r)
    BY DEF ClaimProtocol
  <1>2. /\ cpc[r] = "key" /\ cpc'[r] = "done"
        /\ UNCHANGED <<apc, target, db, problem, hash, job, found, closing, winners>>
    BY DEF StoreAnswer, Step, dbVars, redisVars
  <1>3. Published(r)' = Published(r) /\ Claiming(r)' = Claiming(r)
    BY <1>2 DEF Published, Claiming
  <1>4. CallsKept(r)
    BY <1>2, <1>3 DEF ClaimProtocol, CallsKept, AcceptPart, ClaimWindow,
       WinnerHolds, AcceptProgress, Unmatched, Active
  <1>5. ConnectProgress(r)'
    BY <1>1, <1>2 DEF SessionPart, ConnectProgress, BeforeRow, Undo, Untouched
  <1>6. QED
    BY <1>1, <1>2, <1>3, <1>4, <1>5 DEF SessionPart, WinnerIsListener,
       MatchedLeftWaiting, WaitingIsOpen, ActiveIsClaimed, Unmatched, Active

(* Nothing is rolled back in a calm system. *)
LEMMA ConnectKeepsClaims ==
  ASSUME Calm, Sound, ClaimProtocol, NEW r \in Request,
         CheckKey(r) \/ Connect(r) \/ ConnectThrows(r)
  PROVE  ClaimProtocol'
  <1>1. ~ConnectThrows(r)
    BY DEF Calm, ConnectThrows
  <1>2. ~Rollback(r) /\ ~RefundFailed(r)
    BY DEF Rollback, RefundFailed, Step, ClaimProtocol, SessionPart,
         ConnectProgress, Undo
  <1>3. CASE CheckKey(r) \/ CheckActive(r) \/ ReserveTicket(r)
             \/ CreateProblem(r) \/ FindVolunteer(r)
    BY <1>3, ConnectFrame, EarlyConnectSteps, FrameSession
  <1>4. CASE CreateMatched(r) \/ CreateWaiting(r)
    BY <1>4, ConnectFrame, OpenSteps, FrameSession
  <1>5. CASE StoreActiveHash(r) \/ PublishWaiting(r)
    BY <1>5, ConnectFrame, StoreSteps, FrameSession
  <1>6. CASE ScheduleMatched(r)
    BY <1>6, ConnectFrame, ScheduleMatchedStep, FrameSession
  <1>7. CASE ScheduleMatchTimeout(r)
    BY <1>7, ConnectFrame, ScheduleMatchTimeoutStep, FrameSession
  <1>8. CASE StoreAnswer(r)
    BY <1>8, ConnectFrame, StoreAnswerStep, FrameSession
  <1>9. QED
    BY <1>1, <1>2, <1>3, <1>4, <1>5, <1>6, <1>7, <1>8 DEF Connect

-----------------------------------------------------------------------------
(* The worker and the chat side                                            *)

(* What a job's step does to the jobs of its session. *)
LEMMA JobEffect ==
  ASSUME TypeOK, NEW r \in Request, NEW n \in JobName, NEW s \in JobState,
         SetJob(r, n, s)
  PROVE  /\ job'[r].match = IF n = "match" THEN s ELSE job[r].match
         /\ job'[r].timeout = IF n = "timeout" THEN s ELSE job[r].timeout
         /\ \A q \in Request :
              q # r => /\ job'[q].match = job[q].match
                       /\ job'[q].timeout = job[q].timeout
  <1>1. "match" \in JobName /\ "timeout" \in JobName
    BY DEF JobName
  <1>2. QED
    BY <1>1, JobSet

LEMMA WorkerFrame ==
  ASSUME Sound, NEW r \in Request, Worker(r)
  PROVE  /\ UNCHANGED <<apc, target, cpc, found, closing, winners>>
         /\ \A q \in Request : q # r => Same(q)
         /\ \A q \in Request : problem[q] # "absent" => problem'[q] # "absent"
  <1> USE DEF Sound, TypeOK
  <1>1. PICK n \in JobName, s \in JobState : SetJob(r, n, s)
    BY DEF Worker, StartMatchTimeout, CancelUnmatched, RefundUnmatched,
           DropUnmatched, StartGraceEnd, Charge, AckGraceEnd,
           StartSessionTimeout, FinishSessionTimeout, JobName, JobState,
           JobIdle, JobBusy
  <1>2. \A q \in Request :
          q # r => /\ job'[q].match = job[q].match
                   /\ job'[q].timeout = job[q].timeout
    BY <1>1, JobEffect
  <1>3. UNCHANGED <<apc, target, cpc, found, closing, winners>>
    BY DEF Worker, StartMatchTimeout, CancelUnmatched, RefundUnmatched,
           DropUnmatched, StartGraceEnd, Charge, AckGraceEnd,
           StartSessionTimeout, FinishSessionTimeout, pcVars
  <1>4. /\ \A q \in Request : q # r => db'[q] = db[q] /\ hash'[q] = hash[q]
        /\ UNCHANGED problem \/ problem' = [problem EXCEPT ![r] = "expired"]
    BY DEF Worker, StartMatchTimeout, CancelUnmatched, RefundUnmatched,
           DropUnmatched, StartGraceEnd, Charge, AckGraceEnd,
           StartSessionTimeout, FinishSessionTimeout, dbVars, redisVars
  <1>5. QED
    BY <1>2, <1>3, <1>4 DEF Same

(* match:timeout: it starts outside the claim window, and nothing is       *)
(* claimed while it runs.                                                  *)
LEMMA MatchTimeoutSteps ==
  ASSUME Calm, Sound, ClaimProtocol, NEW r \in Request,
         \/ StartMatchTimeout(r) \/ CancelUnmatched(r)
         \/ RefundUnmatched(r) \/ DropUnmatched(r)
  PROVE  SessionPart(r)' /\ CallsKept(r)
  <1> USE DEF Sound, TypeOK
  <1>1. SessionPart(r) /\ UNCHANGED <<apc, target, cpc, found, closing, winners>>
    BY WorkerFrame DEF ClaimProtocol, Worker
  <1>2. /\ job[r].match \in {"delayed", "cancel", "refund", "drop"}
        /\ job[r].match \in {"refund", "drop"} => job'[r].match \in {"drop", "done"}
        /\ job'[r].match # "none"
        /\ job'[r].timeout = job[r].timeout
    <2>1. PICK s \in {"cancel", "refund", "drop", "done"} : SetJob(r, "match", s)
      BY DEF StartMatchTimeout, CancelUnmatched, RefundUnmatched, DropUnmatched
    <2>2. "match" \in JobName /\ s \in JobState
      BY DEF JobName, JobState, JobIdle, JobBusy
    <2>3. job'[r].match = s /\ job'[r].timeout = job[r].timeout
      BY <2>1, <2>2, JobEffect
    <2>4. CASE RefundUnmatched(r) \/ DropUnmatched(r)
      <3>1. \/ job[r].match = "refund" /\ SetJob(r, "match", "drop")
            \/ job[r].match = "drop" /\ SetJob(r, "match", "done")
        BY <2>4 DEF RefundUnmatched, DropUnmatched
      <3>2. "drop" \in JobState /\ "done" \in JobState
        BY DEF JobState, JobIdle, JobBusy
      <3>3. QED
        BY <2>2, <2>3, <3>1, <3>2, JobEffect
    <2>5. CASE StartMatchTimeout(r) \/ CancelUnmatched(r)
      BY <2>3, <2>5 DEF StartMatchTimeout, CancelUnmatched
    <2>6. QED
      BY <2>4, <2>5
  <1>3. ~Claiming(r)
    <2>1. CASE StartMatchTimeout(r)
      BY <2>1 DEF StartMatchTimeout, Calm
    <2>2. CASE ~StartMatchTimeout(r)
      <3>1. job[r].match \in {"cancel", "refund", "drop"}
        BY <2>2 DEF CancelUnmatched, RefundUnmatched, DropUnmatched
      <3>2. QED
        BY <3>1, BusyTimeoutHasNoClaim DEF JobIdle
    <2>3. QED
      BY <2>1, <2>2
  <1>4. db[r].status # "absent" /\ cpc[r] \notin {"hashA", "publishB"}
    BY <1>1, <1>2 DEF SessionPart, ConnectProgress, Untouched
  <1>5. \/ UNCHANGED db
        \/ /\ Unmatched(r) /\ job'[r].match = "refund"
           /\ db'[r].status = "cancelled_timeout"
           /\ db'[r].listener = None
    <2>1. CASE CancelUnmatched(r) /\ Unmatched(r)
      <3>1. /\ db' = [db EXCEPT ![r] = [db[r] EXCEPT !.status = "cancelled_timeout"]]
            /\ SetJob(r, "match", "refund")
        BY <2>1 DEF CancelUnmatched
      <3>2. "match" \in JobName /\ "refund" \in JobState
        BY DEF JobName, JobState, JobBusy
      <3>3. db[r] \in Row
        OBVIOUS
      <3>4. QED
        BY <2>1, <3>1, <3>2, <3>3, JobEffect DEF Row, Unmatched
    <2>2. CASE ~(CancelUnmatched(r) /\ Unmatched(r))
      BY <2>2 DEF StartMatchTimeout, CancelUnmatched, RefundUnmatched,
         DropUnmatched, dbVars
    <2>3. QED
      BY <2>1, <2>2
  <1>6. UNCHANGED hash
        \/ (hash'[r].status = "none" /\ hash'[r].listener = None)
    BY DEF StartMatchTimeout, CancelUnmatched, RefundUnmatched, DropUnmatched,
       NoHash, redisVars
  <1>7. CallsKept(r) /\ ~Claiming(r)'
    <2>1. Published(r) => Published(r)'
      BY <1>1, WorkerFrame DEF Published, Worker
    <2>2. db[r].listener # None => db'[r].listener # None
      BY <1>5 DEF Unmatched
    <2>3. QED
      BY <1>1, <1>3, <2>1, <2>2, QuietCallsKept
  <1>8. ConnectProgress(r)'
    BY <1>1, <1>4, <1>5, <1>2 DEF SessionPart, ConnectProgress, BeforeRow, Undo,
       Untouched, Active, Unmatched
  <1>9. WaitingIsOpen(r)'
    <2>1. CASE StartMatchTimeout(r)
      <3>1. UNCHANGED <<db, hash>> /\ job[r].match = "delayed"
        BY <2>1 DEF StartMatchTimeout, dbVars, redisVars
      <3>2. QED
        BY <1>1, <3>1 DEF SessionPart, WaitingIsOpen, Unmatched, Active
    <2>2. CASE CancelUnmatched(r)
      <3>1. job[r].match = "cancel" /\ UNCHANGED hash
        BY <2>2 DEF CancelUnmatched, redisVars
      <3>2. CASE Unmatched(r)
        <4>1. SetJob(r, "match", "refund") /\ "match" \in JobName /\ "refund" \in JobState
          BY <2>2, <3>2 DEF CancelUnmatched, JobName, JobState, JobBusy
        <4>2. QED
          BY <4>1, JobEffect DEF WaitingIsOpen
      <3>3. CASE ~Unmatched(r)
        <4>1. UNCHANGED db
          BY <2>2, <3>3 DEF CancelUnmatched, dbVars
        <4>2. QED
          BY <1>1, <3>1, <3>3, <4>1 DEF SessionPart, WaitingIsOpen, Unmatched, Active
      <3>4. QED
        BY <3>2, <3>3
    <2>3. CASE RefundUnmatched(r)
      <3>1. SetJob(r, "match", "drop") /\ "match" \in JobName /\ "drop" \in JobState
        BY <2>3 DEF RefundUnmatched, JobName, JobState, JobBusy
      <3>2. QED
        BY <3>1, JobEffect DEF WaitingIsOpen
    <2>4. CASE DropUnmatched(r)
      BY <2>4 DEF DropUnmatched, WaitingIsOpen, NoHash
    <2>5. QED
      BY <2>1, <2>2, <2>3, <2>4
  <1>10. ActiveIsClaimed(r)' /\ MatchedLeftWaiting(r)'
    BY <1>1, <1>2, <1>5, <1>6, <1>7 DEF SessionPart, ActiveIsClaimed,
       MatchedLeftWaiting, Unmatched
  <1>11. WinnerIsListener(r)'
    BY <1>1, <1>5 DEF SessionPart, WinnerIsListener, Unmatched
  <1>12. QED
    BY <1>7, <1>8, <1>9, <1>10, <1>11 DEF SessionPart

(* session:grace-end only moves its own job and the ticket. *)
LEMMA GraceEndSteps ==
  ASSUME Sound, ClaimProtocol, NEW r \in Request,
         StartGraceEnd(r) \/ Charge(r) \/ AckGraceEnd(r)
  PROVE  ClaimProtocol'
  <1> USE DEF Sound, TypeOK
  <1>1. /\ UNCHANGED <<apc, target, cpc, found, closing, winners, db, problem, hash>>
        /\ \E s \in JobState : SetJob(r, "grace", s)
    BY DEF StartGraceEnd, Charge, AckGraceEnd, pcVars, dbVars, redisVars,
       JobState, JobIdle, JobBusy
  <1>2. /\ job'[r].match = job[r].match
        /\ job'[r].timeout = job[r].timeout
    BY <1>1, JobEffect DEF JobName
  <1>3. /\ Published(r)' = Published(r) /\ Claiming(r)' = Claiming(r)
        /\ Unmatched(r)' = Unmatched(r) /\ Active(r)' = Active(r)
    BY <1>1 DEF Published, Claiming, Unmatched, Active
  <1>4. SessionPart(r)'
    BY <1>1, <1>2, <1>3 DEF ClaimProtocol, SessionPart, ConnectProgress, Untouched,
       WaitingIsOpen, ActiveIsClaimed, MatchedLeftWaiting, WinnerIsListener
  <1>5. CallsKept(r)
    <2> SUFFICES ASSUME NEW a \in Acceptor, target[a] = r PROVE AcceptPart(a)'
      BY DEF CallsKept
    <2>1. AcceptPart(a)
      BY DEF ClaimProtocol
    <2>2. QED
      BY <1>1, <1>2, <1>3, <2>1 DEF AcceptPart, ClaimWindow, WinnerHolds,
         AcceptProgress
  <1>6. Worker(r)
    BY DEF Worker
  <1>7. QED
    BY <1>1, <1>4, <1>5, <1>6, WorkerFrame, FrameSession

(* session:timeout and the end of a chat stay out of the claim window and  *)
(* touch only sessions with a listener.                                    *)
LEMMA EndSteps ==
  ASSUME Calm, Sound, ClaimProtocol, NEW r \in Request,
         \/ StartSessionTimeout(r) \/ FinishSessionTimeout(r)
         \/ EndChat(r) \/ FinishChat(r)
  PROVE  SessionPart(r)' /\ CallsKept(r)
  <1> USE DEF Sound, TypeOK
  <1>1. SessionPart(r) /\ UNCHANGED <<apc, target, cpc, found, problem, winners>>
    BY DEF ClaimProtocol, StartSessionTimeout, FinishSessionTimeout, EndChat,
       FinishChat, pcVars, dbVars
  <1>2. db[r].listener # None /\ ~Claiming(r)
    BY <1>1 DEF Calm, SessionPart, MatchedLeftWaiting, StartSessionTimeout,
       FinishSessionTimeout, EndChat, FinishChat, Told
  <1>3. /\ db'[r].listener = db[r].listener
        /\ db'[r] = db[r] \/ (db[r].status = "active" /\ db'[r].status # "absent")
    <2>1. CASE StartSessionTimeout(r)
      <3>1. db' = [db EXCEPT ![r] = [db[r] EXCEPT !.status =
                     IF db[r].status = "active" THEN "completed" ELSE db[r].status]]
        BY <2>1 DEF StartSessionTimeout
      <3>2. db[r] \in Row
        OBVIOUS
      <3>3. QED
        BY <3>1, <3>2 DEF Row
    <2>2. CASE EndChat(r)
      <3>1. PICK st \in {"completed", "cancelled_disconnect"} :
                   db' = [db EXCEPT ![r] = [db[r] EXCEPT !.status = st]]
        BY <2>2 DEF EndChat
      <3>2. db[r] \in Row
        OBVIOUS
      <3>3. QED
        BY <2>2, <3>1, <3>2 DEF Row, EndChat, Active
    <2>3. CASE FinishSessionTimeout(r) \/ FinishChat(r)
      BY <2>3 DEF FinishSessionTimeout, FinishChat, dbVars
    <2>4. QED
      BY <2>1, <2>2, <2>3
  <1>4. \/ hash'[r] = hash[r]
        \/ hash'[r].status = "none" /\ hash'[r].listener = None
    BY DEF StartSessionTimeout, FinishSessionTimeout, EndChat, FinishChat,
       NoHash, redisVars
  <1>5. /\ job'[r].match = job[r].match
        /\ job'[r].timeout = "none" => job[r].timeout = "none"
    <2>1. CASE StartSessionTimeout(r) \/ FinishSessionTimeout(r)
      <3>1. PICK s \in {"cleanup", "done"} : SetJob(r, "timeout", s)
        BY <2>1 DEF StartSessionTimeout, FinishSessionTimeout
      <3>2. "timeout" \in JobName /\ s \in JobState
        BY DEF JobName, JobState, JobIdle, JobBusy
      <3>3. job'[r].match = job[r].match /\ job'[r].timeout = s
        BY <3>1, <3>2, JobEffect
      <3>4. QED
        BY <3>3
    <2>2. CASE EndChat(r) \/ FinishChat(r)
      BY <2>2 DEF EndChat, FinishChat
    <2>3. QED
      BY <2>1, <2>2
  <1>6. CallsKept(r) /\ ~Claiming(r)'
    <2>1. Published(r)' = Published(r)
      BY <1>1 DEF Published
    <2>2. QED
      BY <1>1, <1>2, <1>3, <2>1, QuietCallsKept
  <1>7. \/ cpc[r] \notin {"hashA", "jobsA", "publishB"}
        \/ UNCHANGED <<db, job>>
    <2>1. CASE EndChat(r)
      BY <1>1, <1>2, <2>1 DEF SessionPart, ConnectProgress, EndChat, Told, Unmatched
    <2>2. CASE StartSessionTimeout(r) \/ FinishSessionTimeout(r)
      BY <1>1, <2>2 DEF SessionPart, ConnectProgress, StartSessionTimeout,
         FinishSessionTimeout, Untouched
    <2>3. CASE FinishChat(r)
      BY <2>3 DEF FinishChat, dbVars
    <2>4. QED
      BY <2>1, <2>2, <2>3
  <1>8. ConnectProgress(r)'
    <2>1. CASE UNCHANGED <<db, job>>
      BY <1>1, <1>4, <2>1 DEF SessionPart, ConnectProgress, Untouched, Active,
         Unmatched
    <2>2. CASE cpc[r] \notin {"hashA", "jobsA", "publishB"}
      BY <1>1, <1>2, <1>3, <1>4, <1>5, <2>2 DEF SessionPart, ConnectProgress,
         BeforeRow, Undo, Untouched
    <2>3. QED
      BY <1>7, <2>1, <2>2
  <1>9. WaitingIsOpen(r)' /\ ActiveIsClaimed(r)' /\ MatchedLeftWaiting(r)'
    BY <1>1, <1>2, <1>3, <1>4, <1>5, <1>6 DEF SessionPart, WaitingIsOpen,
       ActiveIsClaimed, MatchedLeftWaiting
  <1>10. WinnerIsListener(r)'
    BY <1>1, <1>3 DEF SessionPart, WinnerIsListener
  <1>11. QED
    BY <1>6, <1>8, <1>9, <1>10 DEF SessionPart

LEMMA ChatFrame ==
  ASSUME Sound, NEW r \in Request,
         \/ StartSessionTimeout(r) \/ FinishSessionTimeout(r)
         \/ EndChat(r) \/ FinishChat(r)
  PROVE  /\ UNCHANGED <<apc, target>>
         /\ \A q \in Request : q # r => Same(q)
  <1>1. CASE StartSessionTimeout(r) \/ FinishSessionTimeout(r)
    BY <1>1, WorkerFrame DEF Worker
  <1>2. CASE EndChat(r) \/ FinishChat(r)
    BY <1>2 DEF EndChat, FinishChat, Same, redisVars, dbVars, Sound, TypeOK
  <1>3. QED
    BY <1>1, <1>2

LEMMA WorkerKeepsClaims ==
  ASSUME Calm, Sound, ClaimProtocol, NEW r \in Request,
         Worker(r) \/ EndChat(r) \/ FinishChat(r)
  PROVE  ClaimProtocol'
  <1>1. CASE \/ StartMatchTimeout(r) \/ CancelUnmatched(r)
             \/ RefundUnmatched(r) \/ DropUnmatched(r)
    <2>1. Worker(r)
      BY <1>1 DEF Worker
    <2>2. QED
      BY <1>1, <2>1, WorkerFrame, MatchTimeoutSteps, FrameSession
  <1>2. CASE StartGraceEnd(r) \/ Charge(r) \/ AckGraceEnd(r)
    BY <1>2, GraceEndSteps
  <1>3. CASE \/ StartSessionTimeout(r) \/ FinishSessionTimeout(r)
             \/ EndChat(r) \/ FinishChat(r)
    BY <1>3, ChatFrame, EndSteps, FrameSession
  <1>4. QED
    BY <1>1, <1>2, <1>3 DEF Worker

(* Steps that change nothing the protocol speaks of. *)
LEMMA OtherKeepClaims ==
  ASSUME ClaimProtocol,
         UNCHANGED <<cpc, found, problem, db, hash, job, closing, winners,
                     apc, target>>
  PROVE  ClaimProtocol'
  <1>1. ASSUME NEW q \in Request PROVE SessionPart(q)'
    BY SessionKept DEF ClaimProtocol, Same, Claiming
  <1>2. ASSUME NEW a \in Acceptor PROVE AcceptPart(a)'
    BY CallKept DEF Same
  <1>3. QED
    BY <1>1, <1>2 DEF ClaimProtocol, OneClaimant

-----------------------------------------------------------------------------
(* accept()                                                                *)

(* What a step of accept() leaves alone. *)
LEMMA AcceptFrame ==
  ASSUME Sound, NEW a \in Acceptor, Accept(a)
  PROVE  /\ target[a] \in Request /\ apc[a] # "idle"
         /\ target'[a] \in {target[a], None}
         /\ \A b \in Acceptor : b # a => apc'[b] = apc[b] /\ target'[b] = target[b]
         /\ \A q \in Request : q # target[a] => Same(q)
         /\ UNCHANGED <<cpc, found, problem, closing>>
  <1> USE DEF Sound, TypeOK
  <1>1. PICK from, to \in AcceptPc : from # "idle" /\ Go(a, from, to)
    BY DEF Accept, CheckVolunteer, ReadHash, Claim, Activate, CheckBlocks,
         Persist, CancelMatchTimeout, ScheduleAccepted, Unlock, AcceptPc
  <1>2. target[a] \in Request /\ apc[a] # "idle"
    BY <1>1 DEF Go, TargetsNamed
  <1>3. UNCHANGED target \/ target' = [target EXCEPT ![a] = None]
    BY DEF Accept, CheckVolunteer, ReadHash, Claim, Activate, CheckBlocks,
         Persist, CancelMatchTimeout, ScheduleAccepted, Unlock
  <1>4. /\ UNCHANGED <<cpc, found, problem, closing>>
        /\ \A q \in Request :
             q # target[a] => /\ db'[q] = db[q] /\ hash'[q] = hash[q]
                              /\ winners'[q] = winners[q]
    <2>1. CASE CheckVolunteer(a) \/ ReadHash(a) \/ CancelMatchTimeout(a)
               \/ ScheduleAccepted(a) \/ Unlock(a)
      BY <2>1 DEF CheckVolunteer, ReadHash, CancelMatchTimeout,
           ScheduleAccepted, Unlock, dbVars, redisVars
    <2>2. CASE Claim(a) \/ Activate(a) \/ CheckBlocks(a)
      BY <2>2 DEF Claim, Activate, CheckBlocks, UndoClaim, dbVars
    <2>3. CASE Persist(a)
      BY <2>3 DEF Persist, UndoClaim
    <2>4. QED
      BY <2>1, <2>2, <2>3 DEF Accept
  <1>5. \A q \in Request :
          q # target[a] => /\ job'[q].match = job[q].match
                           /\ job'[q].timeout = job[q].timeout
    <2>1. CASE CancelMatchTimeout(a)
      <3>1. "match" \in JobName /\ Removed(job[target[a]].match) \in JobState
        BY <1>2 DEF Removed, JobName, JobState, JobIdle
      <3>2. UNCHANGED job \/ SetJob(target[a], "match", Removed(job[target[a]].match))
        BY <2>1 DEF CancelMatchTimeout
      <3>3. QED
        BY <1>2, <3>1, <3>2, JobEffect
    <2>2. CASE ScheduleAccepted(a)
      <3>1. "grace" \in JobName /\ Added(job[target[a]].grace) \in JobState
        BY <1>2 DEF Added, JobName, JobState, JobIdle
      <3>2. \/ ScheduleSessionJobs(target[a])
            \/ SetJob(target[a], "grace", Added(job[target[a]].grace))
        BY <2>2 DEF ScheduleAccepted
      <3>3. QED
        BY <1>2, <3>1, <3>2, JobEffect, JobsScheduled
    <2>3. CASE ~CancelMatchTimeout(a) /\ ~ScheduleAccepted(a)
      BY <2>3 DEF Accept, CheckVolunteer, ReadHash, Claim, Activate, CheckBlocks,
         Persist, Unlock
    <2>4. QED
      BY <2>1, <2>2, <2>3
  <1>6. \A b \in Acceptor : b # a => apc'[b] = apc[b]
    BY <1>1 DEF Go
  <1>7. QED
    BY <1>2, <1>3, <1>4, <1>5, <1>6 DEF Same

(* What another call about the same session needs of the step. *)
LEMMA OtherCallKept ==
  ASSUME ClaimProtocol, NEW r \in Request, NEW b \in Acceptor, target[b] = r,
         apc'[b] = apc[b], target'[b] = target[b],
         Published(r) => Published(r)',
         db[r].listener # None => db'[r].listener # None,
         job[r].match \in JobIdle => job'[r].match \in JobIdle,
         hash[r].status # "none" => hash'[r].status # "none",
         apc[b] \in Winning => db'[r] = db[r] /\ hash'[r] = hash[r]
  PROVE  AcceptPart(b)'
  <1>1. AcceptPart(b)
    BY DEF ClaimProtocol
  <1>2. ClaimWindow(b)' /\ AcceptProgress(b)'
    BY <1>1 DEF AcceptPart, ClaimWindow, AcceptProgress
  <1>3. WinnerHolds(b)'
    BY <1>1 DEF AcceptPart, WinnerHolds, Unmatched, Active
  <1>4. QED
    BY <1>2, <1>3 DEF AcceptPart

(* A call begins. *)
LEMMA TakeLockKeepsClaims ==
  ASSUME Sound, ClaimProtocol, NEW a \in Acceptor, NEW r \in Request, TakeLock(a, r)
  PROVE  ClaimProtocol'
  <1> USE DEF Sound, TypeOK
  <1>1. /\ apc[a] = "idle" /\ apc'[a] = "check" /\ target'[a] = r /\ Published(r)
        /\ \A b \in Acceptor : b # a => apc'[b] = apc[b] /\ target'[b] = target[b]
        /\ \A q \in Request : Same(q)
    BY DEF TakeLock, Go, Same, dbVars
  <1>2. \A q \in Request : Published(q)' = Published(q)
    BY <1>1 DEF Same, Published
  <1>3. ASSUME NEW q \in Request PROVE SessionPart(q)'
    <2>1. Claiming(q)' => Claiming(q)
      BY <1>1 DEF Claiming
    <2>2. QED
      BY <1>1, <2>1, SessionKept DEF ClaimProtocol
  <1>4. ASSUME NEW b \in Acceptor PROVE AcceptPart(b)'
    <2>1. CASE b = a
      BY <1>1, <1>2, <2>1 DEF AcceptPart, ClaimWindow, WinnerHolds,
         AcceptProgress, Winning
    <2>2. CASE b # a
      <3>1. apc[b] # "idle" => Same(target[b])
        BY <1>1 DEF TargetsNamed
      <3>2. QED
        BY <1>1, <2>2, <3>1, CallKept
    <2>3. QED
      BY <2>1, <2>2
  <1>5. OneClaimant'
    BY <1>1 DEF ClaimProtocol, OneClaimant, Winning
  <1>6. QED
    BY <1>3, <1>4, <1>5 DEF ClaimProtocol

(* Checks, and the end of a call, leave the session as it is. *)
LEMMA QuietAcceptSteps ==
  ASSUME Calm, Sound, ClaimProtocol, NEW a \in Acceptor, NEW r \in Request,
         target[a] = r,
         CheckVolunteer(a) \/ ReadHash(a) \/ Unlock(a)
  PROVE  ClaimProtocol'
  <1> USE DEF Sound, TypeOK
  <1>1. Accept(a)
    BY DEF Accept
  <1>2. /\ apc[a] # "idle"
        /\ target'[a] \in {r, None}
        /\ \A b \in Acceptor : b # a => apc'[b] = apc[b] /\ target'[b] = target[b]
        /\ \A q \in Request : q # r => Same(q)
        /\ UNCHANGED <<cpc, found, problem, closing>>
    BY <1>1, AcceptFrame
  <1>3. UNCHANGED <<db, hash, job, winners>>
    BY DEF CheckVolunteer, ReadHash, Unlock, dbVars, redisVars
  <1>4. Same(r) /\ Published(r)' = Published(r)
    BY <1>2, <1>3 DEF Same, Published
  <1>5. /\ apc'[a] \in {"idle", "read", "unlock", "claim"}
        /\ apc'[a] # "idle" => target'[a] = r
        /\ apc'[a] = "claim" =>
             hash[r].status = "waiting" /\ job[r].match \in JobIdle
    BY DEF CheckVolunteer, ReadHash, Unlock, Go, Calm
  <1>6. SessionPart(r) /\ AcceptPart(a)
    BY <1>2 DEF ClaimProtocol
  <1>7. SessionPart(r)'
    <2>1. CASE apc'[a] = "claim"
      <3>1. db[r].listener = None /\ closing[r] = None /\ job[r].timeout # "cleanup"
        BY <1>5, <1>6, <2>1 DEF SessionPart, MatchedLeftWaiting
      <3>2. /\ Active(r)' = Active(r)
            /\ Unmatched(r)' = Unmatched(r)
        BY <1>3 DEF Active, Unmatched
      <3>3. QED
        BY <1>2, <1>3, <1>6, <3>1, <3>2 DEF SessionPart, ConnectProgress, Untouched,
           WaitingIsOpen, ActiveIsClaimed, MatchedLeftWaiting, WinnerIsListener
    <2>2. CASE apc'[a] # "claim"
      <3>1. Claiming(r)' => Claiming(r)
        BY <1>2, <1>5, <2>2 DEF Claiming
      <3>2. QED
        BY <1>2, <1>4, <1>6, <3>1, SessionKept
    <2>3. QED
      BY <2>1, <2>2
  <1>8. AcceptPart(a)'
    BY <1>2, <1>3, <1>4, <1>5, <1>6 DEF AcceptPart, ClaimWindow, WinnerHolds,
       AcceptProgress, Winning
  <1>9. \A b \in Acceptor : b # a /\ target[b] = r => AcceptPart(b)'
    BY <1>2, <1>4, CallKept
  <1>10. OneClaimant'
    BY <1>2, <1>5 DEF ClaimProtocol, OneClaimant, Winning
  <1>11. QED
    BY <1>2, <1>7, <1>8, <1>9, <1>10, FrameAccept

(* HSETNX: the winner finds the hash unclaimed, so nobody else is winning. *)
LEMMA ClaimStep ==
  ASSUME Calm, Sound, ClaimProtocol, NEW a \in Acceptor, NEW r \in Request,
         target[a] = r, Claim(a)
  PROVE  ClaimProtocol'
  <1> USE DEF Sound, TypeOK
  <1>1. /\ apc[a] # "idle"
        /\ target'[a] \in {r, None}
        /\ \A b \in Acceptor : b # a => apc'[b] = apc[b] /\ target'[b] = target[b]
        /\ \A q \in Request : q # r => Same(q)
        /\ UNCHANGED <<cpc, found, problem, closing>>
    BY AcceptFrame DEF Accept
  <1>2. /\ apc[a] = "claim" /\ target' = target
        /\ UNCHANGED <<db, job, winners>>
    BY DEF Claim, Go, dbVars
  <1>3. SessionPart(r) /\ AcceptPart(a) /\ Published(r)
    BY <1>1 DEF ClaimProtocol, AcceptPart, AcceptProgress
  <1>4. Published(r)' /\ Claiming(r)
    BY <1>1, <1>2, <1>3 DEF Published, Claiming
  <1>5. /\ Active(r)' = Active(r) /\ Unmatched(r)' = Unmatched(r)
    BY <1>2 DEF Active, Unmatched
  <1>6. CASE hash[r].listener # None
    <2>1. apc'[a] = "unlock" /\ UNCHANGED hash
      BY <1>6 DEF Claim, Go
    <2>2. Same(r)
      BY <1>1, <1>2, <2>1 DEF Same
    <2>3. SessionPart(r)'
      BY <1>1, <1>3, <1>4, <2>2, SessionKept
    <2>4. AcceptPart(a)'
      BY <1>2, <1>4, <2>1 DEF AcceptPart, ClaimWindow, WinnerHolds,
         AcceptProgress, Winning
    <2>5. \A b \in Acceptor : b # a /\ target[b] = r => AcceptPart(b)'
      BY <1>1, <2>2, CallKept
    <2>6. OneClaimant'
      BY <1>1, <1>2, <2>1 DEF ClaimProtocol, OneClaimant, Winning
    <2>7. QED
      BY <1>1, <2>3, <2>4, <2>5, <2>6, FrameAccept
  <1>7. CASE hash[r].listener = None
    <2>1. /\ apc'[a] = "multi"
          /\ hash' = [hash EXCEPT ![r] = [hash[r] EXCEPT !.listener = VolunteerOf[a]]]
      BY <1>7 DEF Claim, Go
    <2>2. /\ hash[r] \in SessionHash
          /\ hash'[r].listener = VolunteerOf[a] /\ hash'[r].status = hash[r].status
          /\ VolunteerOf[a] # None
      BY <1>1, <2>1, LifecycleConstants DEF SessionHash
    <2>3. hash[r].status # "none" /\ job[r].match \in JobIdle
      BY <1>2, <1>3 DEF AcceptPart, ClaimWindow
    <2>4. hash[r].status = "waiting" /\ Unmatched(r)
      BY <1>3, <1>7, <2>2, <2>3 DEF SessionPart, ActiveIsClaimed, WaitingIsOpen,
         SessionHash, JobIdle
    <2>5. \A b \in Acceptor : target[b] = r => apc[b] \notin Winning
      BY <1>7, LifecycleConstants DEF ClaimProtocol, AcceptPart, WinnerHolds
    <2>6. SessionPart(r)'
      <3>1. db[r].listener = None /\ closing[r] = None /\ job[r].timeout # "cleanup"
        BY <1>3, <2>4 DEF SessionPart, MatchedLeftWaiting, Unmatched
      <3>2. ~(cpc[r] \in {"hashA", "publishB"}) /\ db[r].status # "absent"
        BY <1>3, <2>3, <2>4 DEF SessionPart, ConnectProgress, Untouched,
           Unmatched, Active
      <3>3. QED
        BY <1>1, <1>2, <1>3, <1>5, <2>2, <2>4, <3>1, <3>2 DEF SessionPart,
           ConnectProgress, Untouched, WaitingIsOpen, ActiveIsClaimed,
           MatchedLeftWaiting, WinnerIsListener
    <2>7. AcceptPart(a)'
      BY <1>2, <1>4, <1>5, <2>1, <2>2, <2>3, <2>4 DEF AcceptPart, ClaimWindow,
         WinnerHolds, AcceptProgress, Winning
    <2>8. ASSUME NEW b \in Acceptor, b # a, target[b] = r PROVE AcceptPart(b)'
      BY <1>1, <1>2, <1>4, <2>2, <2>5, <2>8, OtherCallKept
    <2>9. OneClaimant'
      BY <1>1, <1>2, <2>5 DEF ClaimProtocol, OneClaimant
    <2>10. QED
      BY <1>1, <2>6, <2>7, <2>8, <2>9, FrameAccept
  <1>8. QED
    BY <1>6, <1>7

(* A caller between HSETNX and the row update is alone with its session.   *)
LEMMA WinnerAlone ==
  ASSUME Sound, ClaimProtocol, NEW a \in Acceptor, NEW r \in Request,
         target[a] = r, apc[a] \in Winning
  PROVE  /\ SessionPart(r) /\ AcceptPart(a) /\ Published(r)
         /\ Unmatched(r) /\ hash[r].listener = VolunteerOf[a]
         /\ hash[r].status # "none" /\ job[r].match \in JobIdle
         /\ closing[r] = None /\ job[r].timeout # "cleanup"
         /\ winners[r] = {}
         /\ \A b \in Acceptor : b # a /\ target[b] = r => apc[b] \notin Winning
  <1>1. SessionPart(r) /\ AcceptPart(a) /\ apc[a] # "idle"
    BY DEF ClaimProtocol, Winning
  <1>2. Published(r) /\ Unmatched(r) /\ hash[r].listener = VolunteerOf[a]
    BY <1>1 DEF AcceptPart, AcceptProgress, WinnerHolds
  <1>3. hash[r].status # "none" /\ job[r].match \in JobIdle
    BY <1>1 DEF AcceptPart, ClaimWindow
  <1>4. /\ closing[r] = None /\ job[r].timeout # "cleanup"
        /\ winners[r] = {}
    BY <1>1, <1>2 DEF SessionPart, MatchedLeftWaiting, WinnerIsListener, Unmatched
  <1>5. QED
    BY <1>1, <1>2, <1>3, <1>4 DEF ClaimProtocol, OneClaimant

(* The MULTI that activates the hash, and the block check, which gives the *)
(* claim back when it refuses.                                             *)
LEMMA HoldSteps ==
  ASSUME Calm, Sound, ClaimProtocol, NEW a \in Acceptor, NEW r \in Request,
         target[a] = r, Activate(a) \/ CheckBlocks(a)
  PROVE  ClaimProtocol'
  <1> USE DEF Sound, TypeOK
  <1>1. /\ apc[a] # "idle"
        /\ target'[a] \in {r, None}
        /\ \A b \in Acceptor : b # a => apc'[b] = apc[b] /\ target'[b] = target[b]
        /\ \A q \in Request : q # r => Same(q)
        /\ UNCHANGED <<cpc, found, problem, closing>>
    BY AcceptFrame DEF Accept
  <1>2. apc[a] \in Winning /\ target' = target /\ UNCHANGED <<db, job, winners>>
    BY DEF Activate, CheckBlocks, Go, dbVars, Winning
  <1>3. /\ SessionPart(r) /\ AcceptPart(a) /\ Published(r)
        /\ Unmatched(r) /\ hash[r].listener = VolunteerOf[a]
        /\ hash[r].status # "none" /\ job[r].match \in JobIdle
        /\ closing[r] = None /\ job[r].timeout # "cleanup"
        /\ \A b \in Acceptor : b # a /\ target[b] = r => apc[b] \notin Winning
    BY <1>2, WinnerAlone
  <1>4. /\ \/ /\ apc'[a] \in {"blocks", "persist"}
              /\ hash'[r].status = "active"
              /\ hash'[r].listener = VolunteerOf[a]
           \/ /\ apc'[a] = "unlock"
              /\ hash'[r].status = "waiting" /\ hash'[r].listener = None
    <2>1. CASE Activate(a)
      <3>1. /\ hash' = [hash EXCEPT ![r] = [hash[r] EXCEPT !.status = "active"]]
            /\ apc'[a] = "blocks" /\ hash[r] \in SessionHash
        BY <2>1 DEF Activate, Go
      <3>2. QED
        BY <1>3, <3>1 DEF SessionHash
    <2>2. CASE CheckBlocks(a) /\ apc'[a] = "unlock"
      <3>1. UndoClaim(r)
        BY <2>2 DEF CheckBlocks, Go
      <3>2. QED
        BY <2>2, <3>1 DEF UndoClaim
    <2>3. CASE CheckBlocks(a) /\ apc'[a] # "unlock"
      <3>1. apc[a] = "blocks" /\ apc'[a] = "persist" /\ UNCHANGED hash
        BY <2>3 DEF CheckBlocks, Go
      <3>2. hash[r].status = "active"
        BY <1>2, <1>3, <3>1 DEF AcceptPart, WinnerHolds
      <3>3. QED
        BY <1>3, <3>1, <3>2
    <2>4. QED
      BY <2>1, <2>2, <2>3
  <1>5. /\ Published(r)' /\ Unmatched(r)' /\ Active(r)' /\ VolunteerOf[a] # None
    BY <1>1, <1>2, <1>3, LifecycleConstants DEF Published, Unmatched, Active
  <1>6. SessionPart(r)'
    <2>1. ConnectProgress(r)'
      BY <1>1, <1>2, <1>3, <1>5 DEF SessionPart, ConnectProgress, Untouched,
         Published, BeforeRow, Undo, Unmatched, Active
    <2>2. WaitingIsOpen(r)' /\ ActiveIsClaimed(r)' /\ MatchedLeftWaiting(r)'
      BY <1>1, <1>2, <1>3, <1>4, <1>5 DEF SessionPart, WaitingIsOpen,
         ActiveIsClaimed, MatchedLeftWaiting, Unmatched
    <2>3. QED
      BY <1>2, <1>3, <2>1, <2>2 DEF SessionPart, WinnerIsListener
  <1>7. AcceptPart(a)'
    BY <1>2, <1>3, <1>4, <1>5 DEF AcceptPart, ClaimWindow, WinnerHolds,
       AcceptProgress, Winning
  <1>8. ASSUME NEW b \in Acceptor, b # a, target[b] = r PROVE AcceptPart(b)'
    BY <1>1, <1>2, <1>3, <1>4, <1>5, <1>8, OtherCallKept
  <1>9. OneClaimant'
    BY <1>1, <1>2, <1>3 DEF ClaimProtocol, OneClaimant
  <1>10. QED
    BY <1>1, <1>6, <1>7, <1>8, <1>9, FrameAccept

(* The row update, which a calm system does not see fail. *)
LEMMA PersistStep ==
  ASSUME Calm, Sound, ClaimProtocol, NEW a \in Acceptor, NEW r \in Request,
         target[a] = r, Persist(a)
  PROVE  /\ ClaimProtocol'
         /\ Unmatched(r)
         /\ db' = [db EXCEPT ![r] = [status |-> "active",
                                     listener |-> VolunteerOf[a]]]
  <1> USE DEF Sound, TypeOK
  <1>1. /\ apc[a] # "idle"
        /\ target'[a] \in {r, None}
        /\ \A b \in Acceptor : b # a => apc'[b] = apc[b] /\ target'[b] = target[b]
        /\ \A q \in Request : q # r => Same(q)
        /\ UNCHANGED <<cpc, found, problem, closing>>
    BY AcceptFrame DEF Accept
  <1>2. apc[a] = "persist" /\ target' = target /\ UNCHANGED job
    BY DEF Persist, Go
  <1>3. /\ SessionPart(r) /\ AcceptPart(a) /\ Published(r)
        /\ Unmatched(r) /\ hash[r].listener = VolunteerOf[a]
        /\ hash[r].status # "none" /\ job[r].match \in JobIdle
        /\ closing[r] = None /\ job[r].timeout # "cleanup"
        /\ winners[r] = {}
        /\ \A b \in Acceptor : b # a /\ target[b] = r => apc[b] \notin Winning
    BY <1>2, WinnerAlone DEF Winning
  <1>4. /\ apc'[a] = "cancel" /\ UNCHANGED hash
        /\ db' = [db EXCEPT ![r] = [status |-> "active",
                                    listener |-> VolunteerOf[a]]]
        /\ winners' = [winners EXCEPT ![r] = winners[r] \cup {VolunteerOf[a]}]
    BY <1>3 DEF Persist, Go, Calm, Unmatched, Active
  <1>5. /\ db'[r].status = "active" /\ db'[r].listener = VolunteerOf[a]
        /\ winners'[r] = {VolunteerOf[a]}
        /\ VolunteerOf[a] # None
    BY <1>3, <1>4, LifecycleConstants
  <1>6. Published(r)' /\ Active(r)' /\ ~Unmatched(r)'
    BY <1>1, <1>3, <1>5 DEF Published, Unmatched, Active
  <1>7. hash[r].status = "active"
    BY <1>2, <1>3 DEF AcceptPart, WinnerHolds, Winning
  <1>8. SessionPart(r)'
    <2>1. ConnectProgress(r)'
      BY <1>1, <1>2, <1>3, <1>5, <1>6 DEF SessionPart, ConnectProgress,
         Published, BeforeRow, Undo
    <2>2. WaitingIsOpen(r)' /\ ActiveIsClaimed(r)' /\ MatchedLeftWaiting(r)'
      BY <1>1, <1>2, <1>3, <1>4, <1>5, <1>7 DEF SessionPart, WaitingIsOpen,
         ActiveIsClaimed, MatchedLeftWaiting
    <2>3. QED
      BY <1>5, <2>1, <2>2 DEF SessionPart, WinnerIsListener
  <1>9. AcceptPart(a)'
    BY <1>2, <1>3, <1>4, <1>5, <1>6 DEF AcceptPart, ClaimWindow, WinnerHolds,
       AcceptProgress, Winning
  <1>10. ASSUME NEW b \in Acceptor, b # a, target[b] = r PROVE AcceptPart(b)'
    BY <1>1, <1>2, <1>3, <1>4, <1>5, <1>6, <1>10, OtherCallKept
  <1>11. OneClaimant'
    BY <1>1, <1>2, <1>4 DEF ClaimProtocol, OneClaimant, Winning
  <1>12. QED
    BY <1>1, <1>3, <1>4, <1>8, <1>9, <1>10, <1>11, FrameAccept

(* The jobs of an accepted session. *)
LEMMA AcceptJobSteps ==
  ASSUME Calm, Sound, ClaimProtocol, NEW a \in Acceptor, NEW r \in Request,
         target[a] = r, CancelMatchTimeout(a) \/ ScheduleAccepted(a)
  PROVE  ClaimProtocol'
  <1> USE DEF Sound, TypeOK
  <1>1. /\ apc[a] # "idle"
        /\ target'[a] \in {r, None}
        /\ \A b \in Acceptor : b # a => apc'[b] = apc[b] /\ target'[b] = target[b]
        /\ \A q \in Request : q # r => Same(q)
        /\ UNCHANGED <<cpc, found, problem, closing>>
    BY AcceptFrame DEF Accept
  <1>2. /\ apc[a] \in {"cancel", "schedule"} /\ apc'[a] \in {"schedule", "unlock"}
        /\ target' = target /\ UNCHANGED <<db, hash, winners>>
    BY DEF CancelMatchTimeout, ScheduleAccepted, Go, dbVars, redisVars
  <1>3. SessionPart(r) /\ AcceptPart(a) /\ Published(r) /\ db[r].listener # None
    BY <1>1, <1>2 DEF ClaimProtocol, AcceptPart, AcceptProgress
  <1>4. /\ job'[r].match \in {job[r].match, Removed(job[r].match)}
        /\ job'[r].timeout \in {job[r].timeout, Added(job[r].timeout)}
    <2>1. CASE CancelMatchTimeout(a)
      <3>1. "match" \in JobName /\ Removed(job[r].match) \in JobState
        BY DEF Removed, JobName, JobState, JobIdle
      <3>2. SetJob(r, "match", Removed(job[r].match))
        BY <2>1 DEF CancelMatchTimeout, Calm
      <3>3. QED
        BY <3>1, <3>2, JobEffect
    <2>2. CASE ScheduleAccepted(a)
      <3>1. ScheduleSessionJobs(r)
        BY <2>2 DEF ScheduleAccepted, Calm
      <3>2. QED
        BY <3>1, JobsScheduled
    <2>3. QED
      BY <2>1, <2>2
  <1>5. /\ job[r].match \in JobIdle => job'[r].match \in JobIdle
        /\ job[r].match \in {"refund", "drop"} => job'[r].match = job[r].match
        /\ job'[r].timeout = "cleanup" => job[r].timeout = "cleanup"
    BY <1>4 DEF Removed, Added, JobIdle
  <1>6. /\ Published(r)' /\ Unmatched(r)' = Unmatched(r)
        /\ Active(r)' = Active(r)
        /\ Claiming(r)' => Claiming(r)
    BY <1>1, <1>2, <1>3 DEF Published, Unmatched, Active, Claiming
  <1>7. SessionPart(r)'
    <2>1. ConnectProgress(r)'
      BY <1>1, <1>2, <1>3, <1>6 DEF SessionPart, ConnectProgress, Untouched,
         Published, BeforeRow, Undo
    <2>2. WaitingIsOpen(r)' /\ ActiveIsClaimed(r)' /\ MatchedLeftWaiting(r)'
      BY <1>1, <1>2, <1>3, <1>5, <1>6 DEF SessionPart, WaitingIsOpen,
         ActiveIsClaimed, MatchedLeftWaiting
    <2>3. QED
      BY <1>2, <1>3, <2>1, <2>2 DEF SessionPart, WinnerIsListener
  <1>8. AcceptPart(a)'
    BY <1>2, <1>3, <1>6 DEF AcceptPart, ClaimWindow, WinnerHolds,
       AcceptProgress, Winning
  <1>9. ASSUME NEW b \in Acceptor, b # a, target[b] = r PROVE AcceptPart(b)'
    BY <1>1, <1>2, <1>5, <1>6, <1>9, OtherCallKept
  <1>10. OneClaimant'
    BY <1>1, <1>2 DEF ClaimProtocol, OneClaimant, Winning
  <1>11. QED
    BY <1>1, <1>7, <1>8, <1>9, <1>10, FrameAccept

LEMMA AcceptKeepsClaims ==
  ASSUME Calm, Sound, ClaimProtocol, NEW a \in Acceptor, Accept(a) \/ AcceptThrows(a)
  PROVE  ClaimProtocol'
  <1>1. Accept(a)
    BY DEF Calm, AcceptThrows
  <1>2. target[a] \in Request
    BY <1>1, AcceptFrame
  <1>3. QED
    BY <1>1, <1>2, QuietAcceptSteps, ClaimStep, HoldSteps, PersistStep,
       AcceptJobSteps DEF Accept

-----------------------------------------------------------------------------

LEMMA ClaimInit == Init => ClaimProtocol
  BY DEF Init, ClaimProtocol, SessionPart, AcceptPart, OneClaimant,
     ConnectProgress, Untouched, Undo, BeforeRow, Active, Unmatched,
     WaitingIsOpen, ActiveIsClaimed, MatchedLeftWaiting, ClaimWindow, Winning,
     WinnerHolds, AcceptProgress, WinnerIsListener, JobName, NoRow, NoHash

LEMMA ClaimNext ==
  ASSUME Calm, Sound, ClaimProtocol, [Next]_vars
  PROVE  ClaimProtocol'
  <1>1. ASSUME NEW r \in Request, CheckKey(r) \/ Connect(r) \/ ConnectThrows(r)
        PROVE  ClaimProtocol'
    BY <1>1, ConnectKeepsClaims
  <1>2. ASSUME NEW r \in Request, Worker(r) \/ EndChat(r) \/ FinishChat(r)
        PROVE  ClaimProtocol'
    BY <1>2, WorkerKeepsClaims
  <1>3. ASSUME NEW r \in Request, WorkerCrash(r) \/ JobThrows(r) \/ ExpireHash(r)
        PROVE  FALSE
    BY <1>3 DEF Calm, WorkerCrash, JobThrows, ExpireHash
  <1>4. ASSUME NEW r \in Request, PruneWaiting(r)
        PROVE  ClaimProtocol'
    BY <1>4, OtherKeepClaims DEF PruneWaiting, dbVars, pcVars
  <1>5. ASSUME NEW a \in Acceptor, NEW r \in Request, TakeLock(a, r)
        PROVE  ClaimProtocol'
    BY <1>5, TakeLockKeepsClaims
  <1>6. ASSUME NEW a \in Acceptor, Accept(a) \/ AcceptThrows(a)
        PROVE  ClaimProtocol'
    BY <1>6, AcceptKeepsClaims
  <1>7. ASSUME NEW v \in Volunteer, GoOnline(v) \/ GoOffline(v) \/ ExpireLock(v)
        PROVE  ClaimProtocol'
    BY <1>7, OtherKeepClaims DEF GoOnline, GoOffline, ExpireLock, dbVars, pcVars
  <1>8. CASE UNCHANGED vars
    BY <1>8, OtherKeepClaims DEF vars
  <1>9. QED
    BY <1>1, <1>2, <1>3, <1>4, <1>5, <1>6, <1>7, <1>8 DEF Next

(* The claim protocol holds for any number of sessions, volunteers and     *)
(* accept calls, as long as no timer, expiry or fault falls into a claim.  *)
THEOREM ClaimsHold ==
  ASSUME Calm
  PROVE  Spec => [](Sound /\ ClaimProtocol)
  <1>1. Sound /\ ClaimProtocol /\ [Next]_vars => ClaimProtocol'
    BY ClaimNext
  <1>2. QED
    BY <1>1, ClaimInit, SoundAlways, PTL DEF Spec

(* Only one of the volunteers who tap Accept gets the session. *)
THEOREM OneWinnerHolds ==
  ASSUME Calm
  PROVE  Spec => []OneWinner
  <1>1. Sound /\ ClaimProtocol => OneWinner
    <2> SUFFICES ASSUME Sound, ClaimProtocol, NEW r \in Request
                 PROVE  Cardinality(winners[r]) <= 1
      BY DEF OneWinner
    <2>1. WinnerIsListener(r)
      BY DEF ClaimProtocol, SessionPart
    <2>2. CASE winners[r] = {}
      BY <2>2, FS_EmptySet
    <2>3. CASE winners[r] = {db[r].listener}
      <3>1. Cardinality(winners[r]) = 1
        BY <2>3, FS_Singleton
      <3>2. QED
        BY <3>1
    <2>4. QED
      BY <2>1, <2>2, <2>3 DEF WinnerIsListener
  <1>2. QED
    BY <1>1, ClaimsHold, PTL

(* What accept() writes to the row is what its claim in Redis promised.    *)
THEOREM ClaimStandsHolds ==
  ASSUME Calm
  PROVE  Spec => []ClaimStands
  <1>1. ClaimProtocol => ClaimStands
    BY DEF ClaimProtocol, AcceptPart, WinnerHolds, Winning, ClaimStands
  <1>2. QED
    BY <1>1, ClaimsHold, PTL

-----------------------------------------------------------------------------
(* The rows: a step changes at most one, and in one of three ways. *)

Opened(r) ==
  /\ db[r].status = "absent" /\ db[r].listener = None
  /\ db'[r].status = "active"

Accepted(r) ==
  /\ Unmatched(r)
  /\ db'[r].status = "active" /\ db'[r].listener \in Volunteer

Ended(r) ==
  /\ Active(r)
  /\ db'[r].status \in Terminal /\ db'[r].listener = db[r].listener

RowStep ==
  \E r \in Request :
    /\ Opened(r) \/ Accepted(r) \/ Ended(r)
    /\ \A q \in Request : q # r => db'[q] = db[q]

(* A step that opens no session. *)
KnownRowStep ==
  \E r \in Request :
    /\ Accepted(r) \/ Ended(r)
    /\ \A q \in Request : q # r => db'[q] = db[q]

LEMMA OpenRows ==
  ASSUME Sound, ClaimProtocol, NEW r \in Request, CreateMatched(r) \/ CreateWaiting(r)
  PROVE  RowStep
  <1> USE DEF Sound, TypeOK
  <1>1. cpc[r] \in {"createA", "createB"} /\ ConnectProgress(r)
    BY DEF CreateMatched, CreateWaiting, Step, ClaimProtocol, SessionPart
  <1>2. db[r].status = "absent" /\ db[r].listener = None
    BY <1>1 DEF ConnectProgress, BeforeRow
  <1>3. Opened(r)
    BY <1>2 DEF CreateMatched, CreateWaiting, Opened
  <1>4. \A q \in Request : q # r => db'[q] = db[q]
    BY DEF CreateMatched, CreateWaiting
  <1>5. QED
    BY <1>3, <1>4 DEF RowStep

LEMMA EndRows ==
  ASSUME Sound, NEW r \in Request,
         CancelUnmatched(r) \/ StartSessionTimeout(r) \/ EndChat(r)
  PROVE  KnownRowStep \/ UNCHANGED db
  <1> USE DEF Sound, TypeOK
  <1>1. PICK st \in Terminal \cup {db[r].status} :
          /\ db' = [db EXCEPT ![r] = [db[r] EXCEPT !.status = st]]
          /\ st = db[r].status \/ Active(r)
    <2>1. CASE CancelUnmatched(r) /\ Unmatched(r)
      BY <2>1 DEF CancelUnmatched, Unmatched, Terminal
    <2>2. CASE CancelUnmatched(r) /\ ~Unmatched(r)
      BY <2>2 DEF CancelUnmatched, dbVars, Row
    <2>3. CASE StartSessionTimeout(r)
      BY <2>3 DEF StartSessionTimeout, Active, Terminal
    <2>4. CASE EndChat(r)
      BY <2>4 DEF EndChat, Terminal
    <2>5. QED
      BY <2>1, <2>2, <2>3, <2>4
  <1>2. db[r] \in Row
    OBVIOUS
  <1>3. CASE st = db[r].status
    BY <1>1, <1>2, <1>3 DEF Row
  <1>4. CASE st # db[r].status
    <2>1. Active(r) /\ st \in Terminal
      BY <1>1, <1>4
    <2>2. Ended(r) /\ \A q \in Request : q # r => db'[q] = db[q]
      BY <1>1, <1>2, <2>1 DEF Ended, Row
    <2>3. QED
      BY <2>2 DEF KnownRowStep
  <1>5. QED
    BY <1>3, <1>4

LEMMA KnownRowSteps ==
  ASSUME Calm, Sound, ClaimProtocol, [Next]_vars,
         ~\E r \in Request : CreateMatched(r) \/ CreateWaiting(r)
  PROVE  KnownRowStep \/ UNCHANGED db
  <1> USE DEF dbVars
  <1>1. ASSUME NEW r \in Request, CheckKey(r) \/ Connect(r) \/ ConnectThrows(r)
        PROVE  KnownRowStep \/ UNCHANGED db
    <2>1. ~Rollback(r)
      BY DEF Rollback, Step, ClaimProtocol, SessionPart, ConnectProgress, Undo
    <2>2. QED
      BY <1>1, <2>1 DEF Connect, CheckKey, CheckActive, ReserveTicket,
         CreateProblem, FindVolunteer, StoreActiveHash, ScheduleMatched,
         PublishWaiting, ScheduleMatchTimeout, StoreAnswer, RefundFailed,
         ConnectThrows
  <1>2. ASSUME NEW r \in Request,
               \/ Worker(r) \/ WorkerCrash(r) \/ JobThrows(r) \/ EndChat(r)
               \/ FinishChat(r) \/ PruneWaiting(r) \/ ExpireHash(r)
        PROVE  KnownRowStep \/ UNCHANGED db
    <2>1. CASE CancelUnmatched(r) \/ StartSessionTimeout(r) \/ EndChat(r)
      BY <2>1, EndRows
    <2>2. CASE ~(CancelUnmatched(r) \/ StartSessionTimeout(r) \/ EndChat(r))
      BY <1>2, <2>2 DEF Worker, StartMatchTimeout, RefundUnmatched,
         DropUnmatched, StartGraceEnd, Charge, AckGraceEnd,
         FinishSessionTimeout, WorkerCrash, JobThrows, FinishChat,
         PruneWaiting, ExpireHash
    <2>3. QED
      BY <2>1, <2>2
  <1>3. ASSUME NEW a \in Acceptor,
               \/ \E r \in Request : TakeLock(a, r)
               \/ Accept(a) \/ AcceptThrows(a)
        PROVE  KnownRowStep \/ UNCHANGED db
    <2>1. CASE Persist(a)
      <3>1. target[a] \in Request
        BY <2>1, AcceptFrame DEF Accept
      <3>2. PICK r \in Request : r = target[a]
        BY <3>1
      <3>3. /\ Unmatched(r) /\ VolunteerOf[a] \in Volunteer
            /\ db' = [db EXCEPT ![r] = [status |-> "active",
                                        listener |-> VolunteerOf[a]]]
        BY <2>1, <3>2, PersistStep, LifecycleConstants
      <3>4. Accepted(r) /\ \A q \in Request : q # r => db'[q] = db[q]
        BY <3>3 DEF Accepted, Sound, TypeOK
      <3>5. QED
        BY <3>4 DEF KnownRowStep
    <2>2. CASE ~Persist(a)
      BY <1>3, <2>2 DEF TakeLock, Accept, CheckVolunteer, ReadHash, Claim, Activate,
         CheckBlocks, CancelMatchTimeout, ScheduleAccepted, Unlock, AcceptThrows
    <2>3. QED
      BY <2>1, <2>2
  <1>4. ASSUME NEW v \in Volunteer, GoOnline(v) \/ GoOffline(v) \/ ExpireLock(v)
        PROVE  UNCHANGED db
    BY <1>4 DEF GoOnline, GoOffline, ExpireLock
  <1>5. CASE UNCHANGED vars
    BY <1>5 DEF vars
  <1>6. QED
    BY <1>1, <1>2, <1>3, <1>4, <1>5 DEF Next

LEMMA RowSteps ==
  ASSUME Calm, Sound, ClaimProtocol, [Next]_vars
  PROVE  RowStep \/ UNCHANGED db
  BY OpenRows, KnownRowSteps DEF RowStep, KnownRowStep

(* A session that is over is never opened again, given to a volunteer or   *)
(* given another end.                                                      *)
THEOREM EndedStaysEndedHolds ==
  ASSUME Calm
  PROVE  Spec => EndedStaysEnded
  <1> DEFINE A == \A r \in Request : db[r].status \in Terminal => db'[r] = db[r]
  <1>1. Sound /\ ClaimProtocol /\ [Next]_vars => [A]_vars
    <2> SUFFICES ASSUME Sound, ClaimProtocol, [Next]_vars PROVE A
      OBVIOUS
    <2>1. CASE UNCHANGED db
      BY <2>1
    <2>2. CASE RowStep
      BY <2>2 DEF RowStep, Opened, Accepted, Ended, Unmatched, Active, Terminal
    <2>3. QED
      BY <2>1, <2>2, RowSteps
  <1>2. QED
    BY <1>1, ClaimsHold, PTL DEF Spec, EndedStaysEnded

-----------------------------------------------------------------------------
(* The refinement: rows are opened, matched and ended as the contract says.*)

PhaseOfRow(r) ==
  /\ db[r].status = "absent" => Phase(r) = "none"
  /\ Unmatched(r) => Phase(r) = "waiting"
  /\ Active(r) /\ db[r].listener # None => Phase(r) = "matched"
  /\ db[r].status \in Terminal => Phase(r) = "ended"

LEMMA Phases ==
  ASSUME NEW r \in Request
  PROVE  PhaseOfRow(r) /\ PhaseOfRow(r)'
  BY DEF PhaseOfRow, Phase, Unmatched, Active, Terminal

(* A session whose row is left alone keeps its phase and its listener.     *)
LEMMA PhaseKept ==
  ASSUME NEW q \in Request, db'[q] = db[q]
  PROVE  Phase(q)' = Phase(q)
  BY DEF Phase, Unmatched, Active

LEMMA StepsMapped ==
  ASSUME Sound, Sound', NEW r \in Request,
         Opened(r) \/ Accepted(r) \/ Ended(r),
         \A q \in Request : q # r => db'[q] = db[q]
  PROVE  Contract!Next
  <1> DEFINE phase == [q \in Request |-> Phase(q)]
             listener == [q \in Request |-> db[q].listener]
  <1>1. /\ phase' = [phase EXCEPT ![r] = Phase(r)']
        /\ listener' = [listener EXCEPT ![r] = db'[r].listener]
    BY PhaseKept
  <1>2. db'[r].listener \in Volunteer \cup {None}
    BY DEF Sound, TypeOK, Row
  <1>3. phase[r] = Phase(r) /\ listener[r] = db[r].listener
    OBVIOUS
  <1> HIDE DEF phase, listener
  <1>4. CASE Opened(r) /\ db'[r].listener = None
    <2>1. phase[r] = "none" /\ Phase(r)' = "waiting"
      BY <1>3, <1>4, Phases DEF Opened, PhaseOfRow, Unmatched, Active
    <2>2. listener' = listener
      BY <1>1, <1>3, <1>4 DEF Opened, listener
    <2>3. QED
      BY <1>1, <2>1, <2>2 DEF Contract!Next, Contract!Open, phase, listener
  <1>5. CASE Opened(r) /\ db'[r].listener # None
    <2>1. phase[r] = "none" /\ Phase(r)' = "matched"
      BY <1>3, <1>5, Phases DEF Opened, PhaseOfRow, Active
    <2>2. PICK v \in Volunteer : db'[r].listener = v
      BY <1>2, <1>5
    <2>3. Contract!OpenMatched(r, v)
      BY <1>1, <2>1, <2>2 DEF Contract!OpenMatched, phase, listener
    <2>4. QED
      BY <2>3 DEF Contract!Next
  <1>6. CASE Accepted(r)
    <2>1. db'[r].listener # None
      BY <1>6, LifecycleConstants DEF Accepted
    <2>2. phase[r] = "waiting" /\ Phase(r)' = "matched"
      BY <1>3, <1>6, <2>1, Phases DEF Accepted, PhaseOfRow, Unmatched, Active
    <2>3. PICK v \in Volunteer : db'[r].listener = v
      BY <1>6 DEF Accepted
    <2>4. Contract!Match(r, v)
      BY <1>1, <2>2, <2>3 DEF Contract!Match, phase, listener
    <2>5. QED
      BY <2>4 DEF Contract!Next
  <1>7. CASE Ended(r)
    <2>1. phase[r] \in {"waiting", "matched"} /\ Phase(r)' = "ended"
      BY <1>3, <1>7, Phases DEF Ended, PhaseOfRow, Unmatched, Active
    <2>2. listener' = listener
      BY <1>1, <1>3, <1>7 DEF Ended, listener
    <2>3. QED
      BY <1>1, <2>1, <2>2 DEF Contract!Next, Contract!End, phase, listener
  <1>8. QED
    BY <1>4, <1>5, <1>6, <1>7

(* Handlers, jobs and stores together keep the contract of a session, for  *)
(* any number of sessions, volunteers and calls in flight.                 *)
THEOREM ContractImplemented ==
  ASSUME Calm
  PROVE  Spec => ImplementsContract
  <1>1. Init => Contract!Init
    <2> SUFFICES ASSUME Init PROVE Contract!Init
      OBVIOUS
    <2>1. \A r \in Request :
            db[r].status = "absent" /\ db[r].listener = None /\ Phase(r) = "none"
      BY Phases DEF Init, NoRow, PhaseOfRow
    <2>2. QED
      BY <2>1 DEF Contract!Init
  <1>2. /\ Sound /\ ClaimProtocol /\ Sound' /\ [Next]_vars
        => [Contract!Next]_(Contract!contract)
    <2> SUFFICES ASSUME Sound, Sound', ClaimProtocol, [Next]_vars
                 PROVE  Contract!Next \/ UNCHANGED Contract!contract
      OBVIOUS
    <2>1. CASE UNCHANGED db
      BY <2>1, PhaseKept DEF Contract!contract
    <2>2. CASE RowStep
      BY <2>2, StepsMapped DEF RowStep
    <2>3. QED
      BY <2>1, <2>2, RowSteps
  <1>3. QED
    BY <1>1, <1>2, ClaimsHold, PTL DEF Spec, ImplementsContract, Contract!Spec

(***************************************************************************)
(* The properties that relate several sessions, or a session and a volun-  *)
(* teer, and what they rest on: a volunteer accepts one session at a time  *)
(* (TakenOnce), Redis and PostgreSQL name the same listener                *)
(* (ListenerKnown), which connects of a seeker and of a key have crossed   *)
(* is on record (CrossingsKnown), every request that pays has a ticket     *)
(* behind it (Books), and grace-end charges each once (ChargesKnown).      *)
(***************************************************************************)

(* A session that was published stays so. *)
LEMMA PublishedKept ==
  ASSUME Sound, [Next]_vars, NEW r \in Request, Published(r)
  PROVE  Published(r)'
  <1> USE DEF Sound, TypeOK, dbVars, redisVars, pcVars
  <1>1. ASSUME NEW q \in Request, CheckKey(q) \/ Connect(q) \/ ConnectThrows(q)
        PROVE  Published(r)'
    <2>1. CASE FindVolunteer(q)
      <3>1. cpc[q] = "match" /\ q # r
        BY <2>1 DEF FindVolunteer, Step, Published
      <3>2. found'[r] = found[r]
        BY <2>1, <3>1 DEF FindVolunteer
      <3>3. QED
        BY <2>1, <3>1, <3>2 DEF FindVolunteer, Step, Published
    <2>2. CASE CheckKey(q) \/ CheckActive(q) \/ ReserveTicket(q) \/ CreateProblem(q)
               \/ CreateMatched(q) \/ StoreActiveHash(q) \/ ScheduleMatched(q)
               \/ CreateWaiting(q) \/ PublishWaiting(q) \/ ScheduleMatchTimeout(q)
               \/ StoreAnswer(q)
      BY <2>2 DEF Published, Step, CheckKey, CheckActive, ReserveTicket, CreateProblem,
         CreateMatched, StoreActiveHash, ScheduleMatched, CreateWaiting, PublishWaiting,
         ScheduleMatchTimeout, StoreAnswer
    <2>3. CASE Rollback(q) \/ RefundFailed(q) \/ ConnectThrows(q)
      BY <2>3 DEF Published, Step, Rollback, RefundFailed, ConnectThrows
    <2>4. QED
      BY <1>1, <2>1, <2>2, <2>3 DEF Connect
  <1>2. ASSUME NEW q \in Request, Worker(q) \/ WorkerCrash(q) \/ JobThrows(q)
        PROVE  Published(r)'
    BY <1>2 DEF Published, Worker, StartMatchTimeout, CancelUnmatched, RefundUnmatched,
       DropUnmatched, StartGraceEnd, Charge, AckGraceEnd, StartSessionTimeout,
       FinishSessionTimeout, WorkerCrash, JobThrows
  <1>3. ASSUME NEW q \in Request,
               EndChat(q) \/ FinishChat(q) \/ PruneWaiting(q) \/ ExpireHash(q)
        PROVE  Published(r)'
    BY <1>3 DEF Published, EndChat, FinishChat, PruneWaiting, ExpireHash
  <1>4. ASSUME NEW a \in Acceptor,
               (\E q \in Request : TakeLock(a, q)) \/ Accept(a) \/ AcceptThrows(a)
        PROVE  Published(r)'
    BY <1>4 DEF Published, TakeLock, Accept, CheckVolunteer, ReadHash, Claim, Activate,
       CheckBlocks, Persist, CancelMatchTimeout, ScheduleAccepted, Unlock, AcceptThrows
  <1>5. ASSUME NEW v \in Volunteer, GoOnline(v) \/ GoOffline(v) \/ ExpireLock(v)
        PROVE  Published(r)'
    BY <1>5 DEF Published, GoOnline, GoOffline, ExpireLock
  <1>6. CASE UNCHANGED vars
    BY <1>6 DEF Published, vars
  <1>7. QED
    BY <1>1, <1>2, <1>3, <1>4, <1>5, <1>6 DEF Next

-----------------------------------------------------------------------------
(* Accepting                                                               *)

(* Steps outside accept() give nobody a session he accepted. *)
LEMMA TakenBy ==
  ASSUME Sound, TakenOnce, [Next]_vars,
         ~\E a \in Acceptor : Accept(a) \/ AcceptThrows(a) \/ \E r \in Request : TakeLock(a, r)
  PROVE  /\ UNCHANGED <<apc, target, winners>>
         /\ \A r \in Request, v \in Volunteer : Taken(r, v)' => Taken(r, v)
  <1> USE DEF Sound, TypeOK, dbVars, redisVars, pcVars
  <1>1. ASSUME NEW q \in Request, CheckKey(q) \/ Connect(q) \/ ConnectThrows(q)
        PROVE  /\ UNCHANGED <<apc, target, winners>>
               /\ \A r \in Request, v \in Volunteer : Taken(r, v)' => Taken(r, v)
    <2>1. CASE CreateMatched(q) \/ CreateWaiting(q)
      <3>1. ~Published(q) /\ winners[q] = {}
        BY <2>1 DEF CreateMatched, CreateWaiting, Step, Published, TakenOnce
      <3>2. UNCHANGED <<apc, target, winners>> /\ \A r \in Request : r # q => db'[r] = db[r]
        BY <2>1 DEF CreateMatched, CreateWaiting
      <3>3. QED
        BY <3>1, <3>2 DEF Taken, Active
    <2>2. CASE Rollback(q)
      BY <2>2 DEF Rollback, Taken, Active, NoRow
    <2>3. CASE ~(CreateMatched(q) \/ CreateWaiting(q) \/ Rollback(q))
      BY <1>1, <2>3 DEF Connect, Taken, Active, CheckKey, CheckActive, ReserveTicket,
         CreateProblem, FindVolunteer, StoreActiveHash, ScheduleMatched, PublishWaiting,
         ScheduleMatchTimeout, StoreAnswer, RefundFailed, ConnectThrows
    <2>4. QED
      BY <2>1, <2>2, <2>3
  <1>2. ASSUME NEW q \in Request,
               Worker(q) \/ WorkerCrash(q) \/ JobThrows(q) \/ EndChat(q) \/ FinishChat(q)
                 \/ PruneWaiting(q) \/ ExpireHash(q)
        PROVE  /\ UNCHANGED <<apc, target, winners>>
               /\ \A r \in Request, v \in Volunteer : Taken(r, v)' => Taken(r, v)
    <2>1. UNCHANGED <<apc, target, winners>>
      BY <1>2 DEF Worker, StartMatchTimeout, CancelUnmatched, RefundUnmatched,
       DropUnmatched, StartGraceEnd, Charge, AckGraceEnd, StartSessionTimeout,
       FinishSessionTimeout, WorkerCrash, JobThrows, EndChat, FinishChat, PruneWaiting, ExpireHash
    <2>2. CASE CancelUnmatched(q) \/ StartSessionTimeout(q) \/ EndChat(q)
      <3>1. db'[q] = db[q] \/ db'[q].status \in Terminal
        BY <2>2 DEF CancelUnmatched, StartSessionTimeout, EndChat, Row, Terminal
      <3>2. \A p \in Request : p # q => db'[p] = db[p]
        BY <2>2 DEF CancelUnmatched, StartSessionTimeout, EndChat
      <3>3. QED
        BY <2>1, <3>1, <3>2 DEF Taken, Active, Terminal
    <2>3. CASE ~(CancelUnmatched(q) \/ StartSessionTimeout(q) \/ EndChat(q))
      <3>1. UNCHANGED db
        BY <1>2, <2>3 DEF Worker, StartMatchTimeout, RefundUnmatched,
           DropUnmatched, StartGraceEnd, Charge, AckGraceEnd,
           FinishSessionTimeout, WorkerCrash, JobThrows, FinishChat, PruneWaiting, ExpireHash
      <3>2. QED
        BY <2>1, <3>1 DEF Taken, Active
    <2>4. QED
      BY <2>2, <2>3
  <1>3. ASSUME NEW v \in Volunteer, GoOnline(v) \/ GoOffline(v) \/ ExpireLock(v)
        PROVE  UNCHANGED <<apc, target, winners, db>>
    BY <1>3 DEF GoOnline, GoOffline, ExpireLock
  <1>4. UNCHANGED <<apc, target, winners, db>> => \A r \in Request, v \in Volunteer : Taken(r, v)' => Taken(r, v)
    BY DEF Taken, Active
  <1>5. CASE UNCHANGED vars
    BY <1>4, <1>5 DEF vars
  <1>6. QED
    BY <1>1, <1>2, <1>3, <1>4, <1>5 DEF Next

LEMMA TakenByCall ==
  ASSUME Sound, LockHeld, TakenOnce, [Next]_vars, NEW a \in Acceptor, Accept(a) \/ AcceptThrows(a)
  PROVE  TakenOnce'
  <1> USE LifecycleConstants DEF Sound, TypeOK
  <1> DEFINE Accepting(b) == apc[b] \in {"read", "claim"} \cup Winning
             Stored == /\ apc[a] = "persist" /\ apc'[a] = "cancel"
                       /\ db' = [db EXCEPT ![target[a]] = [status |-> "active",
                                                           listener |-> VolunteerOf[a]]]
                       /\ winners' = [winners EXCEPT ![target[a]] = @ \cup {VolunteerOf[a]}]
  <1>1. /\ apc[a] # "idle" /\ target[a] \in Request
        /\ target'[a] = target[a] \/ apc'[a] = "idle"
        /\ \A b \in Acceptor : b # a => apc'[b] = apc[b] /\ target'[b] = target[b]
    <2>1. \E from, to \in AcceptPc : from # "idle" /\ Go(a, from, to)
      BY DEF Accept, CheckVolunteer, ReadHash, Claim, Activate, CheckBlocks,
         Persist, CancelMatchTimeout, ScheduleAccepted, Unlock, AcceptThrows, AcceptPc
    <2>2. UNCHANGED target \/ (Go(a, "unlock", "idle") /\ target' = [target EXCEPT ![a] = None])
      BY DEF Accept, CheckVolunteer, ReadHash, Claim, Activate, CheckBlocks,
         Persist, CancelMatchTimeout, ScheduleAccepted, Unlock, AcceptThrows
    <2>3. QED
      BY <2>1, <2>2 DEF Go, TargetsNamed
  <1>2. Stored \/ UNCHANGED <<db, winners>>
    BY DEF Accept, CheckVolunteer, ReadHash, Claim, Activate, CheckBlocks, dbVars, Go,
         Persist, CancelMatchTimeout, ScheduleAccepted, Unlock, AcceptThrows
  <1>3. Accepting(a)' => Accepting(a) \/ \A q \in Request : ~Taken(q, VolunteerOf[a])
    <2>1. CASE CheckVolunteer(a)
      <3>1. CASE \E q \in Request : Active(q) /\ db[q].listener = VolunteerOf[a]
        BY <2>1, <3>1 DEF CheckVolunteer, Go, Winning
      <3>2. CASE ~\E q \in Request : Active(q) /\ db[q].listener = VolunteerOf[a]
        BY <3>2 DEF Taken
      <3>3. QED
        BY <3>1, <3>2
    <2>2. CASE ReadHash(a) \/ Claim(a) \/ Activate(a) \/ CheckBlocks(a)
      BY <2>2 DEF ReadHash, Claim, Activate, CheckBlocks, Go, Winning
    <2>3. CASE Persist(a) \/ CancelMatchTimeout(a) \/ ScheduleAccepted(a) \/ Unlock(a) \/ AcceptThrows(a)
      BY <2>3 DEF Persist, CancelMatchTimeout, ScheduleAccepted, Unlock, AcceptThrows, Go, Winning
    <2>4. QED
      BY <2>1, <2>2, <2>3 DEF Accept
  <1>4. \A b \in Acceptor : apc'[b] # "idle" => Published(target[b])'
    <2>1. \A b \in Acceptor : apc'[b] # "idle" =>
            /\ apc[b] # "idle" /\ target'[b] = target[b] /\ target[b] \in Request
      BY <1>1 DEF TargetsNamed
    <2>2. QED
      BY <2>1, PublishedKept DEF TakenOnce, Published
  <1>5. \A r \in Request : winners'[r] # {} => Published(r)'
    BY <1>1, <1>2, PublishedKept DEF TakenOnce
  <1>6. ASSUME NEW b \in Acceptor, b # a, VolunteerOf[b] = VolunteerOf[a]
        PROVE  apc[b] = "idle"
    BY <1>1, <1>6 DEF LockHeld
  <1>7. CASE UNCHANGED <<db, winners>>
    <2>1. \A q \in Request, v \in Volunteer : Taken(q, v)' <=> Taken(q, v)
      BY <1>7 DEF Taken, Active
    <2>2. ASSUME NEW b \in Acceptor, NEW q \in Request, Accepting(b)' PROVE ~Taken(q, VolunteerOf[b])
      <3>1. CASE b = a
        BY <1>3, <2>2, <3>1 DEF TakenOnce
      <3>2. CASE b # a
        BY <1>1, <2>2, <3>2 DEF TakenOnce
      <3>3. QED
        BY <3>1, <3>2
    <2>3. QED
      BY <1>4, <1>5, <2>1, <2>2 DEF TakenOnce
  <1>8. CASE Stored
    <2> DEFINE r == target[a] w == VolunteerOf[a]
    <2>1. \A q \in Request : ~Taken(q, w)
      BY <1>8 DEF TakenOnce, Winning
    <2>2. /\ \A q \in Request, v \in Volunteer : Taken(q, v)' => Taken(q, v) \/ (q = r /\ v = w)
          /\ \A v \in Volunteer : Taken(r, v)' => v = w
      BY <1>1, <1>8 DEF Taken, Active
    <2>3. ASSUME NEW b \in Acceptor, NEW q \in Request, Accepting(b)' PROVE ~Taken(q, VolunteerOf[b])'
      <3>1. b # a /\ Accepting(b)
        BY <1>1, <1>8, <2>3 DEF Winning
      <3>2. VolunteerOf[b] # w
        BY <1>6, <3>1 DEF Winning
      <3>3. QED
        BY <2>2, <3>1, <3>2 DEF TakenOnce
    <2>4. ASSUME NEW v \in Volunteer, NEW q \in Request, NEW p \in Request,
                 Taken(q, v)', Taken(p, v)'
          PROVE  q = p
      <3>1. CASE v = w
        BY <2>1, <2>2, <2>4, <3>1
      <3>2. CASE v # w
        BY <2>2, <2>4, <3>2 DEF TakenOnce
      <3>3. QED
        BY <3>1, <3>2
    <2>5. QED
      BY <1>4, <1>5, <2>3, <2>4 DEF TakenOnce
  <1>9. QED
    BY <1>2, <1>7, <1>8

LEMMA TakenNext ==
  ASSUME Sound, LockHeld, TakenOnce, [Next]_vars
  PROVE  TakenOnce'
  <1>1. ASSUME NEW a \in Acceptor, NEW r \in Request, TakeLock(a, r) PROVE TakenOnce'
    <2> USE DEF Sound, TypeOK
    <2>1. /\ UNCHANGED <<db, winners>> /\ apc' = [apc EXCEPT ![a] = "check"]
          /\ target' = [target EXCEPT ![a] = r] /\ Published(r)
      BY <1>1 DEF TakeLock, Go, dbVars
    <2>2. \A q \in Request, v \in Volunteer : Taken(q, v)' <=> Taken(q, v)
      BY <2>1 DEF Taken, Active
    <2>3. \A b \in Acceptor : apc'[b] # "idle" => Published(target[b])'
      BY <2>1, PublishedKept DEF TakenOnce, TargetsNamed
    <2>4. \A q \in Request : winners'[q] # {} => Published(q)'
      BY <2>1, PublishedKept DEF TakenOnce
    <2>5. ASSUME NEW b \in Acceptor, NEW q \in Request,
                 apc'[b] \in {"read", "claim"} \cup Winning
          PROVE  ~Taken(q, VolunteerOf[b])'
      <3>1. apc'[b] = apc[b] /\ VolunteerOf[b] \in Volunteer
        BY <2>1, <2>5, LifecycleConstants DEF Winning
      <3>2. ~Taken(q, VolunteerOf[b])
        BY <2>5, <3>1 DEF TakenOnce
      <3>3. QED
        BY <2>2, <3>1, <3>2
    <2>6. \A v \in Volunteer, q, p \in Request : Taken(q, v)' /\ Taken(p, v)' => q = p
      BY <2>2 DEF TakenOnce
    <2>7. QED
      BY <2>3, <2>4, <2>5, <2>6 DEF TakenOnce
  <1>2. ASSUME NEW a \in Acceptor, Accept(a) \/ AcceptThrows(a) PROVE TakenOnce'
    BY <1>2, TakenByCall
  <1>3. CASE ~\E a \in Acceptor : Accept(a) \/ AcceptThrows(a) \/ \E r \in Request : TakeLock(a, r)
    <2>1. /\ UNCHANGED <<apc, target, winners>>
          /\ \A r \in Request, v \in Volunteer : Taken(r, v)' => Taken(r, v)
      BY <1>3, TakenBy
    <2>2. \A b \in Acceptor : apc'[b] # "idle" => Published(target[b])'
      BY <2>1, PublishedKept DEF TakenOnce, Sound, TargetsNamed
    <2>3. QED
      BY <2>1, <2>2, PublishedKept, LifecycleConstants DEF TakenOnce
  <1>4. QED
    BY <1>1, <1>2, <1>3

(* A set whose members are all equal has at most one. *)
LEMMA AtMostOne ==
  ASSUME NEW S, \A x, y \in S : x = y
  PROVE  IsFiniteSet(S) /\ Cardinality(S) \in Nat /\ Cardinality(S) <= 1
  <1>1. CASE S = {}
    BY <1>1, FS_EmptySet
  <1>2. CASE S # {}
    <2>1. PICK x : S = {x}
      BY <1>2
    <2>2. QED
      BY <2>1, FS_Singleton
  <1>3. QED
    BY <1>1, <1>2

(* While no lock expires under a call, accepting never puts a volunteer    *)
(* into two sessions, whatever throws, crashes or comes late.              *)
THEOREM OneAcceptedHolds ==
  ASSUME "lock_expiry" \notin Allow
  PROVE  Spec => []OneAccepted
  <1>1. Init => LockHeld /\ TakenOnce
    BY DEF Init, LockHeld, TakenOnce, Taken, Active, Winning, NoRow
  <1>2. Sound /\ LockHeld /\ TakenOnce /\ [Next]_vars => LockHeld' /\ TakenOnce'
    BY LockHeldNext, TakenNext
  <1>3. TakenOnce => OneAccepted
    <2> SUFFICES ASSUME TakenOnce, NEW v \in Volunteer
                 PROVE  Cardinality({r \in Request : Active(r) /\ db[r].listener = v /\ v \in winners[r]}) <= 1
      BY DEF OneAccepted
    <2> DEFINE S == {r \in Request : Active(r) /\ db[r].listener = v /\ v \in winners[r]}
    <2>1. \A q, r \in S : q = r
      BY DEF TakenOnce, Taken
    <2> HIDE DEF S
    <2>2. QED
      BY <2>1, AtMostOne DEF S
  <1>4. QED
    BY <1>1, <1>2, <1>3, SoundAlways, PTL DEF Spec

-----------------------------------------------------------------------------
(* No session is forgotten.  A step about one session leaves the others'   *)
(* rows, hashes and jobs and the calls about them alone.                   *)
LEMMA ComesAlike ==
  ASSUME NEW q \in Request, EndComes(q), Same(q),
         Winner(q) => Winner(q)', Adding(q) => Adding(q)'
  PROVE  EndComes(q)'
  <1>1. Active(q)' = Active(q) /\ Unmatched(q)' = Unmatched(q)
    BY DEF Same, Active, Unmatched
  <1>2. QED
    BY <1>1 DEF EndComes, EndDue, EndKept, Same

LEMMA ComesByConnect ==
  ASSUME Calm, Sound, ClaimProtocol, NEW r \in Request, EndComes(r),
         CheckKey(r) \/ Connect(r)
  PROVE  EndComes(r)' /\ UNCHANGED <<apc, target>> /\ \A q \in Request : q # r => Same(q)
  <1> USE DEF Sound, TypeOK, Step
  <1>1. ConnectProgress(r) /\ ~Rollback(r) /\ ~RefundFailed(r)
    BY DEF ClaimProtocol, SessionPart, ConnectProgress, Undo, Rollback, RefundFailed
  <1>2. UNCHANGED <<apc, target>> /\ \A q \in Request : q # r => Same(q)
    BY <1>1, ConnectFrame DEF Connect
  <1> SUFFICES EndComes(r)'
    BY <1>2
  <1>3. Winner(r)' = Winner(r) /\ Adding(r)' = Adding(r)
    BY <1>2 DEF Winner, Adding
  <1>4. CASE CheckKey(r) \/ CheckActive(r) \/ ReserveTicket(r) \/ CreateProblem(r) \/ FindVolunteer(r)
    <2>1. cpc[r] \in BeforeRow /\ UNCHANGED db
      BY <1>4 DEF CheckKey, CheckActive, ReserveTicket, CreateProblem, FindVolunteer,
         BeforeRow, dbVars
    <2>2. ~Active(r)'
      BY <1>1, <2>1 DEF ConnectProgress, Active
    <2>3. QED
      BY <2>2 DEF EndComes, EndDue, EndKept, Unmatched
  <1>5. CASE CreateMatched(r) \/ CreateWaiting(r)
    <2>1. Untouched(r) /\ UNCHANGED <<hash, job>>
      BY <1>1, <1>5 DEF CreateMatched, CreateWaiting, ConnectProgress, BeforeRow, redisVars
    <2>2. \/ cpc'[r] = "hashA" /\ db'[r].listener # None
          \/ cpc'[r] = "publishB" /\ db'[r].listener = None
      BY <1>1, <1>5 DEF CreateMatched, CreateWaiting, ConnectProgress
    <2>3. QED
      BY <2>1, <2>2 DEF Untouched, EndComes, EndDue, EndKept, Unmatched, Active
  <1>6. CASE StoreActiveHash(r)
    <2>1. db[r].listener # None /\ UNCHANGED <<db, job>> /\ cpc'[r] = "jobsA"
      BY <1>1, <1>6 DEF StoreActiveHash, ConnectProgress, dbVars
    <2>2. QED
      BY <2>1 DEF EndComes, EndDue, EndKept, Unmatched, Active
  <1>7. CASE PublishWaiting(r)
    <2>1. /\ UNCHANGED <<db, job>> /\ cpc'[r] = "jobB"
          /\ db[r].listener = None /\ hash[r].listener = None /\ hash[r] \in SessionHash
          /\ hash' = [hash EXCEPT ![r] = [hash[r] EXCEPT !.status = "waiting"]]
      BY <1>1, <1>7 DEF PublishWaiting, ConnectProgress, Untouched, Unmatched, dbVars
    <2>2. hash'[r].listener = None
      BY <2>1 DEF SessionHash
    <2>3. QED
      BY <2>1, <2>2 DEF EndComes, EndDue, EndKept, Unmatched, Active
  <1>8. CASE ScheduleMatched(r)
    <2>1. db[r].listener # None /\ job[r].timeout = "none" /\ UNCHANGED <<db, hash>>
      BY <1>1, <1>8 DEF ScheduleMatched, ConnectProgress, dbVars, redisVars
    <2>2. job'[r].timeout = "delayed"
      BY <1>8, <2>1, JobsScheduled DEF ScheduleMatched, Added
    <2>3. QED
      BY <2>1, <2>2 DEF EndComes, EndDue, EndKept, Unmatched, Active
  <1>9. CASE ScheduleMatchTimeout(r)
    <2>1. UNCHANGED <<db, hash>> /\ cpc[r] = "jobB" /\ cpc'[r] = "key"
      BY <1>9 DEF ScheduleMatchTimeout, dbVars, redisVars
    <2>2. "match" \in JobName /\ Added(job[r].match) \in JobState
      BY DEF Added, JobName, JobState, JobIdle
    <2>3. job'[r].match = Added(job[r].match) /\ job'[r].timeout = job[r].timeout
      BY <1>9, <2>2, JobEffect DEF ScheduleMatchTimeout
    <2>4. QED
      BY <1>3, <2>1, <2>3 DEF EndComes, EndDue, EndKept, Unmatched, Active, Added
  <1>10. CASE StoreAnswer(r)
    <2>1. UNCHANGED <<db, hash, job>> /\ cpc[r] = "key"
      BY <1>10 DEF StoreAnswer, dbVars
    <2>2. QED
      BY <1>3, <2>1 DEF EndComes, EndDue, EndKept, Unmatched, Active
  <1>11. QED
    BY <1>1, <1>4, <1>5, <1>6, <1>7, <1>8, <1>9, <1>10 DEF Connect

(* match:timeout starts outside the claim window, so the listener it may   *)
(* find in the hash is that of a session which has one.                    *)
LEMMA ComesByMatchTimeout ==
  ASSUME Calm, Sound, ClaimProtocol, NEW r \in Request, EndComes(r),
         \/ StartMatchTimeout(r) \/ CancelUnmatched(r)
         \/ RefundUnmatched(r) \/ DropUnmatched(r)
  PROVE  EndComes(r)'
  <1> USE DEF Sound, TypeOK
  <1>1. UNCHANGED <<apc, target, cpc>>
    BY WorkerFrame DEF Worker
  <1>2. Winner(r)' = Winner(r) /\ Adding(r)' = Adding(r)
    BY <1>1 DEF Winner, Adding
  <1>3. "match" \in JobName /\ {"cancel", "refund", "drop", "done"} \subseteq JobState
    BY DEF JobName, JobState, JobIdle, JobBusy
  <1>4. job'[r].timeout = job[r].timeout
    <2>1. PICK s \in {"cancel", "refund", "drop", "done"} : SetJob(r, "match", s)
      BY DEF StartMatchTimeout, CancelUnmatched, RefundUnmatched, DropUnmatched
    <2>2. QED
      BY <1>3, <2>1, JobEffect
  <1>5. CASE StartMatchTimeout(r)
    <2>1. UNCHANGED <<db, hash>> /\ ~Claiming(r)
      BY <1>5 DEF StartMatchTimeout, Calm, dbVars, redisVars
    <2>2. ~Winner(r)
      BY <2>1 DEF Winner, Claiming, Winning
    <2>3. hash[r].listener = None => job'[r].match = "cancel"
      <3>1. hash[r].listener = None => SetJob(r, "match", "cancel")
        BY <1>5 DEF StartMatchTimeout
      <3>2. QED
        BY <1>3, <3>1, JobEffect
    <2>4. QED
      BY <1>1, <1>2, <1>4, <2>1, <2>2, <2>3 DEF EndComes, EndDue, EndKept, Unmatched, Active
  <1>6. CASE CancelUnmatched(r) /\ Unmatched(r)
    <2>1. db' = [db EXCEPT ![r] = [db[r] EXCEPT !.status = "cancelled_timeout"]] /\ db[r] \in Row
      BY <1>6 DEF CancelUnmatched
    <2>2. ~Active(r)'
      BY <2>1 DEF Row, Active
    <2>3. QED
      BY <2>2 DEF EndComes, EndDue, EndKept, Unmatched
  <1>7. CASE ~StartMatchTimeout(r) /\ ~(CancelUnmatched(r) /\ Unmatched(r))
    <2>1. UNCHANGED db
      BY <1>7 DEF CancelUnmatched, RefundUnmatched, DropUnmatched, dbVars
    <2>2. ~Unmatched(r)
      BY <1>7 DEF CancelUnmatched, RefundUnmatched, DropUnmatched, EndComes, EndKept
    <2>3. QED
      BY <1>1, <1>2, <1>4, <2>1, <2>2 DEF EndComes, EndDue, EndKept, Unmatched, Active
  <1>8. QED
    BY <1>5, <1>6, <1>7

(* What ends a session has ended it, and a teardown finds it over.         *)
LEMMA ComesByEnd ==
  ASSUME Sound, ClaimProtocol, NEW r \in Request, EndComes(r),
         \/ StartGraceEnd(r) \/ Charge(r) \/ AckGraceEnd(r)
         \/ StartSessionTimeout(r) \/ FinishSessionTimeout(r) \/ EndChat(r) \/ FinishChat(r)
  PROVE  EndComes(r)' /\ UNCHANGED <<apc, target>>
  <1> USE DEF Sound, TypeOK
  <1>1. UNCHANGED <<apc, target, cpc>>
    BY DEF StartGraceEnd, Charge, AckGraceEnd, StartSessionTimeout, FinishSessionTimeout,
       EndChat, FinishChat, pcVars
  <1>2. Winner(r)' = Winner(r) /\ Adding(r)' = Adding(r)
    BY <1>1 DEF Winner, Adding
  <1>3. CASE StartGraceEnd(r) \/ Charge(r) \/ AckGraceEnd(r)
    <2>1. UNCHANGED <<db, hash>> /\ \E s \in JobState : SetJob(r, "grace", s)
      BY <1>3 DEF StartGraceEnd, Charge, AckGraceEnd, dbVars, redisVars, JobState, JobIdle, JobBusy
    <2>2. job'[r].match = job[r].match /\ job'[r].timeout = job[r].timeout
      BY <2>1, JobEffect DEF JobName
    <2>3. QED
      BY <1>1, <1>2, <2>1, <2>2 DEF EndComes, EndDue, EndKept, Unmatched, Active
  <1>4. CASE StartSessionTimeout(r) \/ EndChat(r)
    <2>1. PICK st \in Terminal \cup {db[r].status} :
            db' = [db EXCEPT ![r] = [db[r] EXCEPT !.status = st]] /\ st # "active"
      BY <1>4 DEF StartSessionTimeout, EndChat, Active, Terminal
    <2>2. db[r] \in Row
      OBVIOUS
    <2>3. ~Active(r)'
      BY <2>1, <2>2 DEF Row, Active
    <2>4. QED
      BY <1>1, <2>3 DEF EndComes, EndDue, EndKept, Unmatched
  <1>5. CASE FinishSessionTimeout(r)
    <2>1. ~Active(r) /\ UNCHANGED db
      BY <1>5 DEF FinishSessionTimeout, EndComes, EndKept, dbVars
    <2>2. QED
      BY <1>1, <2>1 DEF EndComes, EndDue, EndKept, Unmatched, Active
  <1>6. CASE FinishChat(r)
    <2>1. UNCHANGED <<db, job>> /\ hash'[r].listener = None
      BY <1>6 DEF FinishChat, dbVars, NoHash
    <2>2. QED
      BY <1>1, <1>2, <2>1 DEF EndComes, EndDue, EndKept, Unmatched, Active
  <1>7. QED
    BY <1>1, <1>3, <1>4, <1>5, <1>6

(* A claim is written to the row or given back, and whoever writes the row *)
(* adds the jobs.                                                          *)
LEMMA ComesByAccept ==
  ASSUME Calm, Sound, ClaimProtocol, NEW a \in Acceptor, NEW r \in Request,
         target[a] = r, Accept(a), EndComes(r)
  PROVE  EndComes(r)'
  <1> USE DEF Sound, TypeOK
  <1>1. /\ UNCHANGED cpc
        /\ \A b \in Acceptor : b # a => apc'[b] = apc[b] /\ target'[b] = target[b]
    BY AcceptFrame
  <1>2. CASE Claim(a) \/ Activate(a) \/ CheckBlocks(a)
    <2>1. UNCHANGED <<db, job, target>> /\ apc[a] \in {"claim", "multi", "blocks"}
      BY <1>2 DEF Claim, Activate, CheckBlocks, Go, dbVars
    <2>2. Adding(r) => Adding(r)'
      BY <1>1, <2>1 DEF Adding
    <2>3. hash'[r].listener # None => Winner(r)' \/ (hash[r].listener # None /\ apc[a] = "claim")
      <3>1. CASE apc'[a] \in Winning
        BY <2>1, <3>1 DEF Winner
      <3>2. CASE apc'[a] \notin Winning
        <4>1. CASE CheckBlocks(a)
          BY <3>2, <4>1 DEF CheckBlocks, Go, UndoClaim, Winning
        <4>2. CASE Claim(a)
          BY <2>1, <3>2, <4>2 DEF Claim, Go, Winning
        <4>3. CASE Activate(a)
          BY <3>2, <4>3 DEF Activate, Go, Winning
        <4>4. QED
          BY <1>2, <4>1, <4>2, <4>3
      <3>3. QED
        BY <3>1, <3>2
    <2>4. apc[a] = "claim" => (Winner(r) => Winner(r)')
      BY <1>1, <2>1 DEF Winner, Winning
    <2>5. QED
      BY <1>1, <2>1, <2>2, <2>3, <2>4 DEF EndComes, EndDue, EndKept, Unmatched, Active
  <1>3. CASE Persist(a)
    <2>1. /\ Unmatched(r) /\ UNCHANGED <<job, target>>
          /\ db'[r].listener = VolunteerOf[a] /\ VolunteerOf[a] # None
      <3>1. Unmatched(r) /\ db' = [db EXCEPT ![r] = [status |-> "active", listener |-> VolunteerOf[a]]]
        BY <1>3, PersistStep
      <3>2. UNCHANGED <<job, target>>
        BY <1>3 DEF Persist
      <3>3. QED
        BY <3>1, <3>2, LifecycleConstants
    <2>2. apc'[a] = "cancel"
      BY <1>3, <2>1 DEF Persist, Go, Calm, Unmatched, Active
    <2>3. Adding(r)'
      BY <2>1, <2>2 DEF Adding
    <2>4. QED
      BY <2>1, <2>3 DEF EndComes, EndDue, EndKept, Unmatched, Active
  <1>4. CASE CancelMatchTimeout(a) \/ ScheduleAccepted(a)
    <2>1. UNCHANGED <<db, target>> /\ apc[a] \in {"cancel", "schedule"}
      BY <1>4 DEF CancelMatchTimeout, ScheduleAccepted, Go, dbVars
    <2>2. db[r].listener # None
      BY <2>1 DEF ClaimProtocol, AcceptPart, AcceptProgress
    <2>3. CASE CancelMatchTimeout(a)
      <3>1. SetJob(r, "match", Removed(job[r].match))
        BY <2>3 DEF CancelMatchTimeout, Calm
      <3>2. "match" \in JobName /\ Removed(job[r].match) \in JobState
        BY DEF Removed, JobName, JobState, JobIdle
      <3>3. job'[r].timeout = job[r].timeout
        BY <3>1, <3>2, JobEffect
      <3>4. Adding(r)'
        BY <2>1, <2>3 DEF CancelMatchTimeout, Go, Adding
      <3>5. QED
        BY <2>1, <2>2, <3>3, <3>4 DEF EndComes, EndDue, EndKept, Unmatched, Active
    <2>4. CASE ScheduleAccepted(a)
      <3>1. ScheduleSessionJobs(r)
        BY <2>4 DEF ScheduleAccepted, Calm
      <3>2. job'[r].timeout = Added(job[r].timeout)
        BY <3>1, JobsScheduled
      <3>3. QED
        BY <2>1, <2>2, <3>2 DEF EndComes, EndDue, EndKept, Unmatched, Active, Added
    <2>5. QED
      BY <1>4, <2>3, <2>4
  <1>5. CASE CheckVolunteer(a) \/ ReadHash(a) \/ Unlock(a)
    <2>1. UNCHANGED <<db, hash, job>> /\ apc[a] \notin Winning \cup {"cancel", "schedule"}
      BY <1>5 DEF CheckVolunteer, ReadHash, Unlock, Go, Winning, dbVars, redisVars
    <2>2. (Adding(r) => Adding(r)') /\ (Winner(r) => Winner(r)')
      BY <1>1, <2>1 DEF Adding, Winner
    <2>3. QED
      BY <1>1, <2>1, <2>2 DEF EndComes, EndDue, EndKept, Unmatched, Active
  <1>6. QED
    BY <1>2, <1>3, <1>4, <1>5 DEF Accept

LEMMA ComesNext ==
  ASSUME Calm, Sound, ClaimProtocol, EndsCome, [Next]_vars
  PROVE  EndsCome'
  <1> SUFFICES \A q \in Request : EndComes(q)'
    BY DEF EndsCome
  <1> USE DEF EndsCome
  <1>1. ASSUME NEW r \in Request, EndComes(r)', UNCHANGED <<apc, target>>,
               \A q \in Request : q # r => Same(q)
        PROVE  \A q \in Request : EndComes(q)'
    <2>1. ASSUME NEW q \in Request, q # r PROVE EndComes(q)'
      BY <1>1, <2>1, ComesAlike DEF Winner, Adding
    <2>2. QED
      BY <1>1, <2>1
  <1>2. ASSUME NEW r \in Request, CheckKey(r) \/ Connect(r) \/ ConnectThrows(r)
        PROVE  \A q \in Request : EndComes(q)'
    <2>1. CheckKey(r) \/ Connect(r)
      BY <1>2 DEF Calm, ConnectThrows
    <2>2. QED
      BY <1>1, <2>1, ComesByConnect
  <1>3. ASSUME NEW r \in Request, Worker(r) \/ EndChat(r) \/ FinishChat(r)
        PROVE  \A q \in Request : EndComes(q)'
    <2>1. CASE StartMatchTimeout(r) \/ CancelUnmatched(r) \/ RefundUnmatched(r) \/ DropUnmatched(r)
      <3>1. Worker(r)
        BY <2>1 DEF Worker
      <3>2. QED
        BY <1>1, <2>1, <3>1, ComesByMatchTimeout, WorkerFrame
    <2>2. CASE StartGraceEnd(r) \/ Charge(r) \/ AckGraceEnd(r)
      <3>1. Worker(r)
        BY <2>2 DEF Worker
      <3>2. QED
        BY <1>1, <2>2, <3>1, ComesByEnd, WorkerFrame
    <2>3. CASE StartSessionTimeout(r) \/ FinishSessionTimeout(r) \/ EndChat(r) \/ FinishChat(r)
      BY <1>1, <2>3, ComesByEnd, ChatFrame
    <2>4. QED
      BY <1>3, <2>1, <2>2, <2>3 DEF Worker
  <1>4. ASSUME NEW a \in Acceptor, Accept(a) \/ AcceptThrows(a)
        PROVE  \A q \in Request : EndComes(q)'
    <2>1. Accept(a)
      BY <1>4 DEF Calm, AcceptThrows
    <2>2. /\ target[a] \in Request
          /\ \A b \in Acceptor : b # a => apc'[b] = apc[b] /\ target'[b] = target[b]
          /\ \A q \in Request : q # target[a] => Same(q)
      BY <2>1, AcceptFrame
    <2>3. ASSUME NEW q \in Request, q = target[a] PROVE EndComes(q)'
      BY <2>1, <2>3, ComesByAccept
    <2>4. ASSUME NEW q \in Request, q # target[a] PROVE EndComes(q)'
      BY <2>2, <2>4, ComesAlike DEF Winner, Adding
    <2>5. QED
      BY <2>3, <2>4
  <1>5. ASSUME NEW a \in Acceptor, NEW r \in Request, TakeLock(a, r)
        PROVE  \A q \in Request : EndComes(q)'
    <2>1. /\ \A q \in Request : Same(q)
          /\ apc[a] = "idle"
          /\ \A b \in Acceptor : b # a => apc'[b] = apc[b] /\ target'[b] = target[b]
      BY <1>5 DEF TakeLock, Go, dbVars, Same, Sound, TypeOK
    <2>2. \A q \in Request : (Winner(q) => Winner(q)') /\ (Adding(q) => Adding(q)')
      BY <2>1 DEF Winner, Adding, Winning
    <2>3. QED
      BY <2>1, <2>2, ComesAlike
  <1>6. CASE \/ \E r \in Request : WorkerCrash(r) \/ JobThrows(r) \/ PruneWaiting(r) \/ ExpireHash(r)
             \/ \E v \in Volunteer : GoOnline(v) \/ GoOffline(v) \/ ExpireLock(v)
             \/ UNCHANGED vars
    <2>1. (\A q \in Request : Same(q)) /\ UNCHANGED <<apc, target>>
      BY <1>6 DEF WorkerCrash, JobThrows, PruneWaiting, ExpireHash, GoOnline, GoOffline,
         ExpireLock, Calm, Same, vars, dbVars, redisVars, pcVars
    <2>2. QED
      BY <2>1, ComesAlike DEF Winner, Adding
  <1>7. QED
    BY <1>2, <1>3, <1>4, <1>5, <1>6 DEF Next

(* No session is forgotten: whatever connects, accepts, ends and jobs      *)
(* overlap, each session that is not over has the job that ends it in the  *)
(* queue, or a handler at work that adds it (session.service.ts:273-297,   *)
(* 434-443, 775-813; session.processor.ts:136-291).                        *)
THEOREM NoneForgottenHolds ==
  ASSUME Calm
  PROVE  Spec => []NoneForgotten
  <1>1. Init => EndsCome
    BY DEF Init, EndsCome, EndComes, EndDue, EndKept, Unmatched, Active, NoRow
  <1>2. Sound /\ ClaimProtocol /\ EndsCome /\ [Next]_vars => EndsCome'
    BY ComesNext
  <1>3. EndsCome => NoneForgotten
    BY DEF EndsCome, EndComes, NoneForgotten
  <1>4. QED
    BY <1>1, <1>2, <1>3, ClaimsHold, PTL DEF Spec

-----------------------------------------------------------------------------
(* The two stores.  A step that leaves the row, the hash and the volunteer *)
(* of q alone, and no call that names q ahead of the row, changes nothing. *)
LEMMA ListenerKept ==
  ASSUME NEW q \in Request, ListenerKnown(q),
         found'[q] = found[q], db'[q] = db[q], hash'[q] = hash[q],
         Naming(q) => Naming(q)'
  PROVE  ListenerKnown(q)'
  BY DEF ListenerKnown

LEMMA ListenerByConnect ==
  ASSUME Calm, Sound, ClaimProtocol, NEW r \in Request, ListenerKnown(r),
         CheckKey(r) \/ Connect(r)
  PROVE  ListenerKnown(r)' /\ \A q \in Request : q # r => Same(q)
  <1> USE DEF Sound, TypeOK, Step
  <1>1. SessionPart(r) /\ ~Rollback(r) /\ ~RefundFailed(r)
    BY DEF ClaimProtocol, SessionPart, ConnectProgress, Undo, Rollback, RefundFailed
  <1>2. UNCHANGED <<apc, target>> /\ \A q \in Request : q # r => Same(q)
    BY <1>1, ConnectFrame DEF Connect
  <1> SUFFICES ListenerKnown(r)'
    BY <1>2
  <1>3. Naming(r) => Naming(r)'
    BY <1>2 DEF Naming
  <1>4. ConnectProgress(r)
    BY <1>1 DEF SessionPart
  <1>5. CASE FindVolunteer(r) \/ CreateMatched(r) \/ CreateWaiting(r)
    <2>1. db[r].listener = None /\ hash[r].status = "none" /\ UNCHANGED hash
      BY <1>4, <1>5 DEF FindVolunteer, CreateMatched, CreateWaiting, ConnectProgress,
         Untouched, BeforeRow, redisVars
    <2>2. CASE FindVolunteer(r)
      BY <2>1, <2>2 DEF FindVolunteer, ListenerKnown, dbVars
    <2>3. CASE CreateMatched(r) \/ CreateWaiting(r)
      BY <2>1, <2>3 DEF CreateMatched, CreateWaiting, ListenerKnown
    <2>4. QED
      BY <1>5, <2>2, <2>3
  <1>6. CASE StoreActiveHash(r)
    <2>1. found[r] # None /\ db[r].listener # None /\ UNCHANGED <<db, found>>
      BY <1>4, <1>6 DEF StoreActiveHash, ConnectProgress, dbVars
    <2>2. hash'[r].listener = found[r]
      BY <1>6 DEF StoreActiveHash
    <2>3. QED
      BY <2>1, <2>2 DEF ListenerKnown
  <1>7. CASE PublishWaiting(r)
    <2>1. hash[r] \in SessionHash /\ hash' = [hash EXCEPT ![r] = [hash[r] EXCEPT !.status = "waiting"]]
      BY <1>7 DEF PublishWaiting
    <2>2. hash'[r].status = "waiting" /\ UNCHANGED <<db, found>>
      BY <1>7, <2>1 DEF PublishWaiting, SessionHash, dbVars
    <2>3. QED
      BY <2>2 DEF ListenerKnown
  <1>8. CASE ~(FindVolunteer(r) \/ CreateMatched(r) \/ CreateWaiting(r)
                 \/ StoreActiveHash(r) \/ PublishWaiting(r))
    <2>1. UNCHANGED <<found, db, hash>>
      BY <1>1, <1>8 DEF CheckKey, Connect, CheckActive, ReserveTicket, CreateProblem,
         ScheduleMatched, ScheduleMatchTimeout, StoreAnswer, dbVars, redisVars
    <2>2. QED
      BY <1>3, <2>1, ListenerKept
  <1>9. QED
    BY <1>2, <1>5, <1>6, <1>7, <1>8

(* The worker and the chat side keep the listener and only drop hashes.    *)
LEMMA ListenerByOthers ==
  ASSUME Sound, [Next]_vars, NEW q \in Request, ListenerKnown(q),
         ~\E r \in Request : CheckKey(r) \/ Connect(r) \/ ConnectThrows(r),
         ~\E a \in Acceptor : Accept(a) \/ AcceptThrows(a) \/ \E r \in Request : TakeLock(a, r)
  PROVE  ListenerKnown(q)'
  <1> USE DEF Sound, TypeOK
  <1>1. /\ UNCHANGED <<apc, target, found>>
        /\ db'[q].listener = db[q].listener
        /\ hash'[q] = hash[q] \/ hash'[q].status = "none"
    <2>1. ASSUME NEW r \in Request, Worker(r) \/ EndChat(r)
          PROVE  /\ UNCHANGED <<apc, target, found>>
                 /\ db'[q].listener = db[q].listener
                 /\ hash'[q] = hash[q] \/ hash'[q].status = "none"
      <3>1. CASE CancelUnmatched(r) \/ StartSessionTimeout(r) \/ EndChat(r)
        <4>1. PICK st \in {"active", "absent"} \cup Terminal : db' = [db EXCEPT ![r] = [db[r] EXCEPT !.status = st]]
          <5>1. CASE CancelUnmatched(r)
            <6>1. CASE Unmatched(r)
              BY <5>1, <6>1 DEF CancelUnmatched, Terminal
            <6>2. CASE ~Unmatched(r)
              <7>1. UNCHANGED db
                BY <5>1, <6>2 DEF CancelUnmatched, dbVars
              <7>2. db[r] = [db[r] EXCEPT !.status = db[r].status] /\ db[r].status \in {"active", "absent"} \cup Terminal
                BY DEF Row
              <7>3. QED
                BY <7>1, <7>2
            <6>3. QED
              BY <6>1, <6>2
          <5>2. CASE StartSessionTimeout(r)
            BY <5>2 DEF StartSessionTimeout, Row, Terminal
          <5>3. CASE EndChat(r)
            BY <5>3 DEF EndChat, Terminal
          <5>4. QED
            BY <3>1, <5>1, <5>2, <5>3
        <4>2. db[r] \in Row
          OBVIOUS
        <4>3. db'[q].listener = db[q].listener
          BY <4>1, <4>2 DEF Row
        <4>4. QED
          BY <3>1, <4>3 DEF CancelUnmatched, StartSessionTimeout, EndChat, redisVars, pcVars
      <3>2. CASE ~(CancelUnmatched(r) \/ StartSessionTimeout(r) \/ EndChat(r))
        BY <2>1, <3>2 DEF Worker, StartMatchTimeout, RefundUnmatched, DropUnmatched,
           StartGraceEnd, Charge, AckGraceEnd, FinishSessionTimeout, NoHash,
           dbVars, redisVars, pcVars
      <3>3. QED
        BY <3>1, <3>2
    <2>2. ASSUME NEW r \in Request,
                 WorkerCrash(r) \/ JobThrows(r) \/ FinishChat(r) \/ PruneWaiting(r) \/ ExpireHash(r)
          PROVE  /\ UNCHANGED <<apc, target, found>>
                 /\ db'[q].listener = db[q].listener
                 /\ hash'[q] = hash[q] \/ hash'[q].status = "none"
      BY <2>2 DEF WorkerCrash, JobThrows, FinishChat, PruneWaiting, ExpireHash, NoHash,
         dbVars, redisVars, pcVars
    <2>3. ASSUME NEW v \in Volunteer, GoOnline(v) \/ GoOffline(v) \/ ExpireLock(v)
          PROVE  UNCHANGED <<apc, target, found, db, hash>>
      BY <2>3 DEF GoOnline, GoOffline, ExpireLock, dbVars, pcVars
    <2>4. CASE UNCHANGED vars
      BY <2>4 DEF vars
    <2>5. QED
      BY <2>1, <2>2, <2>3, <2>4 DEF Next
  <1>2. QED
    BY <1>1 DEF ListenerKnown, Naming

LEMMA ListenerByAccept ==
  ASSUME Calm, Sound, ClaimProtocol, NEW a \in Acceptor, NEW r \in Request,
         target[a] = r, Accept(a), ListenerKnown(r)
  PROVE  ListenerKnown(r)'
  <1> USE DEF Sound, TypeOK
  <1>1. /\ apc[a] # "idle" /\ UNCHANGED found
        /\ \A b \in Acceptor : b # a => apc'[b] = apc[b] /\ target'[b] = target[b]
    BY AcceptFrame
  <1>2. SessionPart(r) /\ AcceptPart(a) /\ Published(r)
    BY <1>1 DEF ClaimProtocol, AcceptPart, AcceptProgress
  <1>3. CASE Claim(a)
    <2>1. UNCHANGED <<db, target>> /\ apc[a] = "claim" /\ hash[r] \in SessionHash
      BY <1>3 DEF Claim, Go, dbVars
    <2>2. hash[r].listener = None => hash[r].status # "active"
      BY <1>2 DEF SessionPart, ActiveIsClaimed
    <2>3. CASE hash[r].listener = None
      <3>1. hash' = [hash EXCEPT ![r] = [hash[r] EXCEPT !.listener = VolunteerOf[a]]]
        BY <1>3, <2>3 DEF Claim
      <3>2. hash'[r].status = hash[r].status
        BY <2>1, <3>1 DEF SessionHash
      <3>3. QED
        BY <1>1, <2>1, <2>2, <2>3, <3>2 DEF ListenerKnown
    <2>4. CASE hash[r].listener # None
      <3>1. UNCHANGED hash
        BY <1>3, <2>4 DEF Claim
      <3>2. Naming(r) => Naming(r)'
        BY <1>1, <2>1 DEF Naming
      <3>3. QED
        BY <1>1, <2>1, <3>1, <3>2, ListenerKept
    <2>5. QED
      BY <2>3, <2>4
  <1>4. CASE Activate(a)
    <2>1. UNCHANGED <<db, target>> /\ apc'[a] = "blocks"
      BY <1>4 DEF Activate, Go, dbVars
    <2>2. Naming(r)'
      BY <2>1 DEF Naming
    <2>3. QED
      BY <1>1, <2>1, <2>2 DEF ListenerKnown
  <1>5. ASSUME UndoClaim(r), UNCHANGED db PROVE ListenerKnown(r)'
    BY <1>1, <1>5 DEF ListenerKnown, UndoClaim
  <1>6. CASE CheckBlocks(a)
    <2>1. CASE <<SeekerOf[r], VolunteerOf[a]>> \in Blocked
      BY <1>5, <1>6, <2>1 DEF CheckBlocks, dbVars
    <2>2. CASE <<SeekerOf[r], VolunteerOf[a]>> \notin Blocked
      <3>1. UNCHANGED <<hash, db, target>> /\ apc'[a] = "persist"
        BY <1>6, <2>2 DEF CheckBlocks, Go, dbVars
      <3>2. Naming(r)'
        BY <3>1 DEF Naming
      <3>3. QED
        BY <1>1, <3>1, <3>2 DEF ListenerKnown
    <2>3. QED
      BY <2>1, <2>2
  <1>7. CASE Persist(a)
    <2>1. CASE UndoClaim(r) /\ UNCHANGED db
      BY <1>5, <2>1
    <2>2. CASE UNCHANGED hash /\ db' = [db EXCEPT ![r] = [status |-> "active", listener |-> VolunteerOf[a]]]
      <3>1. hash[r].listener = VolunteerOf[a] /\ found[r] = None
        BY <1>2, <1>7 DEF Persist, Go, AcceptPart, WinnerHolds, Winning, Published
      <3>2. QED
        BY <1>1, <2>2, <3>1 DEF ListenerKnown
    <2>3. QED
      BY <1>7, <2>1, <2>2 DEF Persist
  <1>8. CASE CheckVolunteer(a) \/ ReadHash(a) \/ CancelMatchTimeout(a)
             \/ ScheduleAccepted(a) \/ Unlock(a)
    <2>1. UNCHANGED <<db, hash>> /\ apc[a] \notin {"blocks", "persist"}
      BY <1>8 DEF CheckVolunteer, ReadHash, CancelMatchTimeout, ScheduleAccepted,
         Unlock, Go, dbVars, redisVars
    <2>2. Naming(r) => Naming(r)'
      BY <1>1, <2>1 DEF Naming
    <2>3. QED
      BY <1>1, <2>1, <2>2, ListenerKept
  <1>9. QED
    BY <1>3, <1>4, <1>6, <1>7, <1>8 DEF Accept

LEMMA ListenerNext ==
  ASSUME Calm, Sound, ClaimProtocol, \A q \in Request : ListenerKnown(q), [Next]_vars
  PROVE  \A q \in Request : ListenerKnown(q)'
  <1>1. ASSUME NEW r \in Request, CheckKey(r) \/ Connect(r) \/ ConnectThrows(r)
        PROVE  \A q \in Request : ListenerKnown(q)'
    <2>1. CheckKey(r) \/ Connect(r)
      BY <1>1 DEF Calm, ConnectThrows
    <2>2. ListenerKnown(r)' /\ \A q \in Request : q # r => Same(q)
      BY <2>1, ListenerByConnect
    <2>3. UNCHANGED <<apc, target>>
      BY <2>1 DEF CheckKey, Connect, CheckActive, ReserveTicket,
         CreateProblem, FindVolunteer, CreateMatched, StoreActiveHash, ScheduleMatched,
         CreateWaiting, PublishWaiting, ScheduleMatchTimeout, StoreAnswer, Rollback, RefundFailed
    <2>4. QED
      BY <2>2, <2>3, ListenerKept DEF Same, Naming
  <1>2. ASSUME NEW a \in Acceptor, Accept(a) \/ AcceptThrows(a)
        PROVE  \A q \in Request : ListenerKnown(q)'
    <2>1. Accept(a)
      BY <1>2 DEF Calm, AcceptThrows
    <2>2. /\ target[a] \in Request
          /\ \A b \in Acceptor : b # a => apc'[b] = apc[b] /\ target'[b] = target[b]
          /\ \A q \in Request : q # target[a] => Same(q)
      BY <2>1, AcceptFrame
    <2>3. ASSUME NEW q \in Request, q = target[a] PROVE ListenerKnown(q)'
      BY <2>1, <2>3, ListenerByAccept
    <2>4. ASSUME NEW q \in Request, q # target[a] PROVE ListenerKnown(q)'
      <3>1. Naming(q) => Naming(q)'
        BY <2>2, <2>4 DEF Naming
      <3>2. QED
        BY <2>2, <2>4, <3>1, ListenerKept DEF Same
    <2>5. QED
      BY <2>3, <2>4
  <1>3. ASSUME NEW a \in Acceptor, NEW r \in Request, TakeLock(a, r)
        PROVE  \A q \in Request : ListenerKnown(q)'
    <2>1. /\ UNCHANGED <<found, db, hash>> /\ apc[a] = "idle"
          /\ \A b \in Acceptor : b # a => apc'[b] = apc[b] /\ target'[b] = target[b]
      BY <1>3 DEF TakeLock, Go, dbVars, Sound, TypeOK
    <2>2. \A q \in Request : Naming(q) => Naming(q)'
      BY <2>1 DEF Naming
    <2>3. QED
      BY <2>1, <2>2, ListenerKept
  <1>4. CASE /\ ~\E r \in Request : CheckKey(r) \/ Connect(r) \/ ConnectThrows(r)
             /\ ~\E a \in Acceptor : Accept(a) \/ AcceptThrows(a) \/ \E r \in Request : TakeLock(a, r)
    BY <1>4, ListenerByOthers
  <1>5. QED
    BY <1>1, <1>2, <1>3, <1>4

(* Redis and PostgreSQL name the same listener of a running session, once  *)
(* no accept() of it is under way.                                         *)
THEOREM StoresAgreeHolds ==
  ASSUME Calm
  PROVE  Spec => []StoresAgree
  <1> DEFINE Known == \A r \in Request : ListenerKnown(r)
  <1>1. Init => Known
    BY DEF Init, ListenerKnown, NoHash
  <1>2. Sound /\ ClaimProtocol /\ Known /\ [Next]_vars => Known'
    BY ListenerNext
  <1>3. Known => StoresAgree
    BY DEF ListenerKnown, Naming, StoresAgree
  <1>4. QED
    BY <1>1, <1>2, <1>3, ClaimsHold, PTL DEF Spec

-----------------------------------------------------------------------------
(* The seeker's sessions and keys                                          *)

(* A step of connect() in flight: it opens a session only from Opening,    *)
(* reaches Opening only past CheckActive, and is over without a stored key *)
(* only if it opened nothing.                                              *)
LEMMA ConnectShape ==
  ASSUME Sound, ClaimProtocol, NEW r \in Request, Connect(r)
  PROVE  /\ InFlight(r)
         /\ \A q \in Request : q # r => cpc'[q] = cpc[q]
         /\ cpc'[r] \notin {"idle", "check"}
         /\ cpc'[r] \in Opening =>
              \/ cpc[r] \in Opening
              \/ \A q \in Request : SeekerOf[q] = SeekerOf[r] => ~Active(q)
         /\ \/ UNCHANGED db
            \/ /\ cpc[r] \in Opening /\ cpc'[r] \in {"hashA", "publishB"}
               /\ \A q \in Request : q # r => db'[q] = db[q]
         /\ \/ UNCHANGED idem /\ (cpc'[r] = "done" => db'[r].status = "absent")
            \/ /\ cpc[r] = "key" /\ cpc'[r] = "done" /\ UNCHANGED db
               /\ idem' = [idem EXCEPT ![KeyOf[r]] = r]
         /\ cpc[r] \in {"check"} \cup Opening \/ cpc'[r] \notin {"check"} \cup Opening
  <1> USE DEF Sound, TypeOK, Step, InFlight, Opening
  <1>1. ConnectProgress(r) /\ ~Rollback(r) /\ ~RefundFailed(r)
    BY DEF ClaimProtocol, SessionPart, ConnectProgress, Undo, Rollback, RefundFailed
  <1>2. CASE CheckActive(r)
    BY <1>1, <1>2 DEF CheckActive, ConnectProgress, BeforeRow, dbVars, redisVars
  <1>3. CASE ReserveTicket(r)
    BY <1>1, <1>3 DEF ReserveTicket, ConnectProgress, BeforeRow, dbVars
  <1>4. CASE CreateProblem(r) \/ FindVolunteer(r)
    BY <1>4 DEF CreateProblem, FindVolunteer, dbVars, redisVars
  <1>5. CASE CreateMatched(r) \/ CreateWaiting(r)
    BY <1>5 DEF CreateMatched, CreateWaiting, redisVars
  <1>6. CASE StoreActiveHash(r) \/ ScheduleMatched(r) \/ PublishWaiting(r)
             \/ ScheduleMatchTimeout(r)
    BY <1>6 DEF StoreActiveHash, ScheduleMatched, PublishWaiting,
       ScheduleMatchTimeout, dbVars, redisVars
  <1>7. CASE StoreAnswer(r)
    BY <1>7 DEF StoreAnswer, dbVars
  <1>8. QED
    BY <1>1, <1>2, <1>3, <1>4, <1>5, <1>6, <1>7 DEF Connect

(* Nothing else moves a connect or stores a key, and nothing else opens a  *)
(* session.                                                                *)
LEMMA OthersOpenNothing ==
  ASSUME Calm, Sound, ClaimProtocol, [Next]_vars,
         ~\E r \in Request : CheckKey(r) \/ Connect(r)
  PROVE  /\ UNCHANGED <<cpc, idem>>
         /\ \A q \in Request : /\ Active(q)' => Active(q)
                               /\ db'[q].status # "absent" => db[q].status # "absent"
  <1> USE DEF dbVars, redisVars, pcVars
  <1>1. ASSUME NEW r \in Request, ConnectThrows(r)
        PROVE  FALSE
    BY <1>1 DEF Calm, ConnectThrows
  <1>2. ASSUME NEW r \in Request, Worker(r) \/ WorkerCrash(r) \/ JobThrows(r)
        PROVE  UNCHANGED <<cpc, idem>>
    BY <1>2 DEF Worker, StartMatchTimeout, CancelUnmatched, RefundUnmatched,
       DropUnmatched, StartGraceEnd, Charge, AckGraceEnd, StartSessionTimeout,
       FinishSessionTimeout, WorkerCrash, JobThrows
  <1>3. ASSUME NEW r \in Request,
               EndChat(r) \/ FinishChat(r) \/ PruneWaiting(r) \/ ExpireHash(r)
        PROVE  UNCHANGED <<cpc, idem>>
    BY <1>3 DEF EndChat, FinishChat, PruneWaiting, ExpireHash
  <1>4. ASSUME NEW a \in Acceptor,
               (\E r \in Request : TakeLock(a, r)) \/ Accept(a) \/ AcceptThrows(a)
        PROVE  UNCHANGED <<cpc, idem>>
    BY <1>4 DEF TakeLock, Accept, CheckVolunteer, ReadHash, Claim, Activate,
       CheckBlocks, Persist, CancelMatchTimeout, ScheduleAccepted, Unlock, AcceptThrows
  <1>5. ASSUME NEW v \in Volunteer, GoOnline(v) \/ GoOffline(v) \/ ExpireLock(v)
        PROVE  UNCHANGED <<cpc, idem>>
    BY <1>5 DEF GoOnline, GoOffline, ExpireLock
  <1>6. UNCHANGED <<cpc, idem>>
    BY <1>1, <1>2, <1>3, <1>4, <1>5 DEF Next, vars
  <1>7. KnownRowStep \/ UNCHANGED db
    BY KnownRowSteps DEF Connect
  <1>8. QED
    BY <1>6, <1>7 DEF KnownRowStep, Accepted, Ended, Unmatched, Active, Terminal

(* What the history keeps of a step of the system. *)
LEMMA CrossStep ==
  ASSUME [CrossNext]_crossVars
  PROVE  /\ [Next]_vars
         /\ \A p \in overlapped : p \in overlapped'
         /\ charged' = charged \cup {r \in Request : job[r].grace = "charge"
                                                     /\ job'[r].grace = "ack"}
         /\ \A q, r \in Request :
              q # r /\ SeekerOf[q] = SeekerOf[r] =>
                /\ cpc' # cpc /\ cpc'[q] \in Underway /\ cpc'[r] \in Underway
                     => <<q, r>> \in overlapped'
                /\ \/ <<q, r>> \in raced
                   \/ cpc' # cpc /\ cpc'[q] \in Opening /\ cpc'[r] \in Opening
                   => \/ <<q, r>> \in raced'
                      \/ db'[q].status \in Terminal \/ db'[r].status \in Terminal
  <1>1. CASE CrossNext
    BY <1>1 DEF CrossNext, Watch, Both, Over
  <1>2. CASE UNCHANGED crossVars
    <2>1. UNCHANGED vars /\ UNCHANGED <<overlapped, raced, charged>>
      BY <1>2 DEF crossVars
    <2>2. UNCHANGED <<cpc, job>>
      BY <2>1 DEF vars
    <2>3. {r \in Request : job[r].grace = "charge" /\ job'[r].grace = "ack"} = {}
      BY <2>2
    <2>4. QED
      BY <2>1, <2>2, <2>3
  <1>3. QED
    BY <1>1, <1>2

(* Whoever takes a place among the seeker's sessions finds no active one,  *)
(* and whoever enters the use of a key finds nothing stored under it.      *)
LEMMA PlacesTaken ==
  ASSUME Calm, Sound, ClaimProtocol, [Next]_vars, NEW x \in Request
  PROVE  /\ Placed(x)' /\ ~Placed(x) =>
              /\ cpc'[x] \in Opening /\ cpc' # cpc
              /\ \A q \in Request : SeekerOf[q] = SeekerOf[x] =>
                   /\ ~Active(q) /\ db'[q] = db[q]
                   /\ q # x => cpc'[q] = cpc[q]
         /\ Entered(x)' /\ ~Entered(x) =>
              /\ cpc'[x] = "check" /\ cpc' # cpc /\ idem[KeyOf[x]] = None
              /\ UNCHANGED <<db, idem>>
              /\ \A q \in Request : q # x => cpc'[q] = cpc[q]
  <1> USE DEF Placed, Entered
  <1>1. ASSUME NEW y \in Request, CheckKey(y)
        PROVE  /\ ~(Placed(x)' /\ ~Placed(x))
               /\ Entered(x)' /\ ~Entered(x) =>
                    /\ x = y /\ cpc'[x] = "check" /\ cpc' # cpc /\ idem[KeyOf[x]] = None
                    /\ UNCHANGED <<db, idem>>
                    /\ \A q \in Request : q # x => cpc'[q] = cpc[q]
    <2>1. /\ UNCHANGED <<db, idem>> /\ cpc[y] = "idle"
          /\ cpc'[y] = IF idem[KeyOf[y]] = None THEN "check" ELSE "done"
          /\ \A q \in Request : q # y => cpc'[q] = cpc[q]
      BY <1>1 DEF CheckKey, Step, dbVars, redisVars, Sound, TypeOK
    <2>2. QED
      BY <2>1 DEF Active, Opening
  <1>2. ASSUME NEW y \in Request, Connect(y)
        PROVE  /\ ~(Entered(x)' /\ ~Entered(x))
               /\ Placed(x)' /\ ~Placed(x) =>
                    /\ cpc'[x] \in Opening /\ cpc' # cpc
                    /\ \A q \in Request : SeekerOf[q] = SeekerOf[x] =>
                         /\ ~Active(q) /\ db'[q] = db[q]
                         /\ q # x => cpc'[q] = cpc[q]
    <2>1. /\ \A q \in Request : q # y => cpc'[q] = cpc[q]
          /\ cpc'[y] \in Opening =>
               \/ cpc[y] \in Opening
               \/ \A q \in Request : SeekerOf[q] = SeekerOf[y] => ~Active(q)
          /\ \/ UNCHANGED db
             \/ /\ cpc[y] \in Opening /\ cpc'[y] \in {"hashA", "publishB"}
                /\ \A q \in Request : q # y => db'[q] = db[q]
          /\ cpc[y] \in {"check"} \cup Opening \/ cpc'[y] \notin {"check"} \cup Opening
      BY <1>2, ConnectShape
    <2>2. CASE UNCHANGED db
      BY <2>1, <2>2 DEF Active
    <2>3. CASE /\ cpc[y] \in Opening /\ cpc'[y] \in {"hashA", "publishB"}
               /\ \A q \in Request : q # y => db'[q] = db[q]
      BY <2>1, <2>3 DEF Active
    <2>4. QED
      BY <2>1, <2>2, <2>3
  <1>3. CASE ~\E y \in Request : CheckKey(y) \/ Connect(y)
    <2>1. /\ UNCHANGED <<cpc, idem>>
          /\ \A q \in Request : /\ Active(q)' => Active(q)
                                /\ db'[q].status # "absent" => db[q].status # "absent"
      BY <1>3, OthersOpenNothing
    <2>2. QED
      BY <2>1
  <1>4. QED
    BY <1>1, <1>2, <1>3

(* A session that has a place is not over, and so only connects that pass *)
(* the check of step 2 together come to a place beside each other.         *)
LEMMA RacesNext ==
  ASSUME Calm, Sound, ClaimProtocol, ClaimProtocol', RacesKnown, [CrossNext]_crossVars
  PROVE  RacesKnown'
  <1>1. [Next]_vars
    BY CrossStep
  <1>2. SUFFICES ASSUME NEW q \in Request, NEW r \in Request, q # r,
                        SeekerOf[q] = SeekerOf[r], Placed(q)', Placed(r)'
                 PROVE  <<q, r>> \in raced'
    BY DEF RacesKnown
  <1>3. db'[q].status \notin Terminal /\ db'[r].status \notin Terminal
    <2>1. ASSUME NEW x \in Request, Placed(x)'
          PROVE  db'[x].status \notin Terminal
      <3>1. ConnectProgress(x)'
        BY DEF ClaimProtocol, SessionPart
      <3>2. QED
        BY <2>1, <3>1 DEF Placed, Active, ConnectProgress, BeforeRow, Opening, Terminal
    <2>2. QED
      BY <1>2, <2>1
  <1>4. <<q, r>> \in raced
        \/ (cpc' # cpc /\ cpc'[q] \in Opening /\ cpc'[r] \in Opening)
    <2>1. CASE Placed(q) /\ Placed(r)
      BY <1>2, <2>1 DEF RacesKnown
    <2>2. CASE ~Placed(r)
      BY <1>1, <1>2, <2>2, PlacesTaken DEF Placed, Active
    <2>3. CASE ~Placed(q)
      BY <1>1, <1>2, <2>3, PlacesTaken DEF Placed, Active
    <2>4. QED
      BY <2>1, <2>2, <2>3
  <1>5. QED
    BY <1>2, <1>3, <1>4, CrossStep

LEMMA OverlapsNext ==
  ASSUME Calm, Sound, ClaimProtocol, Sound', OverlapsKnown, KeysStored, [CrossNext]_crossVars
  PROVE  OverlapsKnown'
  <1>1. [Next]_vars
    BY CrossStep
  <1>2. SUFFICES ASSUME NEW q \in Request, NEW r \in Request, q # r,
                        KeyOf[q] = KeyOf[r], Entered(q)', Entered(r)',
                        ~(Entered(q) /\ Entered(r))
                 PROVE  <<q, r>> \in overlapped'
    BY CrossStep DEF OverlapsKnown
  <1>3. SeekerOf[q] = SeekerOf[r]
    BY <1>2, LifecycleConstants
  <1>4. ASSUME NEW x \in Request, NEW y \in Request, x # y, KeyOf[x] = KeyOf[y],
               Entered(x)', ~Entered(x), Entered(y)'
        PROVE  cpc' # cpc /\ cpc'[x] \in Underway /\ cpc'[y] \in Underway
    <2>1. /\ cpc'[x] = "check" /\ cpc' # cpc /\ idem[KeyOf[x]] = None
          /\ UNCHANGED <<db, idem>> /\ cpc'[y] = cpc[y]
      BY <1>1, <1>4, PlacesTaken
    <2>2. cpc[y] \notin {"idle", "done"}
      BY <1>4, <2>1 DEF Entered, KeysStored, InFlight, Opening
    <2>3. cpc[y] \in ConnectPc /\ "check" \in ConnectPc
      BY DEF Sound, TypeOK, ConnectPc
    <2>4. QED
      BY <2>1, <2>2, <2>3 DEF Underway
  <1>5. cpc' # cpc /\ cpc'[q] \in Underway /\ cpc'[r] \in Underway
    BY <1>2, <1>4
  <1>6. QED
    BY <1>2, <1>3, <1>5, CrossStep

LEMMA KeysNext ==
  ASSUME Calm, Sound, ClaimProtocol, KeysStored, [Next]_vars
  PROVE  KeysStored'
  <1> USE DEF KeysStored, InFlight
  <1>1. ASSUME NEW x \in Request, CheckKey(x) PROVE KeysStored'
    <2>1. /\ \A q \in Request : q # x => cpc'[q] = cpc[q]
          /\ cpc[x] = "idle" /\ UNCHANGED <<db, idem>>
      BY <1>1 DEF CheckKey, Step, dbVars, redisVars, Sound, TypeOK
    <2>2. QED
      BY <2>1
  <1>2. ASSUME NEW x \in Request, Connect(x) PROVE KeysStored'
    <2>1. /\ \A q \in Request : q # x => cpc'[q] = cpc[q]
          /\ \/ UNCHANGED db
             \/ \A q \in Request : q # x => db'[q] = db[q]
          /\ \/ UNCHANGED idem /\ (cpc'[x] = "done" => db'[x].status = "absent")
             \/ idem' = [idem EXCEPT ![KeyOf[x]] = x] /\ UNCHANGED db
          /\ cpc'[x] # "idle"
      BY <1>2, ConnectShape
    <2>2. CASE UNCHANGED idem /\ (cpc'[x] = "done" => db'[x].status = "absent")
      BY <2>1, <2>2
    <2>3. CASE idem' = [idem EXCEPT ![KeyOf[x]] = x] /\ UNCHANGED db
      <3>1. /\ idem'[KeyOf[x]] # None
            /\ \A q \in Request : KeyOf[q] # KeyOf[x] => idem'[KeyOf[q]] = idem[KeyOf[q]]
        BY <2>3, LifecycleConstants DEF Sound, TypeOK
      <3>2. \A q \in Request : KeyOf[q] = KeyOf[x] => idem'[KeyOf[q]] # None
        BY <3>1
      <3>3. QED
        BY <2>1, <2>3, <3>1, <3>2
    <2>4. QED
      BY <2>1, <2>2, <2>3
  <1>3. CASE ~\E r \in Request : CheckKey(r) \/ Connect(r)
    BY <1>3, OthersOpenNothing
  <1>4. QED
    BY <1>1, <1>2, <1>3

(* Everything proved of Spec holds of CrossSpec. *)
LEMMA CrossIsSpec == CrossSpec => Spec
  <1>1. CrossInit => Init
    BY DEF CrossInit
  <1>2. [CrossNext]_crossVars => [Next]_vars
    BY CrossStep
  <1>3. QED
    BY <1>1, <1>2, PTL DEF CrossSpec, Spec

LEMMA CrossingsAlways ==
  ASSUME Calm
  PROVE  CrossSpec => [](Sound /\ ClaimProtocol /\ CrossingsKnown)
  <1>1. CrossInit => CrossingsKnown
    BY DEF CrossInit, Init, CrossingsKnown, RacesKnown, OverlapsKnown, KeysStored,
       Placed, Entered, Opening, Active, NoRow
  <1>2. Sound /\ ClaimProtocol /\ (Sound /\ ClaimProtocol)' /\ CrossingsKnown
          /\ [CrossNext]_crossVars => CrossingsKnown'
    BY RacesNext, OverlapsNext, KeysNext, CrossStep DEF CrossingsKnown
  <1>3. Spec => [](Sound /\ ClaimProtocol)
    BY ClaimsHold, PTL
  <1>4. QED
    BY <1>1, <1>2, <1>3, CrossIsSpec, PTL DEF CrossSpec

(* backend/README.md:67: two sessions of a seeker are active together only *)
(* if their connects passed the check for an active session together; one  *)
(* that checks after the other has opened its session is refused, whatever *)
(* runs in between.                                                        *)
THEOREM OneActiveHolds ==
  ASSUME Calm
  PROVE  CrossSpec => []OneActiveUnlessRaced
  <1>1. CrossingsKnown => OneActiveUnlessRaced
    BY DEF CrossingsKnown, RacesKnown, Placed, OneActiveUnlessRaced
  <1>2. QED
    BY <1>1, CrossingsAlways, PTL

(* session.service.ts:96: of the requests that carry one key two open a    *)
(* session only if they were in flight together; a retry that comes after  *)
(* the answer opens none.                                                  *)
THEOREM OneSessionHolds ==
  ASSUME Calm
  PROVE  CrossSpec => []OneSessionUnlessOverlapped
  <1>1. Sound /\ ClaimProtocol /\ CrossingsKnown => OneSessionUnlessOverlapped
    <2> SUFFICES ASSUME Sound, ClaimProtocol, CrossingsKnown
                 PROVE  OneSessionUnlessOverlapped
      OBVIOUS
    <2>1. ASSUME NEW r \in Request, db[r].status = "absent" PROVE db[r] = NoRow
      <3>1. db[r].listener = None /\ db[r] \in Row
        BY <2>1 DEF ClaimProtocol, SessionPart, ConnectProgress, Sound, TypeOK
      <3>2. QED
        BY <2>1, <3>1 DEF Row, NoRow
    <2>2. QED
      BY <2>1 DEF CrossingsKnown, OverlapsKnown, Entered, OneSessionUnlessOverlapped
  <1>2. QED
    BY <1>1, CrossingsAlways, PTL

-----------------------------------------------------------------------------
(* The books                                                               *)

(* What the books read of a request. *)
Alike(q) == Same(q) /\ job'[q].grace = job[q].grace

(* A step moves no money of q: it still pays or still does not, and its    *)
(* grace-end has not run, unless it found the session over.                *)
Quiet(q) ==
  /\ Paying(q)' <=> Paying(q)
  /\ \/ job'[q].grace \in Owing <=> job[q].grace \in Owing
     \/ ~Active(q) /\ job[q].grace = "delayed" /\ job'[q].grace \notin Owing

LEMMA AlikeBooks ==
  ASSUME NEW q \in Request, Progress(q), Alike(q)
  PROVE  Progress(q)' /\ Quiet(q)
  <1>1. Active(q)' = Active(q) /\ Quiet(q)
    BY DEF Alike, Same, Active, Quiet, Paying
  <1>2. Progress(q)'
    BY <1>1 DEF Alike, Same, Progress
  <1>3. QED
    BY <1>1, <1>2

LEMMA JobChange ==
  ASSUME TypeOK, NEW r \in Request, NEW n \in JobName, NEW s \in JobState, SetJob(r, n, s)
  PROVE  /\ job'[r].match = IF n = "match" THEN s ELSE job[r].match
         /\ job'[r].grace = IF n = "grace" THEN s ELSE job[r].grace
         /\ job'[r].timeout = IF n = "timeout" THEN s ELSE job[r].timeout
         /\ \A q \in Request :
              q # r => /\ job'[q].match = job[q].match
                       /\ job'[q].grace = job[q].grace
                       /\ job'[q].timeout = job[q].timeout
  <1>1. {"match", "grace", "timeout"} \subseteq JobName
    BY DEF JobName
  <1>2. QED
    BY <1>1, JobSet

(* connect() *)
LEMMA ConnectBooks ==
  ASSUME Calm, Sound, ClaimProtocol, NEW r \in Request, Progress(r),
         CheckKey(r) \/ Connect(r)
  PROVE  /\ Progress(r)'
         /\ Quiet(r) \/ (ReserveTicket(r) /\ CanReserve(ticket[SeekerOf[r]], DailyLimit))
         /\ \A q \in Request : q # r => Alike(q)
         /\ UNCHANGED <<apc, target>>
         /\ job'[r].grace = job[r].grace \/ NoCalls(r)
  <1> USE DEF Sound, TypeOK, Step
  <1>1. /\ ConnectProgress(r) /\ ~Rollback(r) /\ ~RefundFailed(r)
    BY DEF ClaimProtocol, SessionPart, ConnectProgress, Undo, Rollback, RefundFailed
  <1>2. UNCHANGED <<apc, target, winners>> /\ \A q \in Request : q # r => Same(q)
    BY <1>1, ConnectFrame DEF Connect
  <1>3. job' = job => \A q \in Request : q # r => Alike(q)
    BY <1>2 DEF Alike
  <1>4. CASE CheckKey(r) \/ CheckActive(r) \/ StoreAnswer(r) \/ ReserveTicket(r)
    <2>1. /\ UNCHANGED <<db, problem, job, found>>
          /\ \/ cpc[r] \in {"idle", "check"} /\ cpc'[r] \in {"check", "reserve", "done"}
             \/ cpc[r] = "key" /\ cpc'[r] = "done"
             \/ /\ ReserveTicket(r) /\ cpc[r] = "reserve"
                /\ cpc'[r] = IF CanReserve(ticket[SeekerOf[r]], DailyLimit) THEN "problem" ELSE "done"
      BY <1>4 DEF CheckKey, CheckActive, StoreAnswer, ReserveTicket, dbVars
    <2>2. Progress(r)'
      BY <1>2, <2>1 DEF Progress, Active
    <2>3. Quiet(r) \/ (ReserveTicket(r) /\ CanReserve(ticket[SeekerOf[r]], DailyLimit))
      BY <2>1 DEF Quiet, Paying
    <2>4. QED
      BY <1>2, <1>3, <2>1, <2>2, <2>3
  <1>5. CASE CreateProblem(r)
    <2>1. /\ UNCHANGED <<db, job, found>> /\ cpc[r] = "problem" /\ cpc'[r] = "match"
          /\ problem'[r] = "waiting"
      BY <1>5 DEF CreateProblem
    <2>2. Progress(r)' /\ Quiet(r)
      BY <1>2, <2>1 DEF Progress, Active, Quiet, Paying
    <2>3. QED
      BY <1>2, <1>3, <2>1, <2>2
  <1>6. CASE FindVolunteer(r)
    <2>1. /\ UNCHANGED <<db, problem, job>> /\ cpc[r] = "match" /\ cpc'[r] \in {"createA", "createB"}
          /\ db[r].listener = None
      BY <1>1, <1>6 DEF FindVolunteer, dbVars, ConnectProgress, BeforeRow
    <2>2. Progress(r)' /\ Quiet(r)
      BY <1>2, <2>1 DEF Progress, Active, Quiet, Paying
    <2>3. QED
      BY <1>2, <1>3, <2>1, <2>2
  <1>7. CASE CreateMatched(r) \/ CreateWaiting(r)
    <2>1. /\ UNCHANGED <<job, found>> /\ db[r].status = "absent" /\ db[r].listener = None
          /\ job[r].match = "none"
      BY <1>1, <1>7 DEF CreateMatched, CreateWaiting, ConnectProgress, BeforeRow, Untouched
    <2>2. CASE CreateMatched(r)
      <3>1. /\ cpc[r] = "createA" /\ cpc'[r] = "hashA" /\ found[r] # None
            /\ db'[r].status = "active" /\ db'[r].listener = found[r] /\ problem'[r] = "matched"
        BY <1>1, <2>2 DEF CreateMatched, ConnectProgress
      <3>2. QED
        BY <1>2, <1>3, <2>1, <3>1 DEF Progress, Active, Quiet, Paying
    <2>3. CASE CreateWaiting(r)
      <3>1. /\ cpc[r] = "createB" /\ cpc'[r] = "publishB" /\ UNCHANGED problem
            /\ db'[r].status = "active" /\ db'[r].listener = None
        BY <2>3 DEF CreateWaiting
      <3>2. QED
        BY <1>2, <1>3, <2>1, <3>1 DEF Progress, Active, Quiet, Paying
    <2>4. QED
      BY <1>7, <2>2, <2>3
  <1>8. CASE StoreActiveHash(r) \/ PublishWaiting(r)
    <2>1. /\ UNCHANGED <<db, problem, job, found>>
          /\ \/ cpc[r] = "hashA" /\ cpc'[r] = "jobsA"
             \/ cpc[r] = "publishB" /\ cpc'[r] = "jobB"
      BY <1>8 DEF StoreActiveHash, PublishWaiting, dbVars
    <2>2. QED
      BY <1>2, <1>3, <2>1 DEF Progress, Active, Quiet, Paying
  <1>9. CASE ScheduleMatched(r)
    <2>1. /\ UNCHANGED <<db, problem, found>> /\ cpc[r] = "jobsA" /\ cpc'[r] = "key"
          /\ ScheduleSessionJobs(r)
      BY <1>9 DEF ScheduleMatched, dbVars
    <2>2. /\ job'[r].match = job[r].match
          /\ job[r].grace = "none" /\ job'[r].grace = "delayed"
          /\ \A q \in Request : q # r => job'[q] = job[q]
      BY <2>1, JobsScheduled DEF Progress, Added
    <2>3. db[r].listener # None /\ NoCalls(r)
      BY <1>1, <2>1, UnpublishedPc, UnpublishedHasNoCalls DEF ConnectProgress, PublishedPc
    <2>4. QED
      BY <1>2, <2>1, <2>2, <2>3 DEF Progress, Active, Quiet, Paying, Owing, Alike
  <1>10. CASE ScheduleMatchTimeout(r)
    <2>1. /\ UNCHANGED <<db, problem, found>> /\ cpc[r] = "jobB" /\ cpc'[r] = "key"
          /\ SetJob(r, "match", Added(job[r].match))
      BY <1>10 DEF ScheduleMatchTimeout, dbVars
    <2>2. "match" \in JobName /\ Added(job[r].match) \in JobState
      BY DEF Added, JobName, JobState, JobIdle
    <2>3. /\ job'[r].match = Added(job[r].match) /\ job'[r].grace = job[r].grace
          /\ \A q \in Request : q # r => job'[q].grace = job[q].grace
      BY <2>1, <2>2, JobChange
    <2>4. job'[r].match = job[r].match \/ {job[r].match, job'[r].match} \cap {"refund", "drop"} = {}
      BY <2>3 DEF Added
    <2>5. QED
      BY <1>2, <2>1, <2>3, <2>4 DEF Progress, Active, Quiet, Paying, Alike
  <1>11. QED
    BY <1>1, <1>4, <1>5, <1>6, <1>7, <1>8, <1>9, <1>10 DEF Connect

(* The worker and the chat side *)
LEMMA WorkerBooks ==
  ASSUME Calm, Sound, ClaimProtocol, NEW r \in Request, Progress(r),
         Worker(r) \/ EndChat(r) \/ FinishChat(r)
  PROVE  /\ Progress(r)'
         /\ Quiet(r) \/ RefundUnmatched(r) \/ Charge(r)
         /\ \A q \in Request : q # r => Alike(q)
         /\ UNCHANGED <<apc, target>>
         /\ job'[r].grace = job[r].grace \/ job[r].grace # "none"
  <1> USE DEF Sound, TypeOK
  <1>1. UNCHANGED <<apc, target, cpc, found, winners>>
    BY DEF Worker, StartMatchTimeout, CancelUnmatched, RefundUnmatched,
       DropUnmatched, StartGraceEnd, Charge, AckGraceEnd, StartSessionTimeout,
       FinishSessionTimeout, EndChat, FinishChat, pcVars
  <1>2. CASE EndChat(r) \/ FinishChat(r)
    <2>1. UNCHANGED <<job, problem>> /\ \A q \in Request : q # r => Alike(q)
      BY <1>2 DEF EndChat, FinishChat, Alike, Same, dbVars, redisVars
    <2>2. Quiet(r)
      BY <1>1, <2>1 DEF Quiet, Paying
    <2>3. db'[r] = db[r] \/ (Active(r) /\ db'[r].status # "active" /\ db'[r].status # "absent" /\ db'[r].listener = db[r].listener)
      <3>1. CASE EndChat(r)
        <4>1. PICK st \in {"completed", "cancelled_disconnect"} :
                     Active(r) /\ db' = [db EXCEPT ![r] = [db[r] EXCEPT !.status = st]]
          BY <3>1 DEF EndChat
        <4>2. db[r] \in Row
          OBVIOUS
        <4>3. QED
          BY <4>1, <4>2 DEF Row
      <3>2. CASE FinishChat(r)
        BY <3>2 DEF FinishChat, dbVars
      <3>3. QED
        BY <1>2, <3>1, <3>2
    <2>4. Progress(r)'
      BY <1>1, <2>1, <2>3 DEF Progress, Active
    <2>5. QED
      BY <1>1, <2>1, <2>2, <2>4
  <1>3. ASSUME Worker(r) PROVE \A q \in Request : q # r => Alike(q)
    <2>1. PICK n \in JobName, s \in JobState : SetJob(r, n, s)
      BY <1>3 DEF Worker, StartMatchTimeout, CancelUnmatched, RefundUnmatched,
         DropUnmatched, StartGraceEnd, Charge, AckGraceEnd,
         StartSessionTimeout, FinishSessionTimeout, JobName, JobState,
         JobIdle, JobBusy
    <2>2. \A q \in Request : q # r => job'[q].grace = job[q].grace
      BY <2>1, JobChange
    <2>3. QED
      BY <1>3, <2>2, WorkerFrame DEF Alike
  <1>4. CASE StartMatchTimeout(r) \/ RefundUnmatched(r) \/ DropUnmatched(r)
             \/ (CancelUnmatched(r) /\ ~Unmatched(r))
    <2>1. PICK s \in {"cancel", "done", "drop"} :
            /\ SetJob(r, "match", s)
            /\ UNCHANGED <<db, problem>>
            /\ \/ job[r].match \in {"delayed", "cancel"} /\ s \in {"cancel", "done"}
               \/ job[r].match = "refund" /\ s = "drop" /\ RefundUnmatched(r)
               \/ job[r].match = "drop" /\ s = "done"
      BY <1>4 DEF StartMatchTimeout, RefundUnmatched, DropUnmatched, CancelUnmatched, dbVars
    <2>2. "match" \in JobName /\ s \in JobState
      BY DEF JobName, JobState, JobIdle, JobBusy
    <2>3. job'[r].match = s /\ job'[r].grace = job[r].grace
      BY <2>1, <2>2, JobChange
    <2>4. Progress(r)'
      BY <1>1, <2>1, <2>3 DEF Progress, Active
    <2>5. Quiet(r) \/ RefundUnmatched(r)
      BY <1>1, <2>1, <2>3 DEF Quiet, Paying
    <2>6. Worker(r)
      BY <1>4 DEF Worker
    <2>7. QED
      BY <1>1, <1>3, <2>3, <2>4, <2>5, <2>6
  <1>5. CASE CancelUnmatched(r) /\ Unmatched(r)
    <2>1. /\ SetJob(r, "match", "refund") /\ problem'[r] = "expired"
          /\ db' = [db EXCEPT ![r] = [db[r] EXCEPT !.status = "cancelled_timeout"]]
      BY <1>5 DEF CancelUnmatched
    <2>2. "match" \in JobName /\ "refund" \in JobState /\ db[r] \in Row
      BY DEF JobName, JobState, JobBusy
    <2>3. /\ job'[r].match = "refund" /\ job'[r].grace = job[r].grace
          /\ db'[r].status = "cancelled_timeout" /\ db'[r].listener = None
      BY <1>5, <2>1, <2>2, JobChange DEF Row, Unmatched
    <2>4. cpc[r] \notin {"idle", "check", "reserve", "problem", "hashA", "jobsA"}
      BY <1>5 DEF ClaimProtocol, SessionPart, ConnectProgress, BeforeRow, Unmatched, Active, Progress
    <2>5. Progress(r)'
      BY <1>1, <1>5, <2>1, <2>3, <2>4 DEF Progress, Active, Unmatched
    <2>6. Quiet(r)
      BY <1>1, <1>5, <2>1, <2>3 DEF Quiet, Paying, Progress, Unmatched
    <2>7. Worker(r)
      BY <1>5 DEF Worker
    <2>8. QED
      BY <1>1, <1>3, <2>3, <2>5, <2>6, <2>7
  <1>6. CASE StartGraceEnd(r) \/ Charge(r) \/ AckGraceEnd(r)
    <2>1. PICK s \in {"charge", "done", "ack"} :
            /\ SetJob(r, "grace", s)
            /\ UNCHANGED <<db, problem>>
            /\ \/ job[r].grace = "delayed" /\ s = IF Active(r) THEN "charge" ELSE "done"
               \/ job[r].grace = "charge" /\ s = "ack" /\ Charge(r)
               \/ job[r].grace = "ack" /\ s = "done"
      BY <1>6 DEF StartGraceEnd, Charge, AckGraceEnd, dbVars
    <2>2. "grace" \in JobName /\ s \in JobState
      BY DEF JobName, JobState, JobIdle, JobBusy
    <2>3. job'[r].match = job[r].match /\ job'[r].grace = s
      BY <2>1, <2>2, JobChange
    <2>4. Progress(r)'
      BY <1>1, <2>1, <2>3 DEF Progress, Active
    <2>5. Quiet(r) \/ Charge(r)
      BY <1>1, <2>1, <2>3 DEF Quiet, Paying, Owing
    <2>6. Worker(r)
      BY <1>6 DEF Worker
    <2>7. QED
      BY <1>1, <1>3, <2>1, <2>4, <2>5, <2>6
  <1>7. CASE StartSessionTimeout(r) \/ FinishSessionTimeout(r)
    <2>1. PICK s \in {"cleanup", "done"} : SetJob(r, "timeout", s)
      BY <1>7 DEF StartSessionTimeout, FinishSessionTimeout
    <2>2. "timeout" \in JobName /\ s \in JobState /\ UNCHANGED problem
      BY <1>7 DEF JobName, JobState, JobIdle, JobBusy, StartSessionTimeout, FinishSessionTimeout, dbVars
    <2>3. job'[r].match = job[r].match /\ job'[r].grace = job[r].grace
      BY <2>1, <2>2, JobChange
    <2>4. db'[r] = db[r] \/ (Active(r) /\ db'[r].status = "completed" /\ db'[r].listener = db[r].listener)
      <3>1. CASE StartSessionTimeout(r)
        <4>1. db' = [db EXCEPT ![r] = [db[r] EXCEPT !.status =
                     IF db[r].status = "active" THEN "completed" ELSE db[r].status]]
          BY <3>1 DEF StartSessionTimeout
        <4>2. db[r] \in Row
          OBVIOUS
        <4>3. QED
          BY <4>1, <4>2 DEF Row, Active
      <3>2. CASE FinishSessionTimeout(r)
        BY <3>2 DEF FinishSessionTimeout, dbVars
      <3>3. QED
        BY <1>7, <3>1, <3>2
    <2>5. Progress(r)'
      BY <1>1, <2>2, <2>3, <2>4 DEF Progress, Active
    <2>6. Quiet(r)
      BY <1>1, <2>2, <2>3 DEF Quiet, Paying
    <2>7. Worker(r)
      BY <1>7 DEF Worker
    <2>8. QED
      BY <1>1, <1>3, <2>3, <2>5, <2>6, <2>7
  <1>8. QED
    BY <1>2, <1>4, <1>5, <1>6, <1>7 DEF Worker

(* accept() *)
LEMMA AcceptBooks ==
  ASSUME Calm, Sound, ClaimProtocol, NEW a \in Acceptor, NEW r \in Request,
         target[a] = r, Accept(a), Progress(r), Scheduling(a)
  PROVE  /\ Progress(r)' /\ Quiet(r)
         /\ \A q \in Request : q # r => Alike(q)
         /\ \A b \in Acceptor : b # a => apc'[b] = apc[b] /\ target'[b] = target[b]
         /\ \/ apc'[a] \notin {"cancel", "schedule"}
               /\ (job'[r].grace = job[r].grace \/ apc[a] = "schedule")
            \/ /\ target'[a] = r /\ job'[r].grace = job[r].grace
               /\ \/ apc[a] = "persist" /\ Unmatched(r)
                  \/ apc[a] = "cancel"
  <1> USE DEF Sound, TypeOK
  <1>1. /\ apc[a] # "idle" /\ UNCHANGED <<cpc, found, problem>>
        /\ \A b \in Acceptor : b # a => apc'[b] = apc[b] /\ target'[b] = target[b]
        /\ \A q \in Request : q # r => Same(q)
    BY AcceptFrame
  <1>2. CASE CancelMatchTimeout(a)
    <2>1. "match" \in JobName /\ Removed(job[r].match) \in JobState
      BY DEF Removed, JobName, JobState, JobIdle
    <2>2. /\ SetJob(r, "match", Removed(job[r].match)) /\ UNCHANGED <<db, winners, target>>
          /\ apc[a] = "cancel" /\ apc'[a] = "schedule"
      BY <1>2 DEF CancelMatchTimeout, Calm, dbVars, Go
    <2>3. /\ job'[r].match = Removed(job[r].match) /\ job'[r].grace = job[r].grace
          /\ \A q \in Request : q # r => job'[q].grace = job[q].grace
      BY <2>1, <2>2, JobChange
    <2>4. job'[r].match = job[r].match \/ {job[r].match, job'[r].match} \cap {"refund", "drop"} = {}
      BY <2>3 DEF Removed
    <2>5. Progress(r)' /\ Quiet(r)
      BY <1>1, <2>2, <2>3, <2>4 DEF Progress, Active, Quiet, Paying
    <2>6. QED
      BY <1>1, <2>2, <2>3, <2>5 DEF Alike
  <1>3. CASE ScheduleAccepted(a)
    <2>1. /\ ScheduleSessionJobs(r) /\ UNCHANGED <<db, winners, target>>
          /\ apc[a] = "schedule" /\ apc'[a] = "unlock"
      BY <1>3 DEF ScheduleAccepted, Calm, dbVars, Go
    <2>2. /\ job'[r].match = job[r].match
          /\ job[r].grace = "none" /\ job'[r].grace = "delayed"
          /\ \A q \in Request : q # r => job'[q] = job[q]
      BY <2>1, JobsScheduled DEF Added, Scheduling
    <2>3. db[r].listener # None /\ Published(r)
      BY <1>1, <2>1 DEF ClaimProtocol, AcceptPart, AcceptProgress
    <2>4. Progress(r)' /\ Quiet(r)
      BY <1>1, <2>1, <2>2, <2>3 DEF Progress, Active, Quiet, Paying, Owing, Published
    <2>5. QED
      BY <1>1, <2>1, <2>2, <2>4 DEF Alike
  <1>4. CASE Persist(a)
    <2>1. /\ UNCHANGED <<job, target>> /\ Unmatched(r) /\ apc[a] = "persist"
          /\ db' = [db EXCEPT ![r] = [status |-> "active", listener |-> VolunteerOf[a]]]
          /\ winners'[r] # {}
      <3>1. apc[a] = "persist"
        BY <1>4 DEF Persist, Go
      <3>2. Unmatched(r)
        BY <3>1 DEF ClaimProtocol, AcceptPart, WinnerHolds, Winning
      <3>3. db[r].status # "absent" /\ "throw" \notin Allow
        BY <3>2 DEF Unmatched, Active, Calm
      <3>4. winners' = [winners EXCEPT ![r] = winners[r] \cup {VolunteerOf[a]}]
        BY <1>4, <3>3 DEF Persist
      <3>5. QED
        BY <1>4, <3>1, <3>2, <3>3, <3>4 DEF Persist
    <2>2. Published(r)
      BY <1>1 DEF ClaimProtocol, AcceptPart, AcceptProgress
    <2>3. Progress(r)' /\ Quiet(r)
      BY <1>1, <2>1, <2>2 DEF Progress, Active, Unmatched, Quiet, Paying, Published
    <2>4. QED
      BY <1>1, <2>1, <2>3 DEF Alike
  <1>5. CASE CheckVolunteer(a) \/ ReadHash(a) \/ Claim(a) \/ Activate(a)
             \/ CheckBlocks(a) \/ Unlock(a)
    <2>1. UNCHANGED <<db, winners, job>> /\ apc'[a] \notin {"cancel", "schedule"}
      BY <1>5 DEF CheckVolunteer, ReadHash, Claim, Activate, CheckBlocks, Unlock, Go,
         dbVars
    <2>2. Progress(r)' /\ Quiet(r)
      BY <1>1, <2>1 DEF Progress, Active, Quiet, Paying
    <2>3. QED
      BY <1>1, <2>1, <2>2 DEF Alike
  <1>6. QED
    BY <1>2, <1>3, <1>4, <1>5 DEF Accept

Working == {"cancel", "schedule"}

LEMMA SchedulingByAccept ==
  ASSUME Calm, Sound, ClaimProtocol, NEW a \in Acceptor, NEW r \in Request,
         target[a] = r, Accept(a), Progress(r),
         \A b \in Acceptor : Scheduling(b)
  PROVE  \A b \in Acceptor : Scheduling(b)'
  <1> USE DEF Working
  <1>1. /\ \A q \in Request : q # r => job'[q].grace = job[q].grace
        /\ \A b \in Acceptor : b # a => apc'[b] = apc[b] /\ target'[b] = target[b]
        /\ \/ apc'[a] \notin Working /\ (job'[r].grace = job[r].grace \/ apc[a] = "schedule")
           \/ /\ target'[a] = r /\ job'[r].grace = job[r].grace
              /\ \/ apc[a] = "persist" /\ Unmatched(r)
                 \/ apc[a] = "cancel"
    BY AcceptBooks DEF Alike
  <1>2. \A b \in Acceptor : apc[b] \in Working => target[b] \in Request /\ db[target[b]].listener # None
    BY DEF Sound, TargetsNamed, ClaimProtocol, AcceptPart, AcceptProgress
  <1>3. ASSUME Unmatched(r)
        PROVE  /\ job[r].grace = "none"
               /\ \A b \in Acceptor : apc[b] \in Working => target[b] # r
    BY <1>2, <1>3 DEF Progress, Unmatched
  <1>4. ASSUME NEW b \in Acceptor, apc'[b] \in Working PROVE job'[target'[b]].grace = "none"
    <2>1. CASE b = a
      BY <1>1, <1>3, <1>4, <2>1 DEF Scheduling
    <2>2. CASE b # a
      <3>1. apc[b] \in Working /\ target'[b] = target[b] /\ target[b] \in Request
        BY <1>1, <1>2, <1>4, <2>2
      <3>2. apc[a] = "schedule" => target[b] # r
        BY <2>2, <3>1 DEF Scheduling
      <3>3. job'[target[b]].grace = job[target[b]].grace
        BY <1>1, <3>1, <3>2
      <3>4. QED
        BY <3>1, <3>3 DEF Scheduling
    <2>3. QED
      BY <2>1, <2>2
  <1>5. ASSUME NEW b \in Acceptor, NEW c \in Acceptor,
               apc'[b] \in Working, apc'[c] \in Working, target'[c] = target'[b]
        PROVE  c = b
    <2>1. CASE b # a /\ c # a
      BY <1>1, <1>5, <2>1 DEF Scheduling
    <2>2. ASSUME NEW d \in Acceptor, d # a, apc'[a] \in Working, apc'[d] \in Working,
                 target'[a] = target'[d]
          PROVE  FALSE
      <3>1. apc[d] \in Working /\ target[d] = r
        BY <1>1, <2>2
      <3>2. apc[a] = "cancel"
        BY <1>1, <1>3, <2>2, <3>1
      <3>3. QED
        BY <2>2, <3>1, <3>2 DEF Scheduling
    <2>3. QED
      BY <1>5, <2>1, <2>2
  <1>6. QED
    BY <1>4, <1>5 DEF Scheduling

(* Steps outside accept(): a job whose addition is due stays "none".       *)
LEMMA SchedulingKept ==
  ASSUME Sound, ClaimProtocol, \A b \in Acceptor : Scheduling(b), UNCHANGED <<apc, target>>,
         \A q \in Request :
           job'[q].grace = job[q].grace \/ job[q].grace # "none" \/ NoCalls(q)
  PROVE  \A b \in Acceptor : Scheduling(b)'
  <1>1. ASSUME NEW b \in Acceptor, apc[b] \in {"cancel", "schedule"}
        PROVE  job'[target[b]].grace = "none"
    <2>1. target[b] \in Request /\ job[target[b]].grace = "none" /\ ~NoCalls(target[b])
      BY <1>1 DEF Sound, TargetsNamed, Scheduling, NoCalls
    <2>2. QED
      BY <2>1
  <1>2. QED
    BY <1>1 DEF Scheduling

(* What a step does to the books: it keeps the tickets, or takes one for a *)
(* request that begins to pay, or moves a ticket back or on.               *)
LEMMA StepBooks ==
  ASSUME Calm, Sound, ClaimProtocol, [Next]_vars,
         \A r \in Request : Progress(r), \A a \in Acceptor : Scheduling(a)
  PROVE  /\ \A r \in Request : Progress(r)'
         /\ \A a \in Acceptor : Scheduling(a)'
         /\ \/ (\A q \in Request : Quiet(q)) /\ UNCHANGED ticket
            \/ \E r \in Request :
                 /\ \A q \in Request : q # r => Quiet(q)
                 /\ \/ ReserveTicket(r) \/ RefundUnmatched(r) \/ Charge(r)
  <1>1. ASSUME NEW r \in Request, CheckKey(r) \/ Connect(r) \/ ConnectThrows(r)
        PROVE  /\ \A q \in Request : Progress(q)'
               /\ \A a \in Acceptor : Scheduling(a)'
               /\ \A q \in Request : q # r => Quiet(q)
               /\ ReserveTicket(r) \/ (UNCHANGED ticket /\ Quiet(r))
    <2>1. CheckKey(r) \/ Connect(r)
      BY <1>1 DEF Calm, ConnectThrows
    <2>2. /\ Progress(r)'
          /\ Quiet(r) \/ (ReserveTicket(r) /\ CanReserve(ticket[SeekerOf[r]], DailyLimit))
          /\ \A q \in Request : q # r => Alike(q)
          /\ UNCHANGED <<apc, target>>
          /\ job'[r].grace = job[r].grace \/ NoCalls(r)
      BY <2>1, ConnectBooks
    <2>3. \A q \in Request : q # r => Progress(q)' /\ Quiet(q) /\ job'[q].grace = job[q].grace
      BY <2>2, AlikeBooks DEF Alike
    <2>4. \A a \in Acceptor : Scheduling(a)'
      BY <2>2, <2>3, SchedulingKept
    <2>5. ReserveTicket(r) \/ UNCHANGED ticket
      <3>1. ~RefundFailed(r)
        BY DEF ClaimProtocol, SessionPart, ConnectProgress, Undo, RefundFailed, Step
      <3>2. QED
        BY <2>1, <3>1 DEF CheckKey, Connect, CheckActive, CreateProblem, FindVolunteer,
           CreateMatched, StoreActiveHash, ScheduleMatched, CreateWaiting, PublishWaiting,
           ScheduleMatchTimeout, StoreAnswer, Rollback, redisVars
    <2>6. QED
      BY <2>2, <2>3, <2>4, <2>5
  <1>2. ASSUME NEW r \in Request, Worker(r) \/ EndChat(r) \/ FinishChat(r)
        PROVE  /\ \A q \in Request : Progress(q)'
               /\ \A a \in Acceptor : Scheduling(a)'
               /\ \A q \in Request : q # r => Quiet(q)
               /\ RefundUnmatched(r) \/ Charge(r) \/ (UNCHANGED ticket /\ Quiet(r))
    <2>1. /\ Progress(r)'
          /\ Quiet(r) \/ RefundUnmatched(r) \/ Charge(r)
          /\ \A q \in Request : q # r => Alike(q)
          /\ UNCHANGED <<apc, target>>
          /\ job'[r].grace = job[r].grace \/ job[r].grace # "none"
      BY <1>2, WorkerBooks
    <2>2. \A q \in Request : q # r => Progress(q)' /\ Quiet(q) /\ job'[q].grace = job[q].grace
      BY <2>1, AlikeBooks DEF Alike
    <2>3. \A a \in Acceptor : Scheduling(a)'
      BY <2>1, <2>2, SchedulingKept
    <2>4. RefundUnmatched(r) \/ Charge(r) \/ UNCHANGED ticket
      BY <1>2 DEF Worker, StartMatchTimeout, CancelUnmatched, DropUnmatched, StartGraceEnd,
         AckGraceEnd, StartSessionTimeout, FinishSessionTimeout, EndChat, FinishChat, redisVars
    <2>5. QED
      BY <2>1, <2>2, <2>3, <2>4
  <1>3. ASSUME NEW a \in Acceptor, Accept(a) \/ AcceptThrows(a)
        PROVE  /\ \A q \in Request : Progress(q)' /\ Quiet(q)
               /\ \A b \in Acceptor : Scheduling(b)'
               /\ UNCHANGED ticket
    <2>1. Accept(a)
      BY <1>3 DEF Calm, AcceptThrows
    <2>2. PICK r \in Request : r = target[a]
      BY <2>1, AcceptFrame
    <2>3. Progress(r)' /\ Quiet(r) /\ \A q \in Request : q # r => Alike(q)
      BY <2>1, <2>2, AcceptBooks
    <2>4. \A b \in Acceptor : Scheduling(b)'
      BY <2>1, <2>2, SchedulingByAccept
    <2>5. UNCHANGED ticket
      BY <2>1 DEF Accept, CheckVolunteer, ReadHash, Claim, Activate, CheckBlocks, Persist,
         CancelMatchTimeout, ScheduleAccepted, Unlock, redisVars
    <2>6. QED
      BY <2>3, <2>4, <2>5, AlikeBooks
  <1>4. ASSUME NEW a \in Acceptor, NEW r \in Request, TakeLock(a, r)
        PROVE  /\ \A q \in Request : Progress(q)' /\ Quiet(q)
               /\ \A b \in Acceptor : Scheduling(b)'
               /\ UNCHANGED ticket
    <2>1. /\ UNCHANGED <<cpc, found, db, problem, hash, job, closing, winners, ticket>>
          /\ apc' = [apc EXCEPT ![a] = "check"]
          /\ \A b \in Acceptor : b # a => target'[b] = target[b]
      BY <1>4 DEF TakeLock, Go, dbVars, Sound, TypeOK
    <2>2. \A q \in Request : Progress(q)' /\ Quiet(q)
      BY <2>1, AlikeBooks DEF Alike, Same
    <2>3. \A b \in Acceptor : Scheduling(b)'
      BY <2>1 DEF Scheduling, Sound, TypeOK
    <2>4. QED
      BY <2>1, <2>2, <2>3
  <1>5. CASE \/ \E r \in Request : WorkerCrash(r) \/ JobThrows(r) \/ PruneWaiting(r) \/ ExpireHash(r)
             \/ \E v \in Volunteer : GoOnline(v) \/ GoOffline(v) \/ ExpireLock(v)
             \/ UNCHANGED vars
    <2>1. UNCHANGED <<cpc, found, db, problem, hash, job, closing, winners, apc, target, ticket>>
      BY <1>5 DEF Calm, WorkerCrash, JobThrows, PruneWaiting, ExpireHash, GoOnline, GoOffline,
         ExpireLock, dbVars, redisVars, pcVars, vars
    <2>2. \A q \in Request : Progress(q)' /\ Quiet(q)
      BY <2>1, AlikeBooks DEF Alike, Same
    <2>3. \A b \in Acceptor : Scheduling(b)'
      BY <2>1 DEF Scheduling
    <2>4. QED
      BY <2>1, <2>2, <2>3
  <1>6. QED
    BY <1>1, <1>2, <1>3, <1>4, <1>5 DEF Next

-----------------------------------------------------------------------------
(* The seeker's tickets                                                    *)

LEMMA SettleScripts ==
  ASSUME NEW t \in TicketHash, NEW L \in Nat
  PROVE  /\ TryReserve(t, L).consumed = t.consumed
         /\ TryReserve(t, L).reserved = t.reserved + (IF CanReserve(t, L) THEN 1 ELSE 0)
         /\ t.reserved > 0 => /\ ReleaseReserved(t).reserved = t.reserved - 1
                              /\ ReleaseReserved(t).consumed = t.consumed
                              /\ ConsumeReserved(t).reserved = t.reserved - 1
                              /\ ConsumeReserved(t).consumed = t.consumed + 1
  <1>1. PICK d \in Nat, c \in Nat, r \in Nat : t = [daily |-> d, consumed |-> c, reserved |-> r]
    BY DEF TicketHash
  <1>2. WithDaily(t, L).reserved = r /\ WithDaily(t, L).consumed = c
        /\ WithDaily(t, L) = [daily |-> WithDaily(t, L).daily, consumed |-> c, reserved |-> r]
    BY <1>1 DEF WithDaily
  <1>3. TryReserve(t, L) = [daily |-> WithDaily(t, L).daily, consumed |-> c,
                            reserved |-> r + (IF CanReserve(t, L) THEN 1 ELSE 0)]
    BY <1>2 DEF TryReserve
  <1>4. r > 0 => ReleaseReserved(t) = [daily |-> d, consumed |-> c, reserved |-> r - 1]
    BY <1>1 DEF ReleaseReserved
  <1>5. r > 0 => ConsumeReserved(t) = [daily |-> d, consumed |-> c + 1, reserved |-> r - 1]
    <2>1. r > 0 => ConsumeReserved(t) = [[t EXCEPT !.reserved = r - 1] EXCEPT !.consumed = c + 1]
      BY <1>1 DEF ConsumeReserved
    <2>2. QED
      BY <1>1, <2>1
  <1>6. QED
    BY <1>1, <1>3, <1>4, <1>5

(* The two sets of a seeker, after a step that is quiet but for r. *)
LEMMA SetsAfter ==
  ASSUME NEW k \in Seeker, NEW r \in Request, \A q \in Request : q # r => Quiet(q)
  PROVE  /\ PayingOf(k)' \ {r} = PayingOf(k) \ {r}
         /\ UnspentOf(k)' \ {r} \subseteq UnspentOf(k) \ {r}
         /\ SeekerOf[r] # k => /\ PayingOf(k)' = PayingOf(k)
                               /\ UnspentOf(k)' \subseteq UnspentOf(k)
  BY DEF PayingOf, UnspentOf, RequestsOf, Quiet, Unspent, Owing

LEMMA UnspentPays ==
  ASSUME NEW k \in Seeker, IsFiniteSet(PayingOf(k))
  PROVE  /\ UnspentOf(k) \subseteq PayingOf(k)
         /\ IsFiniteSet(UnspentOf(k))
         /\ Cardinality(UnspentOf(k)) \in Nat /\ Cardinality(PayingOf(k)) \in Nat
  <1>1. UnspentOf(k) \subseteq PayingOf(k)
    BY DEF UnspentOf, PayingOf, Unspent
  <1>2. QED
    BY <1>1, FS_Subset, FS_CardinalityType

(* Nothing changed for k but that some request no longer owes. *)
LEMMA BookedQuiet ==
  ASSUME NEW k \in Seeker, Booked(k),
         PayingOf(k)' = PayingOf(k), UnspentOf(k)' \subseteq UnspentOf(k),
         ticket'[k].reserved = ticket[k].reserved, ticket'[k].consumed = ticket[k].consumed,
         ticket[k].reserved \in Nat
  PROVE  Booked(k)'
  <1>1. /\ IsFiniteSet(UnspentOf(k)) /\ Cardinality(UnspentOf(k)) \in Nat
    BY UnspentPays DEF Booked
  <1> DEFINE U == UnspentOf(k)'
  <1>2. IsFiniteSet(U) /\ Cardinality(U) <= Cardinality(UnspentOf(k)) /\ Cardinality(U) \in Nat
    <2>1. U \subseteq UnspentOf(k)
      OBVIOUS
    <2> HIDE DEF U
    <2>2. QED
      BY <1>1, <2>1, FS_Subset, FS_CardinalityType
  <1>3. Cardinality(U) <= ticket[k].reserved
    BY <1>1, <1>2 DEF Booked
  <1>4. QED
    BY <1>3 DEF Booked

LEMMA BookedReserve ==
  ASSUME Sound, NEW r \in Request, ReserveTicket(r), Progress(r),
         \A q \in Request : q # r => Quiet(q), NEW k \in Seeker, Booked(k)
  PROVE  Booked(k)'
  <1> DEFINE can == CanReserve(ticket[k], DailyLimit)
  <1>0. ticket \in [Seeker -> TicketHash] /\ DailyLimit \in Nat /\ SeekerOf[r] \in Seeker
    BY LifecycleConstants DEF Sound, TypeOK
  <1>1. ticket[k].reserved \in Nat /\ ticket[k].consumed \in Nat
    BY <1>0 DEF TicketHash
  <1>2. CASE SeekerOf[r] # k
    <2>1. ticket'[k] = ticket[k]
      BY <1>0, <1>2 DEF ReserveTicket
    <2>2. QED
      BY <1>1, <1>2, <2>1, SetsAfter, BookedQuiet
  <1>3. CASE SeekerOf[r] = k
    <2>1. /\ cpc[r] = "reserve" /\ problem'[r] = problem[r] /\ problem[r] = "absent"
          /\ cpc'[r] = IF can THEN "problem" ELSE "done"
          /\ ticket'[k] = TryReserve(ticket[k], DailyLimit)
          /\ job' = job
      BY <1>0, <1>3 DEF ReserveTicket, Step, Progress, dbVars, Sound, TypeOK
    <2>2. /\ ticket'[k].consumed = ticket[k].consumed
          /\ ticket'[k].reserved = ticket[k].reserved + (IF can THEN 1 ELSE 0)
      BY <1>0, <2>1, SettleScripts
    <2>3. r \notin PayingOf(k) /\ r \notin UnspentOf(k)
      BY <2>1 DEF PayingOf, UnspentOf, Unspent, Paying
    <2>4. CASE ~can
      <3>1. r \notin PayingOf(k)' /\ r \notin UnspentOf(k)'
        BY <2>1, <2>4 DEF PayingOf, UnspentOf, Unspent, Paying
      <3>2. PayingOf(k)' = PayingOf(k) /\ UnspentOf(k)' \subseteq UnspentOf(k)
        BY <2>3, <3>1, SetsAfter
      <3>3. ticket'[k].reserved = ticket[k].reserved
        BY <1>1, <2>2, <2>4
      <3>4. QED
        BY <1>1, <2>2, <3>2, <3>3, BookedQuiet
    <2>5. CASE can
      <3>1. r \in PayingOf(k)'
        BY <1>3, <2>1, <2>5 DEF PayingOf, RequestsOf, Paying
      <3>2. /\ PayingOf(k)' = PayingOf(k) \cup {r}
            /\ UnspentOf(k)' \subseteq UnspentOf(k) \cup {r}
        BY <2>3, <3>1, SetsAfter
      <3>3. /\ IsFiniteSet(PayingOf(k)) /\ IsFiniteSet(UnspentOf(k))
            /\ Cardinality(UnspentOf(k)) \in Nat /\ Cardinality(PayingOf(k)) \in Nat
        BY UnspentPays DEF Booked
      <3>4. /\ IsFiniteSet(PayingOf(k) \cup {r})
            /\ Cardinality(PayingOf(k) \cup {r}) = Cardinality(PayingOf(k)) + 1
            /\ IsFiniteSet(UnspentOf(k) \cup {r})
            /\ Cardinality(UnspentOf(k) \cup {r}) = Cardinality(UnspentOf(k)) + 1
        BY <2>3, <3>3, FS_AddElement
      <3> DEFINE P == PayingOf(k)' U == UnspentOf(k)'
      <3>5. /\ IsFiniteSet(P) /\ Cardinality(P) = Cardinality(PayingOf(k)) + 1
            /\ Cardinality(U) <= Cardinality(UnspentOf(k)) + 1 /\ Cardinality(U) \in Nat
        <4>1. P = PayingOf(k) \cup {r} /\ U \subseteq UnspentOf(k) \cup {r}
          BY <3>2
        <4> HIDE DEF P, U
        <4>2. QED
          BY <3>4, <4>1, FS_Subset, FS_CardinalityType
      <3>6. /\ ticket[k].reserved + ticket[k].consumed = Cardinality(PayingOf(k))
            /\ Cardinality(UnspentOf(k)) <= ticket[k].reserved
        BY DEF Booked
      <3> DEFINE res == ticket'[k].reserved con == ticket'[k].consumed
      <3>7. res = ticket[k].reserved + 1 /\ con = ticket[k].consumed
        BY <2>2, <2>5
      <3>8. res + con = Cardinality(P) /\ Cardinality(U) <= res
        <4> HIDE DEF res, con, P, U
        <4>1. QED
          BY <1>1, <3>3, <3>5, <3>6, <3>7
      <3>9. QED
        BY <3>5, <3>8 DEF Booked
    <2>6. QED
      BY <2>4, <2>5
  <1>4. QED
    BY <1>2, <1>3

(* A refund or a charge: r owed a reserved ticket and no longer does.      *)
LEMMA OwedReserved ==
  ASSUME NEW k \in Seeker, NEW r \in Request, Booked(k), r \in UnspentOf(k),
         ticket[k].reserved \in Nat,
         \A q \in Request : q # r => Quiet(q), r \notin UnspentOf(k)'
  PROVE  /\ ticket[k].reserved > 0
         /\ Cardinality(UnspentOf(k)') <= ticket[k].reserved - 1
  <1>1. IsFiniteSet(UnspentOf(k)) /\ Cardinality(UnspentOf(k)) \in Nat
    BY UnspentPays DEF Booked
  <1>2. /\ Cardinality(UnspentOf(k) \ {r}) = Cardinality(UnspentOf(k)) - 1
        /\ Cardinality(UnspentOf(k) \ {r}) \in Nat /\ IsFiniteSet(UnspentOf(k) \ {r})
    BY <1>1, FS_RemoveElement, FS_CardinalityType
  <1> DEFINE U == UnspentOf(k)'
  <1>3. Cardinality(U) <= Cardinality(UnspentOf(k) \ {r}) /\ Cardinality(U) \in Nat
    <2>1. U \subseteq UnspentOf(k) \ {r}
      BY SetsAfter
    <2> HIDE DEF U
    <2>2. QED
      BY <1>2, <2>1, FS_Subset, FS_CardinalityType
  <1>4. Cardinality(UnspentOf(k)) <= ticket[k].reserved
    BY DEF Booked
  <1> HIDE DEF U
  <1>5. ticket[k].reserved > 0 /\ Cardinality(U) <= ticket[k].reserved - 1
    BY <1>1, <1>2, <1>3, <1>4
  <1>6. QED
    BY <1>5 DEF U

LEMMA RefundState ==
  ASSUME Sound, NEW r \in Request, RefundUnmatched(r), Progress(r)
  PROVE  Unspent(r) /\ ~Paying(r)' /\ ~Unspent(r)'
  <1>1. /\ "match" \in JobName /\ "drop" \in JobState
        /\ job[r].match = "refund" /\ SetJob(r, "match", "drop") /\ UNCHANGED <<problem, cpc>>
    BY DEF RefundUnmatched, JobName, JobState, JobBusy, dbVars, pcVars
  <1>2. job'[r].match = "drop"
    BY <1>1, JobChange DEF Sound
  <1>3. Unspent(r)
    BY <1>1 DEF Progress, Unspent, Paying
  <1>4. ~Paying(r)'
    BY <1>1, <1>2 DEF Paying, Progress
  <1>5. QED
    BY <1>3, <1>4 DEF Unspent

LEMMA ChargeState ==
  ASSUME Sound, NEW r \in Request, Charge(r), Progress(r), ClaimProtocol
  PROVE  Unspent(r) /\ Paying(r)' /\ ~Unspent(r)'
  <1>1. /\ "grace" \in JobName /\ "ack" \in JobState
        /\ job[r].grace = "charge" /\ SetJob(r, "grace", "ack") /\ UNCHANGED <<problem, cpc>>
    BY DEF Charge, JobName, JobState, JobBusy, dbVars, pcVars
  <1>2. job'[r].grace = "ack" /\ job'[r].match = job[r].match
    BY <1>1, JobChange DEF Sound
  <1>3. Unspent(r)
    BY <1>1 DEF Progress, Unspent, Paying, ClaimProtocol, SessionPart, ConnectProgress
  <1>4. Paying(r)'
    BY <1>1, <1>2, <1>3 DEF Paying, Unspent
  <1>5. ~Unspent(r)'
    BY <1>2 DEF Unspent
  <1>6. QED
    BY <1>3, <1>4, <1>5

LEMMA BookedSettle ==
  ASSUME Sound, ClaimProtocol, NEW r \in Request, RefundUnmatched(r) \/ Charge(r), Progress(r),
         \A q \in Request : q # r => Quiet(q), NEW k \in Seeker, Booked(k)
  PROVE  Booked(k)'
  <1> DEFINE res == ticket'[k].reserved con == ticket'[k].consumed
             P == PayingOf(k)' U == UnspentOf(k)'
  <1>0. ticket \in [Seeker -> TicketHash] /\ SeekerOf[r] \in Seeker
    BY LifecycleConstants DEF Sound, TypeOK
  <1>1. ticket[k].reserved \in Nat /\ ticket[k].consumed \in Nat /\ ticket[k] \in TicketHash
    BY <1>0 DEF TicketHash
  <1>2. CASE SeekerOf[r] # k
    <2>1. ticket'[k] = ticket[k]
      BY <1>0, <1>2 DEF RefundUnmatched, Charge
    <2>2. QED
      BY <1>1, <1>2, <2>1, SetsAfter, BookedQuiet
  <1>3. CASE SeekerOf[r] = k
    <2>1. Unspent(r) /\ ~Unspent(r)'
      BY RefundState, ChargeState
    <2>2. r \in UnspentOf(k) /\ r \in PayingOf(k) /\ r \notin UnspentOf(k)'
      BY <1>3, <2>1 DEF UnspentOf, PayingOf, RequestsOf, Unspent
    <2>3. /\ ticket[k].reserved > 0
          /\ Cardinality(U) <= ticket[k].reserved - 1
      BY <1>1, <2>2, OwedReserved
    <2>4. /\ IsFiniteSet(PayingOf(k)) /\ Cardinality(PayingOf(k)) \in Nat
          /\ ticket[k].reserved + ticket[k].consumed = Cardinality(PayingOf(k))
      BY UnspentPays DEF Booked
    <2>5. CASE RefundUnmatched(r)
      <3>1. ticket'[k] = ReleaseReserved(ticket[k])
        BY <1>0, <1>3, <2>5 DEF RefundUnmatched
      <3>2. res = ticket[k].reserved - 1 /\ con = ticket[k].consumed
        BY <1>1, <2>3, <3>1, SettleScripts
      <3>3. r \notin PayingOf(k)'
        BY <2>5, RefundState DEF PayingOf
      <3>4. P = PayingOf(k) \ {r}
        BY <2>2, <3>3, SetsAfter
      <3>5. IsFiniteSet(P) /\ Cardinality(P) = Cardinality(PayingOf(k)) - 1
        <4> HIDE DEF P
        <4>1. QED
          BY <2>2, <2>4, <3>4, FS_RemoveElement
      <3>6. res + con = Cardinality(P) /\ Cardinality(U) <= res
        <4> HIDE DEF res, con, P, U
        <4>1. QED
          BY <1>1, <2>3, <2>4, <3>2, <3>5
      <3>7. QED
        BY <3>5, <3>6 DEF Booked
    <2>6. CASE Charge(r)
      <3>1. ticket'[k] = ConsumeReserved(ticket[k])
        BY <1>0, <1>3, <2>6 DEF Charge
      <3>2. res = ticket[k].reserved - 1 /\ con = ticket[k].consumed + 1
        BY <1>1, <2>3, <3>1, SettleScripts
      <3>3. r \in PayingOf(k)'
        BY <1>3, <2>6, ChargeState DEF PayingOf, RequestsOf
      <3>4. P = PayingOf(k)
        BY <2>2, <3>3, SetsAfter
      <3>5. res + con = Cardinality(P) /\ Cardinality(U) <= res /\ IsFiniteSet(P)
        <4> HIDE DEF res, con, P, U
        <4>1. QED
          BY <1>1, <2>3, <2>4, <3>2, <3>4
      <3>6. QED
        BY <3>5 DEF Booked
    <2>7. QED
      BY <2>5, <2>6
  <1>4. QED
    BY <1>2, <1>3

LEMMA BooksNext ==
  ASSUME Calm, Sound, ClaimProtocol, Books, [Next]_vars
  PROVE  Books'
  <1>1. /\ \A r \in Request : Progress(r)'
        /\ \A a \in Acceptor : Scheduling(a)'
        /\ \/ (\A q \in Request : Quiet(q)) /\ UNCHANGED ticket
           \/ \E r \in Request :
                /\ \A q \in Request : q # r => Quiet(q)
                /\ \/ ReserveTicket(r) \/ RefundUnmatched(r) \/ Charge(r)
    BY StepBooks DEF Books
  <1>2. ASSUME \A q \in Request : Quiet(q), UNCHANGED ticket, NEW k \in Seeker
        PROVE  Booked(k)'
    <2>1. PayingOf(k)' = PayingOf(k) /\ UnspentOf(k)' \subseteq UnspentOf(k)
      BY <1>2 DEF PayingOf, UnspentOf, RequestsOf, Quiet, Unspent, Owing
    <2>2. ticket[k].reserved \in Nat
      BY DEF Sound, TypeOK, TicketHash
    <2>3. QED
      BY <1>2, <2>1, <2>2, BookedQuiet DEF Books
  <1>3. ASSUME NEW r \in Request, \A q \in Request : q # r => Quiet(q),
               ReserveTicket(r) \/ RefundUnmatched(r) \/ Charge(r), NEW k \in Seeker
        PROVE  Booked(k)'
    BY <1>3, BookedReserve, BookedSettle DEF Books
  <1>4. QED
    BY <1>1, <1>2, <1>3 DEF Books

LEMMA BooksInit == Init => Books
  <1> SUFFICES ASSUME Init PROVE Books
    OBVIOUS
  <1>1. ASSUME NEW r \in Request PROVE Progress(r) /\ ~Paying(r)
    BY DEF Init, Progress, Paying, Active, NoRow, JobName
  <1>2. ASSUME NEW k \in Seeker PROVE Booked(k)
    <2>1. PayingOf(k) = {} /\ UnspentOf(k) = {}
      BY <1>1 DEF PayingOf, UnspentOf, RequestsOf, Unspent
    <2>2. ticket[k].reserved = 0 /\ ticket[k].consumed = 0
      BY DEF Init, EmptyKey
    <2>3. QED
      BY <2>1, <2>2, FS_EmptySet DEF Booked
  <1>3. ASSUME NEW a \in Acceptor PROVE Scheduling(a)
    BY DEF Init, Scheduling
  <1>4. QED
    BY <1>1, <1>2, <1>3 DEF Books

LEMMA BooksAlways ==
  ASSUME Calm
  PROVE  Spec => [](Sound /\ ClaimProtocol /\ Books)
  <1>1. Sound /\ ClaimProtocol /\ Books /\ [Next]_vars => Books'
    BY BooksNext
  <1>2. QED
    BY <1>1, BooksInit, ClaimsHold, PTL DEF Spec

(* Nobody talks for free and nobody pays for a session without a listener: *)
(* however connects, accepts, jobs and chats interleave, tickets and       *)
(* sessions agree in both directions.                                      *)
THEOREM ChargesAreRightHolds ==
  ASSUME Calm
  PROVE  Spec => []ChargesAreRight
  <1>1. ASSUME Sound, ClaimProtocol, Books, NEW k \in Seeker
        PROVE  /\ Cardinality({r \in RequestsOf(k) : Active(r)}) <= ticket[k].reserved + ticket[k].consumed
               /\ ticket[k].consumed <=
                    Cardinality({r \in RequestsOf(k) :
                       winners[r] # {} \/ (found[r] # None /\ problem[r] = "matched")})
    <2> DEFINE P == PayingOf(k) U == UnspentOf(k)
               A == {r \in RequestsOf(k) : Active(r)}
               M == {r \in RequestsOf(k) :
                       winners[r] # {} \/ (found[r] # None /\ problem[r] = "matched")}
    <2>0. RequestsOf(k) \subseteq Request
      BY DEF RequestsOf
    <2>1. A \subseteq P
      BY <1>1, <2>0 DEF Books, Progress, PayingOf, Paying
    <2>2. P \ U \subseteq M
      BY <1>1, <2>0 DEF Books, Progress, PayingOf, UnspentOf, Unspent
    <2>3. M \subseteq P
      <3>1. ASSUME NEW r \in Request, winners[r] # {} PROVE db[r].listener # None
        BY <1>1, <3>1 DEF ClaimProtocol, SessionPart, WinnerIsListener
      <3>2. ASSUME NEW r \in Request, db[r].listener # None PROVE problem[r] # "absent" /\ problem[r] # "expired"
        BY <1>1, <3>2 DEF Books, Progress, ClaimProtocol, SessionPart, ConnectProgress
      <3>3. QED
        BY <2>0, <3>1, <3>2 DEF PayingOf, Paying
    <2>4. /\ IsFiniteSet(P) /\ Cardinality(P) \in Nat
          /\ U \subseteq P /\ Cardinality(U) \in Nat /\ IsFiniteSet(U)
          /\ ticket[k].reserved + ticket[k].consumed = Cardinality(P)
          /\ Cardinality(U) <= ticket[k].reserved
      BY <1>1, UnspentPays DEF Books, Booked
    <2>5. ticket[k].reserved \in Nat /\ ticket[k].consumed \in Nat
      BY <1>1 DEF Sound, TypeOK, TicketHash
    <2> HIDE DEF P, U, A, M
    <2>6. Cardinality(A) <= Cardinality(P)
      BY <2>1, <2>4, FS_Subset
    <2>7. IsFiniteSet(M) /\ Cardinality(M) \in Nat /\ Cardinality(P \ U) <= Cardinality(M)
      BY <2>2, <2>3, <2>4, FS_Subset, FS_CardinalityType
    <2>8. Cardinality(P \ U) = Cardinality(P) - Cardinality(U)
      <3>1. P \cap U = U
        BY <2>4
      <3>2. QED
        BY <2>4, <3>1, FS_Difference
    <2>9. Cardinality(A) <= ticket[k].reserved + ticket[k].consumed /\ ticket[k].consumed <= Cardinality(M)
      BY <2>4, <2>5, <2>6, <2>7, <2>8
    <2>10. QED
      BY <2>9 DEF A, M
  <1>2. Sound /\ ClaimProtocol /\ Books => ChargesAreRight
    BY <1>1 DEF ChargesAreRight, RunningIsPaid, ChargedForMatched
  <1>3. QED
    BY <1>2, BooksAlways, PTL

-----------------------------------------------------------------------------
(* When all sessions are over                                              *)

(* A request whose row, problem, place and two charging jobs are left      *)
(* alone.                                                                  *)
LEMMA EndsKept ==
  ASSUME NEW q \in Request, Ends(q), Alike(q)
  PROVE  Ends(q)'
  BY DEF Ends, Alike, Same, Active

LEMMA EndsByConnect ==
  ASSUME Calm, Sound, ClaimProtocol, NEW r \in Request, Progress(r), Ends(r),
         CheckKey(r) \/ Connect(r)
  PROVE  Ends(r)'
  <1> USE DEF Sound, TypeOK, Step
  <1>1. ConnectProgress(r) /\ ~Rollback(r) /\ ~RefundFailed(r)
    BY DEF ClaimProtocol, SessionPart, ConnectProgress, Undo, Rollback, RefundFailed
  <1>2. CASE CheckKey(r) \/ CheckActive(r) \/ ReserveTicket(r) \/ StoreAnswer(r)
    <2>1. /\ UNCHANGED <<db, problem, job>>
          /\ \/ cpc[r] \in {"idle", "check", "reserve"} /\ cpc'[r] \in {"check", "reserve", "problem", "done"}
             \/ cpc[r] = "key" /\ cpc'[r] = "done"
      BY <1>2 DEF CheckKey, CheckActive, StoreAnswer, ReserveTicket, dbVars
    <2>2. QED
      BY <2>1 DEF Ends, Progress, Active
  <1>3. CASE CreateProblem(r) \/ FindVolunteer(r)
    <2>1. /\ UNCHANGED <<db, job>> /\ cpc'[r] \in {"match", "createA", "createB"}
          /\ db[r].listener = None /\ db[r].status = "absent"
      BY <1>1, <1>3 DEF CreateProblem, FindVolunteer, dbVars, ConnectProgress, BeforeRow
    <2>2. QED
      BY <2>1 DEF Ends, Terminal
  <1>4. CASE CreateMatched(r) \/ CreateWaiting(r)
    <2>1. /\ UNCHANGED job /\ Active(r)' /\ job[r].timeout = "none"
      BY <1>1, <1>4 DEF CreateMatched, CreateWaiting, Active, ConnectProgress, BeforeRow, Untouched
    <2>2. QED
      BY <2>1 DEF Ends, Active, Terminal
  <1>5. CASE StoreActiveHash(r) \/ PublishWaiting(r)
    <2>1. /\ UNCHANGED <<db, problem, job>> /\ Active(r)
          /\ cpc'[r] \in {"jobsA", "jobB"}
      BY <1>1, <1>5 DEF StoreActiveHash, PublishWaiting, dbVars, ConnectProgress, Unmatched
    <2>2. QED
      BY <2>1 DEF Ends, Active
  <1>6. CASE ScheduleMatched(r)
    <2>1. /\ UNCHANGED <<db, problem>> /\ cpc'[r] = "key" /\ Active(r)
          /\ ScheduleSessionJobs(r)
      BY <1>1, <1>6 DEF ScheduleMatched, dbVars, ConnectProgress
    <2>2. job'[r].grace # "none"
      BY <2>1, JobsScheduled DEF Added
    <2>3. QED
      BY <2>1, <2>2 DEF Ends, Active, Terminal
  <1>7. CASE ScheduleMatchTimeout(r)
    <2>1. /\ UNCHANGED <<db, problem>> /\ cpc[r] = "jobB" /\ cpc'[r] = "key"
          /\ SetJob(r, "match", Added(job[r].match))
      BY <1>7 DEF ScheduleMatchTimeout, dbVars
    <2>2. "match" \in JobName /\ Added(job[r].match) \in JobState
      BY DEF Added, JobName, JobState, JobIdle
    <2>3. job'[r].grace = job[r].grace /\ job'[r].timeout = job[r].timeout
      BY <2>1, <2>2, JobChange
    <2>4. QED
      BY <2>1, <2>3 DEF Ends, Active
  <1>8. QED
    BY <1>1, <1>2, <1>3, <1>4, <1>5, <1>6, <1>7 DEF Connect

LEMMA EndsByWorker ==
  ASSUME Calm, Sound, ClaimProtocol, NEW r \in Request,
         Progress(r), Ends(r), Worker(r) \/ EndChat(r) \/ FinishChat(r)
  PROVE  Ends(r)'
  <1> USE DEF Sound, TypeOK
  <1>1. UNCHANGED cpc
    BY DEF Worker, StartMatchTimeout, CancelUnmatched, RefundUnmatched,
       DropUnmatched, StartGraceEnd, Charge, AckGraceEnd, StartSessionTimeout,
       FinishSessionTimeout, EndChat, FinishChat, pcVars
  <1>2. CASE FinishChat(r)
    BY <1>1, <1>2 DEF FinishChat, Ends, Active, dbVars
  <1>3. CASE EndChat(r)
    <2>1. PICK st \in {"completed", "cancelled_disconnect"} :
                 db' = [db EXCEPT ![r] = [db[r] EXCEPT !.status = st]]
      BY <1>3 DEF EndChat
    <2>2. db[r] \in Row
      OBVIOUS
    <2>3. /\ db'[r].status = st /\ db'[r].listener = db[r].listener /\ db[r].listener # None
          /\ UNCHANGED problem
      BY <1>3, <2>1, <2>2 DEF Row, EndChat, Told
    <2>4. QED
      BY <1>1, <2>3 DEF Ends, Active
  <1>4. CASE StartMatchTimeout(r) \/ RefundUnmatched(r) \/ DropUnmatched(r)
             \/ (CancelUnmatched(r) /\ ~Unmatched(r))
    <2>1. PICK s \in {"cancel", "done", "drop"} : SetJob(r, "match", s) /\ UNCHANGED <<db, problem>>
      BY <1>4 DEF StartMatchTimeout, RefundUnmatched, DropUnmatched, CancelUnmatched, dbVars
    <2>2. "match" \in JobName /\ s \in JobState
      BY DEF JobName, JobState, JobIdle, JobBusy
    <2>3. job'[r].timeout = job[r].timeout /\ job'[r].grace = job[r].grace
      BY <2>1, <2>2, JobChange
    <2>4. QED
      BY <1>1, <2>1, <2>3 DEF Ends, Active
  <1>5. CASE CancelUnmatched(r) /\ Unmatched(r)
    <2>1. /\ SetJob(r, "match", "refund") /\ problem'[r] = "expired"
          /\ db' = [db EXCEPT ![r] = [db[r] EXCEPT !.status = "cancelled_timeout"]]
      BY <1>5 DEF CancelUnmatched
    <2>2. "match" \in JobName /\ "refund" \in JobState /\ db[r] \in Row
      BY DEF JobName, JobState, JobBusy
    <2>3. /\ job'[r].timeout = job[r].timeout /\ job'[r].grace = job[r].grace
          /\ db'[r].status = "cancelled_timeout" /\ db'[r].listener = None
      BY <1>5, <2>1, <2>2, JobChange DEF Row, Unmatched
    <2>4. QED
      BY <1>1, <2>1, <2>3 DEF Ends
  <1>6. CASE StartGraceEnd(r) \/ Charge(r) \/ AckGraceEnd(r)
    <2>1. PICK s \in {"charge", "done", "ack"} :
            /\ SetJob(r, "grace", s) /\ UNCHANGED <<db, problem>>
            /\ s = "charge" => Active(r)
      BY <1>6 DEF StartGraceEnd, Charge, AckGraceEnd, dbVars
    <2>2. "grace" \in JobName /\ s \in JobState
      BY DEF JobName, JobState, JobIdle, JobBusy
    <2>3. job'[r].timeout = job[r].timeout /\ job'[r].grace = s
      BY <2>1, <2>2, JobChange
    <2>4. QED
      BY <1>1, <2>1, <2>3 DEF Ends, Active
  <1>7. CASE StartSessionTimeout(r) \/ FinishSessionTimeout(r)
    <2>1. UNCHANGED problem /\ db[r].listener # None
      BY <1>7 DEF StartSessionTimeout, FinishSessionTimeout, ClaimProtocol, SessionPart,
         MatchedLeftWaiting, dbVars
    <2>2. CASE FinishSessionTimeout(r)
      BY <1>1, <2>1, <2>2 DEF FinishSessionTimeout, Ends, Active, dbVars
    <2>3. CASE StartSessionTimeout(r)
      <3>1. db' = [db EXCEPT ![r] = [db[r] EXCEPT !.status =
                     IF db[r].status = "active" THEN "completed" ELSE db[r].status]]
        BY <2>3 DEF StartSessionTimeout
      <3>2. db[r] \in Row
        OBVIOUS
      <3>3. /\ db'[r].listener = db[r].listener
            /\ db[r].status # "absent" => db'[r].status # "absent"
        BY <3>1, <3>2 DEF Row
      <3>4. QED
        BY <1>1, <2>1, <3>3 DEF Ends
    <2>4. QED
      BY <1>7, <2>2, <2>3
  <1>8. QED
    BY <1>2, <1>3, <1>4, <1>5, <1>6, <1>7 DEF Worker

LEMMA EndsByAccept ==
  ASSUME Calm, Sound, ClaimProtocol, NEW a \in Acceptor, NEW r \in Request,
         target[a] = r, Accept(a), Progress(r), Scheduling(a), Ends(r)
  PROVE  Ends(r)'
  <1> USE DEF Sound, TypeOK
  <1>1. UNCHANGED <<cpc, problem>>
    BY AcceptFrame
  <1>2. CASE CancelMatchTimeout(a)
    <2>1. "match" \in JobName /\ Removed(job[r].match) \in JobState
      BY DEF Removed, JobName, JobState, JobIdle
    <2>2. SetJob(r, "match", Removed(job[r].match)) /\ UNCHANGED db
      BY <1>2 DEF CancelMatchTimeout, Calm, dbVars
    <2>3. job'[r].timeout = job[r].timeout /\ job'[r].grace = job[r].grace
      BY <2>1, <2>2, JobChange
    <2>4. QED
      BY <1>1, <2>2, <2>3 DEF Ends, Active
  <1>3. CASE ScheduleAccepted(a)
    BY <1>1, <1>3 DEF ScheduleAccepted, Calm, dbVars, Ends
  <1>4. CASE Persist(a)
    <2>1. UNCHANGED job /\ (UNCHANGED db \/ (Active(r)' /\ db'[r].listener # None))
      BY <1>4, LifecycleConstants DEF Persist, Active
    <2>2. QED
      BY <1>1, <2>1 DEF Ends, Active, Terminal
  <1>5. CASE CheckVolunteer(a) \/ ReadHash(a) \/ Claim(a) \/ Activate(a)
             \/ CheckBlocks(a) \/ Unlock(a)
    <2>1. UNCHANGED <<db, job>>
      BY <1>5 DEF CheckVolunteer, ReadHash, Claim, Activate, CheckBlocks, Unlock, dbVars
    <2>2. QED
      BY <1>1, <2>1 DEF Ends, Active
  <1>6. QED
    BY <1>2, <1>3, <1>4, <1>5 DEF Accept

LEMMA EndsNext ==
  ASSUME Calm, Sound, ClaimProtocol, Books,
         \A q \in Request : Ends(q), [Next]_vars
  PROVE  \A q \in Request : Ends(q)'
  <1> USE DEF Books
  <1>1. ASSUME NEW r \in Request, CheckKey(r) \/ Connect(r) \/ ConnectThrows(r)
        PROVE  \A q \in Request : Ends(q)'
    <2>1. CheckKey(r) \/ Connect(r)
      BY <1>1 DEF Calm, ConnectThrows
    <2>2. QED
      BY <2>1, EndsByConnect, ConnectBooks, EndsKept
  <1>2. ASSUME NEW r \in Request, Worker(r) \/ EndChat(r) \/ FinishChat(r)
        PROVE  \A q \in Request : Ends(q)'
    BY <1>2, EndsByWorker, WorkerBooks, EndsKept
  <1>3. ASSUME NEW a \in Acceptor, Accept(a) \/ AcceptThrows(a)
        PROVE  \A q \in Request : Ends(q)'
    <2>1. Accept(a)
      BY <1>3 DEF Calm, AcceptThrows
    <2>2. PICK r \in Request : r = target[a]
      BY <2>1, AcceptFrame
    <2>3. \A q \in Request : q # r => Alike(q)
      BY <2>1, <2>2, AcceptBooks
    <2>4. Ends(r)'
      BY <2>1, <2>2, EndsByAccept
    <2>5. QED
      BY <2>3, <2>4, EndsKept
  <1>4. CASE \/ \E r \in Request : WorkerCrash(r) \/ JobThrows(r) \/ PruneWaiting(r) \/ ExpireHash(r)
             \/ \E v \in Volunteer : GoOnline(v) \/ GoOffline(v) \/ ExpireLock(v)
             \/ \E a \in Acceptor, r \in Request : TakeLock(a, r)
             \/ UNCHANGED vars
    <2>1. UNCHANGED <<db, problem, job, cpc>>
      BY <1>4 DEF Calm, WorkerCrash, JobThrows, PruneWaiting, ExpireHash, GoOnline, GoOffline,
         ExpireLock, TakeLock, dbVars, pcVars, vars
    <2>2. QED
      BY <2>1 DEF Ends, Active
  <1>5. QED
    BY <1>1, <1>2, <1>3, <1>4 DEF Next

(* What a step adds to the charges: nothing, or the session that Charge    *)
(* charges.                                                                *)
LEMMA ChargedBy ==
  ASSUME Sound, ClaimProtocol, [CrossNext]_crossVars, NEW r \in Request,
         \A q \in Request : q # r => Quiet(q),
         ReserveTicket(r) \/ RefundUnmatched(r) \/ Charge(r) \/ Quiet(r)
  PROVE  charged' = IF Charge(r) THEN charged \cup {r} ELSE charged
  <1>0. charged' = charged \cup {q \in Request : job[q].grace = "charge"
                                                 /\ job'[q].grace = "ack"}
    BY CrossStep
  <1>1. ASSUME NEW q \in Request, Quiet(q), job[q].grace = "charge" PROVE job'[q].grace # "ack"
    BY <1>1 DEF Quiet, Owing
  <1>2. CASE Charge(r)
    <2>1. "grace" \in JobName /\ "ack" \in JobState
      BY DEF JobName, JobState, JobBusy
    <2>2. job[r].grace = "charge" /\ job'[r].grace = "ack"
      BY <1>2, <2>1, JobChange DEF Charge, Sound
    <2>3. QED
      BY <1>0, <1>1, <1>2, <2>2
  <1>3. CASE ReserveTicket(r) \/ RefundUnmatched(r)
    <2>1. "match" \in JobName /\ "drop" \in JobState
      BY DEF JobName, JobState, JobBusy
    <2>2. job'[r].grace = job[r].grace
      BY <1>3, <2>1, JobChange DEF ReserveTicket, RefundUnmatched, Sound
    <2>3. ~Charge(r)
      BY <2>1, <2>2, JobChange DEF Charge, Sound, JobName, JobState, JobBusy
    <2>4. QED
      BY <1>0, <1>1, <2>2, <2>3
  <1>4. CASE Quiet(r)
    <2>1. ~Charge(r)
      BY <1>1, <1>4, JobChange DEF Charge, Sound, JobName, JobState, JobBusy
    <2>2. QED
      BY <1>0, <1>1, <1>4, <2>1
  <1>5. QED
    BY <1>2, <1>3, <1>4

(* A charged session has a listener, and as many tickets are consumed as   *)
(* a seeker has of them.                                                   *)
LEMMA ChargedPays ==
  ASSUME Sound, ClaimProtocol, Books, ChargesKnown, NEW k \in Seeker
  PROVE  /\ \A r \in ChargedOf(k) : db[r].listener # None /\ problem[r] \notin {"absent", "expired"}
         /\ ChargedOf(k) \subseteq PayingOf(k)
         /\ IsFiniteSet(ChargedOf(k)) /\ Cardinality(ChargedOf(k)) \in Nat
  <1>1. ASSUME NEW r \in ChargedOf(k)
        PROVE  /\ r \in Request /\ db[r].listener # None
               /\ problem[r] \notin {"absent", "expired"}
    <2>1. r \in Request /\ job[r].grace # "none"
      BY <1>1 DEF ChargedOf, RequestsOf, ChargesKnown, Owing
    <2>2. Progress(r) /\ ConnectProgress(r)
      BY <2>1 DEF Books, ClaimProtocol, SessionPart
    <2>3. QED
      BY <2>1, <2>2 DEF Progress, ConnectProgress
  <1>2. ChargedOf(k) \subseteq PayingOf(k)
    BY <1>1 DEF PayingOf, Paying, ChargedOf
  <1>3. QED
    BY <1>1, <1>2, FS_Subset, FS_CardinalityType DEF Books, Booked

LEMMA ChargesNext ==
  ASSUME Calm, Sound, ClaimProtocol, Books, ChargesKnown, [CrossNext]_crossVars
  PROVE  ChargesKnown'
  <1>0. [Next]_vars
    BY CrossStep
  <1>1. \A q \in Request : Ends(q)'
    BY <1>0, EndsNext DEF ChargesKnown
  <1>2. \/ (\A q \in Request : Quiet(q)) /\ UNCHANGED ticket
        \/ \E r \in Request :
             /\ \A q \in Request : q # r => Quiet(q)
             /\ \/ ReserveTicket(r) \/ RefundUnmatched(r) \/ Charge(r)
    BY <1>0, StepBooks DEF Books
  <1>3. ASSUME NEW q \in Request, Quiet(q), q \in charged PROVE job'[q].grace \notin Owing
    BY <1>3 DEF ChargesKnown, Quiet
  <1>4. CASE (\A q \in Request : Quiet(q)) /\ UNCHANGED ticket
    <2>1. charged' = charged
      <3>1. charged' = charged \cup {q \in Request : job[q].grace = "charge"
                                                     /\ job'[q].grace = "ack"}
        BY CrossStep
      <3>2. QED
        BY <1>4, <3>1 DEF Quiet, Owing
    <2>2. QED
      BY <1>1, <1>3, <1>4, <2>1 DEF ChargesKnown, ChargedOf, RequestsOf
  <1>5. ASSUME NEW r \in Request, \A q \in Request : q # r => Quiet(q),
               ReserveTicket(r) \/ RefundUnmatched(r) \/ Charge(r)
        PROVE  ChargesKnown'
    <2>1. charged' = IF Charge(r) THEN charged \cup {r} ELSE charged
      BY <1>5, ChargedBy
    <2>2. /\ ticket \in [Seeker -> TicketHash] /\ SeekerOf[r] \in Seeker /\ DailyLimit \in Nat
          /\ Progress(r)
      BY LifecycleConstants DEF Sound, TypeOK, Books
    <2>3. \A q \in Request : q \in charged' => job'[q].grace \notin Owing
      <3>1. CASE Charge(r)
        <4>1. "grace" \in JobName /\ "ack" \in JobState
          BY DEF JobName, JobState, JobBusy
        <4>2. job'[r].grace = "ack"
          BY <3>1, <4>1, JobChange DEF Charge, Sound
        <4>3. QED
          BY <1>3, <1>5, <2>1, <4>2 DEF Owing
      <3>2. CASE ReserveTicket(r) \/ RefundUnmatched(r)
        <4>1. "match" \in JobName /\ "drop" \in JobState
          BY DEF JobName, JobState, JobBusy
        <4>2. job'[r].grace = job[r].grace
          BY <3>2, <4>1, JobChange DEF ReserveTicket, RefundUnmatched, Sound
        <4>3. ~Charge(r)
          BY <4>1, <4>2, JobChange DEF Charge, Sound, JobName, JobState, JobBusy
        <4>4. QED
          BY <1>3, <1>5, <2>1, <4>2, <4>3 DEF ChargesKnown
      <3>3. QED
        BY <1>5, <3>1, <3>2
    <2>4. ASSUME NEW k \in Seeker PROVE ticket'[k].consumed = Cardinality(ChargedOf(k)')
      <3> DEFINE t == ticket[k] C == ChargedOf(k)'
      <3>1. t \in TicketHash /\ t.consumed = Cardinality(ChargedOf(k)) /\ t.consumed \in Nat
        BY <2>2 DEF TicketHash, ChargesKnown
      <3>2. CASE SeekerOf[r] # k
        <4>1. ticket'[k] = t
          BY <1>5, <2>2, <3>2 DEF ReserveTicket, RefundUnmatched, Charge
        <4>2. ChargedOf(k)' = ChargedOf(k)
          BY <2>1, <3>2 DEF ChargedOf, RequestsOf
        <4>3. QED
          BY <3>1, <4>1, <4>2
      <3>3. CASE SeekerOf[r] = k /\ Charge(r)
        <4>1. r \notin ChargedOf(k) /\ Unspent(r) /\ ~Unspent(r)'
          BY <2>2, <3>3, ChargeState DEF ChargedOf, ChargesKnown, Owing, Charge
        <4>2. ChargedOf(k)' = ChargedOf(k) \cup {r}
          BY <2>1, <3>3 DEF ChargedOf, RequestsOf
        <4>3. r \in UnspentOf(k) /\ r \notin UnspentOf(k)'
          BY <3>3, <4>1 DEF UnspentOf, RequestsOf
        <4>4. t.reserved > 0
          BY <1>5, <3>1, <4>3, OwedReserved DEF Books, TicketHash
        <4>5. ticket'[k] = ConsumeReserved(t)
          BY <2>2, <3>3 DEF Charge
        <4>6. ticket'[k].consumed = t.consumed + 1
          BY <2>2, <3>1, <4>4, <4>5, SettleScripts
        <4>7. Cardinality(ChargedOf(k) \cup {r}) = Cardinality(ChargedOf(k)) + 1
          BY <4>1, ChargedPays, FS_AddElement
        <4>8. QED
          BY <3>1, <4>2, <4>6, <4>7
      <3>4. CASE SeekerOf[r] = k /\ RefundUnmatched(r)
        <4>1. r \in UnspentOf(k) /\ r \notin UnspentOf(k)'
          BY <2>2, <3>4, RefundState DEF UnspentOf, RequestsOf
        <4>2. t.reserved > 0
          BY <1>5, <3>1, <4>1, OwedReserved DEF Books, TicketHash
        <4>3. ticket'[k] = ReleaseReserved(t)
          BY <2>2, <3>4 DEF RefundUnmatched
        <4>4. ticket'[k].consumed = t.consumed
          BY <2>2, <3>1, <4>2, <4>3, SettleScripts
        <4>5. job[r].match = "refund" /\ ~Charge(r)
          BY <3>4, JobChange DEF RefundUnmatched, Charge, Sound, JobName, JobState, JobBusy
        <4>6. ChargedOf(k)' = ChargedOf(k)
          BY <2>1, <4>5 DEF ChargedOf, RequestsOf
        <4>7. QED
          BY <3>1, <4>4, <4>6
      <3>5. CASE SeekerOf[r] = k /\ ReserveTicket(r)
        <4>1. ticket'[k] = TryReserve(t, DailyLimit) /\ job' = job
          BY <2>2, <3>5 DEF ReserveTicket
        <4>2. ticket'[k].consumed = t.consumed
          BY <2>2, <3>1, <4>1, SettleScripts
        <4>3. ~Charge(r)
          BY <4>1, JobChange DEF Charge, Sound, JobName, JobState, JobBusy
        <4>4. ChargedOf(k)' = ChargedOf(k)
          BY <2>1, <4>3 DEF ChargedOf, RequestsOf
        <4>5. QED
          BY <3>1, <4>2, <4>4
      <3>6. QED
        BY <1>5, <3>2, <3>3, <3>4, <3>5
    <2>5. QED
      BY <1>1, <2>3, <2>4 DEF ChargesKnown
  <1>6. QED
    BY <1>2, <1>4, <1>5

(* backend/README.md:954: when a seeker's sessions are over and their jobs *)
(* have run, the tickets consumed are those of the sessions grace-end      *)
(* charged and the tickets still reserved those of the matched sessions it *)
(* did not find running; no refund and no charge is lost or made twice.    *)
THEOREM TicketsAccountedHolds ==
  ASSUME Calm
  PROVE  CrossSpec => []TicketsAccounted
  <1>1. CrossInit => ChargesKnown
    <2> SUFFICES ASSUME CrossInit PROVE ChargesKnown
      OBVIOUS
    <2>1. ASSUME NEW r \in Request PROVE Ends(r) /\ r \notin charged
      BY DEF CrossInit, Init, Ends, NoRow, Terminal
    <2>2. ASSUME NEW k \in Seeker PROVE ticket[k].consumed = Cardinality(ChargedOf(k))
      <3>1. ChargedOf(k) = {}
        BY <2>1 DEF ChargedOf, RequestsOf
      <3>2. QED
        BY <3>1, FS_EmptySet DEF CrossInit, Init, EmptyKey
    <2>3. QED
      BY <2>1, <2>2 DEF ChargesKnown
  <1>2. Sound /\ ClaimProtocol /\ Books /\ ChargesKnown /\ [CrossNext]_crossVars => ChargesKnown'
    BY ChargesNext
  <1>3. Sound /\ ClaimProtocol /\ Books /\ ChargesKnown => TicketsAccounted
    <2> SUFFICES ASSUME Sound, ClaimProtocol, Books, ChargesKnown, NEW k \in Seeker,
                        \A r \in RequestsOf(k) : Settled(r)
                 PROVE  /\ ticket[k].consumed = Cardinality(ChargedOf(k))
                        /\ ticket[k].reserved =
                             Cardinality({r \in RequestsOf(k) :
                                            db[r].listener # None /\ r \notin charged})
      BY DEF TicketsAccounted
    <2> DEFINE P == PayingOf(k) C == ChargedOf(k)
               M == {r \in RequestsOf(k) : db[r].listener # None /\ r \notin charged}
    <2>1. ASSUME NEW r \in RequestsOf(k) PROVE Paying(r) <=> db[r].listener # None
      <3>1. /\ r \in Request /\ Settled(r) /\ Progress(r) /\ Ends(r) /\ ConnectProgress(r)
        BY <2>1 DEF RequestsOf, Books, ChargesKnown, ClaimProtocol, SessionPart
      <3>2. /\ cpc[r] \in {"idle", "done"} /\ ~Active(r)
            /\ job[r].match \in {"none", "done", "failed"}
        BY <3>1 DEF Settled, InFlight, JobName
      <3>3. db[r].status \in {"absent", "active"} \cup Terminal
        BY <3>1 DEF Sound, TypeOK, Row
      <3>4. db[r].listener # None => problem[r] \notin {"absent", "expired"}
        BY <3>1 DEF Progress, ConnectProgress
      <3>5. Paying(r) => problem[r] \notin {"absent", "expired"} /\ db[r].status \in Terminal
        BY <3>1, <3>2, <3>3 DEF Paying, Progress, Ends, Active
      <3>6. QED
        BY <3>1, <3>4, <3>5 DEF Paying, Ends
    <2>2. M = P \ C /\ C \subseteq P
      BY <2>1, ChargedPays DEF PayingOf, ChargedOf
    <2>3. /\ IsFiniteSet(P) /\ IsFiniteSet(C) /\ Cardinality(C) \in Nat /\ Cardinality(P) \in Nat
          /\ ticket[k].reserved + ticket[k].consumed = Cardinality(P)
          /\ ticket[k].consumed = Cardinality(C)
      BY ChargedPays, FS_CardinalityType DEF Books, Booked, ChargesKnown
    <2>4. ticket[k].reserved \in Nat
      BY DEF Sound, TypeOK, TicketHash
    <2> HIDE DEF P, C, M
    <2>5. Cardinality(P \ C) = Cardinality(P) - Cardinality(C)
      <3>1. P \cap C = C
        BY <2>2
      <3>2. IsFiniteSet(P)
        BY <2>3
      <3>3. Cardinality(P \ C) = Cardinality(P) - Cardinality(P \cap C)
        BY <3>2, FS_Difference
      <3>4. QED
        BY <3>1, <3>3
    <2>6. ticket[k].reserved = Cardinality(M)
      BY <2>2, <2>3, <2>4, <2>5
    <2>7. QED
      BY <2>3, <2>6 DEF C, M
  <1>4. QED
    BY <1>1, <1>2, <1>3, BooksAlways, CrossIsSpec, PTL DEF CrossSpec

=============================================================================
