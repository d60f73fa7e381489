----------------------------- MODULE ChatPresence ------------------------------
(***************************************************************************)
(* Who is connected, who can be matched, and how a chat ends: the socket   *)
(* handlers of ChatGateway (connect, disconnect, session:request,          *)
(* room:join, session:end), ChatService, and the two chat queues           *)
(* reconnect-expire (60 s) and session-timeout (30 min).                   *)
(*                                                                         *)
(* A handler is a sequence of awaits; an action is what runs between two   *)
(* of them.  A session has the name of the request that opened it.         *)
(* Sockets, requests and problems are numbered in the order of their use.  *)
(***************************************************************************)
EXTENDS Naturals, FiniteSets, Functions

CONSTANTS
  Volunteer, Seeker,  \* accounts
  Socket, Owner,      \* sockets and the account that opens each
  Request, SeekerOf,  \* requests for a session and who makes them
  Problem, PosedBy,   \* problems and the seeker of each
  Steady,             \* bound: sockets that are not lost by themselves
  MishapBound,        \* bound: kinds of mishap in one behaviour, each happens once
  Allow,              \* the mishaps that may happen
  None                \* no account, no socket, no session

(* overlap: an account connects while its previous socket is live or its   *)
(*   disconnect handler has not finished.                                  *)
(* early_drop: a socket drops while its own connect or join is handled.    *)
(* late_drop: a disconnect is handled while a session of the account is    *)
(*   torn down or a failed request gives its volunteer back.               *)
(* late_match: a volunteer is taken for a session while a connect handler, *)
(*   a teardown or a failed request is putting him back into the pool.     *)
(* early_rematch: a party joins the next session before the last one is    *)
(*   torn down.                                                            *)
(* late_join: a session ends while a party's join is handled.              *)
(* job_race: a job to be removed is already running.                       *)
(* toggle: a volunteer changes isAvailable.                                *)
(* accept: a volunteer takes a session from the waiting list.              *)
(* never_joined: session:timeout is first to end a session, which nobody   *)
(*   joined, or somebody so late that its 30 minutes are not over.         *)
(* stale_timeout: session:timeout of an old session runs during the next.  *)
(* double_request: a seeker asks while another request of hers is handled. *)
Mishap == {"overlap", "early_drop", "late_drop", "late_match", "early_rematch",
           "late_join", "job_race", "toggle", "accept", "never_joined",
           "stale_timeout", "double_request"}

ASSUME PresenceConstants ==
  /\ Volunteer \cap Seeker = {}
  /\ Socket \subseteq Nat /\ Request \subseteq Nat /\ Problem \subseteq Nat
  /\ Owner \in [Socket -> Volunteer \cup Seeker]
  /\ SeekerOf \in [Request -> Seeker]
  /\ PosedBy \in [Problem -> Seeker]
  /\ Steady \subseteq Socket
  /\ MishapBound \in Nat /\ Allow \subseteq Mishap
  /\ None \notin Volunteer \cup Seeker \cup Socket \cup Request \cup Problem

Account == Volunteer \cup Seeker

VARIABLES
  live,       \* the sockets the server has
  conn,       \* how far handleConnection of a socket is
  gone,       \* how far handleDisconnect of a socket is
  joining,    \* the room:join handler of a socket
  socketOf,   \* account:{id}:socket
  pool,       \* volunteer:pool
  online,     \* volunteers:online
  available,  \* the volunteers with isAvailable
  row,        \* the session row: its status
  listener,   \* and its volunteer
  about,      \* the problem a request names
  matched,    \* the problems with status matched
  asking,     \* how far session:request is, and the volunteer it has claimed
  current,    \* account:{id}:session
  away,       \* the fields reconnecting:{id} = 1 of session:{id}
  timer,      \* its field timerStarted
  room,       \* the sockets in the room
  rjob,       \* reconnect-expire jobs, one per account and session
  tjob,       \* session-timeout jobs (30 min)
  sjob,       \* session:timeout jobs (45 min) of the sessions queue
  ending,     \* the teardown of a session: who does it and how far it is
  mishaps     \* history: the mishaps so far

socketVars == <<live, conn, gone, joining, socketOf, online>>
sessionVars == <<row, listener, about, matched, asking, sjob>>
chatVars == <<current, away, timer, room>>
jobVars == <<rjob, tjob, ending>>
vars == <<socketVars, pool, available, sessionVars, chatVars, jobVars, mishaps>>

JobState == {"none", "delayed", "active", "failed"}
NoJoin == [step |-> "none", r |-> None, fresh |-> FALSE]
NotEnding == [by |-> "none", step |-> "none", of |-> None]

TypeOK ==
  /\ live \subseteq Socket
  /\ conn \in [Socket -> {"new", "map", "online", "pool", "done"}]
  /\ gone \in [Socket -> {"no", "unmap", "delete", "leave", "done"}]
  /\ joining \in [Socket -> [step: {"none", "enter", "rejoin", "timer"},
                             r: Request \cup {None}, fresh: BOOLEAN]]
  /\ socketOf \in [Account -> Socket \cup {None}]
  /\ \A a \in Account : socketOf[a] # None => Owner[socketOf[a]] = a
  /\ pool \subseteq Volunteer /\ online \subseteq Volunteer
  /\ available \subseteq Volunteer
  /\ row \in [Request -> {"none", "active", "completed", "cancelled"}]
  /\ listener \in [Request -> Volunteer \cup {None}]
  /\ about \in [Request -> Problem \cup {None}]
  /\ matched \subseteq Problem
  /\ asking \in [Request -> [step: {"new", "pop", "create", "back", "add", "done"},
                             v: Volunteer \cup {None}]]
  /\ current \in [Account -> Request \cup {None}]
  /\ away \in [Request -> SUBSET Account]
  /\ timer \in [Request -> BOOLEAN]
  /\ room \in [Request -> SUBSET Socket]
  /\ rjob \in [Request -> [Account -> JobState]]
  /\ tjob \in [Request -> JobState]
  /\ sjob \in [Request -> JobState]
  /\ ending \in [Request -> [by: {"none", "user", "reconnect", "timeout"},
                             step: {"none", "clear", "back", "add", "done"},
                             of: Account \cup {None}]]
  /\ mishaps \subseteq Allow

Init ==
  /\ live = {}
  /\ conn = [c \in Socket |-> "new"]
  /\ gone = [c \in Socket |-> "no"]
  /\ joining = [c \in Socket |-> NoJoin]
  /\ socketOf = [a \in Account |-> None]
  /\ pool = {} /\ online = {}
  /\ available = Volunteer
  /\ row = [r \in Request |-> "none"]
  /\ listener = [r \in Request |-> None]
  /\ about = [r \in Request |-> None]
  /\ matched = {}
  /\ asking = [r \in Request |-> [step |-> "new", v |-> None]]
  /\ current = [a \in Account |-> None]
  /\ away = [r \in Request |-> {}]
  /\ timer = [r \in Request |-> FALSE]
  /\ room = [r \in Request |-> {}]
  /\ rjob = [r \in Request |-> [a \in Account |-> "none"]]
  /\ tjob = [r \in Request |-> "none"]
  /\ sjob = [r \in Request |-> "none"]
  /\ ending = [r \in Request |-> NotEnding]
  /\ mishaps = {}

-----------------------------------------------------------------------------

Parties(r) == {SeekerOf[r], listener[r]}
Active(a) == {r \in Request : row[r] = "active" /\ a \in Parties(r)}
Leaving(a) == \E c \in Socket : Owner[c] = a /\ gone[c] \notin {"no", "done"}
LiveSockets(a) == {c \in live : Owner[c] = a}
TornDown(r) == ending[r].step \in {"none", "done"}

GivingBack(a) ==
  \/ \E r \in Request : asking[r].step \in {"back", "add"} /\ asking[r].v = a
  \/ \E r \in Request : ~TornDown(r) /\ a \in Parties(r)

BeingPooled(a) == GivingBack(a) \/ \E c \in Socket : Owner[c] = a /\ conn[c] = "pool"

(* A mishap is one of a kind, and the bound is on kinds. *)
AllHappen(ms) ==
  /\ ms \subseteq Allow \ mishaps
  /\ Cardinality(mishaps \cup ms) <= MishapBound
  /\ mishaps' = mishaps \cup ms

Happens(m) == AllHappen({m})

(* A step that is a mishap when the condition holds. *)
If(condition, m) == IF condition THEN {m} ELSE {}
HappensIf(condition, m) == AllHappen(If(condition, m))

-----------------------------------------------------------------------------
(* handleConnection                                                        *)

(* The token is verified.  Single-device enforcement: the socket found in  *)
(* Redis is disconnected; its handleDisconnect starts in the same tick and *)
(* runs beside this handler.                                               *)
Connect(c) ==
  /\ conn[c] = "new" /\ \A d \in Socket : Owner[d] = Owner[c] /\ d < c => conn[d] # "new"
  /\ HappensIf(LiveSockets(Owner[c]) # {} \/ Leaving(Owner[c]), "overlap")
  /\ conn' = [conn EXCEPT ![c] = "map"]
  /\ LET old == {socketOf[Owner[c]]} \cap live IN
       /\ live' = (live \ old) \cup {c}
       /\ gone' = [d \in Socket |-> IF d \in old THEN "unmap" ELSE gone[d]]
       /\ room' = [r \in Request |-> room[r] \ old]
  /\ UNCHANGED <<joining, socketOf, online, pool, available, sessionVars,
                 current, away, timer, jobVars>>

MapSocket(c) ==
  /\ conn[c] = "map"
  /\ socketOf' = [socketOf EXCEPT ![Owner[c]] = c]
  /\ conn' = [conn EXCEPT ![c] = IF Owner[c] \in Volunteer THEN "online" ELSE "done"]
  /\ UNCHANGED <<live, gone, joining, online, pool, available, sessionVars,
                 chatVars, jobVars, mishaps>>

(* A volunteer is online, and goes to the pool if the profile says so and  *)
(* no session is active.                                                   *)
AddOnline(c) ==
  /\ conn[c] = "online"
  /\ HappensIf(\E r \in Request : asking[r].step = "create" /\ asking[r].v = Owner[c],
               "late_match")
  /\ online' = online \cup {Owner[c]}
  /\ conn' = [conn EXCEPT ![c] =
       IF Owner[c] \in available /\ Active(Owner[c]) = {} THEN "pool" ELSE "done"]
  /\ UNCHANGED <<live, gone, joining, socketOf, pool, available, sessionVars,
                 chatVars, jobVars>>

AddToPool(c) ==
  /\ conn[c] = "pool"
  /\ pool' = pool \cup {Owner[c]}
  /\ conn' = [conn EXCEPT ![c] = "done"]
  /\ UNCHANGED <<live, gone, joining, socketOf, online, available, sessionVars,
                 chatVars, jobVars, mishaps>>

-----------------------------------------------------------------------------
(* handleDisconnect                                                        *)

Drop(c) ==
  /\ c \in live \ Steady
  /\ IF conn[c] # "done" \/ joining[c] # NoJoin THEN Happens("early_drop")
     ELSE HappensIf(GivingBack(Owner[c]), "late_drop")
  /\ live' = live \ {c}
  /\ gone' = [gone EXCEPT ![c] = "unmap"]
  /\ room' = [r \in Request |-> room[r] \ {c}]
  /\ UNCHANGED <<conn, joining, socketOf, online, pool, available, sessionVars,
                 current, away, timer, jobVars>>

(* unmapSocket compares the mapping with this socket ...  A socket that    *)
(* was never mapped has no account: nothing else is done.                  *)
Unmap(c) ==
  /\ gone[c] = "unmap"
  /\ gone' = [gone EXCEPT ![c] =
       IF conn[c] = "map" THEN "done"
       ELSE IF socketOf[Owner[c]] = c THEN "delete" ELSE "leave"]
  /\ UNCHANGED <<live, conn, joining, socketOf, online, pool, available,
                 sessionVars, chatVars, jobVars, mishaps>>

(* ... and deletes it with a second call. *)
DeleteMapping(c) ==
  /\ gone[c] = "delete"
  /\ socketOf' = [socketOf EXCEPT ![Owner[c]] = None]
  /\ gone' = [gone EXCEPT ![c] = "leave"]
  /\ UNCHANGED <<live, conn, joining, online, pool, available, sessionVars,
                 chatVars, jobVars, mishaps>>

Add(state) == IF state = "none" THEN "delayed" ELSE state

(* Out of both pools.  The account's session, if it has one, gets the flag *)
(* reconnecting and a reconnect-expire job; a job is not added twice.      *)
LeavePools(c) ==
  LET a == Owner[c]
      r == current[a]
  IN
  /\ gone[c] = "leave"
  /\ gone' = [gone EXCEPT ![c] = "done"]
  /\ pool' = pool \ {a}
  /\ online' = online \ {a}
  /\ IF r = None THEN UNCHANGED <<away, rjob>>
     ELSE /\ away' = [away EXCEPT ![r] = @ \cup {a}]
          /\ rjob' = [rjob EXCEPT ![r][a] = Add(@)]
  /\ UNCHANGED <<live, conn, joining, socketOf, available, sessionVars, current,
                 timer, room, tjob, ending, mishaps>>

-----------------------------------------------------------------------------
(* session:request                                                         *)

Fresh(r) == asking[r].step = "new" /\ \A q \in Request : q < r => asking[q].step # "new"

(* The problems r may be about: those already asked about or the next. *)
Choice(r) ==
  {p \in Problem : /\ PosedBy[p] = SeekerOf[r]
                   /\ \A q \in Problem : q < p /\ PosedBy[q] = PosedBy[p] =>
                        \E k \in Request : about[k] = q}

(* Another request of the seeker has passed the checks and opened nothing. *)
Handled(r) ==
  \E q \in Request : /\ q # r /\ SeekerOf[q] = SeekerOf[r]
                     /\ asking[q].step \in {"pop", "create"}

Ask(r, step, v) == asking' = [asking EXCEPT ![r] = [step |-> step, v |-> v]]

CheckRequest(r) ==
  /\ Fresh(r)
  /\ \E c \in live : Owner[c] = SeekerOf[r] /\ conn[c] = "done"
  /\ HappensIf(Handled(r), "double_request")
  /\ \E p \in Choice(r) :
       /\ about' = [about EXCEPT ![r] = p]
       /\ IF Active(SeekerOf[r]) = {} /\ p \notin matched
            THEN Ask(r, "pop", None) ELSE Ask(r, "done", None)
  /\ UNCHANGED <<socketVars, pool, available, row, listener, matched, sjob,
                 chatVars, jobVars>>

(* SPOP until a volunteer with a live socket is found; the mapping of a    *)
(* socket that is not is removed.                                          *)
ClaimVolunteer(r) ==
  /\ asking[r].step = "pop"
  /\ IF pool = {}
       THEN Ask(r, "done", None) /\ UNCHANGED <<pool, socketOf, mishaps>>
       ELSE \E v \in pool :
              /\ pool' = pool \ {v}
              /\ HappensIf(BeingPooled(v), "late_match")
              /\ IF socketOf[v] \in live
                   THEN Ask(r, "create", v) /\ UNCHANGED socketOf
                   ELSE socketOf' = [socketOf EXCEPT ![v] = None] /\ UNCHANGED asking
  /\ UNCHANGED <<about, live, conn, gone, joining, online, available, row, listener,
                 matched, sjob, chatVars, jobVars>>

(* The transaction is guarded by the problem's status. *)
CreateSession(r) ==
  /\ asking[r].step = "create"
  /\ IF about[r] \in matched
       THEN Ask(r, "back", asking[r].v) /\ UNCHANGED <<row, listener, matched>>
       ELSE /\ matched' = matched \cup {about[r]}
            /\ row' = [row EXCEPT ![r] = "active"]
            /\ listener' = [listener EXCEPT ![r] = asking[r].v]
            /\ Ask(r, "done", None)
  /\ UNCHANGED <<about, socketVars, pool, available, sjob, chatVars, jobVars, mishaps>>

Mut_NotOnline(v) == v \in available
Eligible(v) == socketOf[v] # None /\ v \in available

(* reAddVolunteerToPoolIfEligible after a failed creation: check ...       *)
CheckClaimed(r) ==
  /\ asking[r].step = "back"
  /\ HappensIf(Leaving(asking[r].v), "late_drop")
  /\ IF Eligible(asking[r].v) THEN Ask(r, "add", asking[r].v) ELSE Ask(r, "done", None)
  /\ UNCHANGED <<about, socketVars, pool, available, row, listener, matched, sjob,
                 chatVars, jobVars>>

(* ... then add. *)
ReturnClaimed(r) ==
  /\ asking[r].step = "add"
  /\ pool' = pool \cup {asking[r].v}
  /\ Ask(r, "done", None)
  /\ UNCHANGED <<about, socketVars, available, row, listener, matched, sjob, chatVars,
                 jobVars, mishaps>>

(* The other two ways a session opens, in short (SessionLifecycle has them *)
(* in full): connect() takes a volunteer out of the pool; accept() takes   *)
(* one who may be in the pool and stays there.  Both schedule              *)
(* session:timeout.                                                        *)
OpenElsewhere(r, v) ==
  /\ Fresh(r)
  /\ Active(SeekerOf[r]) = {}
  /\ row' = [row EXCEPT ![r] = "active"]
  /\ listener' = [listener EXCEPT ![r] = v]
  /\ \E p \in Choice(r) \ matched :
       /\ about' = [about EXCEPT ![r] = p]
       /\ matched' = matched \cup {p}
  /\ sjob' = [sjob EXCEPT ![r] = "delayed"]
  /\ Ask(r, "done", None)

ConnectElsewhere(r) ==
  /\ \E v \in pool :
       /\ pool' = pool \ {v}
       /\ OpenElsewhere(r, v)
       /\ AllHappen(If(BeingPooled(v), "late_match") \cup If(Handled(r), "double_request"))
  /\ UNCHANGED <<socketVars, available, chatVars, jobVars>>

AcceptElsewhere(r) ==
  /\ Happens("accept")
  /\ \E v \in online : Active(v) = {} /\ OpenElsewhere(r, v)
  /\ UNCHANGED <<socketVars, pool, available, chatVars, jobVars>>

-----------------------------------------------------------------------------
(* room:join                                                               *)

(* validateSession; an app joins the session it was told of. *)
ValidateJoin(c, r) ==
  /\ c \in live /\ conn[c] # "map"
  /\ joining[c] = NoJoin
  /\ row[r] = "active" /\ Owner[c] \in Parties(r)
  /\ c \notin room[r]
  /\ HappensIf(\E q \in Request : ~TornDown(q) /\ Owner[c] \in Parties(q),
               "early_rematch")
  /\ joining' = [joining EXCEPT ![c] = [step |-> "enter", r |-> r, fresh |-> FALSE]]
  /\ UNCHANGED <<live, conn, gone, socketOf, online, pool, available, sessionVars,
                 chatVars, jobVars>>

Mut_EnterUnrecorded(c) ==
  LET r == joining[c].r IN
  /\ joining[c].step = "enter"
  /\ room' = IF c \in live THEN [room EXCEPT ![r] = @ \cup {c}] ELSE room
  /\ joining' = [joining EXCEPT ![c].step = "timer", ![c].fresh = ~timer[r]]
  /\ UNCHANGED <<live, conn, gone, socketOf, online, pool, available, sessionVars,
                 current, away, timer, jobVars, mishaps>>

(* Join, record the account's session, read the hash: a reconnect or a     *)
(* first join, with the timer yet to start or not.                         *)
EnterRoom(c) ==
  LET r == joining[c].r
      a == Owner[c]
  IN
  /\ joining[c].step = "enter"
  /\ room' = IF c \in live THEN [room EXCEPT ![r] = @ \cup {c}] ELSE room
  /\ current' = [current EXCEPT ![a] = r]
  /\ joining' = [joining EXCEPT ![c].step = IF a \in away[r] THEN "rejoin" ELSE "timer",
                                ![c].fresh = ~timer[r]]
  /\ UNCHANGED <<live, conn, gone, socketOf, online, pool, available, sessionVars,
                 away, timer, jobVars, mishaps>>

Mut_RejoinIgnored(c) ==
  /\ joining[c].step = "rejoin"
  /\ joining' = [joining EXCEPT ![c] = NoJoin]
  /\ UNCHANGED <<live, conn, gone, socketOf, online, pool, available, sessionVars,
                 chatVars, jobVars, mishaps>>

(* Remove the reconnect-expire job, then clear the flag; Job.remove throws *)
(* for a job that is running, and then the flag stays.                     *)
Rejoin(c) ==
  LET r == joining[c].r
      a == Owner[c]
  IN
  /\ joining[c].step = "rejoin"
  /\ joining' = [joining EXCEPT ![c] = NoJoin]
  /\ IF rjob[r][a] = "active"
       THEN Happens("job_race") /\ UNCHANGED <<away, rjob>>
       ELSE /\ rjob' = [rjob EXCEPT ![r][a] = "none"]
            /\ away' = [away EXCEPT ![r] = @ \ {a}]
            /\ UNCHANGED mishaps
  /\ UNCHANGED <<live, conn, gone, socketOf, online, pool, available, sessionVars,
                 current, timer, room, tjob, ending>>

Mut_TimerMarkedOnly(c) ==
  /\ joining[c].step = "timer"
  /\ joining' = [joining EXCEPT ![c] = NoJoin]
  /\ timer' = [timer EXCEPT ![joining[c].r] = TRUE]
  /\ UNCHANGED <<live, conn, gone, socketOf, online, pool, available, sessionVars,
                 current, away, room, jobVars, mishaps>>

(* The 30-minute timer, once per session. *)
StartTimer(c) ==
  LET r == joining[c].r IN
  /\ joining[c].step = "timer"
  /\ joining' = [joining EXCEPT ![c] = NoJoin]
  /\ IF joining[c].fresh
       THEN /\ tjob' = [tjob EXCEPT ![r] = Add(@)]
            /\ timer' = [timer EXCEPT ![r] = TRUE]
       ELSE UNCHANGED <<tjob, timer>>
  /\ UNCHANGED <<live, conn, gone, socketOf, online, pool, available, sessionVars,
                 current, away, room, rjob, ending, mishaps>>

-----------------------------------------------------------------------------
(* The three ways a chat ends, and the teardown that follows               *)

BeingJoined(r) == \E c \in Socket : joining[c].r = r

(* endSession: only an active row. *)
EndRow(r, by, a, status) ==
  IF row[r] = "active"
    THEN /\ row' = [row EXCEPT ![r] = status]
         /\ ending' = [ending EXCEPT ![r] = [by |-> by, of |-> a, step |-> "clear"]]
    ELSE UNCHANGED <<row, ending>>

SessionEnd(c, r) ==
  /\ c \in room[r] /\ TornDown(r)
  /\ EndRow(r, "user", Owner[c], "completed")
  /\ HappensIf(BeingJoined(r), "late_join")
  /\ UNCHANGED <<socketVars, pool, available, listener, about, matched, asking, sjob,
                 chatVars, rjob, tjob>>

(* reconnect-expire: one job at a time; it reads the flag ...              *)
StartReconnectExpire(r, a) ==
  /\ rjob[r][a] = "delayed"
  /\ \A q \in Request, b \in Account : rjob[q][b] # "active"
  /\ rjob' = [rjob EXCEPT ![r][a] = IF a \in away[r] THEN "active" ELSE "none"]
  /\ UNCHANGED <<socketVars, pool, available, sessionVars, chatVars, tjob, ending,
                 mishaps>>

(* ... and ends the session. *)
ReconnectExpire(r, a) ==
  /\ rjob[r][a] = "active" /\ ending[r].by = "none"
  /\ EndRow(r, "reconnect", a, "cancelled")
  /\ rjob' = IF row[r] = "active" THEN rjob ELSE [rjob EXCEPT ![r][a] = "none"]
  /\ HappensIf(row[r] = "active" /\ BeingJoined(r), "late_join")
  /\ UNCHANGED <<socketVars, pool, available, listener, about, matched, asking, sjob,
                 chatVars, tjob>>

(* A reconnect-expire job whose session another has ended meanwhile. *)
SkipReconnectExpire(r, a) ==
  /\ rjob[r][a] = "active"
  /\ ending[r].by # "none" /\ ~(ending[r].by = "reconnect" /\ ending[r].of = a)
  /\ rjob' = [rjob EXCEPT ![r][a] = "none"]
  /\ UNCHANGED <<socketVars, pool, available, sessionVars, chatVars, tjob, ending,
                 mishaps>>

ChatTimeout(r) ==
  /\ tjob[r] = "delayed"
  /\ \A q \in Request : tjob[q] # "active"
  /\ EndRow(r, "timeout", None, "completed")
  /\ tjob' = [tjob EXCEPT ![r] = IF row[r] = "active" THEN "active" ELSE "none"]
  /\ HappensIf(row[r] = "active" /\ BeingJoined(r), "late_join")
  /\ UNCHANGED <<socketVars, pool, available, listener, about, matched, asking, sjob,
                 chatVars, rjob>>

EndJob(r, state) ==
  CASE ending[r].by = "timeout" -> tjob' = [tjob EXCEPT ![r] = state] /\ UNCHANGED rjob
    [] ending[r].by = "reconnect" ->
         rjob' = [rjob EXCEPT ![r][ending[r].of] = state] /\ UNCHANGED tjob
    [] ending[r].by = "user" -> UNCHANGED <<rjob, tjob>>

(* The jobs the three remove: reconnect-expire leaves the other party's.   *)
OtherJobRuns(r) ==
  \/ ending[r].by # "timeout" /\ tjob[r] = "active"
  \/ ending[r].by # "reconnect" /\ \E a \in Parties(r) : rjob[r][a] = "active"

OthersRemoved(r) ==
  /\ tjob' = IF ending[r].by = "timeout" THEN tjob ELSE [tjob EXCEPT ![r] = "none"]
  /\ rjob' = IF ending[r].by = "reconnect" THEN rjob
             ELSE [rjob EXCEPT ![r] = [a \in Account |->
                     IF a \in Parties(r) THEN "none" ELSE @[a]]]

(* The other jobs, the parties' session and what Redis keeps of the chat   *)
(* are removed.                                                            *)
ClearSession(r) ==
  /\ ending[r].step = "clear" /\ ~OtherJobRuns(r)
  /\ OthersRemoved(r)
  /\ current' = [a \in Account |-> IF a \in Parties(r) THEN None ELSE current[a]]
  /\ away' = [away EXCEPT ![r] = {}]
  /\ timer' = [timer EXCEPT ![r] = FALSE]
  /\ ending' = [ending EXCEPT ![r].step = "back"]
  /\ UNCHANGED <<socketVars, pool, available, sessionVars, room, mishaps>>

(* Job.remove throws: the rest of the teardown is left undone. *)
ClearThrows(r) ==
  /\ ending[r].step = "clear" /\ OtherJobRuns(r)
  /\ Happens("job_race")
  /\ ending' = [ending EXCEPT ![r].step = "done"]
  /\ EndJob(r, "failed")
  /\ UNCHANGED <<socketVars, pool, available, sessionVars, chatVars>>

CheckListener(r) ==
  /\ ending[r].step = "back"
  /\ HappensIf(Leaving(listener[r]), "late_drop")
  /\ IF Eligible(listener[r])
       THEN ending' = [ending EXCEPT ![r].step = "add"] /\ UNCHANGED <<rjob, tjob>>
       ELSE ending' = [ending EXCEPT ![r].step = "done"] /\ EndJob(r, "none")
  /\ UNCHANGED <<socketVars, pool, available, sessionVars, chatVars>>

ReturnListener(r) ==
  /\ ending[r].step = "add"
  /\ pool' = pool \cup {listener[r]}
  /\ ending' = [ending EXCEPT ![r].step = "done"]
  /\ EndJob(r, "none")
  /\ UNCHANGED <<socketVars, available, sessionVars, chatVars, mishaps>>

(* session:timeout of the sessions queue, in short: it clears what the     *)
(* chat keeps whether or not it ended the session, and does not return     *)
(* the volunteer to the pool.                                              *)
SessionTimeout(r) ==
  /\ sjob[r] = "delayed"
  /\ IF row[r] = "active" THEN Happens("never_joined")
     ELSE HappensIf(\E a \in Parties(r) : current[a] \notin {None, r}, "stale_timeout")
  /\ sjob' = [sjob EXCEPT ![r] = "none"]
  /\ row' = [row EXCEPT ![r] = IF @ = "active" THEN "completed" ELSE @]
  /\ current' = [a \in Account |-> IF a \in Parties(r) THEN None ELSE current[a]]
  /\ away' = [away EXCEPT ![r] = {}]
  /\ timer' = [timer EXCEPT ![r] = FALSE]
  /\ UNCHANGED <<socketVars, pool, available, listener, about, matched, asking, room,
                 jobVars>>

(* PATCH /volunteer/status writes the profile and nothing else. *)
ToggleAvailable(v) ==
  /\ Happens("toggle")
  /\ available' = IF v \in available THEN available \ {v} ELSE available \cup {v}
  /\ UNCHANGED <<socketVars, pool, sessionVars, chatVars, jobVars>>

-----------------------------------------------------------------------------

ConnectStep(c) ==
  MapSocket(c) \/ AddOnline(c) \/ AddToPool(c)

DisconnectStep(c) == Unmap(c) \/ DeleteMapping(c) \/ LeavePools(c)

JoinStep(c) == EnterRoom(c) \/ Rejoin(c) \/ StartTimer(c)

RequestStep(r) ==
  ClaimVolunteer(r) \/ CreateSession(r) \/ CheckClaimed(r) \/ ReturnClaimed(r)

TeardownStep(r) ==
  ClearSession(r) \/ ClearThrows(r) \/ CheckListener(r) \/ ReturnListener(r)

JobStep(r) ==
  \/ ChatTimeout(r)
  \/ \E a \in Account :
       StartReconnectExpire(r, a) \/ ReconnectExpire(r, a) \/ SkipReconnectExpire(r, a)

Next ==
  \/ \E c \in Socket :
       \/ Connect(c) \/ Drop(c) \/ ConnectStep(c) \/ DisconnectStep(c) \/ JoinStep(c)
       \/ \E r \in Request : ValidateJoin(c, r) \/ SessionEnd(c, r)
  \/ \E r \in Request :
       \/ CheckRequest(r) \/ RequestStep(r) \/ ConnectElsewhere(r) \/ AcceptElsewhere(r)
       \/ TeardownStep(r) \/ JobStep(r) \/ SessionTimeout(r)
  \/ \E v \in Volunteer : ToggleAvailable(v)

Spec == Init /\ [][Next]_vars

-----------------------------------------------------------------------------

Quiet ==
  /\ \A c \in Socket :
       /\ conn[c] \in {"new", "done"} /\ gone[c] \in {"no", "done"}
       /\ joining[c] = NoJoin
  /\ \A r \in Request : asking[r].step \in {"new", "done"} /\ TornDown(r)

Spared(ms) == mishaps \cap ms = {}

(* A problem is the subject of one session: two requests that both found   *)
(* it waiting do not both open one, whatever overlaps.                     *)
OneSessionPerProblem ==
  \A r, q \in Request :
    row[r] # "none" /\ row[q] # "none" /\ about[r] = about[q] => r = q

(* When no handler runs, the pool holds the volunteers who are connected,  *)
(* available and in no session: nobody is offered who cannot listen, and   *)
(* nobody is forgotten.  The mishaps named here break it.                  *)
PoolIsRight ==
  Quiet /\ Spared({"overlap", "early_drop", "late_drop", "late_match", "job_race",
                   "toggle", "accept", "never_joined"}) =>
    pool = {v \in available : LiveSockets(v) # {} /\ Active(v) = {}}

(* What an account's record in a chat stands on.  An old session's         *)
(* session:timeout, or a teardown that is still running, deletes the       *)
(* record of the next session; accept(), a match while a volunteer is put  *)
(* back into the pool, or two requests of a seeker handled at once may     *)
(* give an account two chats.  A socket that is displaced or dropped early *)
(* only matters together with a join that is handled or made late.         *)
Recorded ==
  /\ Spared({"stale_timeout", "early_rematch", "accept", "late_match", "double_request"})
  /\ Spared({"overlap", "early_drop"}) \/ Spared({"late_join", "never_joined"})

(* Whoever sits in the room of a running chat is on record as its party,   *)
(* so that losing the connection is noticed.                               *)
DropsAreNoticed ==
  Recorded =>
    \A r \in Request, c \in Socket :
      row[r] = "active" /\ c \in room[r] => current[Owner[c]] = r

(* A chat is cancelled for a lost connection only if that party is not in  *)
(* its room.  A displaced socket breaks this, and so does the job when it  *)
(* starts while the party's join is handled.                               *)
CancelledWhileAway ==
  [][\A r \in Request : \A a \in Account :
       /\ Spared({"overlap", "job_race", "late_join"})'
       /\ row[r] = "active" /\ ending'[r].by = "reconnect" /\ ending'[r].of = a
       => \A c \in room[r] : Owner[c] # a]_vars

(* A chat ends once: its row keeps the outcome and one teardown runs.      *)
EndsOnce ==
  [][\A r \in Request :
       /\ row[r] \in {"completed", "cancelled"} => row'[r] = row[r]
       /\ ending[r].by # "none" => ending'[r].by = ending[r].by]_vars

(* A chat that somebody has joined ends, whoever stays away: as long as it *)
(* runs, the 30-minute job is waiting or the join that adds it is handled. *)
TimerRuns ==
  \A r \in Request :
    row[r] = "active" /\ room[r] # {} => tjob[r] = "delayed" \/ BeingJoined(r)

(* The sessions opened over WebSocket are sound: a problem has one, and    *)
(* the chat of a joined one is bound to end.                               *)
SessionsAreSound == OneSessionPerProblem /\ TimerRuns

(* A chat ends right: once, and for a lost connection only while that      *)
(* party is away.                                                          *)
EndsRight == CancelledWhileAway /\ EndsOnce

(* The rows as SessionContract sees them: here they are opened matched.    *)
Phase(r) ==
  CASE row[r] = "none" -> "none"
    [] row[r] = "active" -> "matched"
    [] row[r] \in {"completed", "cancelled"} -> "ended"

Contract == INSTANCE SessionContract WITH
  Session <- Request, Listener <- Volunteer, Nobody <- None,
  phase <- [r \in Request |-> Phase(r)]

(* The socket handlers and the chat jobs keep the contract of a session.   *)
ImplementsContract == Contract!Spec
=============================================================================
