------------------------- MODULE ChatPresence_Proofs --------------------------
(***************************************************************************)
(* What holds of ChatPresence for any volunteers, seekers, sockets,        *)
(* requests and problems, however many of the allowed mishaps happen: a    *)
(* chat that was joined ends (SessionsAreSound), it ends once, and for a   *)
(* lost connection only while that party is away (EndsRight), whoever sits *)
(* in a room is missed when the connection drops (DropsAreNoticed), and    *)
(* the pool holds whom it should (PoolIsRight).  Each invariant is stated  *)
(* under the mishaps that spoil it and rests on those before it.           *)
(***************************************************************************)
EXTENDS ChatPresence, TLAPS

-----------------------------------------------------------------------------
(* The rows and what hangs on them.                                        *)

Untouched(r) ==
  /\ room[r] = {} /\ away[r] = {} /\ ~timer[r] /\ tjob[r] = "none" /\ sjob[r] = "none"
  /\ \A a \in Account : rjob[r][a] = "none" /\ current[a] # r
  /\ listener[r] = None /\ ending[r] = NotEnding
  /\ \A c \in Socket : joining[c].r # r

RowOK(r) ==
  /\ row[r] = "none" => Untouched(r)
  /\ row[r] # "none" => /\ about[r] \in matched /\ listener[r] \in Volunteer
                        /\ asking[r].step = "done"
  /\ asking[r].step \in {"pop", "create"} => about[r] \in Problem
  /\ asking[r].step \in {"create", "back", "add"} => asking[r].v \in Volunteer
  /\ ending[r].by = "none" => ending[r] = NotEnding
  /\ ending[r].by # "none" => row[r] # "active" /\ ending[r].step # "none"
  /\ ending[r].by = "reconnect" => ending[r].of \in Account
  /\ row[r] = "active" => tjob[r] \in {"none", "delayed"}

SocketOK(c) ==
  /\ c \in live => gone[c] = "no" /\ conn[c] # "new"
  /\ conn[c] = "new" => gone[c] = "no"
  /\ conn[c] \in {"new", "map"} => joining[c] = NoJoin /\ \A r \in Request : c \notin room[r]
  /\ conn[c] \in {"online", "pool"} => Owner[c] \in Volunteer
  /\ joining[c].step = "none" => joining[c] = NoJoin
  /\ joining[c].step # "none" => joining[c].r \in Request /\ Owner[c] \in Parties(joining[c].r)
  /\ \A r \in Request : c \in room[r] => c \in live /\ Owner[c] \in Parties(r)

Base ==
  /\ TypeOK
  /\ \A r \in Request : RowOK(r)
  /\ \A c \in Socket : SocketOK(c)

-----------------------------------------------------------------------------
(* What a step does to a function whose values are records.                *)

AskRecord == [step: {"new", "pop", "create", "back", "add", "done"}, v: Volunteer \cup {None}]
JoinRecord == [step: {"none", "enter", "rejoin", "timer"}, r: Request \cup {None}, fresh: BOOLEAN]
EndRecord == [by: {"none", "user", "reconnect", "timeout"},
              step: {"none", "clear", "back", "add", "done"}, of: Account \cup {None}]

JoinSet(c, j) ==
  /\ joining' \in [Socket -> JoinRecord] /\ joining'[c] = j
  /\ \A d \in Socket : d # c => joining'[d] = joining[d]

EndSet(r, e) ==
  /\ ending' \in [Request -> EndRecord] /\ ending'[r] = e
  /\ \A q \in Request : q # r => ending'[q] = ending[q]

AskSet(r, s, v) ==
  /\ asking' \in [Request -> AskRecord] /\ asking'[r] = [step |-> s, v |-> v]
  /\ \A q \in Request : q # r => asking'[q] = asking[q]

RJobSet(r, a, s) ==
  /\ rjob' \in [Request -> [Account -> JobState]] /\ rjob'[r][a] = s
  /\ \A q \in Request, b \in Account : q # r \/ b # a => rjob'[q][b] = rjob[q][b]

LEMMA JoinUpdate ==
  ASSUME joining \in [Socket -> JoinRecord], NEW c \in Socket, NEW j \in JoinRecord,
         joining' = [joining EXCEPT ![c] = j]
  PROVE  JoinSet(c, j)
  BY DEF JoinSet

LEMMA JoinParts ==
  ASSUME joining \in [Socket -> JoinRecord], NEW c \in Socket,
         NEW s \in {"none", "enter", "rejoin", "timer"}, NEW f \in BOOLEAN,
         joining' = [joining EXCEPT ![c].step = s, ![c].fresh = f]
  PROVE  JoinSet(c, [step |-> s, r |-> joining[c].r, fresh |-> f])
  <1> DEFINE j == [step |-> s, r |-> joining[c].r, fresh |-> f]
  <1>1. joining[c] \in JoinRecord
    OBVIOUS
  <1>2. j \in JoinRecord
    BY <1>1 DEF JoinRecord
  <1>3. joining'[c] = j
    BY <1>1 DEF JoinRecord
  <1>4. \A d \in Socket : d # c => joining'[d] = joining[d]
    OBVIOUS
  <1>5. joining' \in [Socket -> JoinRecord]
    <2>1. \A d \in Socket : joining'[d] \in JoinRecord
      BY <1>2, <1>3, <1>4
    <2>2. DOMAIN joining' = Socket /\ joining' = [d \in Socket |-> joining'[d]]
      OBVIOUS
    <2> QED
      BY <2>1, <2>2
  <1> QED
    BY <1>3, <1>4, <1>5 DEF JoinSet

LEMMA EndUpdate ==
  ASSUME ending \in [Request -> EndRecord], NEW r \in Request, NEW e \in EndRecord,
         ending' = [ending EXCEPT ![r] = e]
  PROVE  EndSet(r, e)
  BY DEF EndSet

LEMMA EndPart ==
  ASSUME ending \in [Request -> EndRecord], NEW r \in Request,
         NEW s \in {"none", "clear", "back", "add", "done"},
         ending' = [ending EXCEPT ![r].step = s]
  PROVE  EndSet(r, [by |-> ending[r].by, step |-> s, of |-> ending[r].of])
  <1> DEFINE e == [by |-> ending[r].by, step |-> s, of |-> ending[r].of]
  <1>1. ending[r] \in EndRecord
    OBVIOUS
  <1>2. e \in EndRecord /\ [ending[r] EXCEPT !.step = s] = e
    BY <1>1 DEF EndRecord
  <1>3. ending' = [ending EXCEPT ![r] = e]
    BY <1>2
  <1> HIDE DEF e
  <1>4. EndSet(r, e)
    BY <1>2, <1>3, EndUpdate
  <1> QED
    BY <1>4 DEF e

LEMMA AskUpdate ==
  ASSUME asking \in [Request -> AskRecord], NEW r \in Request,
         NEW s \in {"new", "pop", "create", "back", "add", "done"},
         NEW v \in Volunteer \cup {None}, Ask(r, s, v)
  PROVE  AskSet(r, s, v)
  <1> DEFINE x == [step |-> s, v |-> v]
  <1>1. x \in AskRecord
    BY DEF AskRecord
  <1>2. asking' = [asking EXCEPT ![r] = x]
    BY DEF Ask
  <1> HIDE DEF x
  <1>3. asking' \in [Request -> AskRecord] /\ asking'[r] = x
        /\ \A q \in Request : q # r => asking'[q] = asking[q]
    BY <1>1, <1>2
  <1> QED
    BY <1>3 DEF x, AskSet

LEMMA RJobUpdate ==
  ASSUME rjob \in [Request -> [Account -> JobState]], NEW r \in Request, NEW a \in Account,
         NEW s \in JobState, rjob' = [rjob EXCEPT ![r][a] = s]
  PROVE  RJobSet(r, a, s)
  <1> DEFINE f == [rjob[r] EXCEPT ![a] = s]
  <1>1. f \in [Account -> JobState] /\ f[a] = s /\ \A b \in Account : b # a => f[b] = rjob[r][b]
    OBVIOUS
  <1>2. rjob' = [rjob EXCEPT ![r] = f]
    OBVIOUS
  <1> HIDE DEF f
  <1>3. rjob' \in [Request -> [Account -> JobState]] /\ rjob'[r] = f
        /\ \A q \in Request : q # r => rjob'[q] = rjob[q]
    BY <1>1, <1>2
  <1> QED
    BY <1>1, <1>3 DEF RJobSet

(* The mishaps stay among those allowed, and stay.                         *)
MishapsStay == mishaps' \subseteq Allow /\ mishaps \subseteq mishaps'

LEMMA Mishaps ==
  ASSUME mishaps \subseteq Allow
  PROVE  /\ \A m \in Mishap : Happens(m) => MishapsStay /\ m \in mishaps'
         /\ \A m \in Mishap, x \in BOOLEAN :
              HappensIf(x, m) => MishapsStay /\ (x => m \in mishaps') /\ (~x => mishaps' = mishaps)
         /\ UNCHANGED mishaps => MishapsStay
  BY DEF MishapsStay, Happens, HappensIf, AllHappen, If

-----------------------------------------------------------------------------
(* Types, rows and sockets                                                 *)

LEMMA Constants ==
  /\ Volunteer \subseteq Account /\ Seeker \subseteq Account
  /\ \A c \in Socket : Owner[c] \in Account
  /\ \A r \in Request : SeekerOf[r] \in Seeker /\ SeekerOf[r] \in Account /\ SeekerOf[r] \notin Volunteer
  /\ None \notin Account /\ None \notin Socket /\ None \notin Request /\ None \notin Volunteer
  /\ None \notin Problem
  BY PresenceConstants DEF Account

LEMMA BaseInit == Init => Base
  <1> SUFFICES ASSUME Init PROVE Base
    OBVIOUS
  <1>1. TypeOK
    BY PresenceConstants, Constants DEF Init, TypeOK, NoJoin, NotEnding, JobState
  <1>2. \A r \in Request : RowOK(r)
    BY Constants DEF Init, RowOK, Untouched, NoJoin, NotEnding
  <1>3. \A c \in Socket : SocketOK(c)
    BY Constants DEF Init, SocketOK, NoJoin
  <1> QED
    BY <1>1, <1>2, <1>3 DEF Base

(* The types in the form the lemmas above use.                             *)
LEMMA Types ==
  ASSUME TypeOK
  PROVE  /\ joining \in [Socket -> JoinRecord] /\ ending \in [Request -> EndRecord]
         /\ asking \in [Request -> AskRecord] /\ rjob \in [Request -> [Account -> JobState]]
         /\ mishaps \subseteq Allow /\ NoJoin \in JoinRecord /\ NotEnding \in EndRecord
  BY DEF TypeOK, JoinRecord, EndRecord, AskRecord, NoJoin, NotEnding

(* handleConnection and handleDisconnect                                   *)
LEMMA ConnectBase ==
  ASSUME Base, NEW c \in Socket, Connect(c)
  PROVE  Base' /\ MishapsStay
  <1> DEFINE old == {socketOf[Owner[c]]} \cap live
  <1> USE DEF socketVars, sessionVars, chatVars, jobVars
  <1>0. TypeOK /\ Owner[c] \in Account
    BY Constants DEF Base
  <1>1. MishapsStay
    <2>1. (LiveSockets(Owner[c]) # {} \/ Leaving(Owner[c])) \in BOOLEAN
      BY DEF LiveSockets, Leaving
    <2>2. HappensIf(LiveSockets(Owner[c]) # {} \/ Leaving(Owner[c]), "overlap")
      BY DEF Connect
    <2> QED
      BY <1>0, <2>1, <2>2, Types, Mishaps DEF Mishap
  <1>2. /\ conn' = [conn EXCEPT ![c] = "map"] /\ live' = (live \ old) \cup {c}
        /\ gone' = [d \in Socket |-> IF d \in old THEN "unmap" ELSE gone[d]]
        /\ room' = [r \in Request |-> room[r] \ old]
        /\ UNCHANGED <<joining, socketOf, online, pool, available, sessionVars,
                 current, away, timer, jobVars>>
        /\ conn[c] = "new" /\ old \subseteq live
    BY DEF Connect
  <1> HIDE DEF old
  <1>3. TypeOK'
    BY <1>0, <1>1, <1>2 DEF TypeOK, MishapsStay
  <1>4. \A r \in Request : RowOK(r)'
    BY <1>0, <1>2 DEF Base, RowOK, Untouched
  <1>5. \A d \in Socket : SocketOK(d)'
    BY <1>0, <1>2 DEF Base, SocketOK, Parties, TypeOK
  <1> QED
    BY <1>1, <1>3, <1>4, <1>5 DEF Base

LEMMA DropBase ==
  ASSUME Base, NEW c \in Socket, Drop(c)
  PROVE  Base' /\ MishapsStay
  <1> USE DEF socketVars, sessionVars, chatVars, jobVars
  <1>0. TypeOK /\ Owner[c] \in Account
    BY Constants DEF Base
  <1>1. MishapsStay
    <2>1. GivingBack(Owner[c]) \in BOOLEAN
      BY DEF GivingBack
    <2>2. Happens("early_drop") \/ HappensIf(GivingBack(Owner[c]), "late_drop")
      BY DEF Drop
    <2> QED
      BY <1>0, <2>1, <2>2, Types, Mishaps DEF Mishap
  <1>2. /\ live' = live \ {c} /\ gone' = [gone EXCEPT ![c] = "unmap"]
        /\ room' = [r \in Request |-> room[r] \ {c}]
        /\ UNCHANGED <<conn, joining, socketOf, online, pool, available, sessionVars,
                 current, away, timer, jobVars>>
        /\ c \in live
    BY DEF Drop
  <1>3. TypeOK'
    BY <1>0, <1>1, <1>2 DEF TypeOK, MishapsStay
  <1>4. \A r \in Request : RowOK(r)'
    BY <1>0, <1>2 DEF Base, RowOK, Untouched
  <1>5. \A d \in Socket : SocketOK(d)'
    BY <1>0, <1>2 DEF Base, SocketOK, Parties, TypeOK
  <1> QED
    BY <1>1, <1>3, <1>4, <1>5 DEF Base

LEMMA ConnectingBase ==
  ASSUME Base, NEW c \in Socket, ConnectStep(c)
  PROVE  Base' /\ MishapsStay
  <1> USE DEF socketVars, sessionVars, chatVars, jobVars
  <1>0. TypeOK /\ Owner[c] \in Account
    BY Constants DEF Base
  <1>1. MishapsStay
    <2>1. (\E r \in Request : asking[r].step = "create" /\ asking[r].v = Owner[c]) \in BOOLEAN
      OBVIOUS
    <2>2. \/ UNCHANGED mishaps
          \/ HappensIf(\E r \in Request : asking[r].step = "create" /\ asking[r].v = Owner[c],
                       "late_match")
      BY DEF ConnectStep, MapSocket, AddOnline, AddToPool
    <2> QED
      BY <1>0, <2>1, <2>2, Types, Mishaps DEF Mishap
  <1>2. /\ \E s \in {"online", "pool", "done"} :
              /\ conn' = [conn EXCEPT ![c] = s]
              /\ s \in {"online", "pool"} => Owner[c] \in Volunteer
        /\ socketOf' \in {socketOf, [socketOf EXCEPT ![Owner[c]] = c]}
        /\ online' \subseteq Volunteer /\ pool' \subseteq Volunteer
        /\ conn[c] \notin {"new", "done"}
        /\ UNCHANGED <<live, gone, joining, available, sessionVars, chatVars, jobVars>>
    <2>1. SocketOK(c) /\ pool \subseteq Volunteer /\ online \subseteq Volunteer
      BY <1>0 DEF Base, TypeOK
    <2>2. CASE MapSocket(c)
      BY <2>1, <2>2 DEF MapSocket
    <2>3. CASE AddOnline(c)
      BY <2>1, <2>3 DEF AddOnline, SocketOK
    <2>4. CASE AddToPool(c)
      BY <2>1, <2>4 DEF AddToPool, SocketOK
    <2> QED
      BY <2>2, <2>3, <2>4 DEF ConnectStep
  <1>3. TypeOK'
    <2>1. /\ socketOf' \in [Account -> Socket \cup {None}]
          /\ \A a \in Account : socketOf'[a] # None => Owner[socketOf'[a]] = a
      <3>1. socketOf \in [Account -> Socket \cup {None}] /\ c \in Socket
        BY <1>0 DEF TypeOK
      <3>2. \A a \in Account : socketOf[a] # None => Owner[socketOf[a]] = a
        BY <1>0 DEF TypeOK
      <3>3. CASE socketOf' = socketOf
        BY <3>1, <3>2, <3>3
      <3>4. CASE socketOf' = [socketOf EXCEPT ![Owner[c]] = c]
        <4>1. socketOf' \in [Account -> Socket \cup {None}]
          BY <1>0, <3>1, <3>4
        <4>2. ASSUME NEW a \in Account, socketOf'[a] # None PROVE Owner[socketOf'[a]] = a
          BY <1>0, <3>1, <3>2, <3>4, <4>2
        <4> QED
          BY <4>1, <4>2
      <3> QED
        BY <1>2, <3>3, <3>4
    <2>2. conn' \in [Socket -> {"new", "map", "online", "pool", "done"}]
      BY <1>0, <1>2 DEF TypeOK
    <2> QED
      BY <1>0, <1>1, <1>2, <2>1, <2>2 DEF TypeOK, MishapsStay
  <1>4. \A r \in Request : RowOK(r)'
    BY <1>0, <1>2 DEF Base, RowOK, Untouched
  <1>5. \A d \in Socket : SocketOK(d)'
    BY <1>0, <1>2 DEF Base, SocketOK, Parties, TypeOK
  <1> QED
    BY <1>1, <1>3, <1>4, <1>5 DEF Base

LEMMA DisconnectBase ==
  ASSUME Base, NEW c \in Socket, DisconnectStep(c)
  PROVE  Base' /\ MishapsStay
  <1> USE DEF socketVars, sessionVars, chatVars, jobVars
  <1>0. TypeOK /\ Owner[c] \in Account
    BY Constants DEF Base
  <1>1. MishapsStay
    BY <1>0, Types, Mishaps DEF DisconnectStep, Unmap, DeleteMapping, LeavePools
  <1>2. CASE Unmap(c) \/ DeleteMapping(c)
    <2>1. /\ \E s \in {"done", "delete", "leave"} : gone' = [gone EXCEPT ![c] = s]
          /\ socketOf' \in {socketOf, [socketOf EXCEPT ![Owner[c]] = None]}
          /\ UNCHANGED <<live, conn, joining, online, pool, available,
                 sessionVars, chatVars, jobVars>>
          /\ gone[c] \in {"unmap", "delete"}
      BY <1>2 DEF Unmap, DeleteMapping
    <2>2. TypeOK'
      <3>1. /\ socketOf' \in [Account -> Socket \cup {None}]
            /\ \A a \in Account : socketOf'[a] \in {None, socketOf[a]}
        BY <1>0, <2>1 DEF TypeOK
      <3>2. gone' \in [Socket -> {"no", "unmap", "delete", "leave", "done"}]
        BY <1>0, <2>1 DEF TypeOK
      <3> QED
        BY <1>0, <1>1, <2>1, <3>1, <3>2 DEF TypeOK, MishapsStay
    <2>3. \A r \in Request : RowOK(r)'
      BY <1>0, <2>1 DEF Base, RowOK, Untouched
    <2>4. \A d \in Socket : SocketOK(d)'
      BY <1>0, <2>1 DEF Base, SocketOK, Parties, TypeOK
    <2> QED
      BY <1>1, <2>2, <2>3, <2>4 DEF Base
  <1>3. CASE LeavePools(c)
    <2> DEFINE a == Owner[c] r == current[a]
    <2>1. /\ gone' = [gone EXCEPT ![c] = "done"] /\ gone[c] = "leave"
          /\ pool' \subseteq pool /\ online' \subseteq online
          /\ r = None => UNCHANGED <<away, rjob>>
          /\ r # None => /\ away' = [away EXCEPT ![r] = @ \cup {a}]
                         /\ rjob' = [rjob EXCEPT ![r][a] = Add(@)]
          /\ UNCHANGED <<live, conn, joining, socketOf, available, sessionVars, current,
                 timer, room, tjob, ending>>
      BY <1>3 DEF LeavePools
    <2>2. r \in Request \cup {None}
      BY <1>0 DEF TypeOK
    <2>3. r # None => RJobSet(r, a, Add(rjob[r][a]))
      <3>1. SUFFICES ASSUME r # None PROVE RJobSet(r, a, Add(rjob[r][a]))
        OBVIOUS
      <3>2. rjob[r][a] \in JobState /\ Add(rjob[r][a]) \in JobState
        BY <1>0, <2>2, <3>1, Types DEF Add, JobState
      <3>3. rjob' = [rjob EXCEPT ![r][a] = Add(rjob[r][a])]
        BY <2>1, <3>1
      <3> QED
        BY <1>0, <2>2, <3>1, <3>2, <3>3, Types, RJobUpdate
    <2>4. away' \in [Request -> SUBSET Account] /\ rjob' \in [Request -> [Account -> JobState]]
      <3>1. away \in [Request -> SUBSET Account] /\ rjob \in [Request -> [Account -> JobState]]
        BY <1>0, Types DEF TypeOK
      <3>2. CASE r = None
        BY <2>1, <3>1, <3>2
      <3>3. CASE r # None
        <4>1. rjob' \in [Request -> [Account -> JobState]]
          BY <2>3, <3>3 DEF RJobSet
        <4>2. away[r] \cup {a} \in SUBSET Account
          BY <1>0, <2>2, <3>1, <3>3
        <4> QED
          BY <2>1, <3>1, <3>3, <4>1, <4>2
      <3> QED
        BY <3>2, <3>3
    <2>5. TypeOK'
      BY <1>0, <1>1, <2>1, <2>4 DEF TypeOK, MishapsStay
    <2>6. \A q \in Request : q # r => away'[q] = away[q] /\ \A b \in Account : rjob'[q][b] = rjob[q][b]
      BY <1>0, <2>1, <2>2, <2>3 DEF TypeOK, RJobSet
    <2>7. ASSUME NEW q \in Request PROVE RowOK(q)'
      <3>1. RowOK(q) /\ (row[q] = "none" => q # r)
        BY <1>0 DEF Base, RowOK, Untouched
      <3> QED
        BY <2>1, <2>6, <3>1 DEF RowOK, Untouched
    <2>8. \A d \in Socket : SocketOK(d)'
      BY <1>0, <2>1 DEF Base, SocketOK, Parties, TypeOK
    <2> QED
      BY <1>1, <2>5, <2>7, <2>8 DEF Base
  <1> QED
    BY <1>2, <1>3 DEF DisconnectStep

(* room:join                                                               *)
LEMMA ValidateBase ==
  ASSUME Base, NEW c \in Socket, NEW r \in Request, ValidateJoin(c, r)
  PROVE  Base' /\ MishapsStay /\ JoinSet(c, [step |-> "enter", r |-> r, fresh |-> FALSE])
  <1> DEFINE j == [step |-> "enter", r |-> r, fresh |-> FALSE]
  <1> USE DEF socketVars, sessionVars, chatVars, jobVars
  <1>0. TypeOK /\ Owner[c] \in Account /\ j \in JoinRecord
    BY Constants DEF Base, JoinRecord
  <1>1. MishapsStay
    <2>1. HappensIf(\E q \in Request : ~TornDown(q) /\ Owner[c] \in Parties(q), "early_rematch")
      BY DEF ValidateJoin
    <2> QED
      BY <1>0, <2>1, Types, Mishaps DEF Mishap
  <1>2. /\ JoinSet(c, j) /\ c \in live /\ conn[c] # "map" /\ row[r] = "active"
        /\ Owner[c] \in Parties(r)
        /\ UNCHANGED <<live, conn, gone, socketOf, online, pool, available, sessionVars,
                 chatVars, jobVars>>
    BY <1>0, Types, JoinUpdate DEF ValidateJoin
  <1>3. TypeOK'
    BY <1>0, <1>1, <1>2 DEF TypeOK, MishapsStay, JoinSet, JoinRecord
  <1>4. \A q \in Request : RowOK(q)'
    BY <1>0, <1>2 DEF Base, RowOK, Untouched, JoinSet
  <1>5. \A d \in Socket : SocketOK(d)'
    BY <1>0, <1>2 DEF Base, SocketOK, Parties, TypeOK, JoinSet
  <1> QED
    BY <1>1, <1>2, <1>3, <1>4, <1>5 DEF Base

LEMMA EnterBase ==
  ASSUME Base, NEW c \in Socket, EnterRoom(c)
  PROVE  /\ Base' /\ joining[c].r \in Request
         /\ \E s \in {"rejoin", "timer"} :
              /\ JoinSet(c, [step |-> s, r |-> joining[c].r, fresh |-> ~timer[joining[c].r]])
              /\ s = "rejoin" <=> Owner[c] \in away[joining[c].r]
  <1> DEFINE r == joining[c].r a == Owner[c] s == IF a \in away[r] THEN "rejoin" ELSE "timer"
             j == [step |-> s, r |-> r, fresh |-> ~timer[r]]
  <1> USE DEF socketVars, sessionVars, chatVars, jobVars
  <1>0. TypeOK /\ a \in Account /\ SocketOK(c) /\ RowOK(r)
    <2>1. TypeOK /\ a \in Account /\ SocketOK(c) /\ joining[c].step = "enter"
      BY Constants DEF Base, EnterRoom
    <2> QED
      BY <2>1 DEF Base, SocketOK
  <1>1. r \in Request /\ a \in Parties(r) /\ joining[c].step = "enter"
        /\ s \in {"rejoin", "timer"} /\ timer[r] \in BOOLEAN
    BY <1>0 DEF SocketOK, EnterRoom, TypeOK
  <1>2. JoinSet(c, j)
    <2>1. joining' = [joining EXCEPT ![c].step = s, ![c].fresh = ~timer[r]]
      BY DEF EnterRoom
    <2>2. s \in {"none", "enter", "rejoin", "timer"} /\ (~timer[r]) \in BOOLEAN
      <3> HIDE DEF s
      <3> QED
        BY <1>1
    <2>3. joining \in [Socket -> JoinRecord]
      BY <1>0, Types
    <2> HIDE DEF s
    <2> QED
      BY <2>1, <2>2, <2>3, JoinParts
  <1>3. /\ room' = IF c \in live THEN [room EXCEPT ![r] = @ \cup {c}] ELSE room
        /\ current' = [current EXCEPT ![a] = r]
        /\ UNCHANGED <<live, conn, gone, socketOf, online, pool, available, sessionVars,
                 away, timer, jobVars, mishaps>>
    BY DEF EnterRoom
  <1> HIDE DEF s
  <1>4. TypeOK'
    BY <1>0, <1>1, <1>2, <1>3 DEF TypeOK, JoinSet, JoinRecord
  <1>5. ASSUME NEW q \in Request PROVE RowOK(q)'
    <2>1. RowOK(q) /\ (row[q] = "none" => q # r) /\ (current[a] = q => row[q] # "none")
      BY <1>0, <1>1 DEF Base, RowOK, Untouched
    <2>2. room \in [Request -> SUBSET Socket] /\ current \in [Account -> Request \cup {None}]
      BY <1>0 DEF TypeOK
    <2>3. CASE q = r
      BY <1>3, <2>1, <2>3 DEF RowOK
    <2>4. CASE q # r
      <3>1. room'[q] = room[q] /\ \A b \in Account : current[b] # q => current'[b] # q
        BY <1>0, <1>1, <1>3, <2>2, <2>4
      <3>2. \A d \in Socket : joining[d].r # q => joining'[d].r # q
        BY <1>2, <2>4 DEF JoinSet
      <3> QED
        BY <1>3, <2>1, <3>1, <3>2 DEF RowOK, Untouched
    <2> QED
      BY <2>3, <2>4
  <1>6. ASSUME NEW d \in Socket PROVE SocketOK(d)'
    <2>1. SocketOK(d) /\ (conn[d] \in {"new", "map"} => d # c)
      <3>1. SocketOK(d) /\ SocketOK(c)
        BY <1>0 DEF Base
      <3> QED
        BY <1>1, <3>1 DEF SocketOK, NoJoin
    <2>2. \A q \in Request : d \in room'[q] => d \in live /\ Owner[d] \in Parties(q)
      BY <1>0, <1>1, <1>3, <2>1 DEF SocketOK, TypeOK
    <2>3. /\ joining'[d].step = "none" => joining'[d] = NoJoin
          /\ joining'[d].step # "none" => joining'[d].r \in Request /\ Owner[d] \in Parties(joining'[d].r)
      BY <1>1, <1>2, <2>1 DEF SocketOK, JoinSet
    <2>4. conn[d] \in {"new", "map"} => joining'[d] = NoJoin /\ \A q \in Request : d \notin room'[q]
      BY <1>0, <1>1, <1>2, <1>3, <2>1 DEF SocketOK, JoinSet, TypeOK
    <2> QED
      BY <1>3, <2>1, <2>2, <2>3, <2>4 DEF SocketOK, Parties
  <1>7. s = "rejoin" <=> a \in away[r]
    BY DEF s
  <1> QED
    BY <1>1, <1>2, <1>4, <1>5, <1>6, <1>7 DEF Base

LEMMA RejoinBase ==
  ASSUME Base, NEW c \in Socket, Rejoin(c)
  PROVE  /\ Base' /\ MishapsStay /\ joining[c].r \in Request /\ JoinSet(c, NoJoin)
         /\ \/ /\ rjob[joining[c].r][Owner[c]] = "active" /\ "job_race" \in mishaps'
               /\ UNCHANGED <<away, rjob>>
            \/ /\ RJobSet(joining[c].r, Owner[c], "none")
               /\ away' = [away EXCEPT ![joining[c].r] = @ \ {Owner[c]}]
  <1> DEFINE r == joining[c].r a == Owner[c]
  <1> USE DEF socketVars, sessionVars, chatVars, jobVars
  <1>0. TypeOK /\ a \in Account /\ SocketOK(c) /\ joining[c].step = "rejoin"
    BY Constants DEF Base, Rejoin
  <1>1. r \in Request /\ rjob \in [Request -> [Account -> JobState]]
        /\ away \in [Request -> SUBSET Account]
    BY <1>0, Types DEF SocketOK, TypeOK
  <1>2. JoinSet(c, NoJoin)
    BY <1>0, Types, JoinUpdate DEF Rejoin
  <1>3. /\ \/ rjob[r][a] = "active" /\ Happens("job_race") /\ UNCHANGED <<away, rjob>>
           \/ /\ rjob' = [rjob EXCEPT ![r][a] = "none"]
              /\ away' = [away EXCEPT ![r] = @ \ {a}] /\ UNCHANGED mishaps
        /\ UNCHANGED <<live, conn, gone, socketOf, online, pool, available, sessionVars,
                 current, timer, room, tjob, ending>>
    BY DEF Rejoin
  <1>4. MishapsStay /\ (Happens("job_race") => "job_race" \in mishaps')
    BY <1>0, <1>3, Types, Mishaps DEF Mishap
  <1>5. \/ rjob[r][a] = "active" /\ "job_race" \in mishaps' /\ UNCHANGED <<away, rjob>>
        \/ RJobSet(r, a, "none") /\ away' = [away EXCEPT ![r] = @ \ {a}]
    <2>1. "none" \in JobState
      BY DEF JobState
    <2> QED
      BY <1>0, <1>1, <1>3, <1>4, <2>1, RJobUpdate
  <1>6. /\ rjob' \in [Request -> [Account -> JobState]] /\ away' \in [Request -> SUBSET Account]
        /\ \A q \in Request : /\ away'[q] \subseteq away[q]
                              /\ \A b \in Account : rjob'[q][b] \in {"none", rjob[q][b]}
    BY <1>0, <1>1, <1>5 DEF RJobSet
  <1>7. TypeOK'
    BY <1>0, <1>2, <1>3, <1>4, <1>6 DEF TypeOK, MishapsStay, JoinSet, JoinRecord
  <1>8. ASSUME NEW q \in Request PROVE RowOK(q)'
    <2>1. RowOK(q)
      BY DEF Base
    <2>2. \A d \in Socket : joining[d].r # q => joining'[d].r # q
      BY <1>2, Constants DEF JoinSet, NoJoin
    <2> QED
      BY <1>3, <1>6, <2>1, <2>2 DEF RowOK, Untouched
  <1>9. \A d \in Socket : SocketOK(d)'
    BY <1>2, <1>3 DEF Base, SocketOK, Parties, JoinSet, NoJoin
  <1> QED
    BY <1>1, <1>2, <1>4, <1>5, <1>7, <1>8, <1>9 DEF Base

LEMMA TimerBase ==
  ASSUME Base, NEW c \in Socket, StartTimer(c)
  PROVE  Base' /\ joining[c].r \in Request /\ JoinSet(c, NoJoin)
  <1> DEFINE r == joining[c].r
  <1> USE DEF socketVars, sessionVars, chatVars, jobVars
  <1>0. TypeOK /\ SocketOK(c) /\ joining[c].step = "timer"
    BY DEF Base, StartTimer
  <1>1. r \in Request /\ row[r] # "none"
    BY <1>0 DEF SocketOK, Base, RowOK, Untouched
  <1>2. JoinSet(c, NoJoin)
    BY <1>0, Types, JoinUpdate DEF StartTimer
  <1>3. /\ \/ UNCHANGED <<tjob, timer>>
           \/ /\ tjob' = [tjob EXCEPT ![r] = Add(@)] /\ timer' = [timer EXCEPT ![r] = TRUE]
        /\ UNCHANGED <<live, conn, gone, socketOf, online, pool, available, sessionVars,
                 current, away, room, rjob, ending, mishaps>>
    BY DEF StartTimer
  <1>4. tjob' \in [Request -> JobState] /\ timer' \in [Request -> BOOLEAN]
        /\ \A q \in Request : /\ q # r => tjob'[q] = tjob[q] /\ timer'[q] = timer[q]
                              /\ tjob'[q] \in {tjob[q], "delayed"}
    <2>1. tjob \in [Request -> JobState] /\ timer \in [Request -> BOOLEAN]
      BY <1>0 DEF TypeOK
    <2>2. Add(tjob[r]) \in {tjob[r], "delayed"} /\ Add(tjob[r]) \in JobState
      BY <1>1, <2>1 DEF Add, JobState
    <2> QED
      BY <1>1, <1>3, <2>1, <2>2
  <1>7. TypeOK'
    BY <1>0, <1>2, <1>3, <1>4 DEF TypeOK, JoinSet, JoinRecord
  <1>8. ASSUME NEW q \in Request PROVE RowOK(q)'
    <2>1. RowOK(q)
      BY DEF Base
    <2>2. \A d \in Socket : joining[d].r # q => joining'[d].r # q
      BY <1>2, Constants DEF JoinSet, NoJoin
    <2> QED
      BY <1>1, <1>3, <1>4, <2>1, <2>2 DEF RowOK, Untouched
  <1>9. \A d \in Socket : SocketOK(d)'
    BY <1>2, <1>3 DEF Base, SocketOK, Parties, JoinSet, NoJoin
  <1> QED
    BY <1>1, <1>2, <1>7, <1>8, <1>9 DEF Base

(* An active row is given its end.                                         *)
Ended(r, by, a, status) ==
  \/ row[r] # "active" /\ UNCHANGED <<row, ending>>
  \/ /\ row[r] = "active" /\ row' = [row EXCEPT ![r] = status]
     /\ EndSet(r, [by |-> by, step |-> "clear", of |-> a])

LEMMA EndingRow ==
  ASSUME Base, NEW r \in Request, NEW by \in {"user", "reconnect", "timeout"},
         NEW a \in Account \cup {None}, NEW status \in {"completed", "cancelled"},
         EndRow(r, by, a, status)
  PROVE  Ended(r, by, a, status)
  <1>1. [by |-> by, step |-> "clear", of |-> a] \in EndRecord
    BY DEF EndRecord
  <1>2. [by |-> by, of |-> a, step |-> "clear"] = [by |-> by, step |-> "clear", of |-> a]
    OBVIOUS
  <1>3. row[r] = "active" => ending' = [ending EXCEPT ![r] = [by |-> by, step |-> "clear", of |-> a]]
    BY <1>2 DEF EndRow
  <1>4. ending \in [Request -> EndRecord]
    BY Types DEF Base
  <1> DEFINE e == [by |-> by, step |-> "clear", of |-> a]
  <1> HIDE DEF e
  <1>5. row[r] = "active" => EndSet(r, e)
    BY <1>1, <1>3, <1>4, EndUpdate DEF e
  <1> QED
    BY <1>5 DEF Ended, EndRow, e

(* What an end of a row does to the rest of Base. *)
LEMMA EndedBase ==
  ASSUME Base, NEW r \in Request, NEW by \in {"user", "reconnect", "timeout"},
         NEW a \in Account \cup {None}, by = "reconnect" => a \in Account,
         NEW status \in {"completed", "cancelled"}, Ended(r, by, a, status), MishapsStay,
         rjob' \in [Request -> [Account -> JobState]], tjob' \in [Request -> JobState],
         \A q \in Request :
            /\ row[q] = "none" => tjob'[q] = "none" /\ \A b \in Account : rjob'[q][b] = "none"
            /\ tjob'[q] = tjob[q] \/ row[q] # "active" \/ q = r,
         UNCHANGED <<socketVars, pool, available, listener, about, matched, asking, sjob, chatVars>>
  PROVE  Base'
  <1> USE DEF socketVars, chatVars
  <1>1. TypeOK /\ row' \in [Request -> {"none", "active", "completed", "cancelled"}]
        /\ \A q \in Request : q # r \/ row[r] # "active" => row'[q] = row[q] /\ ending'[q] = ending[q]
    <2>1. TypeOK /\ row \in [Request -> {"none", "active", "completed", "cancelled"}]
      BY DEF Base, TypeOK
    <2>2. CASE row[r] # "active"
      BY <2>1, <2>2 DEF Ended
    <2>3. CASE row[r] = "active"
      <3>1. row' = [row EXCEPT ![r] = status] /\ \A q \in Request : q # r => ending'[q] = ending[q]
        BY <2>3 DEF Ended, EndSet
      <3> QED
        BY <2>1, <2>3, <3>1
    <2> QED
      BY <2>2, <2>3
  <1>2. ending' \in [Request -> EndRecord]
    BY <1>1, Types DEF Ended, EndSet
  <1>3. TypeOK'
    BY <1>1, <1>2 DEF TypeOK, MishapsStay, EndRecord
  <1>4. ASSUME NEW q \in Request PROVE RowOK(q)'
    <2>1. RowOK(q)
      BY DEF Base
    <2>2. CASE q # r \/ row[r] # "active"
      BY <1>1, <2>1, <2>2 DEF RowOK, Untouched
    <2>3. CASE q = r /\ row[r] = "active"
      <3>1. /\ row'[r] = status /\ ending'[r].by = by /\ ending'[r].of = a /\ ending'[r].step = "clear"
        BY <1>1, <2>3 DEF Ended, EndSet, TypeOK
      <3> QED
        BY <2>1, <2>3, <3>1 DEF RowOK
    <2> QED
      BY <2>2, <2>3
  <1>5. \A d \in Socket : SocketOK(d)'
    BY <1>1 DEF Base, SocketOK, Parties, TypeOK
  <1> QED
    BY <1>3, <1>4, <1>5 DEF Base

LEMMA SessionEndBase ==
  ASSUME Base, NEW c \in Socket, NEW r \in Request, SessionEnd(c, r)
  PROVE  /\ Base' /\ MishapsStay /\ Ended(r, "user", Owner[c], "completed")
         /\ BeingJoined(r) => "late_join" \in mishaps'
  <1>0. TypeOK /\ Owner[c] \in Account
    BY Constants DEF Base
  <1>1. MishapsStay /\ (BeingJoined(r) => "late_join" \in mishaps')
    <2>1. BeingJoined(r) \in BOOLEAN /\ HappensIf(BeingJoined(r), "late_join")
      BY DEF SessionEnd, BeingJoined
    <2> QED
      BY <1>0, <2>1, Types, Mishaps DEF Mishap
  <1>2. Ended(r, "user", Owner[c], "completed")
    BY <1>0, EndingRow DEF SessionEnd
  <1>3. UNCHANGED <<socketVars, pool, available, listener, about, matched, asking, sjob,
                 chatVars, rjob, tjob>>
    BY DEF SessionEnd
  <1>4. Base'
    <2>1. \A q \in Request : row[q] = "none" => tjob[q] = "none" /\ \A b \in Account : rjob[q][b] = "none"
      BY DEF Base, RowOK, Untouched
    <2>2. rjob' \in [Request -> [Account -> JobState]] /\ tjob' \in [Request -> JobState]
      BY <1>0, <1>3, Types DEF TypeOK
    <2> QED
      BY <1>0, <1>1, <1>2, <1>3, <2>1, <2>2, EndedBase
  <1> QED
    BY <1>1, <1>2, <1>4

(* session:request: a request r whose row is not there yet.                *)
Asks(r, s, v) ==
  /\ row[r] = "none" /\ AskSet(r, s, v)
  /\ s \in {"pop", "create"} => about'[r] \in Problem
  /\ s \in {"create", "back", "add"} => v \in Volunteer
  /\ \A q \in Request : q # r => about'[q] = about[q]
  /\ UNCHANGED <<live, conn, gone, joining, online, available, row, listener, matched, sjob,
                 chatVars, jobVars>>

LEMMA AsksBase ==
  ASSUME Base, NEW r \in Request, NEW s \in {"pop", "create", "back", "add", "done"},
         NEW v \in Volunteer \cup {None}, Asks(r, s, v), MishapsStay,
         pool' \subseteq Volunteer, about' \in [Request -> Problem \cup {None}],
         socketOf' \in [Account -> Socket \cup {None}],
         \A a \in Account : socketOf'[a] \in {None, socketOf[a]}
  PROVE  Base'
  <1> USE DEF chatVars, jobVars
  <1>0. TypeOK
    BY DEF Base
  <1>1. TypeOK'
    <2>1. \A a \in Account : socketOf'[a] # None => Owner[socketOf'[a]] = a
      BY <1>0 DEF TypeOK
    <2>2. asking' \in [Request -> AskRecord]
      BY DEF Asks, AskSet
    <2> QED
      BY <1>0, <2>1, <2>2 DEF TypeOK, MishapsStay, Asks, AskRecord
  <1>2. ASSUME NEW q \in Request PROVE RowOK(q)'
    <2>1. RowOK(q)
      BY DEF Base
    <2>2. CASE q # r
      BY <2>1, <2>2 DEF RowOK, Untouched, Asks, AskSet
    <2>3. CASE q = r
      <3>1. asking'[r].step = s /\ asking'[r].v = v
        BY DEF Asks, AskSet
      <3>2. row'[r] = "none" /\ (Untouched(r))' /\ ending'[r] = NotEnding
        BY <2>1, <2>3 DEF RowOK, Untouched, Asks
      <3> QED
        BY <2>3, <3>1, <3>2 DEF RowOK, NotEnding, Asks
    <2> QED
      BY <2>2, <2>3
  <1>3. \A d \in Socket : SocketOK(d)'
    BY DEF Base, SocketOK, Parties, Asks
  <1> QED
    BY <1>1, <1>2, <1>3 DEF Base

(* A request that is not done has no row.                                  *)
LEMMA NoRowYet ==
  ASSUME Base, NEW r \in Request, asking[r].step # "done"
  PROVE  row[r] = "none" /\ Untouched(r) /\ ending[r] = NotEnding
  BY DEF Base, RowOK, Untouched

LEMMA CheckRequestBase ==
  ASSUME Base, NEW r \in Request, CheckRequest(r)
  PROVE  /\ Base' /\ MishapsStay /\ (Handled(r) => "double_request" \in mishaps')
         /\ asking[r].step = "new" /\ UNCHANGED <<socketVars, pool>>
         /\ \/ Asks(r, "pop", None) /\ Active(SeekerOf[r]) = {}
            \/ Asks(r, "done", None)
  <1> USE DEF socketVars, chatVars, jobVars
  <1>0. TypeOK /\ asking[r].step = "new" /\ row[r] = "none"
    BY NoRowYet DEF Base, CheckRequest, Fresh
  <1>1. MishapsStay /\ (Handled(r) => "double_request" \in mishaps')
    <2>1. Handled(r) \in BOOLEAN /\ HappensIf(Handled(r), "double_request")
      BY DEF Handled, CheckRequest
    <2> QED
      BY <1>0, <2>1, Types, Mishaps DEF Mishap
  <1>2. PICK p \in Choice(r) :
          /\ about' = [about EXCEPT ![r] = p]
          /\ IF Active(SeekerOf[r]) = {} /\ p \notin matched
               THEN Ask(r, "pop", None) ELSE Ask(r, "done", None)
    BY DEF CheckRequest
  <1>3. p \in Problem /\ about \in [Request -> Problem \cup {None}]
    BY <1>0 DEF Choice, TypeOK
  <1>4. about' \in [Request -> Problem \cup {None}] /\ about'[r] = p
        /\ \A q \in Request : q # r => about'[q] = about[q]
    BY <1>2, <1>3
  <1>5. PICK s \in {"pop", "done"} : Ask(r, s, None) /\ (s = "pop" => Active(SeekerOf[r]) = {})
    BY <1>2
  <1>6. AskSet(r, s, None)
    BY <1>0, <1>5, Types, AskUpdate
  <1>7. /\ UNCHANGED <<socketVars, pool, available, row, listener, matched, sjob, chatVars, jobVars>>
    BY DEF CheckRequest
  <1>8. Asks(r, s, None)
    BY <1>0, <1>3, <1>4, <1>5, <1>6, <1>7 DEF Asks
  <1>9. Base'
    <2>1. /\ pool' \subseteq Volunteer /\ socketOf' \in [Account -> Socket \cup {None}]
          /\ \A a \in Account : socketOf'[a] \in {None, socketOf[a]}
      BY <1>0, <1>7 DEF TypeOK
    <2> QED
      BY <1>1, <1>4, <1>8, <2>1, AsksBase
  <1> QED
    BY <1>0, <1>1, <1>5, <1>7, <1>8, <1>9

LEMMA ClaimBase ==
  ASSUME Base, NEW r \in Request, ClaimVolunteer(r)
  PROVE  /\ Base' /\ MishapsStay /\ asking[r].step = "pop"
         /\ \/ Asks(r, "done", None) /\ UNCHANGED <<pool, socketOf, mishaps>>
            \/ \E v \in pool :
                 /\ pool' = pool \ {v} /\ (BeingPooled(v) => "late_match" \in mishaps')
                 /\ \/ Asks(r, "create", v) /\ socketOf[v] \in live /\ UNCHANGED socketOf
                    \/ /\ Asks(r, "pop", asking[r].v) /\ UNCHANGED asking
                       /\ socketOf[v] \notin live /\ socketOf' = [socketOf EXCEPT ![v] = None]
  <1> USE DEF socketVars, chatVars, jobVars
  <1>0. TypeOK /\ asking[r].step = "pop" /\ row[r] = "none" /\ about[r] \in Problem
    <2>1. TypeOK /\ asking[r].step = "pop"
      BY DEF Base, ClaimVolunteer
    <2> QED
      BY <2>1, NoRowYet DEF Base, RowOK
  <1>1. UNCHANGED <<about, live, conn, gone, joining, online, available, row, listener,
                 matched, sjob, chatVars, jobVars>>
    BY DEF ClaimVolunteer
  <1>2. CASE pool = {}
    <2>1. Ask(r, "done", None) /\ UNCHANGED <<pool, socketOf, mishaps>>
      BY <1>2 DEF ClaimVolunteer
    <2>2. AskSet(r, "done", None)
      BY <1>0, <2>1, Types, AskUpdate
    <2>3. Asks(r, "done", None)
      BY <1>0, <1>1, <2>2 DEF Asks
    <2>4. MishapsStay
      BY <1>0, <2>1, Types, Mishaps
    <2>5. Base'
      BY <1>0, <1>1, <2>1, <2>3, <2>4, AsksBase DEF TypeOK
    <2> QED
      BY <1>0, <2>1, <2>3, <2>4, <2>5
  <1>3. CASE pool # {}
    <2>1. PICK v \in pool :
              /\ pool' = pool \ {v}
              /\ HappensIf(BeingPooled(v), "late_match")
              /\ IF socketOf[v] \in live
                   THEN Ask(r, "create", v) /\ UNCHANGED socketOf
                   ELSE socketOf' = [socketOf EXCEPT ![v] = None] /\ UNCHANGED asking
      BY <1>3 DEF ClaimVolunteer
    <2>2. v \in Volunteer /\ v \in Account /\ pool' \subseteq Volunteer
      BY <1>0, <2>1, Constants DEF TypeOK
    <2>3. MishapsStay /\ (BeingPooled(v) => "late_match" \in mishaps')
      <3>1. BeingPooled(v) \in BOOLEAN
        BY DEF BeingPooled, GivingBack
      <3> QED
        BY <1>0, <2>1, <3>1, Types, Mishaps DEF Mishap
    <2>4. CASE socketOf[v] \in live
      <3>1. Ask(r, "create", v) /\ UNCHANGED socketOf
        BY <2>1, <2>4
      <3>2. AskSet(r, "create", v)
        BY <1>0, <2>2, <3>1, Types, AskUpdate
      <3>3. Asks(r, "create", v)
        BY <1>0, <1>1, <2>2, <3>2 DEF Asks
      <3>4. Base'
        BY <1>0, <1>1, <2>2, <2>3, <3>1, <3>3, AsksBase DEF TypeOK
      <3> QED
        BY <1>0, <2>1, <2>3, <2>4, <3>1, <3>3, <3>4
    <2>5. CASE socketOf[v] \notin live
      <3>1. socketOf' = [socketOf EXCEPT ![v] = None] /\ UNCHANGED asking
        BY <2>1, <2>5
      <3>2. asking \in [Request -> AskRecord]
        BY <1>0, Types
      <3>3. asking[r].v \in Volunteer \cup {None} /\ asking[r] = [step |-> "pop", v |-> asking[r].v]
        BY <1>0, <3>2 DEF AskRecord
      <3>4. AskSet(r, "pop", asking[r].v)
        BY <3>1, <3>2, <3>3 DEF AskSet
      <3>5. Asks(r, "pop", asking[r].v)
        BY <1>0, <1>1, <3>4 DEF Asks
      <3>6. /\ socketOf' \in [Account -> Socket \cup {None}]
            /\ \A a \in Account : socketOf'[a] \in {None, socketOf[a]}
        BY <1>0, <2>2, <3>1 DEF TypeOK
      <3>7. Base'
        BY <1>0, <1>1, <2>2, <2>3, <3>3, <3>5, <3>6, AsksBase DEF TypeOK
      <3> QED
        BY <1>0, <2>1, <2>3, <2>5, <3>1, <3>5, <3>7
    <2> QED
      BY <2>4, <2>5
  <1> QED
    BY <1>2, <1>3

LEMMA ReturningBase ==
  ASSUME Base, NEW r \in Request, CheckClaimed(r) \/ ReturnClaimed(r)
  PROVE  /\ Base' /\ MishapsStay /\ UNCHANGED socketVars
         /\ \/ /\ asking[r].step = "back" /\ asking[r].v \in Volunteer /\ UNCHANGED pool
               /\ Leaving(asking[r].v) => "late_drop" \in mishaps'
               /\ \/ Asks(r, "add", asking[r].v) /\ Eligible(asking[r].v)
                  \/ Asks(r, "done", None) /\ ~Eligible(asking[r].v)
            \/ /\ asking[r].step = "add" /\ asking[r].v \in Volunteer
               /\ pool' = pool \cup {asking[r].v} /\ Asks(r, "done", None) /\ UNCHANGED mishaps
  <1> USE DEF socketVars, chatVars, jobVars
  <1>0. TypeOK /\ asking[r].step \in {"back", "add"} /\ row[r] = "none" /\ asking[r].v \in Volunteer
    <2>1. TypeOK /\ asking[r].step \in {"back", "add"}
      BY DEF Base, CheckClaimed, ReturnClaimed
    <2> QED
      BY <2>1, NoRowYet DEF Base, RowOK
  <1>1. UNCHANGED <<about, socketVars, available, row, listener, matched, sjob, chatVars, jobVars>>
    BY DEF CheckClaimed, ReturnClaimed
  <1>2. ASSUME NEW s \in {"add", "done"}, NEW v \in Volunteer \cup {None}, Ask(r, s, v),
               s = "add" => v \in Volunteer, MishapsStay, pool' \subseteq Volunteer
        PROVE  Asks(r, s, v) /\ Base'
    <2>1. AskSet(r, s, v)
      BY <1>0, <1>2, Types, AskUpdate
    <2>2. Asks(r, s, v)
      BY <1>0, <1>1, <1>2, <2>1 DEF Asks
    <2>3. Base'
      <3>1. /\ about' \in [Request -> Problem \cup {None}]
            /\ socketOf' \in [Account -> Socket \cup {None}]
            /\ \A a \in Account : socketOf'[a] \in {None, socketOf[a]}
        BY <1>0, <1>1 DEF TypeOK
      <3> QED
        BY <1>2, <2>2, <3>1, AsksBase
    <2> QED
      BY <2>2, <2>3
  <1>3. CASE CheckClaimed(r)
    <2>1. asking[r].step = "back" /\ UNCHANGED pool
          /\ \/ Ask(r, "add", asking[r].v) /\ Eligible(asking[r].v)
             \/ Ask(r, "done", None) /\ ~Eligible(asking[r].v)
      BY <1>3 DEF CheckClaimed
    <2>2. MishapsStay /\ (Leaving(asking[r].v) => "late_drop" \in mishaps')
      <3>1. Leaving(asking[r].v) \in BOOLEAN /\ HappensIf(Leaving(asking[r].v), "late_drop")
        BY <1>3 DEF Leaving, CheckClaimed
      <3> QED
        BY <1>0, <3>1, Types, Mishaps DEF Mishap
    <2>3. pool' \subseteq Volunteer
      BY <1>0, <2>1 DEF TypeOK
    <2> QED
      BY <1>0, <1>1, <1>2, <2>1, <2>2, <2>3
  <1>4. CASE ReturnClaimed(r)
    <2>1. asking[r].step = "add" /\ pool' = pool \cup {asking[r].v} /\ Ask(r, "done", None)
          /\ UNCHANGED mishaps
      BY <1>4 DEF ReturnClaimed
    <2>2. MishapsStay /\ pool' \subseteq Volunteer
      BY <1>0, <2>1, Types, Mishaps DEF TypeOK
    <2> QED
      BY <1>0, <1>1, <1>2, <2>1, <2>2
  <1> QED
    BY <1>3, <1>4

(* A request opens its session: by itself, or by connect() or accept().     *)
Opens(r, v) ==
  /\ row[r] = "none" /\ asking[r].step # "done" /\ Untouched(r)
  /\ row' = [row EXCEPT ![r] = "active"] /\ listener' = [listener EXCEPT ![r] = v]
  /\ AskSet(r, "done", None)
  /\ about'[r] \in Problem \ matched /\ matched' = matched \cup {about'[r]}
  /\ \A q \in Request : q # r => about'[q] = about[q] /\ sjob'[q] = sjob[q]
  /\ UNCHANGED <<socketVars, available, chatVars, jobVars>>

LEMMA OpensBase ==
  ASSUME Base, NEW r \in Request, NEW v \in Volunteer, Opens(r, v), MishapsStay,
         pool' \subseteq Volunteer, about' \in [Request -> Problem \cup {None}],
         sjob' \in [Request -> JobState]
  PROVE  Base'
  <1> USE DEF socketVars, chatVars, jobVars
  <1>0. TypeOK
    BY DEF Base
  <1>1. /\ row' \in [Request -> {"none", "active", "completed", "cancelled"}]
        /\ listener' \in [Request -> Volunteer \cup {None}]
        /\ row'[r] = "active" /\ listener'[r] = v
        /\ \A q \in Request : q # r => row'[q] = row[q] /\ listener'[q] = listener[q]
        /\ matched \subseteq matched' /\ about'[r] \in matched' /\ matched' \subseteq Problem
    BY <1>0 DEF Opens, TypeOK
  <1>2. TypeOK'
    BY <1>0, <1>1 DEF TypeOK, MishapsStay, Opens, AskSet, AskRecord
  <1>3. ASSUME NEW q \in Request PROVE RowOK(q)'
    <2>1. RowOK(q)
      BY DEF Base
    <2>2. CASE q # r
      BY <1>1, <2>1, <2>2 DEF RowOK, Untouched, Opens, AskSet
    <2>3. CASE q = r
      <3>1. asking'[r].step = "done" /\ ending'[r] = NotEnding /\ tjob'[r] = "none"
        BY DEF Opens, AskSet, Untouched
      <3> QED
        BY <1>1, <2>3, <3>1 DEF RowOK, NotEnding
    <2> QED
      BY <2>2, <2>3
  <1>4. ASSUME NEW d \in Socket PROVE SocketOK(d)'
    <2>1. SocketOK(d) /\ (\A q \in Request : d \in room[q] => q # r) /\ joining[d].r # r
      BY DEF Base, Opens, Untouched
    <2> QED
      BY <1>1, <2>1 DEF SocketOK, Parties, Opens
  <1> QED
    BY <1>2, <1>3, <1>4 DEF Base

LEMMA CreateBase ==
  ASSUME Base, NEW r \in Request, CreateSession(r)
  PROVE  /\ Base' /\ UNCHANGED <<socketVars, pool, mishaps>>
         /\ asking[r].step = "create" /\ asking[r].v \in Volunteer
         /\ Asks(r, "back", asking[r].v) \/ Opens(r, asking[r].v)
  <1> USE DEF socketVars, chatVars, jobVars
  <1>0. /\ TypeOK /\ asking[r].step = "create" /\ row[r] = "none" /\ Untouched(r)
        /\ asking[r].v \in Volunteer /\ about[r] \in Problem
    <2>1. TypeOK /\ asking[r].step = "create"
      BY DEF Base, CreateSession
    <2> QED
      BY <2>1, NoRowYet DEF Base, RowOK
  <1>1. UNCHANGED <<about, socketVars, pool, available, sjob, chatVars, jobVars, mishaps>>
    BY DEF CreateSession
  <1>2. MishapsStay /\ pool' \subseteq Volunteer /\ about' \in [Request -> Problem \cup {None}]
        /\ sjob' \in [Request -> JobState]
        /\ socketOf' \in [Account -> Socket \cup {None}]
        /\ \A a \in Account : socketOf'[a] \in {None, socketOf[a]}
    BY <1>0, <1>1, Types, Mishaps DEF TypeOK
  <1>3. CASE about[r] \in matched
    <2>1. Ask(r, "back", asking[r].v) /\ UNCHANGED <<row, listener, matched>>
      BY <1>3 DEF CreateSession
    <2>2. AskSet(r, "back", asking[r].v)
      BY <1>0, <2>1, Types, AskUpdate
    <2>3. Asks(r, "back", asking[r].v)
      BY <1>0, <1>1, <2>1, <2>2 DEF Asks
    <2>4. Base'
      BY <1>0, <1>2, <2>3, AsksBase
    <2> QED
      BY <1>0, <1>1, <2>3, <2>4
  <1>4. CASE about[r] \notin matched
    <2>1. /\ matched' = matched \cup {about[r]}
          /\ row' = [row EXCEPT ![r] = "active"]
          /\ listener' = [listener EXCEPT ![r] = asking[r].v]
          /\ Ask(r, "done", None)
      BY <1>4 DEF CreateSession
    <2>2. AskSet(r, "done", None)
      BY <1>0, <2>1, Types, AskUpdate
    <2>3. Opens(r, asking[r].v)
      BY <1>0, <1>1, <1>4, <2>1, <2>2 DEF Opens
    <2>4. Base'
      BY <1>0, <1>2, <2>3, OpensBase
    <2> QED
      BY <1>0, <1>1, <2>3, <2>4
  <1> QED
    BY <1>3, <1>4

LEMMA Elsewhere ==
  ASSUME Base, NEW r \in Request, NEW v \in Volunteer, OpenElsewhere(r, v),
         UNCHANGED <<socketVars, available, chatVars, jobVars>>
  PROVE  /\ Opens(r, v) /\ asking[r].step = "new" /\ Active(SeekerOf[r]) = {}
         /\ about' \in [Request -> Problem \cup {None}] /\ sjob' \in [Request -> JobState]
  <1>0. TypeOK /\ asking[r].step = "new" /\ row[r] = "none" /\ Untouched(r)
    BY NoRowYet DEF Base, OpenElsewhere, Fresh
  <1>1. PICK p \in Choice(r) \ matched :
          about' = [about EXCEPT ![r] = p] /\ matched' = matched \cup {p}
    BY DEF OpenElsewhere
  <1>2. p \in Problem \ matched /\ about \in [Request -> Problem \cup {None}]
        /\ sjob \in [Request -> JobState] /\ sjob' = [sjob EXCEPT ![r] = "delayed"]
        /\ "delayed" \in JobState
    BY <1>0, <1>1 DEF Choice, TypeOK, OpenElsewhere, JobState
  <1>3. /\ about' \in [Request -> Problem \cup {None}] /\ sjob' \in [Request -> JobState]
        /\ about'[r] = p
        /\ \A q \in Request : q # r => about'[q] = about[q] /\ sjob'[q] = sjob[q]
    BY <1>1, <1>2
  <1>4. AskSet(r, "done", None)
    BY <1>0, Types, AskUpdate DEF OpenElsewhere
  <1> QED
    BY <1>0, <1>1, <1>2, <1>3, <1>4 DEF Opens, OpenElsewhere

LEMMA ElsewhereBase ==
  ASSUME Base, NEW r \in Request, ConnectElsewhere(r) \/ AcceptElsewhere(r)
  PROVE  /\ Base' /\ MishapsStay /\ asking[r].step = "new" /\ Active(SeekerOf[r]) = {}
         /\ \E v \in Volunteer :
              /\ Opens(r, v)
              /\ \/ /\ v \in pool /\ pool' = pool \ {v}
                    /\ BeingPooled(v) => "late_match" \in mishaps'
                    /\ Handled(r) => "double_request" \in mishaps'
                 \/ "accept" \in mishaps' /\ UNCHANGED pool
  <1>0. TypeOK
    BY DEF Base
  <1>1. CASE ConnectElsewhere(r)
    <2>1. PICK v \in pool :
             /\ pool' = pool \ {v} /\ OpenElsewhere(r, v)
             /\ AllHappen(If(BeingPooled(v), "late_match") \cup If(Handled(r), "double_request"))
      BY <1>1 DEF ConnectElsewhere
    <2>2. v \in Volunteer /\ pool' \subseteq Volunteer
      BY <1>0, <2>1 DEF TypeOK
    <2>3. UNCHANGED <<socketVars, available, chatVars, jobVars>>
      BY <1>1 DEF ConnectElsewhere
    <2>4. /\ Opens(r, v) /\ asking[r].step = "new" /\ Active(SeekerOf[r]) = {}
          /\ about' \in [Request -> Problem \cup {None}] /\ sjob' \in [Request -> JobState]
      BY <2>1, <2>2, <2>3, Elsewhere
    <2>5. /\ MishapsStay /\ (BeingPooled(v) => "late_match" \in mishaps')
          /\ (Handled(r) => "double_request" \in mishaps')
      BY <1>0, <2>1 DEF AllHappen, If, MishapsStay, TypeOK
    <2>6. Base'
      BY <2>2, <2>4, <2>5, OpensBase
    <2> QED
      BY <2>1, <2>2, <2>4, <2>5, <2>6
  <1>2. CASE AcceptElsewhere(r)
    <2>1. PICK v \in online : OpenElsewhere(r, v)
      BY <1>2 DEF AcceptElsewhere
    <2>2. v \in Volunteer
      BY <1>0, <2>1 DEF TypeOK
    <2>3. UNCHANGED <<socketVars, pool, available, chatVars, jobVars>>
      BY <1>2 DEF AcceptElsewhere
    <2>4. /\ Opens(r, v) /\ asking[r].step = "new" /\ Active(SeekerOf[r]) = {}
          /\ about' \in [Request -> Problem \cup {None}] /\ sjob' \in [Request -> JobState]
      BY <2>1, <2>2, <2>3, Elsewhere
    <2>5. MishapsStay /\ "accept" \in mishaps'
      BY <1>0, <1>2, Types, Mishaps DEF AcceptElsewhere, Mishap
    <2>6. Base'
      <3>1. pool' \subseteq Volunteer
        BY <1>0, <2>3 DEF TypeOK
      <3> QED
        BY <2>2, <2>4, <2>5, <3>1, OpensBase
    <2> QED
      BY <2>2, <2>3, <2>4, <2>5, <2>6
  <1> QED
    BY <1>1, <1>2

(* The teardown of a chat: what it leaves of the chat's record and jobs.   *)
TearsDown(r, s) ==
  /\ ending[r].by # "none" /\ row[r] \notin {"none", "active"}
  /\ EndSet(r, [by |-> ending[r].by, step |-> s, of |-> ending[r].of])
  /\ tjob' \in [Request -> JobState] /\ rjob' \in [Request -> [Account -> JobState]]
  /\ \A q \in Request : q # r =>
       tjob'[q] = tjob[q] /\ rjob'[q] = rjob[q] /\ away'[q] = away[q] /\ timer'[q] = timer[q]
  /\ away'[r] \subseteq away[r] /\ timer'[r] \in {timer[r], FALSE}
  /\ UNCHANGED <<socketVars, available, sessionVars, room>>

LEMMA TearsBase ==
  ASSUME Base, NEW r \in Request, NEW s \in {"back", "add", "done"}, TearsDown(r, s),
         MishapsStay, pool' \subseteq Volunteer,
         current' \in [Account -> Request \cup {None}],
         \A a \in Account : current'[a] \in {None, current[a]},
         away' \in [Request -> SUBSET Account], timer' \in [Request -> BOOLEAN]
  PROVE  Base'
  <1> USE DEF socketVars, sessionVars
  <1>0. TypeOK
    BY DEF Base
  <1>1. TypeOK'
    BY <1>0 DEF TypeOK, MishapsStay, TearsDown, EndSet, EndRecord
  <1>2. ASSUME NEW q \in Request PROVE RowOK(q)'
    <2>1. RowOK(q)
      BY DEF Base
    <2>2. CASE q # r
      <3>1. \A a \in Account : current[a] # q => current'[a] # q
        BY Constants
      <3> QED
        BY <2>1, <2>2, <3>1 DEF RowOK, Untouched, TearsDown, EndSet
    <2>3. CASE q = r
      <3>1. ending'[r].by = ending[r].by /\ ending'[r].of = ending[r].of /\ ending'[r].step = s
        BY DEF TearsDown, EndSet
      <3> QED
        BY <2>1, <2>3, <3>1 DEF RowOK, TearsDown
    <2> QED
      BY <2>2, <2>3
  <1>3. \A d \in Socket : SocketOK(d)'
    BY DEF Base, SocketOK, Parties, TearsDown
  <1> QED
    BY <1>1, <1>2, <1>3 DEF Base

LEMMA EndJobs ==
  ASSUME Base, NEW r \in Request, ending[r].by # "none", NEW s \in JobState, EndJob(r, s)
  PROVE  /\ tjob' \in [Request -> JobState] /\ rjob' \in [Request -> [Account -> JobState]]
         /\ \A q \in Request : q # r => tjob'[q] = tjob[q] /\ rjob'[q] = rjob[q]
  <1>0. /\ tjob \in [Request -> JobState] /\ rjob \in [Request -> [Account -> JobState]]
        /\ ending[r].by \in {"user", "reconnect", "timeout"}
        /\ ending[r].by = "reconnect" => ending[r].of \in Account
    <2>1. ending[r] \in EndRecord /\ TypeOK /\ RowOK(r)
      BY Types DEF Base
    <2> QED
      BY <2>1 DEF RowOK, EndRecord, TypeOK
  <1>1. CASE ending[r].by = "timeout"
    BY <1>0, <1>1 DEF EndJob
  <1>2. CASE ending[r].by = "reconnect"
    <2> DEFINE a == ending[r].of
    <2>1. rjob' = [rjob EXCEPT ![r][a] = s] /\ UNCHANGED tjob /\ a \in Account
      BY <1>0, <1>2 DEF EndJob
    <2> HIDE DEF a
    <2>2. rjob' \in [Request -> [Account -> JobState]]
      BY <1>0, <2>1, RJobUpdate DEF RJobSet
    <2>3. \A q \in Request : q # r => rjob'[q] = rjob[q]
      BY <1>0, <2>1
    <2> QED
      BY <1>0, <2>1, <2>2, <2>3
  <1>3. CASE ending[r].by = "user"
    BY <1>0, <1>3 DEF EndJob
  <1> QED
    BY <1>0, <1>1, <1>2, <1>3

LEMMA TeardownFacts ==
  ASSUME Base, NEW r \in Request, ending[r].step # "none"
  PROVE  ending[r].by # "none" /\ row[r] \notin {"none", "active"} /\ listener[r] \in Volunteer
  BY DEF Base, RowOK, Untouched, NotEnding

LEMMA ClearBase ==
  ASSUME Base, NEW r \in Request, ClearSession(r)
  PROVE  /\ Base' /\ MishapsStay /\ UNCHANGED pool
         /\ ending[r].step = "clear" /\ ~OtherJobRuns(r) /\ TearsDown(r, "back")
         /\ current' = [a \in Account |-> IF a \in Parties(r) THEN None ELSE current[a]]
  <1> USE DEF socketVars, sessionVars
  <1>0. TypeOK /\ ending[r].step = "clear" /\ ~OtherJobRuns(r)
    BY DEF Base, ClearSession
  <1>1. ending[r].by # "none" /\ row[r] \notin {"none", "active"}
    BY <1>0, TeardownFacts
  <1>2. /\ OthersRemoved(r)
        /\ current' = [a \in Account |-> IF a \in Parties(r) THEN None ELSE current[a]]
        /\ away' = [away EXCEPT ![r] = {}] /\ timer' = [timer EXCEPT ![r] = FALSE]
        /\ ending' = [ending EXCEPT ![r].step = "back"]
        /\ UNCHANGED <<socketVars, pool, available, sessionVars, room, mishaps>>
    BY DEF ClearSession
  <1>3. EndSet(r, [by |-> ending[r].by, step |-> "back", of |-> ending[r].of])
    BY <1>0, <1>2, Types, EndPart
  <1>4. /\ tjob' \in [Request -> JobState] /\ rjob' \in [Request -> [Account -> JobState]]
        /\ \A q \in Request : q # r => tjob'[q] = tjob[q] /\ rjob'[q] = rjob[q]
    <2>1. tjob \in [Request -> JobState] /\ rjob \in [Request -> [Account -> JobState]]
          /\ "none" \in JobState
      BY <1>0 DEF TypeOK, JobState
    <2>2. tjob' \in {tjob, [tjob EXCEPT ![r] = "none"]}
      BY <1>2 DEF OthersRemoved
    <2> DEFINE f == [a \in Account |-> IF a \in Parties(r) THEN "none" ELSE rjob[r][a]]
    <2>3. f \in [Account -> JobState]
      BY <2>1
    <2>4. rjob' = rjob \/ rjob' = [rjob EXCEPT ![r] = f]
      BY <1>2 DEF OthersRemoved
    <2> HIDE DEF f
    <2> QED
      BY <2>1, <2>2, <2>3, <2>4
  <1>5. /\ \A q \in Request : q # r => away'[q] = away[q] /\ timer'[q] = timer[q]
        /\ away'[r] \subseteq away[r] /\ timer'[r] \in {timer[r], FALSE}
        /\ away' \in [Request -> SUBSET Account] /\ timer' \in [Request -> BOOLEAN]
    BY <1>0, <1>2 DEF TypeOK
  <1>6. TearsDown(r, "back")
    BY <1>1, <1>2, <1>3, <1>4, <1>5 DEF TearsDown
  <1>7. MishapsStay /\ pool' \subseteq Volunteer
    BY <1>0, <1>2, Types, Mishaps DEF TypeOK
  <1>8. /\ current' \in [Account -> Request \cup {None}]
        /\ \A a \in Account : current'[a] \in {None, current[a]}
    BY <1>0, <1>2 DEF TypeOK
  <1>9. Base'
    BY <1>5, <1>6, <1>7, <1>8, TearsBase
  <1> QED
    BY <1>0, <1>2, <1>6, <1>7, <1>9

(* The steps of a teardown that leave the chat's record alone.             *)
LEMMA TearsQuietly ==
  ASSUME Base, NEW r \in Request, NEW s \in {"add", "done"}, ending[r].step # "none",
         ending' = [ending EXCEPT ![r].step = s],
         \/ UNCHANGED <<rjob, tjob>>
         \/ \E j \in {"none", "failed"} : EndJob(r, j),
         MishapsStay, pool' \subseteq Volunteer,
         UNCHANGED <<socketVars, available, sessionVars, chatVars>>
  PROVE  Base' /\ TearsDown(r, s)
  <1> USE DEF chatVars
  <1>0. TypeOK /\ ending[r].by # "none" /\ row[r] \notin {"none", "active"}
    BY TeardownFacts DEF Base
  <1>1. EndSet(r, [by |-> ending[r].by, step |-> s, of |-> ending[r].of])
    BY <1>0, Types, EndPart
  <1>2. /\ tjob' \in [Request -> JobState] /\ rjob' \in [Request -> [Account -> JobState]]
        /\ \A q \in Request : q # r => tjob'[q] = tjob[q] /\ rjob'[q] = rjob[q]
    <2>1. CASE UNCHANGED <<rjob, tjob>>
      BY <1>0, <2>1 DEF TypeOK
    <2>2. ASSUME NEW j \in {"none", "failed"}, EndJob(r, j)
          PROVE  /\ tjob' \in [Request -> JobState] /\ rjob' \in [Request -> [Account -> JobState]]
                 /\ \A q \in Request : q # r => tjob'[q] = tjob[q] /\ rjob'[q] = rjob[q]
      <3>1. j \in JobState
        BY DEF JobState
      <3> QED
        BY <1>0, <2>2, <3>1, EndJobs
    <2> QED
      BY <2>1, <2>2
  <1>3. TearsDown(r, s)
    BY <1>0, <1>1, <1>2 DEF TearsDown
  <1>4. /\ current' \in [Account -> Request \cup {None}]
        /\ \A a \in Account : current'[a] \in {None, current[a]}
        /\ away' \in [Request -> SUBSET Account] /\ timer' \in [Request -> BOOLEAN]
    BY <1>0 DEF TypeOK
  <1>5. Base'
    BY <1>3, <1>4, TearsBase
  <1> QED
    BY <1>3, <1>5

LEMMA TeardownBase ==
  ASSUME Base, NEW r \in Request, ClearThrows(r) \/ CheckListener(r) \/ ReturnListener(r)
  PROVE  /\ Base' /\ MishapsStay /\ listener[r] \in Volunteer
         /\ UNCHANGED <<current, away, timer>>
         /\ \/ /\ ending[r].step = "clear" /\ TearsDown(r, "done") /\ UNCHANGED pool
               /\ "job_race" \in mishaps'
            \/ /\ ending[r].step = "back" /\ UNCHANGED pool
               /\ Leaving(listener[r]) => "late_drop" \in mishaps'
               /\ \/ TearsDown(r, "add") /\ Eligible(listener[r])
                  \/ TearsDown(r, "done") /\ ~Eligible(listener[r])
            \/ /\ ending[r].step = "add" /\ TearsDown(r, "done")
               /\ pool' = pool \cup {listener[r]} /\ UNCHANGED mishaps
  <1>0. TypeOK /\ ending[r].step # "none" /\ listener[r] \in Volunteer
        /\ UNCHANGED <<current, away, timer>> /\ pool \subseteq Volunteer
        /\ UNCHANGED <<socketVars, available, sessionVars, chatVars>>
    BY TeardownFacts DEF Base, ClearThrows, CheckListener, ReturnListener, chatVars, TypeOK
  <1>1. CASE ClearThrows(r)
    <2>1. MishapsStay /\ "job_race" \in mishaps'
      BY <1>0, <1>1, Types, Mishaps DEF ClearThrows, Mishap
    <2>2. /\ ending[r].step = "clear" /\ ending' = [ending EXCEPT ![r].step = "done"]
          /\ EndJob(r, "failed") /\ UNCHANGED pool
      BY <1>1 DEF ClearThrows
    <2>3. Base' /\ TearsDown(r, "done")
      BY <1>0, <2>1, <2>2, TearsQuietly
    <2> QED
      BY <1>0, <2>1, <2>2, <2>3
  <1>2. CASE CheckListener(r)
    <2>1. MishapsStay /\ (Leaving(listener[r]) => "late_drop" \in mishaps')
      <3>1. Leaving(listener[r]) \in BOOLEAN /\ HappensIf(Leaving(listener[r]), "late_drop")
        BY <1>2 DEF Leaving, CheckListener
      <3> QED
        BY <1>0, <3>1, Types, Mishaps DEF Mishap
    <2>2. ending[r].step = "back" /\ UNCHANGED pool
      BY <1>2 DEF CheckListener
    <2>3. CASE Eligible(listener[r])
      <3>1. ending' = [ending EXCEPT ![r].step = "add"] /\ UNCHANGED <<rjob, tjob>>
        BY <1>2, <2>3 DEF CheckListener
      <3>2. Base' /\ TearsDown(r, "add")
        BY <1>0, <2>1, <2>2, <3>1, TearsQuietly
      <3> QED
        BY <1>0, <2>1, <2>2, <2>3, <3>2
    <2>4. CASE ~Eligible(listener[r])
      <3>1. ending' = [ending EXCEPT ![r].step = "done"] /\ EndJob(r, "none")
        BY <1>2, <2>4 DEF CheckListener
      <3>2. Base' /\ TearsDown(r, "done")
        BY <1>0, <2>1, <2>2, <3>1, TearsQuietly
      <3> QED
        BY <1>0, <2>1, <2>2, <2>4, <3>2
    <2> QED
      BY <2>3, <2>4
  <1>3. CASE ReturnListener(r)
    <2>1. /\ ending[r].step = "add" /\ pool' = pool \cup {listener[r]}
          /\ ending' = [ending EXCEPT ![r].step = "done"] /\ EndJob(r, "none")
          /\ UNCHANGED mishaps
      BY <1>3 DEF ReturnListener
    <2>2. MishapsStay /\ pool' \subseteq Volunteer
      BY <1>0, <2>1, Types, Mishaps
    <2>3. Base' /\ TearsDown(r, "done")
      BY <1>0, <2>1, <2>2, TearsQuietly
    <2> QED
      BY <1>0, <2>1, <2>2, <2>3
  <1> QED
    BY <1>1, <1>2, <1>3

(* The jobs                                                                *)
LEMMA SkipBase ==
  ASSUME Base, NEW r \in Request, NEW a \in Account,
         StartReconnectExpire(r, a) \/ SkipReconnectExpire(r, a)
  PROVE  /\ Base' /\ rjob[r][a] # "none"
         /\ \/ RJobSet(r, a, "none")
            \/ RJobSet(r, a, "active") /\ a \in away[r]
  <1> USE DEF socketVars, sessionVars, chatVars
  <1>0. TypeOK /\ rjob[r][a] # "none" /\ row[r] # "none"
    BY DEF Base, RowOK, Untouched, StartReconnectExpire, SkipReconnectExpire
  <1>1. \E s \in {"none", "active"} : /\ rjob' = [rjob EXCEPT ![r][a] = s]
                                      /\ s = "active" => a \in away[r]
    BY DEF StartReconnectExpire, SkipReconnectExpire
  <1>2. PICK s \in {"none", "active"} : rjob' = [rjob EXCEPT ![r][a] = s] /\ (s = "active" => a \in away[r])
    BY <1>1
  <1>3. RJobSet(r, a, s)
    BY <1>0, <1>2, Types, RJobUpdate DEF JobState
  <1>4. UNCHANGED <<socketVars, pool, available, sessionVars, chatVars, tjob, ending, mishaps>>
    BY DEF StartReconnectExpire, SkipReconnectExpire
  <1>5. TypeOK'
    BY <1>0, <1>3, <1>4 DEF TypeOK, RJobSet
  <1>6. \A q \in Request : RowOK(q)'
    BY <1>0, <1>3, <1>4 DEF Base, RowOK, Untouched, RJobSet
  <1>7. \A d \in Socket : SocketOK(d)'
    BY <1>4 DEF Base, SocketOK, Parties
  <1> QED
    BY <1>0, <1>2, <1>3, <1>5, <1>6, <1>7 DEF Base

LEMMA ExpireBase ==
  ASSUME Base, NEW r \in Request, NEW a \in Account, ReconnectExpire(r, a)
  PROVE  /\ Base' /\ MishapsStay /\ Ended(r, "reconnect", a, "cancelled")
         /\ row[r] = "active" /\ BeingJoined(r) => "late_join" \in mishaps'
         /\ rjob[r][a] = "active" /\ (row[r] = "active" => UNCHANGED rjob)
         /\ \A q \in Request : q # r => rjob'[q] = rjob[q]
         /\ UNCHANGED <<socketVars, pool, available, listener, about, matched, asking, sjob,
                        chatVars, tjob>>
  <1>0. TypeOK /\ rjob[r][a] = "active" /\ row[r] # "none"
    BY DEF Base, RowOK, Untouched, ReconnectExpire
  <1>1. /\ EndRow(r, "reconnect", a, "cancelled")
        /\ rjob' = IF row[r] = "active" THEN rjob ELSE [rjob EXCEPT ![r][a] = "none"]
        /\ HappensIf(row[r] = "active" /\ BeingJoined(r), "late_join")
        /\ UNCHANGED <<socketVars, pool, available, listener, about, matched, asking, sjob,
                 chatVars, tjob>>
    BY DEF ReconnectExpire
  <1>2. MishapsStay /\ (row[r] = "active" /\ BeingJoined(r) => "late_join" \in mishaps')
    <2>1. (row[r] = "active" /\ BeingJoined(r)) \in BOOLEAN
      OBVIOUS
    <2> QED
      BY <1>0, <1>1, <2>1, Types, Mishaps DEF Mishap
  <1>3. Ended(r, "reconnect", a, "cancelled")
    BY <1>1, EndingRow
  <1>4. /\ rjob' \in [Request -> [Account -> JobState]]
        /\ \A q \in Request : q # r => rjob'[q] = rjob[q]
    <2>1. rjob \in [Request -> [Account -> JobState]] /\ "none" \in JobState
      BY <1>0 DEF TypeOK, JobState
    <2>2. rjob' = rjob \/ rjob' = [rjob EXCEPT ![r][a] = "none"]
      BY <1>1
    <2>3. rjob' = [rjob EXCEPT ![r][a] = "none"] => rjob' \in [Request -> [Account -> JobState]]
      BY <2>1, RJobUpdate DEF RJobSet
    <2> QED
      BY <2>1, <2>2, <2>3
  <1>5. tjob' \in [Request -> JobState]
    BY <1>0, <1>1 DEF TypeOK
  <1>6. ASSUME NEW q \in Request
        PROVE  /\ row[q] = "none" => tjob'[q] = "none" /\ \A b \in Account : rjob'[q][b] = "none"
               /\ tjob'[q] = tjob[q] \/ row[q] # "active" \/ q = r
    BY <1>0, <1>1, <1>4 DEF Base, RowOK, Untouched
  <1>7. Base'
    BY <1>1, <1>2, <1>3, <1>4, <1>5, <1>6, EndedBase
  <1> QED
    BY <1>0, <1>1, <1>2, <1>3, <1>4, <1>7

LEMMA ChatTimeoutBase ==
  ASSUME Base, NEW r \in Request, ChatTimeout(r)
  PROVE  /\ Base' /\ MishapsStay /\ Ended(r, "timeout", None, "completed")
         /\ row[r] = "active" /\ BeingJoined(r) => "late_join" \in mishaps'
         /\ \A q \in Request : q # r => tjob'[q] = tjob[q]
         /\ UNCHANGED <<socketVars, pool, available, listener, about, matched, asking, sjob,
                        chatVars, rjob>>
  <1>0. TypeOK /\ tjob[r] = "delayed" /\ row[r] # "none"
    BY DEF Base, RowOK, Untouched, ChatTimeout
  <1>1. /\ EndRow(r, "timeout", None, "completed")
        /\ tjob' = [tjob EXCEPT ![r] = IF row[r] = "active" THEN "active" ELSE "none"]
        /\ HappensIf(row[r] = "active" /\ BeingJoined(r), "late_join")
        /\ UNCHANGED <<socketVars, pool, available, listener, about, matched, asking, sjob,
                 chatVars, rjob>>
    BY DEF ChatTimeout
  <1>2. MishapsStay /\ (row[r] = "active" /\ BeingJoined(r) => "late_join" \in mishaps')
    <2>1. (row[r] = "active" /\ BeingJoined(r)) \in BOOLEAN
      OBVIOUS
    <2> QED
      BY <1>0, <1>1, <2>1, Types, Mishaps DEF Mishap
  <1>3. Ended(r, "timeout", None, "completed")
    BY <1>1, EndingRow
  <1>4. tjob' \in [Request -> JobState] /\ \A q \in Request : q # r => tjob'[q] = tjob[q]
    <2>1. tjob \in [Request -> JobState] /\ \E s \in JobState : tjob' = [tjob EXCEPT ![r] = s]
      BY <1>0, <1>1 DEF TypeOK, JobState
    <2> QED
      BY <2>1
  <1>5. rjob' \in [Request -> [Account -> JobState]]
    BY <1>0, <1>1 DEF TypeOK
  <1>6. ASSUME NEW q \in Request
        PROVE  /\ row[q] = "none" => tjob'[q] = "none" /\ \A b \in Account : rjob'[q][b] = "none"
               /\ tjob'[q] = tjob[q] \/ row[q] # "active" \/ q = r
    BY <1>0, <1>1, <1>4 DEF Base, RowOK, Untouched
  <1>7. Base'
    BY <1>1, <1>2, <1>3, <1>4, <1>5, <1>6, EndedBase
  <1> QED
    BY <1>1, <1>2, <1>3, <1>4, <1>7

LEMMA SessionTimeoutBase ==
  ASSUME Base, NEW r \in Request, SessionTimeout(r)
  PROVE  /\ Base' /\ MishapsStay /\ row[r] # "none" /\ UNCHANGED <<socketVars, pool>>
         /\ row[r] = "active" => "never_joined" \in mishaps'
         /\ (\E a \in Parties(r) : current[a] \notin {None, r}) /\ row[r] # "active" =>
              "stale_timeout" \in mishaps'
         /\ row'[r] # "active" /\ (row[r] # "active" => row'[r] = row[r])
         /\ \A q \in Request : q # r =>
              row'[q] = row[q] /\ away'[q] = away[q] /\ timer'[q] = timer[q]
         /\ current' = [a \in Account |-> IF a \in Parties(r) THEN None ELSE current[a]]
  <1> USE DEF socketVars, jobVars
  <1>0. TypeOK /\ sjob[r] = "delayed" /\ row[r] # "none"
    BY DEF Base, RowOK, Untouched, SessionTimeout
  <1>1. /\ IF row[r] = "active" THEN Happens("never_joined")
           ELSE HappensIf(\E a \in Parties(r) : current[a] \notin {None, r}, "stale_timeout")
        /\ sjob' = [sjob EXCEPT ![r] = "none"]
        /\ row' = [row EXCEPT ![r] = IF @ = "active" THEN "completed" ELSE @]
        /\ current' = [a \in Account |-> IF a \in Parties(r) THEN None ELSE current[a]]
        /\ away' = [away EXCEPT ![r] = {}]
        /\ timer' = [timer EXCEPT ![r] = FALSE]
        /\ UNCHANGED <<socketVars, pool, available, listener, about, matched, asking, room, jobVars>>
    BY DEF SessionTimeout
  <1>2. /\ MishapsStay
        /\ row[r] = "active" => "never_joined" \in mishaps'
        /\ (\E a \in Parties(r) : current[a] \notin {None, r}) /\ row[r] # "active" =>
              "stale_timeout" \in mishaps'
    <2>1. (\E a \in Parties(r) : current[a] \notin {None, r}) \in BOOLEAN
      OBVIOUS
    <2>2. CASE row[r] = "active"
      BY <1>0, <1>1, <2>2, Types, Mishaps DEF Mishap
    <2>3. CASE row[r] # "active"
      BY <1>0, <1>1, <2>1, <2>3, Types, Mishaps DEF Mishap
    <2> QED
      BY <2>2, <2>3
  <1>3. /\ row' \in [Request -> {"none", "active", "completed", "cancelled"}]
        /\ sjob' \in [Request -> JobState]
        /\ away' \in [Request -> SUBSET Account] /\ timer' \in [Request -> BOOLEAN]
        /\ current' \in [Account -> Request \cup {None}]
        /\ row'[r] \notin {"none", "active"} /\ (row[r] # "active" => row'[r] = row[r])
        /\ \A q \in Request : q # r =>
             row'[q] = row[q] /\ away'[q] = away[q] /\ timer'[q] = timer[q] /\ sjob'[q] = sjob[q]
        /\ \A q \in Request, a \in Account : current[a] # q => current'[a] # q
    <2>1. /\ row \in [Request -> {"none", "active", "completed", "cancelled"}]
          /\ sjob \in [Request -> JobState] /\ "none" \in JobState
          /\ away \in [Request -> SUBSET Account] /\ timer \in [Request -> BOOLEAN]
          /\ current \in [Account -> Request \cup {None}]
      BY <1>0 DEF TypeOK, JobState
    <2>2. \A q \in Request, a \in Account : current[a] # q => current'[a] # q
      BY <1>1, Constants
    <2> QED
      BY <1>0, <1>1, <2>1, <2>2
  <1>4. TypeOK'
    BY <1>0, <1>1, <1>2, <1>3 DEF TypeOK, MishapsStay
  <1>5. ASSUME NEW q \in Request PROVE RowOK(q)'
    <2>1. RowOK(q)
      BY DEF Base
    <2>2. CASE q # r
      BY <1>1, <1>3, <2>1, <2>2 DEF RowOK, Untouched
    <2>3. CASE q = r
      BY <1>0, <1>1, <1>3, <2>1, <2>3 DEF RowOK
    <2> QED
      BY <2>2, <2>3
  <1>6. \A d \in Socket : SocketOK(d)'
    BY <1>1 DEF Base, SocketOK, Parties
  <1> QED
    BY <1>0, <1>1, <1>2, <1>3, <1>4, <1>5, <1>6 DEF Base

LEMMA ToggleBase ==
  ASSUME Base, NEW v \in Volunteer, ToggleAvailable(v)
  PROVE  /\ Base' /\ MishapsStay /\ "toggle" \in mishaps'
         /\ UNCHANGED <<socketVars, pool, sessionVars, chatVars, jobVars>>
  <1>0. TypeOK
    BY DEF Base
  <1>1. MishapsStay /\ "toggle" \in mishaps'
    BY <1>0, Types, Mishaps DEF ToggleAvailable, Mishap
  <1>2. UNCHANGED <<socketVars, pool, sessionVars, chatVars, jobVars>> /\ available' \subseteq Volunteer
    BY <1>0 DEF ToggleAvailable, TypeOK
  <1> USE DEF socketVars, sessionVars, chatVars, jobVars
  <1>3. TypeOK'
    BY <1>0, <1>1, <1>2 DEF TypeOK, MishapsStay
  <1>4. \A r \in Request : RowOK(r)'
    BY <1>2 DEF Base, RowOK, Untouched
  <1>5. \A c \in Socket : SocketOK(c)'
    BY <1>2 DEF Base, SocketOK, Parties
  <1> QED
    BY <1>1, <1>2, <1>3, <1>4, <1>5 DEF Base

LEMMA BaseStep == ASSUME Base, [Next]_vars PROVE Base'
  <1>1. CASE UNCHANGED vars
    <2> USE <1>1 DEF vars, socketVars, sessionVars, chatVars, jobVars
    <2>1. TypeOK'
      BY DEF Base, TypeOK
    <2>2. \A r \in Request : RowOK(r)'
      BY DEF Base, RowOK, Untouched
    <2>3. \A c \in Socket : SocketOK(c)'
      BY DEF Base, SocketOK, Parties
    <2> QED
      BY <2>1, <2>2, <2>3 DEF Base
  <1>2. ASSUME NEW c \in Socket,
               Connect(c) \/ Drop(c) \/ ConnectStep(c) \/ DisconnectStep(c) \/ JoinStep(c)
        PROVE  Base'
    BY <1>2, ConnectBase, DropBase, ConnectingBase, DisconnectBase, EnterBase, RejoinBase,
       TimerBase DEF JoinStep
  <1>3. ASSUME NEW c \in Socket, NEW r \in Request, ValidateJoin(c, r) \/ SessionEnd(c, r)
        PROVE  Base'
    BY <1>3, ValidateBase, SessionEndBase
  <1>4. ASSUME NEW r \in Request,
               CheckRequest(r) \/ RequestStep(r) \/ ConnectElsewhere(r) \/ AcceptElsewhere(r)
        PROVE  Base'
    BY <1>4, CheckRequestBase, ClaimBase, CreateBase, ReturningBase, ElsewhereBase DEF RequestStep
  <1>5. ASSUME NEW r \in Request, TeardownStep(r) \/ JobStep(r) \/ SessionTimeout(r)
        PROVE  Base'
    BY <1>5, ClearBase, TeardownBase, SkipBase, ExpireBase, ChatTimeoutBase, SessionTimeoutBase
       DEF TeardownStep, JobStep
  <1>6. ASSUME NEW v \in Volunteer, ToggleAvailable(v) PROVE Base'
    BY <1>6, ToggleBase
  <1> QED
    BY <1>1, <1>2, <1>3, <1>4, <1>5, <1>6 DEF Next

(* TypeOK in every state.                                                  *)
THEOREM PresenceTyped == Spec => []TypeOK
  <1>1. Base => TypeOK
    BY DEF Base
  <1> QED
    BY <1>1, BaseInit, BaseStep, PTL DEF Spec

-----------------------------------------------------------------------------
(* A problem has one session.                                              *)

LEMMA ProblemsInit == Init => OneSessionPerProblem
  BY DEF Init, OneSessionPerProblem

(* A step that opens no session keeps what the rows are about.             *)
LEMMA ProblemsKept ==
  ASSUME OneSessionPerProblem,
         \A r \in Request : row'[r] # "none" => row[r] # "none" /\ about'[r] = about[r]
  PROVE  OneSessionPerProblem'
  BY DEF OneSessionPerProblem

LEMMA ProblemsOpen ==
  ASSUME Base, OneSessionPerProblem, NEW r \in Request, NEW v \in Volunteer, Opens(r, v)
  PROVE  OneSessionPerProblem'
  <1>1. \A q \in Request : q # r => row'[q] = row[q] /\ about'[q] = about[q]
    BY DEF Base, TypeOK, Opens
  <1>2. \A q \in Request : q # r /\ row'[q] # "none" => about'[q] # about'[r]
    BY <1>1 DEF Base, RowOK, Opens
  <1> QED
    BY <1>1, <1>2 DEF OneSessionPerProblem

LEMMA ProblemsAsk ==
  ASSUME OneSessionPerProblem, NEW r \in Request, NEW s, NEW v, Asks(r, s, v)
  PROVE  OneSessionPerProblem'
  BY ProblemsKept DEF Asks

LEMMA ProblemsStep == ASSUME Base, OneSessionPerProblem, [Next]_vars PROVE OneSessionPerProblem'
  <1> USE DEF sessionVars
  <1>1. ASSUME UNCHANGED sessionVars PROVE OneSessionPerProblem'
    BY <1>1, ProblemsKept
  <1>2. ASSUME NEW r \in Request, NEW by, NEW a, NEW s, Ended(r, by, a, s), UNCHANGED about
        PROVE  OneSessionPerProblem'
    <2>1. \A q \in Request : row'[q] # "none" => row[q] # "none"
      BY <1>2 DEF Base, TypeOK, Ended
    <2> QED
      BY <1>2, <2>1, ProblemsKept
  <1>3. CASE UNCHANGED vars
    BY <1>1, <1>3 DEF vars
  <1>4. ASSUME NEW c \in Socket,
               Connect(c) \/ Drop(c) \/ ConnectStep(c) \/ DisconnectStep(c) \/ JoinStep(c)
        PROVE  OneSessionPerProblem'
    BY <1>1, <1>4 DEF Connect, Drop, ConnectStep, MapSocket, AddOnline, AddToPool, DisconnectStep,
       Unmap, DeleteMapping, LeavePools, JoinStep, EnterRoom, Rejoin, StartTimer
  <1>5. ASSUME NEW c \in Socket, NEW r \in Request, ValidateJoin(c, r) PROVE OneSessionPerProblem'
    BY <1>1, <1>5 DEF ValidateJoin
  <1>6. ASSUME NEW c \in Socket, NEW r \in Request, SessionEnd(c, r) PROVE OneSessionPerProblem'
    <2>1. UNCHANGED about
      BY <1>6 DEF SessionEnd
    <2> QED
      BY <1>2, <1>6, <2>1, SessionEndBase
  <1>7. ASSUME NEW r \in Request,
               CheckRequest(r) \/ RequestStep(r) \/ ConnectElsewhere(r) \/ AcceptElsewhere(r)
        PROVE  OneSessionPerProblem'
    BY <1>7, CheckRequestBase, ClaimBase, CreateBase, ReturningBase, ElsewhereBase, ProblemsAsk,
       ProblemsOpen DEF RequestStep
  <1>8. ASSUME NEW r \in Request, TeardownStep(r) PROVE OneSessionPerProblem'
    BY <1>1, <1>8 DEF TeardownStep, ClearSession, ClearThrows, CheckListener, ReturnListener
  <1>9. ASSUME NEW r \in Request, JobStep(r) PROVE OneSessionPerProblem'
    <2>1. CASE ChatTimeout(r)
      <3>1. UNCHANGED about
        BY <2>1 DEF ChatTimeout
      <3> QED
        BY <1>2, <2>1, <3>1, ChatTimeoutBase
    <2>2. ASSUME NEW a \in Account, StartReconnectExpire(r, a) \/ SkipReconnectExpire(r, a)
          PROVE  OneSessionPerProblem'
      BY <1>1, <2>2 DEF StartReconnectExpire, SkipReconnectExpire
    <2>3. ASSUME NEW a \in Account, ReconnectExpire(r, a) PROVE OneSessionPerProblem'
      BY <1>2, <2>3, ExpireBase
    <2> QED
      BY <1>9, <2>1, <2>2, <2>3 DEF JobStep
  <1>10. ASSUME NEW r \in Request, SessionTimeout(r) PROVE OneSessionPerProblem'
    <2>1. UNCHANGED about
      BY <1>10 DEF SessionTimeout
    <2>2. \A q \in Request : row'[q] # "none" => row[q] # "none"
      BY <1>10, SessionTimeoutBase
    <2> QED
      BY <2>1, <2>2, ProblemsKept
  <1>11. ASSUME NEW v \in Volunteer, ToggleAvailable(v) PROVE OneSessionPerProblem'
    BY <1>1, <1>11, ToggleBase
  <1> QED
    BY <1>3, <1>4, <1>5, <1>6, <1>7, <1>8, <1>9, <1>10, <1>11 DEF Next

-----------------------------------------------------------------------------
(* The 30-minute job of a chat that somebody has joined.                   *)

Starting(r) == \E c \in Socket : joining[c].r = r /\ joining[c].step = "timer" /\ joining[c].fresh
Touched(r) == room[r] # {} \/ away[r] # {} \/ \E a \in Account : current[a] = r

(* The flag timerStarted stands for the job; whoever has touched the chat  *)
(* has set the flag or is about to.                                        *)
Timed(r) ==
  row[r] = "active" => /\ timer[r] => tjob[r] = "delayed"
                       /\ Touched(r) => timer[r] \/ Starting(r)

Timers == \A r \in Request : Timed(r)

(* What a step does to a chat without adding to it.                        *)
Quieter(r) ==
  /\ row[r] = "active" /\ timer'[r] = timer[r] /\ tjob'[r] = tjob[r]
  /\ room'[r] \subseteq room[r] /\ away'[r] \subseteq away[r]
  /\ \A a \in Account : current[a] # r => current'[a] # r
  /\ \A c \in Socket : joining[c].step = "timer" => joining'[c] = joining[c]

LEMMA TimersInit == Init => Timers
  BY DEF Init, Timers, Timed

LEMMA TimedQuietly ==
  ASSUME NEW r \in Request, Timed(r), row'[r] = "active" => Quieter(r)
  PROVE  Timed(r)'
  BY DEF Timed, Quieter, Touched, Starting

LEMMA TimedOpening ==
  ASSUME Base, Timers, NEW r \in Request, NEW v \in Volunteer, Opens(r, v)
  PROVE  Timers'
  <1>1. Timed(r)'
    BY DEF Timed, Touched, Opens, Untouched, chatVars
  <1>2. ASSUME NEW q \in Request, q # r PROVE Timed(q)'
    <2>1. row'[q] = row[q]
      BY <1>2 DEF Opens
    <2>2. row'[q] = "active" => Quieter(q)
      BY <2>1 DEF Quieter, Opens, chatVars, jobVars, socketVars
    <2> QED
      BY <2>2, TimedQuietly DEF Timers
  <1> QED
    BY <1>1, <1>2 DEF Timers

LEMMA TimersStep == ASSUME Base, Timers, [Next]_vars PROVE Timers'
  <1> USE DEF socketVars, sessionVars, chatVars, jobVars
  <1>1. ASSUME \A q \in Request : row'[q] = "active" => Quieter(q) PROVE Timers'
    BY <1>1, TimedQuietly DEF Timers
  <1>2. TypeOK /\ \A q \in Request : row[q] = "active" => tjob[q] \in {"none", "delayed"}
    BY DEF Base, RowOK
  <1>3. CASE UNCHANGED vars
    BY <1>1, <1>3 DEF vars, Quieter
  <1>4. ASSUME NEW c \in Socket, Connect(c) \/ Drop(c) \/ ConnectStep(c) PROVE Timers'
    <2>1. UNCHANGED <<joining, current, away, timer, tjob, row>>
          /\ \A q \in Request : room'[q] \subseteq room[q]
      BY <1>4 DEF Connect, Drop, ConnectStep, MapSocket, AddOnline, AddToPool
    <2> QED
      BY <1>1, <2>1 DEF Quieter
  <1>5. ASSUME NEW c \in Socket, DisconnectStep(c) PROVE Timers'
    <2>1. UNCHANGED <<joining, current, timer, tjob, row, room>>
          /\ \A q \in Request : away'[q] = away[q] \/ \E a \in Account : current[a] = q
      <3>1. Owner[c] \in Account
        BY Constants
      <3>2. CASE Unmap(c) \/ DeleteMapping(c)
        BY <3>2 DEF Unmap, DeleteMapping
      <3>3. CASE LeavePools(c)
        BY <1>2, <3>1, <3>3 DEF LeavePools, TypeOK
      <3> QED
        BY <1>5, <3>2, <3>3 DEF DisconnectStep
    <2> QED
      BY <2>1 DEF Timers, Timed, Touched, Starting
  <1>6. ASSUME NEW c \in Socket, NEW r \in Request, ValidateJoin(c, r) PROVE Timers'
    <2>1. UNCHANGED <<room, current, away, timer, tjob, row>> /\ joining[c] = NoJoin
      BY <1>6 DEF ValidateJoin
    <2>2. \A d \in Socket : joining[d].step = "timer" => joining'[d] = joining[d]
      <3>1. JoinSet(c, [step |-> "enter", r |-> r, fresh |-> FALSE])
        BY <1>6, ValidateBase
      <3> QED
        BY <2>1, <3>1 DEF JoinSet, NoJoin
    <2> QED
      BY <1>1, <2>1, <2>2 DEF Quieter
  <1>7. ASSUME NEW c \in Socket, EnterRoom(c) PROVE Timers'
    <2>0. PICK r \in Request : r = joining[c].r
      BY <1>7, EnterBase
    <2> DEFINE a == Owner[c]
    <2>1. PICK s \in {"rejoin", "timer"} :
              /\ JoinSet(c, [step |-> s, r |-> r, fresh |-> ~timer[r]])
              /\ s = "rejoin" <=> a \in away[r]
      BY <1>7, <2>0, EnterBase
    <2>2. /\ joining[c].step = "enter"
          /\ UNCHANGED <<away, timer, tjob, row>>
          /\ \A q \in Request : q # r => room'[q] = room[q]
          /\ \A q \in Request, b \in Account : q # r /\ current[b] # q => current'[b] # q
      <3>1. joining[c].step = "enter"
        BY <1>7 DEF EnterRoom
      <3>2. room \in [Request -> SUBSET Socket] /\ current \in [Account -> Request \cup {None}]
        BY <1>2 DEF TypeOK
      <3>3. /\ room' = IF c \in live THEN [room EXCEPT ![r] = @ \cup {c}] ELSE room
            /\ current' = [current EXCEPT ![a] = r] /\ UNCHANGED <<away, timer, tjob, row>>
        BY <1>7, <2>0 DEF EnterRoom
      <3> QED
        BY <3>1, <3>2, <3>3
    <2>3. \A d \in Socket : joining[d].step = "timer" => joining'[d] = joining[d]
      BY <2>1, <2>2 DEF JoinSet
    <2>4. \A q \in Request : q # r => Timed(q)'
      <3>1. \A q \in Request : q # r /\ row'[q] = "active" => Quieter(q)
        BY <2>2, <2>3 DEF Quieter
      <3> QED
        BY <3>1, TimedQuietly DEF Timers
    <2>5. Timed(r)'
      <3>1. Timed(r)
        BY <2>2 DEF Timers
      <3>2. CASE s = "rejoin"
        <4>1. Touched(r) /\ (Starting(r) => Starting(r)')
          BY <2>1, <2>3, <3>2 DEF Touched, Starting
        <4> QED
          BY <2>2, <3>1, <4>1 DEF Timed
      <3>3. CASE s = "timer"
        <4>1. joining'[c].r = r /\ joining'[c].step = "timer" /\ joining'[c].fresh = ~timer[r]
          BY <2>1, <3>3 DEF JoinSet
        <4> QED
          BY <2>2, <3>1, <4>1 DEF Timed, Starting
      <3> QED
        BY <3>2, <3>3
    <2> QED
      BY <2>4, <2>5 DEF Timers
  <1>8. ASSUME NEW c \in Socket, Rejoin(c) PROVE Timers'
    <2>1. UNCHANGED <<room, current, timer, tjob, row>> /\ joining[c].step = "rejoin"
      BY <1>8 DEF Rejoin
    <2>2. \A d \in Socket : joining[d].step = "timer" => joining'[d] = joining[d]
      BY <1>8, <2>1, RejoinBase DEF JoinSet
    <2>3. \A q \in Request : away'[q] \subseteq away[q]
      <3>1. away \in [Request -> SUBSET Account]
        BY <1>2 DEF TypeOK
      <3>2. joining[c].r \in Request
        BY <1>8, RejoinBase
      <3>3. away' = away \/ away' = [away EXCEPT ![joining[c].r] = @ \ {Owner[c]}]
        BY <1>8 DEF Rejoin
      <3> QED
        BY <3>1, <3>2, <3>3
    <2> QED
      BY <1>1, <2>1, <2>2, <2>3 DEF Quieter
  <1>9. ASSUME NEW c \in Socket, StartTimer(c) PROVE Timers'
    <2>0. PICK r \in Request : r = joining[c].r
      BY <1>9, TimerBase
    <2>1. JoinSet(c, NoJoin)
      BY <1>9, TimerBase
    <2>2. /\ joining[c].step = "timer"
          /\ IF joining[c].fresh
               THEN tjob' = [tjob EXCEPT ![r] = Add(@)] /\ timer' = [timer EXCEPT ![r] = TRUE]
               ELSE UNCHANGED <<tjob, timer>>
          /\ UNCHANGED <<room, current, away, row>>
      BY <1>9, <2>0 DEF StartTimer
    <2>3. tjob \in [Request -> JobState] /\ timer \in [Request -> BOOLEAN]
      BY <1>2 DEF TypeOK
    <2>4. CASE joining[c].fresh
      <3>1. ASSUME NEW q \in Request, q # r PROVE Timed(q)'
        <4>1. timer'[q] = timer[q] /\ tjob'[q] = tjob[q]
          BY <2>1, <2>2, <2>3, <2>4, <3>1
        <4>2. Starting(q) => Starting(q)'
          BY <2>0, <2>1, <3>1 DEF Starting, JoinSet
        <4> QED
          BY <2>2, <4>1, <4>2 DEF Timers, Timed, Touched
      <3>2. Timed(r)'
        BY <1>2, <2>1, <2>2, <2>3, <2>4 DEF Timed, Add
      <3> QED
        BY <3>1, <3>2 DEF Timers
    <2>5. CASE ~joining[c].fresh
      <3>1. \A q \in Request : Starting(q) => Starting(q)'
        BY <2>1, <2>5 DEF Starting, JoinSet
      <3> QED
        BY <2>2, <2>5, <3>1 DEF Timers, Timed, Touched
    <2> QED
      BY <2>4, <2>5
  <1>10. ASSUME NEW r \in Request, NEW by, NEW a, NEW s \in {"completed", "cancelled"},
                Ended(r, by, a, s), \A q \in Request : q # r => tjob'[q] = tjob[q],
                UNCHANGED <<joining, room, current, away, timer>>
         PROVE  Timers'
    <2>1. \A q \in Request : row'[q] = "active" => row[q] = "active" /\ q # r
      BY <1>2, <1>10 DEF TypeOK, Ended
    <2> QED
      BY <1>1, <1>10, <2>1 DEF Quieter
  <1>11. ASSUME NEW c \in Socket, NEW r \in Request, SessionEnd(c, r) PROVE Timers'
    <2>1. UNCHANGED <<joining, room, current, away, timer, tjob>>
      BY <1>11 DEF SessionEnd
    <2>2. \A q \in Request : q # r => tjob'[q] = tjob[q]
      BY <2>1
    <2> QED
      BY <1>10, <1>11, <2>1, <2>2, SessionEndBase
  <1>12. ASSUME NEW r \in Request,
               CheckRequest(r) \/ RequestStep(r) \/ ConnectElsewhere(r) \/ AcceptElsewhere(r)
         PROVE Timers'
    <2>1. ASSUME NEW s, NEW v, Asks(r, s, v) PROVE Timers'
      BY <1>1, <2>1 DEF Asks, Quieter
    <2> QED
      BY <1>12, <2>1, CheckRequestBase, ClaimBase, CreateBase, ReturningBase, ElsewhereBase,
         TimedOpening DEF RequestStep
  <1>13. ASSUME NEW r \in Request, TeardownStep(r) PROVE Timers'
    <2>1. \E s \in {"back", "add", "done"} : TearsDown(r, s)
      BY <1>13, ClearBase, TeardownBase DEF TeardownStep
    <2>2. \A q \in Request, b \in Account : current[b] # q => current'[b] # q
      <3>1. current' = current
            \/ current' = [b \in Account |-> IF b \in Parties(r) THEN None ELSE current[b]]
        BY <1>13, ClearBase, TeardownBase DEF TeardownStep
      <3> QED
        BY <3>1, Constants
    <2> QED
      BY <1>1, <2>1, <2>2 DEF TearsDown, Quieter
  <1>14. ASSUME NEW r \in Request, JobStep(r) PROVE Timers'
    <2>1. CASE ChatTimeout(r)
      <3>1. UNCHANGED <<joining, room, current, away, timer>>
        BY <2>1 DEF ChatTimeout
      <3> QED
        BY <1>10, <2>1, <3>1, ChatTimeoutBase
    <2>2. ASSUME NEW a \in Account, StartReconnectExpire(r, a) \/ SkipReconnectExpire(r, a)
          PROVE  Timers'
      BY <1>1, <2>2 DEF StartReconnectExpire, SkipReconnectExpire, Quieter
    <2>3. ASSUME NEW a \in Account, ReconnectExpire(r, a) PROVE Timers'
      <3>1. UNCHANGED <<joining, room, current, away, timer, tjob>>
        BY <2>3 DEF ReconnectExpire
      <3>2. \A q \in Request : q # r => tjob'[q] = tjob[q]
        BY <3>1
      <3> QED
        BY <1>10, <2>3, <3>1, <3>2, ExpireBase
    <2> QED
      BY <1>14, <2>1, <2>2, <2>3 DEF JobStep
  <1>15. ASSUME NEW r \in Request, SessionTimeout(r) PROVE Timers'
    <2>1. UNCHANGED <<joining, room, tjob>>
      BY <1>15 DEF SessionTimeout
    <2>2. /\ row'[r] # "active"
          /\ \A q \in Request : q # r => row'[q] = row[q] /\ away'[q] = away[q] /\ timer'[q] = timer[q]
          /\ current' = [b \in Account |-> IF b \in Parties(r) THEN None ELSE current[b]]
      BY <1>15, SessionTimeoutBase
    <2>3. \A q \in Request, b \in Account : current[b] # q => current'[b] # q
      BY <2>2, Constants
    <2> QED
      BY <1>1, <2>1, <2>2, <2>3 DEF Quieter
  <1>16. ASSUME NEW v \in Volunteer, ToggleAvailable(v) PROVE Timers'
    <2>1. UNCHANGED <<row, joining, room, current, away, timer, tjob>>
      BY <1>16, ToggleBase
    <2> QED
      BY <1>1, <2>1 DEF Quieter
  <1> QED
    BY <1>3, <1>4, <1>5, <1>6, <1>7, <1>8, <1>9, <1>11, <1>12, <1>13, <1>14, <1>15, <1>16
       DEF Next, JoinStep

(* A problem is the subject of one session, and as long as the chat of one *)
(* that somebody has joined runs, the job that ends it after 30 minutes is *)
(* waiting or being added (SessionsAreSound).  Holds whatever mishaps      *)
(* happen and however many.                                                *)
THEOREM PresenceSessionsSound == Spec => []SessionsAreSound
  <1> DEFINE Inv == Base /\ OneSessionPerProblem /\ Timers
  <1>1. Init => Inv
    BY BaseInit, ProblemsInit, TimersInit
  <1>2. Inv /\ [Next]_vars => Inv'
    BY BaseStep, ProblemsStep, TimersStep
  <1>3. Inv => SessionsAreSound
    <2> SUFFICES ASSUME Inv PROVE TimerRuns
      BY DEF SessionsAreSound
    <2>1. ASSUME NEW r \in Request, row[r] = "active", room[r] # {}
          PROVE  tjob[r] = "delayed" \/ BeingJoined(r)
      BY <2>1 DEF Timers, Timed, Touched, Starting, BeingJoined
    <2> QED
      BY <2>1 DEF TimerRuns
  <1> HIDE DEF Inv
  <1> QED
    BY <1>1, <1>2, <1>3, PTL DEF Spec

-----------------------------------------------------------------------------
(* A chat is cancelled only while its party is away.                       *)

(* A socket is there until its disconnect handler is through.              *)
Present(c) == c \in live \/ gone[c] \in {"unmap", "delete", "leave"}

Undisplaced ==
  \A c, d \in Socket : Owner[c] = Owner[d] /\ Present(c) /\ Present(d) => c = d

OneSocket == Spared({"overlap"}) => Undisplaced

(* Whoever the chat counts as away has no socket in its room, but for one  *)
(* whose join is about to take the flag away; a reconnect-expire job that  *)
(* runs was started for somebody away.                                     *)
Awaited(r) ==
  row[r] = "active" =>
    \A a \in Account :
      /\ rjob[r][a] = "active" => a \in away[r]
      /\ a \in away[r] => \A c \in room[r] : Owner[c] = a =>
           joining[c].r = r /\ joining[c].step = "rejoin"

AllAwaited == \A r \in Request : Awaited(r)

AwayOut == Spared({"overlap", "job_race", "late_join"}) => AllAwaited

LEMMA AwayInit == Init => OneSocket /\ AwayOut
  BY DEF Init, OneSocket, Undisplaced, Present, AwayOut, AllAwaited, Awaited

(* Which mishaps a later state spares, an earlier one did.                 *)
LEMMA SparedBefore ==
  ASSUME MishapsStay, NEW ms, Spared(ms)'
  PROVE  Spared(ms)
  BY DEF MishapsStay, Spared

LEMMA MishapsStep == ASSUME Base, [Next]_vars PROVE MishapsStay
  <1>1. mishaps \subseteq Allow
    BY Types DEF Base
  <1>2. ASSUME UNCHANGED mishaps PROVE MishapsStay
    BY <1>1, <1>2, Mishaps
  <1>3. CASE UNCHANGED vars
    BY <1>2, <1>3 DEF vars
  <1>4. ASSUME NEW c \in Socket,
               Connect(c) \/ Drop(c) \/ ConnectStep(c) \/ DisconnectStep(c) \/ JoinStep(c)
        PROVE  MishapsStay
    BY <1>2, <1>4, ConnectBase, DropBase, ConnectingBase, RejoinBase
       DEF DisconnectStep, Unmap, DeleteMapping, LeavePools, JoinStep, EnterRoom, StartTimer
  <1>5. ASSUME NEW c \in Socket, NEW r \in Request, ValidateJoin(c, r) \/ SessionEnd(c, r)
        PROVE  MishapsStay
    BY <1>5, ValidateBase, SessionEndBase
  <1>6. ASSUME NEW r \in Request,
               CheckRequest(r) \/ RequestStep(r) \/ ConnectElsewhere(r) \/ AcceptElsewhere(r)
        PROVE  MishapsStay
    BY <1>2, <1>6, CheckRequestBase, ClaimBase, CreateBase, ReturningBase, ElsewhereBase
       DEF RequestStep
  <1>7. ASSUME NEW r \in Request, TeardownStep(r) \/ JobStep(r) \/ SessionTimeout(r)
        PROVE  MishapsStay
    BY <1>2, <1>7, ClearBase, TeardownBase, ExpireBase, ChatTimeoutBase, SessionTimeoutBase
       DEF TeardownStep, JobStep, StartReconnectExpire, SkipReconnectExpire
  <1>8. ASSUME NEW v \in Volunteer, ToggleAvailable(v) PROVE MishapsStay
    BY <1>8, ToggleBase
  <1> QED
    BY <1>3, <1>4, <1>5, <1>6, <1>7, <1>8 DEF Next

(* Only handleConnection and handleDisconnect touch the sockets.           *)
LEMMA SocketsStep ==
  ASSUME [Next]_vars, ~ \E c \in Socket : Connect(c) \/ Drop(c) \/ Unmap(c) \/ DeleteMapping(c)
                                          \/ LeavePools(c)
  PROVE  UNCHANGED <<live, gone>>
  <1> USE DEF socketVars
  <1>1. CASE UNCHANGED vars
    BY <1>1 DEF vars
  <1>2. ASSUME NEW c \in Socket, ConnectStep(c) \/ JoinStep(c) PROVE UNCHANGED <<live, gone>>
    BY <1>2
      DEF ConnectStep, MapSocket, AddOnline, AddToPool, JoinStep, EnterRoom, Rejoin, StartTimer
  <1>3. ASSUME NEW c \in Socket, NEW r \in Request, ValidateJoin(c, r) \/ SessionEnd(c, r)
        PROVE  UNCHANGED <<live, gone>>
    BY <1>3 DEF ValidateJoin, SessionEnd
  <1>4. ASSUME NEW r \in Request,
               CheckRequest(r) \/ RequestStep(r) \/ ConnectElsewhere(r) \/ AcceptElsewhere(r)
        PROVE  UNCHANGED <<live, gone>>
    BY <1>4 DEF CheckRequest, RequestStep, ClaimVolunteer, CreateSession, CheckClaimed,
       ReturnClaimed, ConnectElsewhere, AcceptElsewhere
  <1>5. ASSUME NEW r \in Request, TeardownStep(r) \/ JobStep(r) \/ SessionTimeout(r)
        PROVE  UNCHANGED <<live, gone>>
    BY <1>5 DEF TeardownStep, ClearSession, ClearThrows, CheckListener, ReturnListener, JobStep,
       ChatTimeout, StartReconnectExpire, ReconnectExpire, SkipReconnectExpire, SessionTimeout
  <1>6. ASSUME NEW v \in Volunteer, ToggleAvailable(v) PROVE UNCHANGED <<live, gone>>
    BY <1>6 DEF ToggleAvailable
  <1> QED
    BY <1>1, <1>2, <1>3, <1>4, <1>5, <1>6 DEF Next, DisconnectStep

LEMMA OneSocketStep == ASSUME Base, OneSocket, [Next]_vars PROVE OneSocket'
  <1>1. SUFFICES ASSUME Spared({"overlap"})' PROVE Undisplaced'
    BY DEF OneSocket
  <1>2. Undisplaced /\ TypeOK /\ \A c \in Socket : SocketOK(c)
    BY <1>1, MishapsStep, SparedBefore DEF OneSocket, Base
  <1>3. ASSUME \A c \in Socket : Present(c)' => Present(c) PROVE Undisplaced'
    BY <1>2, <1>3 DEF Undisplaced
  <1>4. ASSUME NEW c \in Socket, Connect(c) PROVE Undisplaced'
    <2>1. LiveSockets(Owner[c]) = {} /\ ~Leaving(Owner[c])
      <3>1. HappensIf(LiveSockets(Owner[c]) # {} \/ Leaving(Owner[c]), "overlap")
        BY <1>4 DEF Connect
      <3> QED
        BY <1>1, <3>1 DEF HappensIf, AllHappen, If, Spared
    <2>2. \A d \in Socket : Owner[d] = Owner[c] => ~Present(d)
      BY <1>2, <2>1 DEF LiveSockets, Leaving, Present, TypeOK
    <2>3. \A d \in Socket : d # c /\ Present(d)' => Present(d)
      BY <1>2, <1>4 DEF Connect, Present, TypeOK
    <2> QED
      BY <1>2, <2>2, <2>3 DEF Undisplaced
  <1>5. ASSUME NEW c \in Socket, Drop(c) \/ Unmap(c) \/ DeleteMapping(c) \/ LeavePools(c)
        PROVE  Undisplaced'
    BY <1>2, <1>3, <1>5 DEF Drop, Unmap, DeleteMapping, LeavePools, Present, TypeOK
  <1>6. CASE ~ \E c \in Socket : Connect(c) \/ Drop(c) \/ Unmap(c) \/ DeleteMapping(c) \/ LeavePools(c)
    BY <1>3, <1>6, SocketsStep DEF Present
  <1> QED
    BY <1>4, <1>5, <1>6

(* What a step does to a chat without waking anything.                     *)
Calmer(r) ==
  /\ row[r] = "active" /\ away'[r] = away[r] /\ room'[r] \subseteq room[r]
  /\ \A a \in Account : rjob'[r][a] = "active" => rjob[r][a] = "active"
  /\ \A c \in Socket : joining[c].step = "rejoin" => joining'[c] = joining[c]

LEMMA AwaitedCalmly ==
  ASSUME NEW r \in Request, Awaited(r), row'[r] = "active" => Calmer(r), Base
  PROVE  Awaited(r)'
  <1>1. room[r] \subseteq Socket
    BY DEF Base, TypeOK
  <1> QED
    BY <1>1 DEF Awaited, Calmer

LEMMA AwayOutStep == ASSUME Base, OneSocket, AwayOut, [Next]_vars PROVE AwayOut'
  <1> USE DEF socketVars, sessionVars, chatVars, jobVars
  <1>0. SUFFICES ASSUME Spared({"overlap", "job_race", "late_join"})'
                 PROVE  AllAwaited'
    BY DEF AwayOut
  <1>1. (\A r \in Request : Awaited(r)) /\ Undisplaced
    <2>1. Spared({"overlap", "job_race", "late_join"})
      BY <1>0, MishapsStep, SparedBefore
    <2> QED
      BY <2>1 DEF AwayOut, OneSocket, Spared, AllAwaited
  <1>2. TypeOK /\ (\A c \in Socket : SocketOK(c)) /\ \A r \in Request : RowOK(r)
    BY DEF Base
  <1>3. ASSUME \A q \in Request : row'[q] = "active" => Calmer(q) PROVE AllAwaited'
    BY <1>1, <1>3, AwaitedCalmly DEF AllAwaited
  <1>4. CASE UNCHANGED vars
    BY <1>3, <1>4 DEF vars, Calmer
  <1>5. ASSUME NEW c \in Socket, Connect(c) \/ Drop(c) \/ ConnectStep(c) PROVE AllAwaited'
    <2>1. UNCHANGED <<joining, away, rjob, row>> /\ \A q \in Request : room'[q] \subseteq room[q]
      BY <1>5 DEF Connect, Drop, ConnectStep, MapSocket, AddOnline, AddToPool
    <2> QED
      BY <1>3, <2>1 DEF Calmer
  <1>6. ASSUME NEW c \in Socket, DisconnectStep(c) PROVE AllAwaited'
    <2>1. CASE Unmap(c) \/ DeleteMapping(c)
      BY <1>3, <2>1 DEF Unmap, DeleteMapping, Calmer
    <2>2. CASE LeavePools(c)
      <3> DEFINE a == Owner[c]
      <3>1. UNCHANGED <<joining, row, room, current>> /\ gone[c] = "leave" /\ a \in Account
        BY <2>2, Constants DEF LeavePools
      <3>2. CASE current[a] = None
        BY <1>3, <2>2, <3>1, <3>2 DEF LeavePools, Calmer
      <3>3. CASE current[a] # None
        <4>1. PICK r \in Request : r = current[a]
          BY <1>2, <3>1, <3>3 DEF TypeOK
        <4>2. away' = [away EXCEPT ![r] = @ \cup {a}] /\ rjob' = [rjob EXCEPT ![r][a] = Add(@)]
          BY <2>2, <3>3, <4>1 DEF LeavePools
        <4>3. away \in [Request -> SUBSET Account] /\ rjob \in [Request -> [Account -> JobState]]
          BY <1>2 DEF TypeOK
        <4>4. \A q \in Request : q # r => away'[q] = away[q] /\ rjob'[q] = rjob[q]
          BY <4>2, <4>3
        <4>5. /\ away'[r] = away[r] \cup {a}
              /\ \A b \in Account : rjob'[r][b] = "active" => rjob[r][b] = "active"
          BY <3>1, <4>2, <4>3 DEF Add
        <4>6. \A d \in room[r] : Owner[d] # a
          <5>1. \A d \in room[r] : d \in Socket /\ d \in live
            BY <1>2 DEF SocketOK, TypeOK
          <5>2. c \notin live
            BY <1>2, <3>1 DEF SocketOK
          <5> QED
            BY <1>1, <3>1, <5>1, <5>2 DEF Undisplaced, Present
        <4>7. ASSUME NEW q \in Request, q # r PROVE Awaited(q)'
          <5>1. row'[q] = "active" => Calmer(q)
            BY <3>1, <4>4, <4>7 DEF Calmer
          <5> QED
            BY <1>1, <5>1, AwaitedCalmly
        <4>8. Awaited(r)'
          BY <1>1, <3>1, <4>5, <4>6 DEF Awaited
        <4> QED
          BY <4>7, <4>8 DEF AllAwaited
      <3> QED
        BY <3>2, <3>3
    <2> QED
      BY <1>6, <2>1, <2>2 DEF DisconnectStep
  <1>7. ASSUME NEW c \in Socket, NEW r \in Request, ValidateJoin(c, r) PROVE AllAwaited'
    <2>1. UNCHANGED <<room, away, rjob, row>> /\ joining[c] = NoJoin
      BY <1>7 DEF ValidateJoin
    <2>2. \A d \in Socket : joining[d].step = "rejoin" => joining'[d] = joining[d]
      <3>1. JoinSet(c, [step |-> "enter", r |-> r, fresh |-> FALSE])
        BY <1>7, ValidateBase
      <3> QED
        BY <2>1, <3>1 DEF JoinSet, NoJoin
    <2> QED
      BY <1>3, <2>1, <2>2 DEF Calmer
  <1>8. ASSUME NEW c \in Socket, EnterRoom(c) PROVE AllAwaited'
    <2>1. PICK r \in Request, s \in {"rejoin", "timer"} :
              /\ r = joining[c].r
              /\ JoinSet(c, [step |-> s, r |-> r, fresh |-> ~timer[r]])
              /\ s = "rejoin" <=> Owner[c] \in away[r]
      BY <1>8, EnterBase
    <2>2. joining[c].step = "enter" /\ UNCHANGED <<away, rjob, row>>
          /\ room' = IF c \in live THEN [room EXCEPT ![r] = @ \cup {c}] ELSE room
      BY <1>8, <2>1 DEF EnterRoom
    <2>3. (\A q \in Request : q # r => room'[q] = room[q]) /\ room'[r] \subseteq room[r] \cup {c}
          /\ room[r] \subseteq Socket
      BY <1>2, <2>2 DEF TypeOK
    <2>4. \A d \in Socket : joining[d].step = "rejoin" => joining'[d] = joining[d]
      BY <2>1, <2>2 DEF JoinSet
    <2>5. ASSUME NEW q \in Request, q # r PROVE Awaited(q)'
      <3>1. row'[q] = "active" => Calmer(q)
        BY <2>2, <2>3, <2>4, <2>5 DEF Calmer
      <3> QED
        BY <1>1, <3>1, AwaitedCalmly
    <2>6. Awaited(r)'
      <3>1. joining'[c].r = r /\ joining'[c].step = s
        BY <2>1 DEF JoinSet
      <3> QED
        BY <1>1, <2>1, <2>2, <2>3, <2>4, <3>1 DEF Awaited
    <2> QED
      BY <2>5, <2>6 DEF AllAwaited
  <1>9. ASSUME NEW c \in Socket, Rejoin(c) PROVE AllAwaited'
    <2>1. joining[c].step = "rejoin" /\ UNCHANGED <<row, room>> /\ JoinSet(c, NoJoin)
          /\ Owner[c] \in Account
      BY <1>9, RejoinBase, Constants DEF Rejoin
    <2>2. PICK r \in Request : r = joining[c].r
      BY <1>9, RejoinBase
    <2>3. RJobSet(r, Owner[c], "none") /\ away' = [away EXCEPT ![r] = @ \ {Owner[c]}]
      <3>1. "job_race" \notin mishaps'
        BY <1>0 DEF Spared
      <3> QED
        BY <1>9, <2>2, <3>1, RejoinBase
    <2>4. away \in [Request -> SUBSET Account] /\ \A q \in Request : room[q] \subseteq Socket
      BY <1>2 DEF TypeOK
    <2>5. \A d \in Socket : d # c => joining'[d] = joining[d]
      BY <2>1 DEF JoinSet
    <2>6. ASSUME NEW q \in Request, q # r PROVE Awaited(q)'
      <3>1. away'[q] = away[q] /\ \A b \in Account : rjob'[q][b] = rjob[q][b]
        BY <2>1, <2>3, <2>4, <2>6 DEF RJobSet
      <3> QED
        BY <1>1, <2>1, <2>2, <2>4, <2>5, <2>6, <3>1 DEF Awaited
    <2>7. Awaited(r)'
      <3>1. away'[r] = away[r] \ {Owner[c]} /\ rjob'[r][Owner[c]] = "none"
            /\ \A b \in Account : b # Owner[c] => rjob'[r][b] = rjob[r][b]
        BY <2>1, <2>3, <2>4 DEF RJobSet
      <3> QED
        BY <1>1, <2>1, <2>4, <2>5, <3>1 DEF Awaited
    <2> QED
      BY <2>6, <2>7 DEF AllAwaited
  <1>10. ASSUME NEW c \in Socket, StartTimer(c) PROVE AllAwaited'
    <2>1. joining[c].step = "timer" /\ UNCHANGED <<room, away, rjob, row>> /\ JoinSet(c, NoJoin)
      BY <1>10, TimerBase DEF StartTimer
    <2> QED
      BY <1>3, <2>1 DEF JoinSet, Calmer
  <1>11. ASSUME NEW r \in Request, NEW by, NEW a, NEW s \in {"completed", "cancelled"},
                Ended(r, by, a, s), \A q \in Request : q # r => rjob'[q] = rjob[q],
                UNCHANGED <<joining, room, away>>
         PROVE  AllAwaited'
    <2>1. \A q \in Request : row'[q] = "active" => row[q] = "active" /\ q # r
      BY <1>2, <1>11 DEF TypeOK, Ended
    <2> QED
      BY <1>3, <1>11, <2>1 DEF Calmer
  <1>12. ASSUME NEW c \in Socket, NEW r \in Request, SessionEnd(c, r) PROVE AllAwaited'
    <2>1. UNCHANGED <<joining, room, away, rjob>>
      BY <1>12 DEF SessionEnd
    <2>2. \A q \in Request : q # r => rjob'[q] = rjob[q]
      BY <2>1
    <2> QED
      BY <1>11, <1>12, <2>1, <2>2, SessionEndBase
  <1>13. ASSUME NEW r \in Request,
               CheckRequest(r) \/ RequestStep(r) \/ ConnectElsewhere(r) \/ AcceptElsewhere(r)
         PROVE AllAwaited'
    <2>1. ASSUME NEW s, NEW v, Asks(r, s, v) PROVE AllAwaited'
      BY <1>3, <2>1 DEF Asks, Calmer
    <2>2. ASSUME NEW v \in Volunteer, Opens(r, v) PROVE AllAwaited'
      <3>1. Awaited(r)'
        BY <2>2 DEF Opens, Untouched, Awaited
      <3>2. ASSUME NEW q \in Request, q # r PROVE Awaited(q)'
        <4>1. row'[q] = "active" => Calmer(q)
          BY <2>2, <3>2 DEF Opens, Calmer
        <4> QED
          BY <1>1, <4>1, AwaitedCalmly
      <3> QED
        BY <3>1, <3>2 DEF AllAwaited
    <2> QED
      BY <1>13, <2>1, <2>2, CheckRequestBase, ClaimBase, CreateBase, ReturningBase, ElsewhereBase
         DEF RequestStep
  <1>14. ASSUME NEW r \in Request, TeardownStep(r) PROVE AllAwaited'
    <2>1. \E s \in {"back", "add", "done"} : TearsDown(r, s)
      BY <1>14, ClearBase, TeardownBase DEF TeardownStep
    <2> QED
      BY <1>3, <2>1 DEF TearsDown, Calmer
  <1>15. ASSUME NEW r \in Request, JobStep(r) PROVE AllAwaited'
    <2>1. CASE ChatTimeout(r)
      <3>1. UNCHANGED <<joining, room, away, rjob>>
        BY <2>1 DEF ChatTimeout
      <3>2. \A q \in Request : q # r => rjob'[q] = rjob[q]
        BY <3>1
      <3> QED
        BY <1>11, <2>1, <3>1, <3>2, ChatTimeoutBase
    <2>2. ASSUME NEW a \in Account, StartReconnectExpire(r, a) \/ SkipReconnectExpire(r, a)
          PROVE  AllAwaited'
      <3>1. UNCHANGED <<joining, room, away, row>>
        BY <2>2 DEF StartReconnectExpire, SkipReconnectExpire
      <3>2. RJobSet(r, a, "none") \/ (RJobSet(r, a, "active") /\ a \in away[r])
        BY <2>2, SkipBase
      <3>3. \A q \in Request, b \in Account :
              rjob'[q][b] = "active" => rjob[q][b] = "active" \/ b \in away[q]
        BY <3>2 DEF RJobSet
      <3> QED
        BY <1>1, <3>1, <3>3 DEF AllAwaited, Awaited
    <2>3. ASSUME NEW a \in Account, ReconnectExpire(r, a) PROVE AllAwaited'
      <3>1. UNCHANGED <<joining, room, away>>
        BY <2>3 DEF ReconnectExpire
      <3> QED
        BY <1>11, <2>3, <3>1, ExpireBase
    <2> QED
      BY <1>15, <2>1, <2>2, <2>3 DEF JobStep
  <1>16. ASSUME NEW r \in Request, SessionTimeout(r) PROVE AllAwaited'
    <2>1. UNCHANGED <<joining, room, rjob>>
      BY <1>16 DEF SessionTimeout
    <2>2. row'[r] # "active" /\ \A q \in Request : q # r => row'[q] = row[q] /\ away'[q] = away[q]
      BY <1>16, SessionTimeoutBase
    <2> QED
      BY <1>3, <2>1, <2>2 DEF Calmer
  <1>17. ASSUME NEW v \in Volunteer, ToggleAvailable(v) PROVE AllAwaited'
    <2>1. UNCHANGED <<row, joining, room, away, rjob>>
      BY <1>17, ToggleBase
    <2> QED
      BY <1>3, <2>1 DEF Calmer
  <1> QED
    BY <1>4, <1>5, <1>6, <1>7, <1>8, <1>9, <1>10, <1>12, <1>13, <1>14, <1>15, <1>16, <1>17
       DEF Next, JoinStep

(* The steps that change the row of a session or its teardown.             *)
LEMMA EndingSteps ==
  ASSUME Base, [Next]_vars
  PROVE  \/ UNCHANGED <<row, ending>>
         \/ \E r \in Request, v \in Volunteer : Opens(r, v)
         \/ \E r \in Request, by \in {"user", "timeout"}, a \in Account \cup {None} :
              /\ Ended(r, by, a, "completed")
              /\ row[r] = "active" /\ BeingJoined(r) => "late_join" \in mishaps'
         \/ \E r \in Request, a \in Account : ReconnectExpire(r, a)
         \/ \E r \in Request, s \in {"back", "add", "done"} : TearsDown(r, s)
         \/ \E r \in Request : SessionTimeout(r)
  <1> USE DEF sessionVars, jobVars
  <1>1. CASE UNCHANGED vars
    BY <1>1 DEF vars
  <1>2. CASE \E c \in Socket :
               Connect(c) \/ Drop(c) \/ ConnectStep(c) \/ DisconnectStep(c) \/ JoinStep(c)
    BY <1>2 DEF Connect, Drop, ConnectStep, MapSocket, AddOnline, AddToPool, DisconnectStep,
       Unmap, DeleteMapping, LeavePools, JoinStep, EnterRoom, Rejoin, StartTimer
  <1>3. CASE \E c \in Socket, r \in Request : ValidateJoin(c, r)
    BY <1>3 DEF ValidateJoin
  <1>4. ASSUME NEW c \in Socket, NEW r \in Request, SessionEnd(c, r)
        PROVE  /\ Ended(r, "user", Owner[c], "completed") /\ Owner[c] \in Account
               /\ BeingJoined(r) => "late_join" \in mishaps'
    BY <1>4, SessionEndBase, Constants
  <1>5. ASSUME NEW r \in Request,
               CheckRequest(r) \/ RequestStep(r) \/ ConnectElsewhere(r) \/ AcceptElsewhere(r)
        PROVE  UNCHANGED <<row, ending>> \/ \E v \in Volunteer : Opens(r, v)
    <2>1. ASSUME NEW s, NEW v, Asks(r, s, v) PROVE UNCHANGED <<row, ending>>
      BY <2>1 DEF Asks
    <2> QED
      BY <1>5, <2>1, CheckRequestBase, ClaimBase, CreateBase, ReturningBase, ElsewhereBase
         DEF RequestStep
  <1>6. ASSUME NEW r \in Request, TeardownStep(r)
        PROVE  \E s \in {"back", "add", "done"} : TearsDown(r, s)
    BY <1>6, ClearBase, TeardownBase DEF TeardownStep
  <1>7. ASSUME NEW r \in Request, JobStep(r)
        PROVE  \/ UNCHANGED <<row, ending>>
               \/ /\ Ended(r, "timeout", None, "completed")
                  /\ row[r] = "active" /\ BeingJoined(r) => "late_join" \in mishaps'
               \/ \E a \in Account : ReconnectExpire(r, a)
    BY <1>7, ChatTimeoutBase DEF JobStep, StartReconnectExpire, SkipReconnectExpire
  <1>8. CASE \E v \in Volunteer : ToggleAvailable(v)
    BY <1>8 DEF ToggleAvailable
  <1> QED
    BY <1>1, <1>2, <1>3, <1>4, <1>5, <1>6, <1>7, <1>8 DEF Next

CancelledAway ==
  \A r \in Request : \A a \in Account :
    /\ Spared({"overlap", "job_race", "late_join"})'
    /\ row[r] = "active" /\ ending'[r].by = "reconnect" /\ ending'[r].of = a
    => \A c \in room[r] : Owner[c] # a

EndedStays ==
  \A r \in Request :
    /\ row[r] \in {"completed", "cancelled"} => row'[r] = row[r]
    /\ ending[r].by # "none" => ending'[r].by = ending[r].by

LEMMA CancelledStep == ASSUME Base, AwayOut, [Next]_vars PROVE CancelledAway
  <1>1. SUFFICES ASSUME NEW r \in Request, NEW a \in Account,
                        Spared({"overlap", "job_race", "late_join"})', row[r] = "active",
                        ending'[r].by = "reconnect", ending'[r].of = a
                 PROVE  \A c \in room[r] : Owner[c] # a
    BY DEF CancelledAway
  <1>2. Awaited(r)
    BY <1>1, MishapsStep, SparedBefore DEF AwayOut, AllAwaited
  <1>3. TypeOK /\ ending[r].by = "none"
    BY <1>1 DEF Base, RowOK, NotEnding
  <1>4. ending'[r] # ending[r]
    BY <1>1, <1>3
  <1>5. \E b \in Account : ReconnectExpire(r, b) /\ b = a
    <2>1. ASSUME NEW q \in Request, NEW by, NEW b, NEW s, Ended(q, by, b, s), q = r
          PROVE  by = "reconnect" /\ b = a
      BY <1>1, <1>4, <2>1 DEF Ended, EndSet
    <2>2. ASSUME NEW q \in Request, NEW by, NEW b, NEW s, Ended(q, by, b, s) PROVE q = r
      BY <1>4, <2>2 DEF Ended, EndSet
    <2>3. ASSUME NEW q \in Request, NEW v, Opens(q, v) PROVE FALSE
      BY <1>4, <2>3 DEF Opens, jobVars
    <2>4. ASSUME NEW q \in Request, NEW s, TearsDown(q, s) PROVE FALSE
      BY <1>1, <1>4, <2>4 DEF TearsDown, EndSet
    <2>5. ASSUME NEW q \in Request, SessionTimeout(q) PROVE FALSE
      BY <1>4, <2>5 DEF SessionTimeout, jobVars
    <2>6. ASSUME NEW q \in Request, NEW b \in Account, ReconnectExpire(q, b)
          PROVE  q = r /\ b = a
      BY <2>1, <2>2, <2>6, ExpireBase
    <2>7. ASSUME NEW q \in Request, NEW by \in {"user", "timeout"}, NEW b,
                 Ended(q, by, b, "completed")
          PROVE  FALSE
      BY <2>1, <2>2, <2>7
    <2> QED
      BY <1>4, <2>3, <2>4, <2>5, <2>6, <2>7, EndingSteps
  <1>6. rjob[r][a] = "active" /\ ~BeingJoined(r)
    BY <1>1, <1>5, ExpireBase DEF Spared
  <1> QED
    BY <1>1, <1>2, <1>3, <1>6 DEF Awaited, BeingJoined, TypeOK

LEMMA EndedStaysStep == ASSUME Base, [Next]_vars PROVE EndedStays
  <1>1. \A r \in Request : RowOK(r) /\ row \in [Request -> {"none", "active", "completed", "cancelled"}]
    BY DEF Base, TypeOK
  <1>2. ASSUME UNCHANGED <<row, ending>> PROVE EndedStays
    BY <1>2 DEF EndedStays
  <1>3. ASSUME NEW q \in Request, NEW v, Opens(q, v) PROVE EndedStays
    BY <1>1, <1>3 DEF Opens, jobVars, EndedStays
  <1>4. ASSUME NEW q \in Request, NEW by, NEW a, NEW s, Ended(q, by, a, s) PROVE EndedStays
    <2>1. CASE row[q] # "active"
      BY <1>2, <1>4, <2>1 DEF Ended
    <2>2. CASE row[q] = "active"
      <3>1. /\ ending[q].by = "none" /\ \A r \in Request : r # q => ending'[r] = ending[r]
            /\ \A r \in Request : r # q => row'[r] = row[r]
        BY <1>1, <1>4, <2>2 DEF Ended, EndSet, RowOK
      <3> QED
        BY <2>2, <3>1 DEF EndedStays
    <2> QED
      BY <2>1, <2>2
  <1>5. ASSUME NEW q \in Request, NEW s, TearsDown(q, s) PROVE EndedStays
    <2>1. UNCHANGED row /\ \A r \in Request : ending'[r].by = ending[r].by
      BY <1>5 DEF TearsDown, EndSet, sessionVars
    <2> QED
      BY <2>1 DEF EndedStays
  <1>6. ASSUME NEW q \in Request, SessionTimeout(q) PROVE EndedStays
    <2>1. UNCHANGED ending
      BY <1>6 DEF SessionTimeout, jobVars
    <2>2. \A r \in Request : row[r] # "active" => row'[r] = row[r]
      BY <1>6, SessionTimeoutBase
    <2> QED
      BY <2>1, <2>2 DEF EndedStays
  <1> QED
    BY <1>2, <1>3, <1>4, <1>5, <1>6, EndingSteps, ExpireBase

(* A chat ends once - its row keeps the outcome and one teardown runs,     *)
(* whatever mishaps happen - and it is cancelled for a lost connection     *)
(* only while that party has no socket in its room, unless a socket is     *)
(* displaced, a job to be removed runs or a join is being handled          *)
(* (EndsRight).                                                            *)
THEOREM PresenceEndsRight == Spec => EndsRight
  <1> DEFINE Inv == Base /\ OneSocket /\ AwayOut
  <1>1. Init => Inv
    BY BaseInit, AwayInit
  <1>2. Inv /\ [Next]_vars => Inv'
    BY BaseStep, OneSocketStep, AwayOutStep
  <1>3. Inv /\ [Next]_vars => [CancelledAway]_vars /\ [EndedStays]_vars
    BY CancelledStep, EndedStaysStep
  <1> HIDE DEF Inv
  <1>4. Spec => [][CancelledAway]_vars /\ [][EndedStays]_vars
    BY <1>1, <1>2, <1>3, PTL DEF Spec
  <1> QED
    BY <1>4 DEF EndsRight, CancelledWhileAway, EndsOnce, CancelledAway, EndedStays

-----------------------------------------------------------------------------
(* One chat at a time.                                                     *)

Claims(r, v) == asking[r].v = v /\ asking[r].step = "create"
Returning(r, v) == asking[r].v = v /\ asking[r].step \in {"back", "add"}
Closing(r, v) == ~TornDown(r) /\ listener[r] = v
Pooling(v) == \E c \in Socket : Owner[c] = v /\ conn[c] = "pool"

(* A volunteer r has claimed or is the listener of.                        *)
Engaged(r, v) == Claims(r, v) \/ (row[r] = "active" /\ listener[r] = v)

(* A volunteer who is in the pool or on the way there.                     *)
Coming(v) == v \in pool \/ Pooling(v) \/ \E r \in Request : Returning(r, v) \/ Closing(r, v)

EngagedOnce ==
  \A v \in Volunteer :
    /\ \A r, q \in Request : Engaged(r, v) /\ Engaged(q, v) => r = q
    /\ Coming(v) => \A r \in Request : ~Engaged(r, v)

OneChat == Spared({"late_match", "accept"}) => EngagedOnce

(* The requests of a seeker that are open: handled, or their chat runs.    *)
Busy(r) == asking[r].step \in {"pop", "create"} \/ row[r] = "active"

AskedOnce ==
  \A r, q \in Request : SeekerOf[r] = SeekerOf[q] /\ Busy(r) /\ Busy(q) => r = q

OneChatOfSeeker == Spared({"double_request", "accept"}) => AskedOnce

LEMMA PooledAgain ==
  ASSUME Base, NEW v \in Volunteer
  PROVE  BeingPooled(v) <=> Pooling(v) \/ \E r \in Request : Returning(r, v) \/ Closing(r, v)
  <1>1. \A r \in Request : v # SeekerOf[r]
    BY Constants
  <1> QED
    BY <1>1 DEF BeingPooled, GivingBack, Pooling, Returning, Closing, Parties

LEMMA OneChatInit == Init => OneChat /\ OneChatOfSeeker
  BY DEF Init, OneChat, EngagedOnce, Engaged, Claims, OneChatOfSeeker, AskedOnce, Busy

Lighter ==
  \A v \in Volunteer :
    /\ \A r \in Request : Engaged(r, v)' => Engaged(r, v)
    /\ Coming(v)' => Coming(v)

LEMMA EngagedKept == ASSUME EngagedOnce, Lighter PROVE EngagedOnce'
  BY DEF EngagedOnce, Lighter

LEMMA OneChatStep == ASSUME Base, OneChat, [Next]_vars PROVE OneChat'
  <1> USE DEF socketVars, sessionVars, chatVars, jobVars
  <1>0. SUFFICES ASSUME Spared({"late_match", "accept"})' PROVE EngagedOnce'
    BY DEF OneChat
  <1>1. EngagedOnce /\ TypeOK /\ (\A r \in Request : RowOK(r))
        /\ "late_match" \notin mishaps' /\ "accept" \notin mishaps'
    BY <1>0, MishapsStep, SparedBefore DEF OneChat, Base, Spared
  <1>2. CASE UNCHANGED vars
    <2>1. Lighter
      BY <1>2 DEF vars, Lighter, Engaged, Claims, Coming, Pooling, Returning, Closing, TornDown
    <2> QED
      BY <1>1, <2>1, EngagedKept
  <1>3. ASSUME NEW c \in Socket,
               Connect(c) \/ Drop(c) \/ MapSocket(c) \/ AddToPool(c) \/ DisconnectStep(c) \/ JoinStep(c)
        PROVE  EngagedOnce'
    <2>1. UNCHANGED <<asking, row, listener, ending>>
      BY <1>3 DEF Connect, Drop, MapSocket, AddToPool, DisconnectStep, Unmap, DeleteMapping,
         LeavePools, JoinStep, EnterRoom, Rejoin, StartTimer
    <2>2. \A d \in Socket : conn'[d] = "pool" => conn[d] = "pool"
      <3>1. conn' \in {conn, [conn EXCEPT ![c] = "map"], [conn EXCEPT ![c] = "online"],
                       [conn EXCEPT ![c] = "done"]}
        BY <1>3 DEF Connect, Drop, MapSocket, AddToPool, DisconnectStep, Unmap, DeleteMapping,
           LeavePools, JoinStep, EnterRoom, Rejoin, StartTimer
      <3> QED
        BY <1>1, <3>1 DEF TypeOK
    <2>3. \A v \in pool' : v \in pool \/ (v = Owner[c] /\ conn[c] = "pool")
      BY <1>3 DEF Connect, Drop, MapSocket, AddToPool, DisconnectStep, Unmap, DeleteMapping,
         LeavePools, JoinStep, EnterRoom, Rejoin, StartTimer
    <2>4. Lighter
      BY <2>1, <2>2, <2>3
        DEF Lighter, Engaged, Claims, Coming, Pooling, Returning, Closing, TornDown
    <2> QED
      BY <1>1, <2>4, EngagedKept
  <1>4. ASSUME NEW c \in Socket, AddOnline(c) PROVE EngagedOnce'
    <2>1. /\ UNCHANGED <<asking, row, listener, ending, pool>>
          /\ conn' = [conn EXCEPT ![c] =
                        IF Owner[c] \in available /\ Active(Owner[c]) = {} THEN "pool" ELSE "done"]
          /\ ~ \E r \in Request : Claims(r, Owner[c])
      BY <1>1, <1>4 DEF AddOnline, HappensIf, AllHappen, If, Claims
    <2>2. \A v \in Volunteer, r \in Request : Engaged(r, v)' <=> Engaged(r, v)
      BY <2>1 DEF Engaged, Claims
    <2>3. \A v \in Volunteer : Coming(v)' => \/ Coming(v)
                                             \/ v = Owner[c] /\ Active(v) = {}
      BY <1>1, <2>1 DEF Coming, Pooling, Returning, Closing, TornDown, TypeOK
    <2>4. \A r \in Request : Active(Owner[c]) = {} => ~Engaged(r, Owner[c])
      BY <2>1 DEF Engaged, Active, Parties
    <2> QED
      BY <1>1, <2>2, <2>3, <2>4 DEF EngagedOnce
  <1>5. ASSUME NEW c \in Socket, NEW r \in Request, ValidateJoin(c, r) PROVE EngagedOnce'
    <2>1. UNCHANGED <<asking, row, listener, ending, conn, pool>>
      BY <1>5 DEF ValidateJoin
    <2>2. Lighter
      BY <2>1 DEF Lighter, Engaged, Claims, Coming, Pooling, Returning, Closing, TornDown
    <2> QED
      BY <1>1, <2>2, EngagedKept
  <1>6. ASSUME NEW r \in Request, NEW by, NEW a, NEW s \in {"completed", "cancelled"},
               Ended(r, by, a, s), UNCHANGED <<asking, listener, conn, pool>>
        PROVE  EngagedOnce'
    <2>1. CASE row[r] # "active"
      <3>1. Lighter
        BY <1>6, <2>1 DEF Ended, Lighter, Engaged, Claims, Coming, Pooling, Returning, Closing,
           TornDown
      <3> QED
        BY <1>1, <3>1, EngagedKept
    <2>2. CASE row[r] = "active"
      <3>1. /\ row'[r] # "active" /\ asking[r].step = "done"
            /\ \A q \in Request : q # r => row'[q] = row[q] /\ ending'[q] = ending[q]
        BY <1>1, <1>6, <2>2 DEF Ended, EndSet, RowOK, TypeOK
      <3>2. \A v \in Volunteer, q \in Request : Engaged(q, v)' => Engaged(q, v) /\ q # r
        BY <1>6, <3>1 DEF Engaged, Claims
      <3>3. \A v \in Volunteer : Coming(v)' => Coming(v) \/ Engaged(r, v)
        BY <1>6, <2>2, <3>1 DEF Coming, Pooling, Returning, Closing, TornDown, Engaged
      <3> QED
        BY <1>1, <3>2, <3>3 DEF EngagedOnce
    <2> QED
      BY <2>1, <2>2
  <1>7. ASSUME NEW c \in Socket, NEW r \in Request, SessionEnd(c, r) PROVE EngagedOnce'
    <2>1. UNCHANGED <<asking, listener, conn, pool>>
      BY <1>7 DEF SessionEnd
    <2> QED
      BY <1>6, <1>7, <2>1, SessionEndBase
  <1>8. ASSUME NEW r \in Request, CheckRequest(r) PROVE EngagedOnce'
    <2>1. UNCHANGED pool /\ \E s \in {"pop", "done"} : Asks(r, s, None)
      BY <1>8, CheckRequestBase
    <2>2. Lighter
      BY <2>1
        DEF Asks, AskSet, Lighter, Engaged, Claims, Coming, Pooling, Returning, Closing, TornDown
    <2> QED
      BY <1>1, <2>2, EngagedKept
  <1>9. ASSUME NEW r \in Request, ClaimVolunteer(r) PROVE EngagedOnce'
    <2>1. CASE Asks(r, "done", None) /\ UNCHANGED pool
      <3>1. Lighter
        BY <2>1 DEF Asks, AskSet, Lighter, Engaged, Claims, Coming, Pooling, Returning, Closing,
           TornDown
      <3> QED
        BY <1>1, <3>1, EngagedKept
    <2>2. ASSUME NEW v \in pool, pool' = pool \ {v}, Asks(r, "pop", asking[r].v), UNCHANGED asking
          PROVE  EngagedOnce'
      <3>1. Lighter
        BY <2>2 DEF Asks, Lighter, Engaged, Claims, Coming, Pooling, Returning, Closing, TornDown
      <3> QED
        BY <1>1, <3>1, EngagedKept
    <2>3. ASSUME NEW v \in pool, pool' = pool \ {v}, Asks(r, "create", v), ~BeingPooled(v)
          PROVE  EngagedOnce'
      <3>1. v \in Volunteer
        BY <1>1 DEF TypeOK
      <3>2. \A w \in Volunteer, q \in Request : Engaged(q, w)' => Engaged(q, w) \/ (q = r /\ w = v)
        BY <2>3 DEF Asks, AskSet, Engaged, Claims
      <3>3. \A w \in Volunteer : Coming(w)' => Coming(w) /\ w # v
        <4>1. ~(Pooling(v) \/ \E q \in Request : Returning(q, v) \/ Closing(q, v))
          BY <2>3, <3>1, PooledAgain
        <4>2. \A q \in Request, w \in Volunteer : Returning(q, w)' => Returning(q, w)
          BY <2>3 DEF Asks, AskSet, Returning
        <4>3. \A q \in Request, w \in Volunteer : Closing(q, w)' <=> Closing(q, w)
          BY <2>3 DEF Asks, Closing, TornDown
        <4>4. \A w \in Volunteer : Pooling(w)' <=> Pooling(w)
          BY <2>3 DEF Asks, Pooling
        <4> QED
          BY <2>3, <4>1, <4>2, <4>3, <4>4 DEF Coming
      <3>4. Coming(v)
        BY DEF Coming
      <3> QED
        BY <1>1, <3>1, <3>2, <3>3, <3>4 DEF EngagedOnce
    <2> QED
      BY <1>1, <1>9, <2>1, <2>2, <2>3, ClaimBase
  <1>10. ASSUME NEW r \in Request, CreateSession(r) PROVE EngagedOnce'
    <2>1. PICK v \in Volunteer : /\ v = asking[r].v /\ Claims(r, v) /\ UNCHANGED <<conn, pool>>
                                 /\ Asks(r, "back", v) \/ Opens(r, v)
      BY <1>10, CreateBase DEF Claims
    <2>2. CASE Asks(r, "back", v)
      <3>1. \A w \in Volunteer, q \in Request : Engaged(q, w)' => Engaged(q, w) /\ q # r
        BY <2>2 DEF Asks, AskSet, Engaged, Claims
      <3>2. \A w \in Volunteer : Coming(w)' => Coming(w) \/ w = v
        BY <2>1, <2>2 DEF Asks, AskSet, Coming, Returning, Closing, TornDown, Pooling
      <3>3. Engaged(r, v)
        BY <2>1 DEF Engaged
      <3> QED
        BY <1>1, <3>1, <3>2, <3>3 DEF EngagedOnce
    <2>3. CASE Opens(r, v)
      <3>1. /\ row'[r] = "active" /\ listener'[r] = v
            /\ \A q \in Request : q # r => row'[q] = row[q] /\ listener'[q] = listener[q]
        BY <1>1, <2>3 DEF Opens, TypeOK
      <3>2. \A w \in Volunteer, q \in Request : Engaged(q, w)' => Engaged(q, w)
        BY <2>1, <2>3, <3>1 DEF Opens, AskSet, Engaged, Claims
      <3>3. \A w \in Volunteer, q \in Request : Returning(q, w)' => Returning(q, w)
        BY <2>3 DEF Opens, AskSet, Returning
      <3>4. \A w \in Volunteer, q \in Request : Closing(q, w)' => Closing(q, w)
        BY <2>3, <3>1 DEF Opens, Untouched, NotEnding, Closing, TornDown
      <3>5. Lighter
        BY <2>1, <3>2, <3>3, <3>4 DEF Lighter, Coming, Pooling
      <3> QED
        BY <1>1, <3>5, EngagedKept
    <2> QED
      BY <2>1, <2>2, <2>3
  <1>11. ASSUME NEW r \in Request, CheckClaimed(r) \/ ReturnClaimed(r) PROVE EngagedOnce'
    <2>1. PICK v \in Volunteer, s \in {"add", "done"} :
             /\ Returning(r, v) /\ pool' \subseteq pool \cup {v}
             /\ Asks(r, s, v) \/ (s = "done" /\ Asks(r, s, None))
      BY <1>11, ReturningBase DEF Returning
    <2>2. \A w \in Volunteer, q \in Request : Engaged(q, w)' => Engaged(q, w)
      BY <2>1 DEF Asks, AskSet, Engaged, Claims
    <2>3. \A w \in Volunteer, q \in Request : Returning(q, w)' => Returning(q, w)
      BY <2>1 DEF Asks, AskSet, Returning
    <2>4. \A w \in Volunteer : (Pooling(w)' <=> Pooling(w))
                               /\ \A q \in Request : Closing(q, w)' <=> Closing(q, w)
      BY <2>1 DEF Asks, Pooling, Closing, TornDown
    <2>5. Lighter
      BY <2>1, <2>2, <2>3, <2>4 DEF Lighter, Coming
    <2> QED
      BY <1>1, <2>5, EngagedKept
  <1>12. ASSUME NEW r \in Request, ConnectElsewhere(r) \/ AcceptElsewhere(r) PROVE EngagedOnce'
    <2>1. PICK v \in Volunteer : /\ Opens(r, v) /\ v \in pool /\ pool' = pool \ {v}
                                 /\ ~BeingPooled(v) /\ asking[r].step = "new"
      BY <1>1, <1>12, ElsewhereBase
    <2>2. /\ row'[r] = "active" /\ listener'[r] = v
          /\ \A q \in Request : q # r => row'[q] = row[q] /\ listener'[q] = listener[q]
      BY <1>1, <2>1 DEF Opens, TypeOK
    <2>3. \A w \in Volunteer, q \in Request : Engaged(q, w)' => Engaged(q, w) \/ (q = r /\ w = v)
      BY <2>1, <2>2 DEF Opens, AskSet, Engaged, Claims
    <2>4. \A w \in Volunteer : Coming(w)' => Coming(w) /\ w # v
      <3>1. ~(Pooling(v) \/ \E q \in Request : Returning(q, v) \/ Closing(q, v))
        BY <2>1, PooledAgain
      <3>2. \A w \in Volunteer, q \in Request : Returning(q, w)' => Returning(q, w)
        BY <2>1 DEF Opens, AskSet, Returning
      <3>3. \A w \in Volunteer, q \in Request : Closing(q, w)' => Closing(q, w)
        BY <2>1, <2>2 DEF Opens, Untouched, NotEnding, Closing, TornDown
      <3>4. \A w \in Volunteer : Pooling(w)' <=> Pooling(w)
        BY <2>1 DEF Opens, Pooling
      <3> QED
        BY <2>1, <3>1, <3>2, <3>3, <3>4 DEF Coming
    <2>5. Coming(v)
      BY <2>1 DEF Coming
    <2> QED
      BY <1>1, <2>1, <2>3, <2>4, <2>5 DEF EngagedOnce
  <1>13. ASSUME NEW r \in Request, TeardownStep(r) PROVE EngagedOnce'
    <2>1. PICK s \in {"back", "add", "done"} : /\ TearsDown(r, s) /\ Closing(r, listener[r])
                                               /\ pool' \subseteq pool \cup {listener[r]}
      BY <1>13, ClearBase, TeardownBase DEF TeardownStep, Closing, TornDown
    <2>2. \A w \in Volunteer, q \in Request : Engaged(q, w)' => Engaged(q, w)
      BY <2>1 DEF TearsDown, Engaged, Claims
    <2>3. \A w \in Volunteer, q \in Request : Closing(q, w)' => Closing(q, w)
      BY <2>1 DEF TearsDown, EndSet, Closing, TornDown
    <2>4. \A w \in Volunteer : (Pooling(w)' <=> Pooling(w))
                               /\ \A q \in Request : Returning(q, w)' <=> Returning(q, w)
      BY <2>1 DEF TearsDown, Pooling, Returning
    <2>5. Lighter
      BY <2>1, <2>2, <2>3, <2>4 DEF Lighter, Coming
    <2> QED
      BY <1>1, <2>5, EngagedKept
  <1>14. ASSUME NEW r \in Request, JobStep(r) PROVE EngagedOnce'
    <2>1. CASE ChatTimeout(r)
      <3>1. UNCHANGED <<asking, listener, conn, pool>>
        BY <2>1 DEF ChatTimeout
      <3> QED
        BY <1>6, <2>1, <3>1, ChatTimeoutBase
    <2>2. ASSUME NEW a \in Account, StartReconnectExpire(r, a) \/ SkipReconnectExpire(r, a)
          PROVE  EngagedOnce'
      <3>1. UNCHANGED <<asking, row, listener, ending, conn, pool>>
        BY <2>2 DEF StartReconnectExpire, SkipReconnectExpire
      <3>2. Lighter
        BY <3>1 DEF Lighter, Engaged, Claims, Coming, Pooling, Returning, Closing, TornDown
      <3> QED
        BY <1>1, <3>2, EngagedKept
    <2>3. ASSUME NEW a \in Account, ReconnectExpire(r, a) PROVE EngagedOnce'
      <3>1. UNCHANGED <<asking, listener, conn, pool>>
        BY <2>3 DEF ReconnectExpire
      <3> QED
        BY <1>6, <2>3, <3>1, ExpireBase
    <2> QED
      BY <1>14, <2>1, <2>2, <2>3 DEF JobStep
  <1>15. ASSUME NEW r \in Request, SessionTimeout(r) PROVE EngagedOnce'
    <2>1. UNCHANGED <<asking, listener, ending, conn, pool>>
      BY <1>15 DEF SessionTimeout
    <2>2. \A q \in Request : row'[q] = "active" => row[q] = "active"
      BY <1>15, SessionTimeoutBase
    <2>3. Lighter
      BY <2>1, <2>2 DEF Lighter, Engaged, Claims, Coming, Pooling, Returning, Closing, TornDown
    <2> QED
      BY <1>1, <2>3, EngagedKept
  <1>16. ASSUME NEW v \in Volunteer, ToggleAvailable(v) PROVE EngagedOnce'
    <2>1. UNCHANGED <<asking, row, listener, ending, conn, pool>>
      BY <1>16, ToggleBase
    <2>2. Lighter
      BY <2>1 DEF Lighter, Engaged, Claims, Coming, Pooling, Returning, Closing, TornDown
    <2> QED
      BY <1>1, <2>2, EngagedKept
  <1> QED
    BY <1>2, <1>3, <1>4, <1>5, <1>7, <1>8, <1>9, <1>10, <1>11, <1>12, <1>13, <1>14, <1>15, <1>16
       DEF Next, ConnectStep, RequestStep

LEMMA OneChatOfSeekerStep == ASSUME Base, OneChatOfSeeker, [Next]_vars PROVE OneChatOfSeeker'
  <1> USE DEF socketVars, sessionVars, chatVars, jobVars
  <1>0. SUFFICES ASSUME Spared({"double_request", "accept"})' PROVE AskedOnce'
    BY DEF OneChatOfSeeker
  <1>1. AskedOnce /\ TypeOK /\ (\A r \in Request : RowOK(r))
        /\ "double_request" \notin mishaps' /\ "accept" \notin mishaps'
    BY <1>0, MishapsStep, SparedBefore DEF OneChatOfSeeker, Base, Spared
  <1>2. ASSUME \A q \in Request : Busy(q)' => Busy(q) PROVE AskedOnce'
    BY <1>1, <1>2 DEF AskedOnce
  <1>3. ASSUME UNCHANGED <<asking, row>> PROVE AskedOnce'
    BY <1>2, <1>3 DEF Busy
  (* A request that found no other open takes the place of none. *)
  <1>4. ASSUME NEW r \in Request, Active(SeekerOf[r]) = {}, ~Handled(r),
               \A q \in Request : q # r => (Busy(q)' => Busy(q))
        PROVE  AskedOnce'
    <2>1. \A q \in Request : q # r /\ SeekerOf[q] = SeekerOf[r] => ~Busy(q)
      BY <1>4 DEF Busy, Handled, Active, Parties
    <2> QED
      BY <1>1, <1>4, <2>1 DEF AskedOnce
  <1>5. CASE UNCHANGED vars
    BY <1>3, <1>5 DEF vars
  <1>6. ASSUME NEW c \in Socket,
               Connect(c) \/ Drop(c) \/ ConnectStep(c) \/ DisconnectStep(c) \/ JoinStep(c)
        PROVE  AskedOnce'
    BY <1>3, <1>6 DEF Connect, Drop, ConnectStep, MapSocket, AddOnline, AddToPool, DisconnectStep,
       Unmap, DeleteMapping, LeavePools, JoinStep, EnterRoom, Rejoin, StartTimer
  <1>7. ASSUME NEW c \in Socket, NEW r \in Request, ValidateJoin(c, r) PROVE AskedOnce'
    BY <1>3, <1>7 DEF ValidateJoin
  <1>8. ASSUME NEW r \in Request, NEW by, NEW a, NEW s \in {"completed", "cancelled"},
               Ended(r, by, a, s), UNCHANGED asking
        PROVE  AskedOnce'
    <2>1. \A q \in Request : row'[q] = "active" => row[q] = "active"
      BY <1>1, <1>8 DEF Ended, TypeOK
    <2> QED
      BY <1>2, <1>8, <2>1 DEF Busy
  <1>9. ASSUME NEW c \in Socket, NEW r \in Request, SessionEnd(c, r) PROVE AskedOnce'
    <2>1. UNCHANGED asking
      BY <1>9 DEF SessionEnd
    <2> QED
      BY <1>8, <1>9, <2>1, SessionEndBase
  <1>10. ASSUME NEW r \in Request, CheckRequest(r) PROVE AskedOnce'
    <2>1. CASE Asks(r, "pop", None) /\ Active(SeekerOf[r]) = {}
      <3>1. ~Handled(r)
        BY <1>1, <1>10, CheckRequestBase
      <3> QED
        BY <1>4, <2>1, <3>1 DEF Asks, AskSet, Busy
    <2>2. CASE Asks(r, "done", None)
      BY <1>2, <2>2 DEF Asks, AskSet, Busy
    <2> QED
      BY <1>10, <2>1, <2>2, CheckRequestBase
  <1>11. ASSUME NEW r \in Request, RequestStep(r) PROVE AskedOnce'
    <2>1. ASSUME NEW s, NEW v, Asks(r, s, v), s \in {"pop", "create"} => Busy(r)
          PROVE  AskedOnce'
      BY <1>2, <2>1 DEF Asks, AskSet, Busy
    <2>2. CASE ClaimVolunteer(r)
      BY <2>1, <2>2, ClaimBase DEF Busy
    <2>3. CASE CreateSession(r)
      <3>1. ASSUME NEW v, Opens(r, v) PROVE AskedOnce'
        <4>1. Busy(r)
          BY <2>3 DEF CreateSession, Busy
        <4> QED
          BY <1>2, <3>1, <4>1 DEF Opens, AskSet, Busy
      <3> QED
        BY <2>1, <2>3, <3>1, CreateBase
    <2>4. CASE CheckClaimed(r) \/ ReturnClaimed(r)
      BY <2>1, <2>4, ReturningBase
    <2> QED
      BY <1>11, <2>2, <2>3, <2>4 DEF RequestStep
  <1>12. ASSUME NEW r \in Request, ConnectElsewhere(r) \/ AcceptElsewhere(r) PROVE AskedOnce'
    <2>1. PICK v \in Volunteer : Opens(r, v) /\ ~Handled(r) /\ Active(SeekerOf[r]) = {}
      BY <1>1, <1>12, ElsewhereBase
    <2> QED
      BY <1>4, <2>1 DEF Opens, AskSet, Busy
  <1>13. ASSUME NEW r \in Request, TeardownStep(r) PROVE AskedOnce'
    BY <1>3, <1>13 DEF TeardownStep, ClearSession, ClearThrows, CheckListener, ReturnListener
  <1>14. ASSUME NEW r \in Request, JobStep(r) PROVE AskedOnce'
    <2>1. CASE ChatTimeout(r)
      <3>1. UNCHANGED asking
        BY <2>1 DEF ChatTimeout
      <3> QED
        BY <1>8, <2>1, <3>1, ChatTimeoutBase
    <2>2. ASSUME NEW a \in Account, StartReconnectExpire(r, a) \/ SkipReconnectExpire(r, a)
          PROVE  AskedOnce'
      BY <1>3, <2>2 DEF StartReconnectExpire, SkipReconnectExpire
    <2>3. ASSUME NEW a \in Account, ReconnectExpire(r, a) PROVE AskedOnce'
      BY <1>8, <2>3, ExpireBase
    <2> QED
      BY <1>14, <2>1, <2>2, <2>3 DEF JobStep
  <1>15. ASSUME NEW r \in Request, SessionTimeout(r) PROVE AskedOnce'
    <2>1. UNCHANGED asking
      BY <1>15 DEF SessionTimeout
    <2>2. \A q \in Request : row'[q] = "active" => row[q] = "active"
      BY <1>15, SessionTimeoutBase
    <2> QED
      BY <1>2, <2>1, <2>2 DEF Busy
  <1>16. ASSUME NEW v \in Volunteer, ToggleAvailable(v) PROVE AskedOnce'
    BY <1>3, <1>16, ToggleBase
  <1> QED
    BY <1>5, <1>6, <1>7, <1>9, <1>10, <1>11, <1>12, <1>13, <1>14, <1>15, <1>16 DEF Next

(* No account is party of two running chats.                               *)
LEMMA OneChatEach ==
  ASSUME Base, OneChat, OneChatOfSeeker, Spared({"late_match", "double_request", "accept"}),
         NEW a \in Account, NEW r \in Active(a), NEW q \in Active(a)
  PROVE  r = q
  <1>1. EngagedOnce /\ AskedOnce
    BY DEF OneChat, OneChatOfSeeker, Spared
  <1>2. \A k \in Request : SeekerOf[k] \notin Volunteer /\ RowOK(k)
    BY Constants DEF Base
  <1>3. \A k \in {r, q} : k \in Request /\ row[k] = "active" /\ listener[k] \in Volunteer
    BY <1>2 DEF Active, RowOK
  <1>4. CASE a \in Volunteer
    BY <1>1, <1>2, <1>3, <1>4 DEF EngagedOnce, Engaged, Active, Parties
  <1>5. CASE a \notin Volunteer
    BY <1>1, <1>2, <1>3, <1>5 DEF AskedOnce, Busy, Active, Parties
  <1> QED
    BY <1>4, <1>5

-----------------------------------------------------------------------------
(* Whoever joins a chat                                                    *)

AllJoinersLive == \A c \in Socket : joining[c] # NoJoin => c \in live
JoinersLive == Spared({"overlap", "early_drop"}) => AllJoinersLive

AllJoinsActive == \A c \in Socket : joining[c] # NoJoin => row[joining[c].r] = "active"
JoinsActive == Spared({"late_join", "never_joined"}) => AllJoinsActive

LEMMA JoinsInit == Init => JoinersLive /\ JoinsActive
  BY DEF Init, JoinersLive, AllJoinersLive, JoinsActive, AllJoinsActive

(* Only a join handler touches its own entry.                              *)
LEMMA JoiningStep ==
  ASSUME Base, [Next]_vars
  PROVE  \/ UNCHANGED joining
         \/ \E c \in Socket, r \in Request :
              /\ ValidateJoin(c, r) /\ joining[c] = NoJoin
              /\ JoinSet(c, [step |-> "enter", r |-> r, fresh |-> FALSE])
         \/ \E c \in Socket, r \in Request, s \in {"rejoin", "timer"} :
              /\ EnterRoom(c) /\ r = joining[c].r /\ joining[c].step = "enter"
              /\ JoinSet(c, [step |-> s, r |-> r, fresh |-> ~timer[r]])
         \/ \E c \in Socket : (Rejoin(c) \/ StartTimer(c)) /\ JoinSet(c, NoJoin)
  <1> USE DEF chatVars, socketVars
  <1>1. CASE UNCHANGED vars
    BY <1>1 DEF vars
  <1>2. ASSUME NEW c \in Socket, Connect(c) \/ Drop(c) \/ ConnectStep(c) \/ DisconnectStep(c)
        PROVE  UNCHANGED joining
    BY <1>2 DEF Connect, Drop, ConnectStep, MapSocket, AddOnline, AddToPool, DisconnectStep,
       Unmap, DeleteMapping, LeavePools
  <1>3. ASSUME NEW c \in Socket, EnterRoom(c)
        PROVE  \E r \in Request, s \in {"rejoin", "timer"} :
                 /\ r = joining[c].r /\ joining[c].step = "enter"
                 /\ JoinSet(c, [step |-> s, r |-> r, fresh |-> ~timer[r]])
    BY <1>3, EnterBase DEF EnterRoom
  <1>4. ASSUME NEW c \in Socket, Rejoin(c) \/ StartTimer(c) PROVE JoinSet(c, NoJoin)
    BY <1>4, RejoinBase, TimerBase
  <1>5. ASSUME NEW c \in Socket, NEW r \in Request, ValidateJoin(c, r)
        PROVE  joining[c] = NoJoin /\ JoinSet(c, [step |-> "enter", r |-> r, fresh |-> FALSE])
    BY <1>5, ValidateBase DEF ValidateJoin
  <1>6. ASSUME NEW c \in Socket, NEW r \in Request, SessionEnd(c, r) PROVE UNCHANGED joining
    BY <1>6 DEF SessionEnd
  <1>7. ASSUME NEW r \in Request,
               CheckRequest(r) \/ RequestStep(r) \/ ConnectElsewhere(r) \/ AcceptElsewhere(r)
        PROVE  UNCHANGED joining
    BY <1>7 DEF CheckRequest, RequestStep, ClaimVolunteer, CreateSession, CheckClaimed,
       ReturnClaimed, ConnectElsewhere, AcceptElsewhere
  <1>8. ASSUME NEW r \in Request, TeardownStep(r) \/ JobStep(r) \/ SessionTimeout(r)
        PROVE  UNCHANGED joining
    BY <1>8 DEF TeardownStep, ClearSession, ClearThrows, CheckListener, ReturnListener, JobStep,
       ChatTimeout, StartReconnectExpire, ReconnectExpire, SkipReconnectExpire, SessionTimeout
  <1>9. ASSUME NEW v \in Volunteer, ToggleAvailable(v) PROVE UNCHANGED joining
    BY <1>9 DEF ToggleAvailable
  <1> QED
    BY <1>1, <1>2, <1>3, <1>4, <1>5, <1>6, <1>7, <1>8, <1>9 DEF Next, JoinStep

LEMMA JoinersLiveStep == ASSUME Base, OneSocket, JoinersLive, [Next]_vars PROVE JoinersLive'
  <1>0. SUFFICES ASSUME Spared({"overlap", "early_drop"})' PROVE AllJoinersLive'
    BY DEF JoinersLive
  <1>1. AllJoinersLive /\ Spared({"overlap"}) /\ "early_drop" \notin mishaps' /\ "overlap" \notin mishaps'
    <2>1. Spared({"overlap", "early_drop"})
      BY <1>0, MishapsStep, SparedBefore
    <2> QED
      BY <1>0, <2>1 DEF JoinersLive, Spared
  <1>2. \A c \in Socket : joining'[c] # NoJoin /\ joining[c] = NoJoin => c \in live /\ UNCHANGED live
    <2>1. ASSUME NEW c \in Socket, NEW r \in Request, ValidateJoin(c, r)
          PROVE c \in live /\ UNCHANGED live
      BY <2>1 DEF ValidateJoin
    <2>2. \A c \in Socket : joining[c].step = "enter" => joining[c] # NoJoin
      BY DEF NoJoin
    <2> QED
      BY <2>1, <2>2, JoiningStep DEF JoinSet
  <1>3. \A c \in Socket : joining'[c] # NoJoin /\ joining[c] # NoJoin => c \in live'
    <2>1. ASSUME NEW c \in Socket, Connect(c) PROVE live \subseteq live'
      <3>1. LiveSockets(Owner[c]) = {}
        BY <1>1, <2>1 DEF Connect, HappensIf, AllHappen, If
      <3>2. {socketOf[Owner[c]]} \cap live = {}
        <4>1. /\ live \subseteq Socket /\ Owner[c] \in Account
              /\ \A a \in Account : socketOf[a] # None => Owner[socketOf[a]] = a
          BY Constants DEF Base, TypeOK
        <4> QED
          BY <3>1, <4>1, Constants DEF LiveSockets
      <3> QED
        BY <2>1, <3>2 DEF Connect
    <2>2. ASSUME NEW c \in Socket, Drop(c)
          PROVE  joining[c] = NoJoin /\ live' = live \ {c}
      BY <1>1, <2>2 DEF Drop, Happens, AllHappen
    <2>3. ASSUME NEW c \in Socket, Unmap(c) \/ DeleteMapping(c) \/ LeavePools(c)
          PROVE  live' = live
      BY <2>3 DEF Unmap, DeleteMapping, LeavePools
    <2>4. CASE \E c \in Socket : Connect(c) \/ Unmap(c) \/ DeleteMapping(c) \/ LeavePools(c)
      BY <1>1, <2>1, <2>3, <2>4 DEF AllJoinersLive
    <2>5. CASE \E c \in Socket : Drop(c)
      BY <1>1, <2>2, <2>5 DEF AllJoinersLive
    <2> QED
      BY <1>1, <2>4, <2>5, SocketsStep DEF AllJoinersLive
  <1> QED
    BY <1>2, <1>3 DEF AllJoinersLive

LEMMA JoinsActiveStep == ASSUME Base, JoinsActive, [Next]_vars PROVE JoinsActive'
  <1>0. SUFFICES ASSUME Spared({"late_join", "never_joined"})' PROVE AllJoinsActive'
    BY DEF JoinsActive
  <1>1. AllJoinsActive /\ "late_join" \notin mishaps' /\ "never_joined" \notin mishaps' /\ TypeOK
    BY <1>0, MishapsStep, SparedBefore DEF JoinsActive, Spared, Base
  <1>2. \A c \in Socket : joining'[c] # NoJoin =>
          /\ row[joining'[c].r] = "active" /\ joining'[c].r \in Request
          /\ \/ joining[c] # NoJoin /\ joining[c].r = joining'[c].r
             \/ \E r \in Request : ValidateJoin(c, r) /\ row'[joining'[c].r] = "active"
    <2>1. \A c \in Socket : joining[c] # NoJoin => joining[c].r \in Request
      BY DEF Base, SocketOK
    <2>2. ASSUME NEW c \in Socket, NEW r \in Request, ValidateJoin(c, r)
          PROVE  row[r] = "active" /\ row'[r] = "active"
      BY <2>2 DEF ValidateJoin, sessionVars
    <2>3. \A c \in Socket : joining[c].step = "enter" => joining[c] # NoJoin
      BY DEF NoJoin
    <2>4. CASE UNCHANGED joining
      BY <1>1, <2>1, <2>4 DEF AllJoinsActive
    <2>5. ASSUME NEW c \in Socket, NEW r \in Request, ValidateJoin(c, r), joining[c] = NoJoin,
                 JoinSet(c, [step |-> "enter", r |-> r, fresh |-> FALSE]),
                 NEW d \in Socket, joining'[d] # NoJoin
          PROVE  /\ row[joining'[d].r] = "active" /\ joining'[d].r \in Request
                 /\ \/ joining[d] # NoJoin /\ joining[d].r = joining'[d].r
                    \/ \E q \in Request : ValidateJoin(d, q) /\ row'[joining'[d].r] = "active"
      <3>1. CASE d = c
        BY <2>2, <2>5, <3>1 DEF JoinSet
      <3>2. CASE d # c
        BY <1>1, <2>1, <2>5, <3>2 DEF JoinSet, AllJoinsActive
      <3> QED
        BY <3>1, <3>2
    <2>6. ASSUME NEW c \in Socket, NEW r \in Request, NEW s, r = joining[c].r,
                 joining[c].step = "enter",
                 JoinSet(c, [step |-> s, r |-> r, fresh |-> ~timer[r]]),
                 NEW d \in Socket, joining'[d] # NoJoin
          PROVE  /\ row[joining'[d].r] = "active" /\ joining'[d].r \in Request
                 /\ joining[d] # NoJoin /\ joining[d].r = joining'[d].r
      <3>1. CASE d = c
        BY <1>1, <2>3, <2>6, <3>1 DEF JoinSet, AllJoinsActive
      <3>2. CASE d # c
        BY <1>1, <2>1, <2>6, <3>2 DEF JoinSet, AllJoinsActive
      <3> QED
        BY <3>1, <3>2
    <2>7. ASSUME NEW c \in Socket, JoinSet(c, NoJoin), NEW d \in Socket, joining'[d] # NoJoin
          PROVE  /\ row[joining'[d].r] = "active" /\ joining'[d].r \in Request
                 /\ joining[d] # NoJoin /\ joining[d].r = joining'[d].r
      BY <1>1, <2>1, <2>7 DEF JoinSet, AllJoinsActive
    <2> QED
      BY <2>4, <2>5, <2>6, <2>7, JoiningStep
  <1>3. \A c \in Socket : joining[c] # NoJoin /\ joining'[c] # NoJoin => row'[joining[c].r] = "active"
    <2> SUFFICES ASSUME NEW c \in Socket, joining[c] # NoJoin, joining'[c] # NoJoin
                 PROVE  row'[joining[c].r] = "active"
      OBVIOUS
    <2>1. PICK r \in Request : r = joining[c].r /\ row[r] = "active"
      BY <1>1 DEF AllJoinsActive, Base, SocketOK
    <2>2. BeingJoined(r)
      BY <2>1 DEF BeingJoined
    <2>3. CASE UNCHANGED <<row, ending>>
      BY <2>1, <2>3
    <2>4. ASSUME NEW q \in Request, NEW v, Opens(q, v) PROVE row'[r] = "active"
      BY <2>1, <2>4 DEF Opens
    <2>5. ASSUME NEW q \in Request, NEW by, NEW a, NEW s, Ended(q, by, a, s), q # r
          PROVE row'[r] = "active"
      BY <1>1, <2>1, <2>5 DEF Ended, TypeOK
    <2>6. ASSUME NEW q \in Request, NEW s, TearsDown(q, s) PROVE row'[r] = "active"
      BY <2>1, <2>6 DEF TearsDown, sessionVars
    <2>7. ASSUME NEW q \in Request, SessionTimeout(q) PROVE row'[r] = "active"
      <3>1. row[q] # "active"
        BY <1>1, <2>7, SessionTimeoutBase
      <3> QED
        BY <2>1, <2>7, <3>1, SessionTimeoutBase
    <2>8. ASSUME NEW q \in Request, NEW a \in Account, ReconnectExpire(q, a)
          PROVE row'[r] = "active"
      <3>1. q # r
        BY <1>1, <2>1, <2>2, <2>8, ExpireBase
      <3> QED
        BY <2>5, <2>8, <3>1, ExpireBase
    <2>9. ASSUME NEW q \in Request, NEW by, NEW a, Ended(q, by, a, "completed"),
                 row[q] = "active" /\ BeingJoined(q) => "late_join" \in mishaps'
          PROVE  row'[r] = "active"
      <3>1. q # r
        BY <1>1, <2>1, <2>2, <2>9
      <3> QED
        BY <2>5, <2>9, <3>1
    <2> QED
      BY <2>1, <2>3, <2>4, <2>6, <2>7, <2>8, <2>9, EndingSteps
  <1> QED
    BY <1>2, <1>3 DEF AllJoinsActive

-----------------------------------------------------------------------------
(* Whoever sits in the room of a running chat is on record as its party.   *)

Seat(r, a) == \E c \in room[r] : Owner[c] = a
Entering(r, a) == \E c \in Socket : Owner[c] = a /\ joining[c].r = r

(* The account that sits in the room of a running chat has that chat on    *)
(* record and joins no other; while it does, or joins, no earlier chat of  *)
(* it is being torn down.                                                  *)
Settled(r, a) ==
  row[r] = "active" /\ a \in Parties(r) =>
    /\ Seat(r, a) => /\ current[a] = r
                     /\ \A d \in Socket : Owner[d] = a /\ joining[d].step = "enter" => joining[d].r = r
    /\ Seat(r, a) \/ Entering(r, a) => \A q \in Request : a \in Parties(q) => TornDown(q)

AllSettled == \A r \in Request, a \in Account : Settled(r, a)
NoStray == Recorded => AllSettled

LEMMA NoStrayInit == Init => NoStray
  BY DEF Init, NoStray, AllSettled, Settled

LEMMA RecordedBefore == ASSUME MishapsStay, Recorded' PROVE Recorded
  <1>1. Spared({"stale_timeout", "early_rematch", "accept", "late_match", "double_request"})
    BY SparedBefore DEF Recorded
  <1>2. CASE Spared({"overlap", "early_drop"})'
    BY <1>1, <1>2, SparedBefore DEF Recorded
  <1>3. CASE Spared({"late_join", "never_joined"})'
    BY <1>1, <1>3, SparedBefore DEF Recorded
  <1> QED
    BY <1>2, <1>3 DEF Recorded

(* What a step does to the chats without unsettling r.                     *)
Steadier(r) ==
  /\ row[r] = "active" /\ room'[r] \subseteq room[r] /\ listener'[r] = listener[r]
  /\ UNCHANGED current
  /\ \A d \in Socket : /\ joining'[d].step = "enter" => joining'[d] = joining[d]
                       /\ joining'[d].r = r => joining[d].r = r
  /\ \A q \in Request : TornDown(q)' \/ (~TornDown(q) /\ listener'[q] = listener[q])

LEMMA SettledSteadily ==
  ASSUME AllSettled, NEW r \in Request, row'[r] = "active" => Steadier(r), NEW a \in Account
  PROVE  Settled(r, a)'
  BY DEF AllSettled, Settled, Steadier, Seat, Entering, Parties

(* The end of a row other than r, or the removal of a record, leaves r     *)
(* alone when the accounts it concerns have nothing to do with r.          *)
LEMMA SettledApart ==
  ASSUME AllSettled, NEW r \in Request, NEW k \in Request, NEW a \in Account,
         row'[r] = "active" => row[r] = "active",
         UNCHANGED <<room, listener, joining>>,
         \A q \in Request : q # k => TornDown(q)' \/ ~TornDown(q),
         a \notin Parties(k) => current'[a] = current[a],
         row'[r] = "active" /\ a \in Parties(r) /\ a \in Parties(k) =>
           /\ Seat(r, a) => current'[a] = current[a]
           /\ Seat(r, a) \/ Entering(r, a) => TornDown(k)' \/ ~TornDown(k)
  PROVE  Settled(r, a)'
  <1> SUFFICES ASSUME row'[r] = "active", a \in Parties(r)' PROVE Settled(r, a)'
    BY DEF Settled
  <1>1. row[r] = "active" /\ a \in Parties(r) /\ Settled(r, a)
        /\ (\A q \in Request : Parties(q)' = Parties(q))
        /\ (Seat(r, a)' <=> Seat(r, a)) /\ (Entering(r, a)' <=> Entering(r, a))
    BY DEF AllSettled, Parties, Seat, Entering
  <1>2. Seat(r, a) => current'[a] = current[a]
    BY <1>1
  <1>3. Seat(r, a) \/ Entering(r, a) => \A q \in Request : a \in Parties(q) => TornDown(q)'
    BY <1>1 DEF Settled
  <1> QED
    BY <1>1, <1>2, <1>3 DEF Settled

LEMMA SettledByEnd ==
  ASSUME Base, AllSettled, OneChat, OneChatOfSeeker,
         Spared({"late_match", "double_request", "accept"}),
         NEW k \in Request, NEW by, NEW b, NEW s \in {"completed", "cancelled"},
         Ended(k, by, b, s), UNCHANGED <<room, listener, joining, current>>
  PROVE  AllSettled'
  <1>1. TypeOK
    BY DEF Base
  <1> SUFFICES ASSUME NEW r \in Request, NEW a \in Account PROVE Settled(r, a)'
    BY DEF AllSettled
  <1>2. (row'[r] = "active" => row[r] = "active") /\ row'[k] # "active"
    BY <1>1 DEF Ended, TypeOK
  <1>3. \A q \in Request : q # k => TornDown(q)' \/ ~TornDown(q)
    BY DEF Ended, EndSet, TornDown
  <1>4. row'[r] = "active" /\ a \in Parties(r) /\ a \in Parties(k) => TornDown(k)' \/ ~TornDown(k)
    <2>1. CASE row[k] # "active"
      BY <2>1 DEF Ended, TornDown
    <2>2. CASE row[k] = "active"
      BY <1>2, <2>2, OneChatEach DEF Active
    <2> QED
      BY <2>1, <2>2
  <1> QED
    BY <1>2, <1>3, <1>4, SettledApart

LEMMA NoStrayStep ==
  ASSUME Base, OneChat, OneChatOfSeeker, OneSocket, JoinersLive, JoinsActive, NoStray, [Next]_vars
  PROVE  NoStray'
  <1> USE DEF socketVars, sessionVars, chatVars, jobVars
  <1>0. SUFFICES ASSUME Recorded' PROVE AllSettled'
    BY DEF NoStray
  <1>1. /\ AllSettled /\ Recorded /\ TypeOK /\ \A r \in Request : RowOK(r)
        /\ Spared({"late_match", "double_request", "accept"})
        /\ "early_rematch" \notin mishaps' /\ "stale_timeout" \notin mishaps'
    BY <1>0, MishapsStep, RecordedBefore DEF NoStray, Base, Recorded, Spared
  <1>2. ASSUME NEW a \in Account, NEW r \in Active(a), NEW q \in Active(a) PROVE r = q
    BY <1>1, <1>2, OneChatEach
  <1>3. ASSUME \A r \in Request : row'[r] = "active" => Steadier(r) PROVE AllSettled'
    BY <1>1, <1>3, SettledSteadily DEF AllSettled
  <1>4. CASE UNCHANGED vars
    BY <1>3, <1>4 DEF vars, Steadier, TornDown
  <1>5. ASSUME NEW c \in Socket, Connect(c) \/ Drop(c) \/ ConnectStep(c) \/ DisconnectStep(c)
        PROVE  AllSettled'
    <2>1. UNCHANGED <<row, listener, ending, joining, current>> /\ \A r \in Request : room'[r] \subseteq room[r]
      BY <1>5 DEF Connect, Drop, ConnectStep, MapSocket, AddOnline, AddToPool, DisconnectStep,
         Unmap, DeleteMapping, LeavePools
    <2> QED
      BY <1>3, <2>1 DEF Steadier, TornDown
  <1>6. ASSUME NEW c \in Socket, NEW k \in Request, ValidateJoin(c, k) PROVE AllSettled'
    <2>1. /\ UNCHANGED <<row, listener, ending, room, current>>
          /\ row[k] = "active" /\ Owner[c] \in Parties(k) /\ Owner[c] \in Account
          /\ \A q \in Request : Owner[c] \in Parties(q) => TornDown(q)
      BY <1>1, <1>6, Constants DEF ValidateJoin, HappensIf, AllHappen, If
    <2>2. joining[c] = NoJoin /\ JoinSet(c, [step |-> "enter", r |-> k, fresh |-> FALSE])
      BY <1>6, ValidateBase DEF ValidateJoin
    <2>3. ASSUME NEW r \in Request, NEW a \in Account PROVE Settled(r, a)'
      <3>1. CASE a # Owner[c]
        <4>1. \A d \in Socket : Owner[d] = a => joining'[d] = joining[d]
          BY <2>2, <3>1 DEF JoinSet
        <4> QED
          BY <1>1, <2>1, <4>1 DEF AllSettled, Settled, Seat, Entering, Parties, TornDown
      <3>2. CASE a = Owner[c]
        <4>1. SUFFICES ASSUME row[r] = "active", a \in Parties(r) PROVE Settled(r, a)'
          BY <2>1 DEF Settled, Parties
        <4>2. r = k
          BY <1>2, <2>1, <3>2, <4>1 DEF Active
        <4>3. Seat(r, a) => \A d \in Socket : Owner[d] = a /\ joining'[d].step = "enter" => joining'[d].r = r
          BY <1>1, <2>2, <4>1, <4>2 DEF AllSettled, Settled, JoinSet
        <4>4. \A q \in Request : a \in Parties(q)' => TornDown(q)'
          BY <2>1, <3>2 DEF Parties, TornDown
        <4>5. Seat(r, a)' = Seat(r, a) /\ (Seat(r, a) => current'[a] = r)
          BY <1>1, <2>1, <4>1 DEF Seat, AllSettled, Settled
        <4> QED
          BY <4>3, <4>4, <4>5 DEF Settled
      <3> QED
        BY <3>1, <3>2
    <2> QED
      BY <2>3 DEF AllSettled
  <1>7. ASSUME NEW c \in Socket, EnterRoom(c) PROVE AllSettled'
    <2>1. PICK k \in Request, s \in {"rejoin", "timer"} :
              k = joining[c].r /\ JoinSet(c, [step |-> s, r |-> k, fresh |-> ~timer[k]])
      BY <1>7, EnterBase
    <2>2. /\ joining[c].step = "enter" /\ Owner[c] \in Account /\ Owner[c] \in Parties(k)
          /\ joining[c] # NoJoin
          /\ UNCHANGED <<row, listener, ending, live>>
          /\ room' = IF c \in live THEN [room EXCEPT ![k] = @ \cup {c}] ELSE room
          /\ current' = [current EXCEPT ![Owner[c]] = k]
      BY <1>7, <2>1, Constants DEF EnterRoom, Base, SocketOK, NoJoin
    <2>3. /\ \A r \in Request : r # k => room'[r] = room[r]
          /\ room'[k] = IF c \in live THEN room[k] \cup {c} ELSE room[k]
          /\ current'[Owner[c]] = k /\ \A a \in Account : a # Owner[c] => current'[a] = current[a]
      BY <1>1, <2>2 DEF TypeOK
    <2>4. ASSUME NEW r \in Request, NEW a \in Account PROVE Settled(r, a)'
      <3>1. \A q \in Request : (Parties(q)' = Parties(q)) /\ (TornDown(q)' <=> TornDown(q))
        BY <2>2 DEF Parties, TornDown
      <3>2. Entering(r, a)' <=> Entering(r, a)
        BY <2>1 DEF JoinSet, Entering
      <3>3. \A d \in Socket : joining'[d].step = "enter" => d # c /\ joining'[d] = joining[d]
        BY <2>1 DEF JoinSet
      <3>4. CASE a # Owner[c]
        <4>1. Seat(r, a)' => Seat(r, a)
          BY <2>3, <3>4 DEF Seat
        <4> QED
          BY <1>1, <2>2, <2>3, <3>1, <3>2, <3>3, <3>4, <4>1 DEF AllSettled, Settled
      <3>5. CASE a = Owner[c]
        <4>1. SUFFICES ASSUME row[r] = "active", a \in Parties(r) PROVE Settled(r, a)'
          BY <2>2, <3>1 DEF Settled
        <4>2. Settled(r, a)
          BY <1>1 DEF AllSettled
        <4>3. CASE r # k
          (* Somebody in the room of r would not be entering k. *)
          <5>1. ~Seat(r, a)
            BY <2>1, <2>2, <3>5, <4>1, <4>2, <4>3 DEF Settled
          <5>2. ~Seat(r, a)'
            BY <2>3, <4>3, <5>1 DEF Seat
          <5> QED
            BY <3>1, <3>2, <4>1, <4>2, <5>2 DEF Settled
        <4>4. CASE r = k
          <5>1. Entering(r, a)
            BY <2>1, <3>5, <4>4 DEF Entering
          <5>2. Seat(r, a)' /\ ~Seat(r, a) => c \in live
            BY <2>3, <3>5, <4>4 DEF Seat
          <5>3. ASSUME NEW d \in Socket, Owner[d] = a, joining[d].step = "enter", d # c, c \in live
                PROVE  joining[d].r = r
            <6>1. joining[d] # NoJoin
              BY <5>3 DEF NoJoin
            <6>2. CASE Spared({"overlap", "early_drop"})
              <7>1. Undisplaced /\ d \in live
                BY <6>1, <6>2 DEF JoinersLive, AllJoinersLive, OneSocket, Spared
              <7> QED
                BY <3>5, <5>3, <7>1 DEF Undisplaced, Present
            <6>3. CASE Spared({"late_join", "never_joined"})
              <7>1. joining[d].r \in Request /\ row[joining[d].r] = "active" /\ a \in Parties(joining[d].r)
                BY <5>3, <6>1, <6>3 DEF JoinsActive, AllJoinsActive, Base, SocketOK
              <7>2. joining[d].r \in Active(a) /\ r \in Active(a)
                BY <4>1, <7>1 DEF Active
              <7> QED
                BY <1>2, <7>2
            <6> QED
              BY <1>1, <6>2, <6>3 DEF Recorded
          <5>4. Seat(r, a)' => \A d \in Socket : Owner[d] = a /\ joining'[d].step = "enter" => joining'[d].r = r
            BY <3>3, <4>1, <4>2, <5>2, <5>3 DEF Settled
          <5>5. \A q \in Request : a \in Parties(q) => TornDown(q)
            BY <4>1, <4>2, <5>1 DEF Settled
          <5>6. current'[a] = r
            BY <2>3, <3>5, <4>4
          <5> QED
            BY <3>1, <5>4, <5>5, <5>6 DEF Settled
        <4> QED
          BY <4>3, <4>4
      <3> QED
        BY <3>4, <3>5
    <2> QED
      BY <2>4 DEF AllSettled
  <1>8. ASSUME NEW c \in Socket, Rejoin(c) \/ StartTimer(c) PROVE AllSettled'
    <2>1. UNCHANGED <<row, listener, ending, room, current>> /\ JoinSet(c, NoJoin)
      BY <1>8, RejoinBase, TimerBase DEF Rejoin, StartTimer
    <2> QED
      BY <1>3, <2>1, Constants DEF Steadier, TornDown, JoinSet, NoJoin
  <1>9. ASSUME NEW c \in Socket, NEW k \in Request, SessionEnd(c, k) PROVE AllSettled'
    <2>1. UNCHANGED <<room, listener, joining, current>>
      BY <1>9 DEF SessionEnd
    <2> QED
      BY <1>1, <1>9, <2>1, SessionEndBase, SettledByEnd
  <1>10. ASSUME NEW k \in Request,
               CheckRequest(k) \/ RequestStep(k) \/ ConnectElsewhere(k) \/ AcceptElsewhere(k)
         PROVE AllSettled'
    <2>1. ASSUME NEW s, NEW v, Asks(k, s, v) PROVE AllSettled'
      BY <1>3, <2>1 DEF Asks, Steadier, TornDown
    <2>2. ASSUME NEW v \in Volunteer, Opens(k, v) PROVE AllSettled'
      <3>1. /\ UNCHANGED <<room, current, joining, ending>> /\ Untouched(k)
            /\ \A q \in Request : q # k => row'[q] = row[q] /\ listener'[q] = listener[q]
        BY <2>2 DEF Opens
      <3>2. TornDown(k)' /\ \A q \in Request : TornDown(q)' <=> TornDown(q)
        BY <3>1 DEF Untouched, TornDown, NotEnding
      <3>3. ASSUME NEW a \in Account PROVE Settled(k, a)'
        BY <3>1 DEF Untouched, Settled, Seat, Entering
      <3>4. ASSUME NEW r \in Request, r # k, NEW a \in Account PROVE Settled(r, a)'
        <4>1. row'[r] = "active" => Steadier(r)
          BY <3>1, <3>2, <3>4 DEF Steadier
        <4> QED
          BY <1>1, <4>1, SettledSteadily
      <3> QED
        BY <3>3, <3>4 DEF AllSettled
    <2> QED
      BY <1>10, <2>1, <2>2, CheckRequestBase, ClaimBase, CreateBase, ReturningBase, ElsewhereBase
         DEF RequestStep
  <1>11. ASSUME NEW k \in Request, ClearSession(k) PROVE AllSettled'
    <2>1. /\ ending[k].step = "clear" /\ TearsDown(k, "back")
          /\ current' = [a \in Account |-> IF a \in Parties(k) THEN None ELSE current[a]]
          /\ UNCHANGED <<row, listener, room, joining>>
      BY <1>11, ClearBase DEF ClearSession
    <2>2. \A q \in Request : TornDown(q)' <=> TornDown(q)
      BY <2>1 DEF TearsDown, EndSet, TornDown
    <2>3. ~TornDown(k)
      BY <2>1 DEF TornDown
    <2>4. ASSUME NEW r \in Request, NEW a \in Account PROVE Settled(r, a)'
      <3>1. row[r] = "active" /\ a \in Parties(r) /\ a \in Parties(k) => ~Seat(r, a)
        BY <1>1, <2>3 DEF AllSettled, Settled
      <3>2. a \notin Parties(k) => current'[a] = current[a]
        BY <2>1
      <3> QED
        BY <1>1, <2>1, <2>2, <3>1, <3>2, SettledApart
    <2> QED
      BY <2>4 DEF AllSettled
  <1>12. ASSUME NEW k \in Request, ClearThrows(k) \/ CheckListener(k) \/ ReturnListener(k)
         PROVE  AllSettled'
    <2>1. /\ UNCHANGED <<row, listener, room, joining, current>>
          /\ \E s \in {"add", "done"} : ending[k].step \in {"clear", "back", "add"} /\ TearsDown(k, s)
      BY <1>12, TeardownBase DEF ClearThrows, CheckListener, ReturnListener
    <2>2. \A q \in Request : TornDown(q)' \/ ~TornDown(q)
      BY <2>1 DEF TearsDown, EndSet, TornDown
    <2> QED
      BY <1>3, <2>1, <2>2 DEF Steadier
  <1>13. ASSUME NEW k \in Request, JobStep(k) PROVE AllSettled'
    <2>1. CASE ChatTimeout(k)
      <3>1. UNCHANGED <<room, listener, joining, current>>
        BY <2>1 DEF ChatTimeout
      <3> QED
        BY <1>1, <2>1, <3>1, ChatTimeoutBase, SettledByEnd
    <2>2. ASSUME NEW a \in Account, StartReconnectExpire(k, a) \/ SkipReconnectExpire(k, a)
          PROVE  AllSettled'
      BY <1>3, <2>2 DEF StartReconnectExpire, SkipReconnectExpire, Steadier, TornDown
    <2>3. ASSUME NEW a \in Account, ReconnectExpire(k, a) PROVE AllSettled'
      <3>1. UNCHANGED <<room, listener, joining, current>>
        BY <2>3 DEF ReconnectExpire
      <3> QED
        BY <1>1, <2>3, <3>1, ExpireBase, SettledByEnd
    <2> QED
      BY <1>13, <2>1, <2>2, <2>3 DEF JobStep
  <1>14. ASSUME NEW k \in Request, SessionTimeout(k) PROVE AllSettled'
    <2>1. UNCHANGED <<room, listener, joining, ending>>
      BY <1>14 DEF SessionTimeout
    <2>2. /\ row'[k] # "active" /\ \A r \in Request : row'[r] = "active" => row[r] = "active"
          /\ current' = [a \in Account |-> IF a \in Parties(k) THEN None ELSE current[a]]
          /\ row[k] # "active" => \A a \in Parties(k) : current[a] \in {None, k}
      BY <1>1, <1>14, SessionTimeoutBase
    <2>3. ASSUME NEW r \in Request, NEW a \in Account PROVE Settled(r, a)'
      <3>1. row'[r] = "active" /\ a \in Parties(r) /\ a \in Parties(k) => ~Seat(r, a)
        <4> SUFFICES ASSUME row'[r] = "active", a \in Parties(r), a \in Parties(k), Seat(r, a)
            PROVE FALSE
          OBVIOUS
        <4>1. row[r] = "active" /\ r # k /\ current[a] = r
          BY <1>1, <2>2 DEF AllSettled, Settled
        <4>2. row[k] # "active"
          BY <1>2, <4>1 DEF Active
        <4> QED
          BY <2>2, <4>1, <4>2, Constants
      <3>2. a \notin Parties(k) => current'[a] = current[a]
        BY <2>2
      <3>3. \A q \in Request : TornDown(q)' <=> TornDown(q)
        BY <2>1 DEF TornDown
      <3> QED
        BY <1>1, <2>1, <2>2, <3>1, <3>2, <3>3, SettledApart
    <2> QED
      BY <2>3 DEF AllSettled
  <1>15. ASSUME NEW v \in Volunteer, ToggleAvailable(v) PROVE AllSettled'
    <2>1. UNCHANGED <<row, listener, ending, room, joining, current>>
      BY <1>15, ToggleBase
    <2> QED
      BY <1>3, <2>1 DEF Steadier, TornDown
  <1> QED
    BY <1>4, <1>5, <1>6, <1>7, <1>8, <1>9, <1>10, <1>11, <1>12, <1>13, <1>14, <1>15
       DEF Next, JoinStep, TeardownStep

(* Whoever sits in the room of a running chat is on record as its party,   *)
(* so that losing the connection is noticed (DropsAreNoticed).             *)
THEOREM PresenceDropsNoticed == Spec => []DropsAreNoticed
  <1> DEFINE Inv == /\ Base /\ OneSocket /\ OneChat /\ OneChatOfSeeker
                    /\ JoinersLive /\ JoinsActive /\ NoStray
  <1>1. Init => Inv
    BY BaseInit, AwayInit, OneChatInit, JoinsInit, NoStrayInit
  <1>2. Inv /\ [Next]_vars => Inv'
    BY BaseStep, OneSocketStep, OneChatStep, OneChatOfSeekerStep, JoinersLiveStep,
       JoinsActiveStep, NoStrayStep
  <1>3. Inv => DropsAreNoticed
    <2> SUFFICES ASSUME Inv, Recorded, NEW r \in Request, NEW c \in Socket,
                        row[r] = "active", c \in room[r]
                 PROVE  current[Owner[c]] = r
      BY DEF DropsAreNoticed
    <2>1. Owner[c] \in Parties(r) /\ Owner[c] \in Account
      BY Constants DEF Base, SocketOK
    <2> QED
      BY <2>1 DEF NoStray, AllSettled, Settled, Seat
  <1> HIDE DEF Inv
  <1> QED
    BY <1>1, <1>2, <1>3, PTL DEF Spec

-----------------------------------------------------------------------------
(* The pool of a day without mishaps.                                      *)

Orderly == Spared({"overlap", "early_drop", "late_drop", "late_match", "job_race",
                   "toggle", "accept", "never_joined"})

(* The mapping in Redis names the socket an account has, but for the time  *)
(* its connect and disconnect handlers take.                               *)
Mapping ==
  /\ available = Volunteer
  /\ \A c \in Socket : conn[c] \in {"map", "online", "pool"} => c \in live
  /\ \A c \in live : conn[c] # "map" => socketOf[Owner[c]] = c
  /\ \A c \in Socket : socketOf[Owner[c]] = c => c \in live \/ gone[c] \in {"unmap", "delete"}

Mapped == Orderly => Mapping

Seated(v) == socketOf[v] \in live
Here(v) == \E c \in live : Owner[c] = v /\ conn[c] = "done"
Placed(v) == v \in pool \/ \E r \in Request : Engaged(r, v) \/ Returning(r, v) \/ Closing(r, v)
Adding(v) ==
  \E r \in Request : \/ asking[r].v = v /\ asking[r].step = "add"
                     \/ listener[r] = v /\ ending[r].step = "add"

(* Whoever is in the pool, or is about to be added, is connected; whoever  *)
(* is connected is in the pool, in a chat, or on the way back from one.    *)
PoolOK(v) ==
  /\ v \in pool => Seated(v) \/ Leaving(v)
  /\ Here(v) => Placed(v)
  /\ Adding(v) => Seated(v)

AllPooled == \A v \in Volunteer : PoolOK(v)
Pooled == Orderly => AllPooled

LEMMA PoolInit == Init => Mapped /\ Pooled
  BY Constants DEF Init, Mapped, Mapping, Pooled, AllPooled, PoolOK, Here, Adding, NotEnding

LEMMA OrderlyBefore == ASSUME MishapsStay, Orderly' PROVE Orderly
  BY SparedBefore DEF Orderly

(* In good order a connecting socket displaces none.                       *)
LEMMA ConnectOrderly ==
  ASSUME Base, NEW c \in Socket, Connect(c), "overlap" \notin mishaps'
  PROVE  /\ live' = live \cup {c} /\ gone' = gone /\ conn' = [conn EXCEPT ![c] = "map"]
         /\ conn[c] = "new" /\ \A d \in live : Owner[d] # Owner[c]
  <1>1. LiveSockets(Owner[c]) = {}
    BY DEF Connect, HappensIf, AllHappen, If
  <1>2. /\ live \subseteq Socket /\ Owner[c] \in Account
        /\ \A a \in Account : socketOf[a] # None => Owner[socketOf[a]] = a
        /\ gone \in [Socket -> {"no", "unmap", "delete", "leave", "done"}]
    BY Constants DEF Base, TypeOK
  <1>3. {socketOf[Owner[c]]} \cap live = {}
    BY <1>1, <1>2, Constants DEF LiveSockets
  <1>4. gone' = gone
    <2>1. gone' = [d \in Socket |-> IF d \in {} THEN "unmap" ELSE gone[d]]
      BY <1>3 DEF Connect
    <2> QED
      BY <1>2, <2>1
  <1> QED
    BY <1>1, <1>3, <1>4 DEF Connect, LiveSockets

(* What the other steps leave alone.                                       *)
LEMMA MappingStays ==
  ASSUME [Next]_vars, "toggle" \notin mishaps',
         ~ \E c \in Socket : Connect(c) \/ Drop(c) \/ ConnectStep(c) \/ DisconnectStep(c),
         ~ \E r \in Request : ClaimVolunteer(r)
  PROVE  UNCHANGED <<live, conn, gone, socketOf, available>>
  <1> USE DEF socketVars
  <1>1. CASE UNCHANGED vars
    BY <1>1 DEF vars
  <1>2. ASSUME NEW c \in Socket, JoinStep(c)
        PROVE UNCHANGED <<live, conn, gone, socketOf, available>>
    BY <1>2 DEF JoinStep, EnterRoom, Rejoin, StartTimer
  <1>3. ASSUME NEW c \in Socket, NEW r \in Request, ValidateJoin(c, r) \/ SessionEnd(c, r)
        PROVE  UNCHANGED <<live, conn, gone, socketOf, available>>
    BY <1>3 DEF ValidateJoin, SessionEnd
  <1>4. ASSUME NEW r \in Request,
               CheckRequest(r) \/ RequestStep(r) \/ ConnectElsewhere(r) \/ AcceptElsewhere(r)
        PROVE  UNCHANGED <<live, conn, gone, socketOf, available>>
    BY <1>4 DEF CheckRequest, RequestStep, CreateSession, CheckClaimed, ReturnClaimed,
       ConnectElsewhere, AcceptElsewhere
  <1>5. ASSUME NEW r \in Request, TeardownStep(r) \/ JobStep(r) \/ SessionTimeout(r)
        PROVE  UNCHANGED <<live, conn, gone, socketOf, available>>
    BY <1>5 DEF TeardownStep, ClearSession, ClearThrows, CheckListener, ReturnListener, JobStep,
       ChatTimeout, StartReconnectExpire, ReconnectExpire, SkipReconnectExpire, SessionTimeout
  <1>6. ASSUME NEW v \in Volunteer, ToggleAvailable(v) PROVE FALSE
    BY <1>6 DEF ToggleAvailable, Happens, AllHappen
  <1> QED
    BY <1>1, <1>2, <1>3, <1>4, <1>5, <1>6 DEF Next

LEMMA MappedStep == ASSUME Base, OneSocket, Mapped, [Next]_vars PROVE Mapped'
  <1> USE DEF socketVars, sessionVars, chatVars, jobVars
  <1>0. SUFFICES ASSUME Orderly' PROVE Mapping'
    BY DEF Mapped
  <1>1. /\ Mapping /\ Undisplaced /\ TypeOK /\ \A c \in Socket : SocketOK(c)
        /\ "overlap" \notin mishaps' /\ "early_drop" \notin mishaps' /\ "toggle" \notin mishaps'
    BY <1>0, MishapsStep, OrderlyBefore DEF Mapped, Base, OneSocket, Orderly, Spared
  <1>2. live \subseteq Socket /\ socketOf \in [Account -> Socket \cup {None}]
        /\ conn \in [Socket -> {"new", "map", "online", "pool", "done"}]
        /\ gone \in [Socket -> {"no", "unmap", "delete", "leave", "done"}]
        /\ \A c \in Socket : Owner[c] \in Account /\ c # None
    BY <1>1, Constants DEF TypeOK
  <1>3. ASSUME NEW c \in Socket, Connect(c) PROVE Mapping'
    <2>1. /\ live' = live \cup {c} /\ gone' = gone /\ conn' = [conn EXCEPT ![c] = "map"]
          /\ UNCHANGED <<socketOf, available>>
      BY <1>1, <1>3, ConnectOrderly DEF Connect
    <2> QED
      BY <1>1, <1>2, <2>1 DEF Mapping
  <1>4. ASSUME NEW c \in Socket, Drop(c) PROVE Mapping'
    <2>1. /\ live' = live \ {c} /\ gone' = [gone EXCEPT ![c] = "unmap"] /\ conn[c] = "done"
          /\ UNCHANGED <<socketOf, available, conn>>
      BY <1>1, <1>4 DEF Drop, Happens, AllHappen
    <2> QED
      BY <1>1, <1>2, <2>1 DEF Mapping
  <1>5. ASSUME NEW c \in Socket, MapSocket(c) PROVE Mapping'
    <2>1. /\ socketOf' = [socketOf EXCEPT ![Owner[c]] = c] /\ UNCHANGED <<live, gone, available>>
          /\ \E s \in {"online", "done"} : conn' = [conn EXCEPT ![c] = s]
          /\ c \in live
      BY <1>1, <1>5 DEF MapSocket, Mapping
    <2>2. \A d \in live : Owner[d] = Owner[c] => d = c
      BY <1>1, <1>2, <2>1 DEF Undisplaced, Present
    <2> QED
      BY <1>1, <1>2, <2>1, <2>2 DEF Mapping
  <1>6. ASSUME NEW c \in Socket, AddOnline(c) \/ AddToPool(c) PROVE Mapping'
    <2>1. /\ UNCHANGED <<live, gone, available, socketOf>> /\ conn[c] \in {"online", "pool"}
          /\ \E s \in {"pool", "done"} : conn' = [conn EXCEPT ![c] = s]
      BY <1>6 DEF AddOnline, AddToPool
    <2> QED
      BY <1>1, <1>2, <2>1 DEF Mapping
  <1>7. ASSUME NEW c \in Socket, Unmap(c) PROVE Mapping'
    <2>1. /\ UNCHANGED <<live, conn, available, socketOf>> /\ gone[c] = "unmap" /\ c \notin live
          /\ gone' = [gone EXCEPT ![c] = IF socketOf[Owner[c]] = c THEN "delete" ELSE "leave"]
      BY <1>1, <1>7 DEF Unmap, SocketOK, Mapping
    <2> QED
      BY <1>1, <1>2, <2>1 DEF Mapping
  <1>8. ASSUME NEW c \in Socket, DeleteMapping(c) PROVE Mapping'
    <2>1. /\ UNCHANGED <<live, conn, available>> /\ gone[c] = "delete" /\ c \notin live
          /\ gone' = [gone EXCEPT ![c] = "leave"] /\ socketOf' = [socketOf EXCEPT ![Owner[c]] = None]
      BY <1>1, <1>8 DEF DeleteMapping, SocketOK
    <2>2. \A d \in live : Owner[d] # Owner[c]
      BY <1>1, <1>2, <2>1 DEF Undisplaced, Present
    <2> QED
      BY <1>1, <1>2, <2>1, <2>2 DEF Mapping
  <1>9. ASSUME NEW c \in Socket, LeavePools(c) PROVE Mapping'
    <2>1. /\ UNCHANGED <<live, conn, available, socketOf>> /\ gone[c] = "leave"
          /\ gone' = [gone EXCEPT ![c] = "done"]
      BY <1>9 DEF LeavePools
    <2> QED
      BY <1>1, <1>2, <2>1 DEF Mapping
  <1>10. ASSUME UNCHANGED <<live, conn, gone, socketOf, available>> PROVE Mapping'
    BY <1>1, <1>10 DEF Mapping
  <1>11. ASSUME NEW r \in Request, ClaimVolunteer(r) PROVE Mapping'
    <2>1. UNCHANGED <<live, conn, gone, available>>
      BY <1>11 DEF ClaimVolunteer
    <2>2. CASE UNCHANGED socketOf
      BY <1>10, <2>1, <2>2
    <2>3. ASSUME NEW v \in pool, socketOf[v] \notin live, socketOf' = [socketOf EXCEPT ![v] = None]
          PROVE  Mapping'
      BY <1>1, <1>2, <2>1, <2>3 DEF Mapping
    <2> QED
      BY <1>11, <2>2, <2>3, ClaimBase
  <1> QED
    BY <1>1, <1>3, <1>4, <1>5, <1>6, <1>7, <1>8, <1>9, <1>10, <1>11, MappingStays
       DEF ConnectStep, DisconnectStep

(* What a step does to the sockets without moving a volunteer.             *)
Still(v) ==
  /\ Seated(v) => Seated(v)'
  /\ Leaving(v) => Leaving(v)'
  /\ Here(v)' => Here(v)

LEMMA StillStanding ==
  ASSUME UNCHANGED <<live, conn, gone, socketOf>>
  PROVE  \A v \in Volunteer : Still(v) /\ (Seated(v)' <=> Seated(v))
  BY DEF Still, Seated, Leaving, Here

(* In good order an eligible volunteer of whom no socket is leaving is     *)
(* connected, and one who is not eligible is not.                          *)
LEMMA EligibleSeated ==
  ASSUME Base, Mapping, NEW v \in Volunteer
  PROVE  /\ Eligible(v) /\ ~Leaving(v) => Seated(v)
         /\ ~Eligible(v) => ~Here(v)
         /\ Here(v) => Seated(v)
  <1>1. v \in Account /\ TypeOK
    BY Constants DEF Base
  <1>2. socketOf[v] \in Socket \cup {None} /\ (socketOf[v] # None => Owner[socketOf[v]] = v)
        /\ live \subseteq Socket
    BY <1>1 DEF TypeOK
  <1>3. Eligible(v) /\ ~Leaving(v) => Seated(v)
    <2>1. SUFFICES ASSUME socketOf[v] # None, ~Leaving(v) PROVE socketOf[v] \in live
      BY DEF Eligible, Seated
    <2> DEFINE c == socketOf[v]
    <2>2. c \in Socket /\ Owner[c] = v
      BY <1>2, <2>1
    <2>3. gone[c] \notin {"unmap", "delete"}
      BY <2>1, <2>2 DEF Leaving
    <2> QED
      BY <2>2, <2>3 DEF Mapping
  <1>4. Here(v) => Seated(v) /\ Eligible(v)
    BY <1>2, Constants DEF Here, Mapping, Seated, Eligible
  <1> QED
    BY <1>3, <1>4

LEMMA PoolKept ==
  ASSUME NEW v \in Volunteer, PoolOK(v), Still(v), v \in pool' => v \in pool \/ Seated(v)',
         Here(v) /\ Placed(v) => Placed(v)', Adding(v)' => Adding(v) \/ Seated(v)'
  PROVE  PoolOK(v)'
  BY DEF PoolOK, Still

LEMMA PooledStep ==
  ASSUME Base, OneSocket, Mapped, Pooled, [Next]_vars
  PROVE  Pooled'
  <1> USE DEF socketVars, sessionVars, chatVars, jobVars
  <1>0. SUFFICES ASSUME Orderly' PROVE AllPooled'
    BY DEF Pooled
  <1>1. /\ AllPooled /\ Mapping /\ Undisplaced /\ TypeOK
        /\ (\A c \in Socket : SocketOK(c)) /\ (\A r \in Request : RowOK(r))
        /\ mishaps' \cap {"overlap", "early_drop", "late_drop", "late_match", "job_race",
                          "toggle", "accept", "never_joined"} = {}
    BY <1>0, MishapsStep, OrderlyBefore DEF Pooled, Mapped, Base, OneSocket, Orderly, Spared
  <1>2. live \subseteq Socket /\ socketOf \in [Account -> Socket \cup {None}]
        /\ conn \in [Socket -> {"new", "map", "online", "pool", "done"}]
        /\ gone \in [Socket -> {"no", "unmap", "delete", "leave", "done"}]
        /\ pool \subseteq Volunteer
        /\ \A c \in Socket : Owner[c] \in Account /\ c # None
    BY <1>1, Constants DEF TypeOK
  <1>3. ASSUME NEW v \in Volunteer
        PROVE  /\ PoolOK(v) /\ v \in Account
               /\ (socketOf[v] # None => Owner[socketOf[v]] = v)
               /\ Eligible(v) /\ ~Leaving(v) => Seated(v)
               /\ ~Eligible(v) => ~Here(v)
               /\ Here(v) => Seated(v)
    BY <1>1, <1>3, EligibleSeated, Constants DEF AllPooled, TypeOK
  (* The steps that leave the requests and the rows alone. *)
  <1>4. ASSUME UNCHANGED <<asking, row, listener, ending>>, NEW v \in Volunteer, v \in pool => v \in pool'
        PROVE  (Placed(v) => Placed(v)') /\ (Adding(v)' <=> Adding(v))
    BY <1>4 DEF Placed, Engaged, Claims, Returning, Closing, TornDown, Adding
  <1>5. CASE UNCHANGED vars
    <2>1. UNCHANGED <<live, conn, gone, socketOf, asking, row, listener, ending, pool>>
      BY <1>5 DEF vars
    <2> QED
      BY <1>3, <1>4, <2>1, StillStanding, PoolKept DEF AllPooled
  <1>6. ASSUME NEW c \in Socket, Connect(c) PROVE AllPooled'
    <2>1. /\ live' = live \cup {c} /\ gone' = gone /\ conn' = [conn EXCEPT ![c] = "map"]
          /\ UNCHANGED <<socketOf, asking, row, listener, ending, pool>>
      BY <1>1, <1>6, ConnectOrderly DEF Connect
    <2>2. \A v \in Volunteer : Still(v)
      BY <1>2, <2>1 DEF Still, Seated, Leaving, Here
    <2> QED
      BY <1>3, <1>4, <2>1, <2>2, PoolKept DEF AllPooled
  <1>7. ASSUME NEW c \in Socket, Drop(c) PROVE AllPooled'
    <2>1. /\ live' = live \ {c} /\ gone' = [gone EXCEPT ![c] = "unmap"] /\ gone[c] = "no"
          /\ UNCHANGED <<socketOf, conn, asking, row, listener, ending, pool>>
          /\ ~GivingBack(Owner[c])
      BY <1>1, <1>7 DEF Drop, Happens, HappensIf, AllHappen, If, SocketOK
    <2>2. ASSUME NEW v \in Volunteer, v # Owner[c] PROVE Still(v)
      BY <1>2, <1>3, <2>1, <2>2, Constants DEF Still, Seated, Leaving, Here
    <2>3. ASSUME NEW v \in Volunteer, v = Owner[c] PROVE PoolOK(v)'
      <3>1. Leaving(v)' /\ (Here(v)' => Here(v))
        BY <1>2, <2>1, <2>3 DEF Leaving, Here
      <3>2. ~Adding(v)
        BY <2>1, <2>3 DEF Adding, GivingBack, TornDown, Parties
      <3> QED
        BY <1>3, <1>4, <2>1, <3>1, <3>2 DEF PoolOK
    <2>4. ASSUME NEW v \in Volunteer, v # Owner[c] PROVE PoolOK(v)'
      BY <1>3, <1>4, <2>1, <2>2, <2>4, PoolKept
    <2> QED
      BY <2>3, <2>4 DEF AllPooled
  <1>8. ASSUME NEW c \in Socket, MapSocket(c) PROVE AllPooled'
    <2>1. /\ socketOf' = [socketOf EXCEPT ![Owner[c]] = c] /\ UNCHANGED <<live, gone>>
          /\ conn' = [conn EXCEPT ![c] = IF Owner[c] \in Volunteer THEN "online" ELSE "done"]
          /\ UNCHANGED <<asking, row, listener, ending, pool>>
          /\ c \in live
      BY <1>1, <1>8 DEF MapSocket, Mapping
    <2>2. \A v \in Volunteer : Still(v)
      BY <1>2, <1>3, <2>1 DEF Still, Seated, Leaving, Here
    <2> QED
      BY <1>3, <1>4, <2>1, <2>2, PoolKept DEF AllPooled
  <1>9. ASSUME NEW c \in Socket, AddOnline(c) PROVE AllPooled'
    <2>1. /\ UNCHANGED <<live, gone, socketOf, asking, row, listener, ending, pool>>
          /\ conn[c] = "online" /\ Owner[c] \in Volunteer
          /\ conn' = [conn EXCEPT ![c] = IF Active(Owner[c]) = {} THEN "pool" ELSE "done"]
      BY <1>1, <1>9 DEF AddOnline, Mapping, SocketOK
    <2>2. ASSUME NEW v \in Volunteer, v # Owner[c] PROVE PoolOK(v)'
      <3>1. Still(v)
        BY <1>2, <2>1, <2>2 DEF Still, Seated, Leaving, Here
      <3> QED
        BY <1>3, <1>4, <2>1, <3>1, PoolKept
    <2>3. ASSUME NEW v \in Volunteer, v = Owner[c] PROVE PoolOK(v)'
      <3>1. (Seated(v)' <=> Seated(v)) /\ (Leaving(v)' <=> Leaving(v))
        BY <2>1 DEF Seated, Leaving
      <3>2. CASE Active(v) = {}
        <4>1. Here(v)' => Here(v)
          BY <1>2, <2>1, <2>3, <3>2 DEF Here
        <4> QED
          BY <1>3, <1>4, <2>1, <3>1, <4>1 DEF PoolOK
      <3>3. CASE Active(v) # {}
        <4>1. \A r \in Request : SeekerOf[r] # v
          BY Constants
        <4>2. \E r \in Request : Engaged(r, v)
          BY <3>3, <4>1 DEF Active, Parties, Engaged
        <4>3. Placed(v)'
          BY <1>4, <2>1, <4>2 DEF Placed
        <4> QED
          BY <1>3, <1>4, <2>1, <3>1, <4>3 DEF PoolOK
      <3> QED
        BY <3>2, <3>3
    <2> QED
      BY <2>2, <2>3 DEF AllPooled
  <1>10. ASSUME NEW c \in Socket, AddToPool(c) PROVE AllPooled'
    <2>1. /\ UNCHANGED <<live, gone, socketOf, asking, row, listener, ending>>
          /\ conn[c] = "pool" /\ Owner[c] \in Volunteer /\ conn' = [conn EXCEPT ![c] = "done"]
          /\ pool' = pool \cup {Owner[c]}
      BY <1>1, <1>10 DEF AddToPool, SocketOK
    <2>2. ASSUME NEW v \in Volunteer, v # Owner[c] PROVE PoolOK(v)'
      <3>1. Still(v)
        BY <1>2, <2>1, <2>2 DEF Still, Seated, Leaving, Here
      <3> QED
        BY <1>3, <1>4, <2>1, <2>2, <3>1, PoolKept
    <2>3. ASSUME NEW v \in Volunteer, v = Owner[c] PROVE PoolOK(v)'
      <3>1. Seated(v)'
        BY <1>1, <2>1, <2>3 DEF Mapping, Seated
      <3> QED
        BY <2>1, <2>3, <3>1 DEF PoolOK, Placed
    <2> QED
      BY <2>2, <2>3 DEF AllPooled
  <1>11. ASSUME NEW c \in Socket, Unmap(c) PROVE AllPooled'
    <2>1. /\ UNCHANGED <<live, conn, socketOf, asking, row, listener, ending, pool>>
          /\ gone' = [gone EXCEPT ![c] = IF socketOf[Owner[c]] = c THEN "delete" ELSE "leave"]
      BY <1>1, <1>11 DEF Unmap, SocketOK, Mapping
    <2>2. \A v \in Volunteer : Still(v)
      BY <1>2, <2>1 DEF Still, Seated, Leaving, Here
    <2> QED
      BY <1>3, <1>4, <2>1, <2>2, PoolKept DEF AllPooled
  <1>12. ASSUME NEW c \in Socket, DeleteMapping(c) PROVE AllPooled'
    <2>1. /\ UNCHANGED <<live, conn, asking, row, listener, ending, pool>> /\ gone[c] = "delete"
          /\ gone' = [gone EXCEPT ![c] = "leave"] /\ socketOf' = [socketOf EXCEPT ![Owner[c]] = None]
          /\ c \notin live
      BY <1>1, <1>12 DEF DeleteMapping, SocketOK
    <2>2. \A d \in live : Owner[d] # Owner[c]
      BY <1>1, <1>2, <2>1 DEF Undisplaced, Present
    <2>3. ASSUME NEW v \in Volunteer, v # Owner[c] PROVE PoolOK(v)'
      <3>1. Still(v)
        BY <1>2, <1>3, <2>1, <2>3 DEF Still, Seated, Leaving, Here
      <3> QED
        BY <1>3, <1>4, <2>1, <3>1, PoolKept
    <2>4. ASSUME NEW v \in Volunteer, v = Owner[c] PROVE PoolOK(v)'
      <3>1. Leaving(v)' /\ (Here(v)' => Here(v)) /\ ~Seated(v)
        BY <1>2, <1>3, <2>1, <2>2, <2>4, Constants DEF Leaving, Here, Seated
      <3> QED
        BY <1>3, <1>4, <2>1, <3>1 DEF PoolOK
    <2> QED
      BY <2>3, <2>4 DEF AllPooled
  <1>13. ASSUME NEW c \in Socket, LeavePools(c) PROVE AllPooled'
    <2>1. /\ UNCHANGED <<live, conn, socketOf, asking, row, listener, ending>> /\ gone[c] = "leave"
          /\ gone' = [gone EXCEPT ![c] = "done"] /\ pool' = pool \ {Owner[c]} /\ c \notin live
      BY <1>1, <1>13 DEF LeavePools, SocketOK
    <2>2. \A d \in live : Owner[d] # Owner[c]
      BY <1>1, <1>2, <2>1 DEF Undisplaced, Present
    <2>3. ASSUME NEW v \in Volunteer, v # Owner[c] PROVE PoolOK(v)'
      <3>1. Still(v)
        BY <1>2, <2>1, <2>3 DEF Still, Seated, Leaving, Here
      <3> QED
        BY <1>3, <1>4, <2>1, <2>3, <3>1, PoolKept
    <2>4. ASSUME NEW v \in Volunteer, v = Owner[c] PROVE PoolOK(v)'
      <3>1. ~Here(v)' /\ (Seated(v)' <=> Seated(v)) /\ (Adding(v)' <=> Adding(v)) /\ v \notin pool'
        BY <2>1, <2>2, <2>4 DEF Here, Seated, Adding
      <3> QED
        BY <1>3, <3>1 DEF PoolOK
    <2> QED
      BY <2>3, <2>4 DEF AllPooled
  <1>14. ASSUME UNCHANGED <<live, conn, gone, socketOf, asking, row, listener, ending, pool>>
         PROVE  AllPooled'
    BY <1>3, <1>4, <1>14, StillStanding, PoolKept DEF AllPooled
  <1>15. ASSUME NEW r \in Request, CheckRequest(r) PROVE AllPooled'
    <2>1. PICK s \in {"pop", "done"} : Asks(r, s, None)
      BY <1>15, CheckRequestBase
    <2>2. UNCHANGED <<live, conn, gone, socketOf, pool>> /\ asking[r].step = "new"
      BY <1>15, CheckRequestBase
    <2>3. ASSUME NEW v \in Volunteer PROVE (Placed(v) => Placed(v)') /\ (Adding(v)' => Adding(v))
      BY <2>1, <2>2 DEF Asks, AskSet, Placed, Engaged, Claims, Returning, Closing, TornDown, Adding
    <2> QED
      BY <1>3, <2>2, <2>3, StillStanding, PoolKept DEF AllPooled
  <1>16. ASSUME NEW r \in Request, ClaimVolunteer(r) PROVE AllPooled'
    <2>1. asking[r].step = "pop"
      BY <1>16, ClaimBase
    <2>2. CASE Asks(r, "done", None) /\ UNCHANGED <<pool, socketOf>>
      <3>1. ASSUME NEW v \in Volunteer PROVE (Placed(v) => Placed(v)') /\ (Adding(v)' => Adding(v))
        BY <2>1, <2>2
          DEF Asks, AskSet, Placed, Engaged, Claims, Returning, Closing, TornDown, Adding
      <3>2. UNCHANGED <<live, conn, gone, socketOf, pool>>
        BY <2>2 DEF Asks
      <3> QED
        BY <1>3, <3>1, <3>2, StillStanding, PoolKept DEF AllPooled
    <2>3. ASSUME NEW v \in pool, pool' = pool \ {v}, Asks(r, "create", v), UNCHANGED socketOf
          PROVE  AllPooled'
      <3>1. UNCHANGED <<live, conn, gone, socketOf>>
        BY <2>3 DEF Asks
      <3>2. Engaged(r, v)'
        BY <2>3 DEF Asks, AskSet, Engaged, Claims
      <3>3. ASSUME NEW w \in Volunteer PROVE (Placed(w) => Placed(w)') /\ (Adding(w)' => Adding(w))
        <4>1. Adding(w)' => Adding(w)
          BY <2>3 DEF Asks, AskSet, Adding
        <4>2. \A q \in Request : /\ Engaged(q, w) => Engaged(q, w)'
                                 /\ Returning(q, w) => Returning(q, w)'
                                 /\ Closing(q, w) => Closing(q, w)'
          BY <2>1, <2>3 DEF Asks, AskSet, Engaged, Claims, Returning, Closing, TornDown
        <4> QED
          BY <2>3, <3>2, <4>1, <4>2 DEF Placed
      <3> QED
        BY <1>3, <2>3, <3>1, <3>3, StillStanding, PoolKept DEF AllPooled
    <2>4. ASSUME NEW v \in pool, pool' = pool \ {v}, Asks(r, "pop", asking[r].v), UNCHANGED asking,
                 socketOf[v] \notin live, socketOf' = [socketOf EXCEPT ![v] = None]
          PROVE  AllPooled'
      <3>1. UNCHANGED <<live, conn, gone, asking, row, listener, ending>> /\ v \in Account
            /\ v \in Volunteer
        BY <1>2, <2>4, Constants DEF Asks
      <3>2. ASSUME NEW w \in Volunteer, w # v PROVE PoolOK(w)'
        <4>1. Still(w)
          BY <1>2, <1>3, <2>4, <3>1, <3>2 DEF Still, Seated, Leaving, Here
        <4> QED
          BY <1>3, <1>4, <2>4, <3>1, <3>2, <4>1, PoolKept
      <3>3. PoolOK(v)'
        <4>1. ~Seated(v) /\ (Here(v)' <=> Here(v)) /\ (Adding(v)' <=> Adding(v)) /\ v \notin pool'
          BY <2>4, <3>1 DEF Seated, Here, Adding
        <4> QED
          BY <1>3, <3>1, <4>1 DEF PoolOK
      <3> QED
        BY <3>2, <3>3 DEF AllPooled
    <2> QED
      BY <1>16, <2>2, <2>3, <2>4, ClaimBase
  <1>17. ASSUME NEW r \in Request, CreateSession(r) PROVE AllPooled'
    <2>1. PICK v \in Volunteer : /\ v = asking[r].v /\ asking[r].step = "create"
                                 /\ UNCHANGED <<live, conn, gone, socketOf, pool>>
                                 /\ Asks(r, "back", v) \/ Opens(r, v)
      BY <1>17, CreateBase
    <2>2. ASSUME NEW w \in Volunteer PROVE (Placed(w) => Placed(w)') /\ (Adding(w)' => Adding(w))
      <3>1. CASE Asks(r, "back", v)
        BY <2>1, <3>1
          DEF Asks, AskSet, Placed, Engaged, Claims, Returning, Closing, TornDown, Adding
      <3>2. CASE Opens(r, v)
        <4>1. /\ row'[r] = "active" /\ listener'[r] = v
              /\ \A q \in Request : q # r => row'[q] = row[q] /\ listener'[q] = listener[q]
          BY <1>1, <3>2 DEF Opens, TypeOK
        <4>2. \A q \in Request : Engaged(q, w) => Engaged(q, w)'
          BY <2>1, <3>2, <4>1 DEF Opens, AskSet, Engaged, Claims
        <4>3. \A q \in Request : Returning(q, w) => Returning(q, w)'
          BY <2>1, <3>2 DEF Opens, AskSet, Returning
        <4>4. \A q \in Request : Closing(q, w) => Closing(q, w)'
          BY <3>2, <4>1 DEF Opens, Untouched, NotEnding, Closing, TornDown
        <4>5. Adding(w)' => Adding(w)
          BY <3>2, <4>1 DEF Opens, AskSet, Untouched, NotEnding, Adding
        <4> QED
          BY <2>1, <4>2, <4>3, <4>4, <4>5 DEF Placed
      <3> QED
        BY <2>1, <3>1, <3>2
    <2> QED
      BY <1>3, <2>1, <2>2, StillStanding, PoolKept DEF AllPooled
  <1>18. ASSUME NEW r \in Request, CheckClaimed(r) PROVE AllPooled'
    <2>1. PICK v \in Volunteer : /\ v = asking[r].v /\ asking[r].step = "back"
                                 /\ ~Leaving(v) /\ UNCHANGED <<live, conn, gone, socketOf, pool>>
                                 /\ \/ Asks(r, "add", v) /\ Eligible(v)
                                    \/ Asks(r, "done", None) /\ ~Eligible(v)
      <3>1. asking[r].step = "back"
        BY <1>18 DEF CheckClaimed
      <3> QED
        BY <1>1, <1>18, <3>1, ReturningBase
    <2>2. \A w \in Volunteer : w # v => (Placed(w) => Placed(w)') /\ (Adding(w)' => Adding(w))
      BY <2>1 DEF Asks, AskSet, Placed, Engaged, Claims, Returning, Closing, TornDown, Adding
    <2>3. /\ Here(v) /\ Placed(v) => Placed(v)'
          /\ Adding(v)' => Adding(v) \/ Seated(v)
      <3>1. CASE Asks(r, "add", v) /\ Eligible(v)
        <4>1. Returning(r, v)'
          BY <3>1 DEF Asks, AskSet, Returning
        <4> QED
          BY <1>3, <2>1, <3>1, <4>1 DEF Placed
      <3>2. CASE Asks(r, "done", None) /\ ~Eligible(v)
        <4>1. ~Here(v)
          BY <1>3, <3>2
        <4>2. Adding(v)' => Adding(v)
          BY <3>2, Constants DEF Asks, AskSet, Adding
        <4> QED
          BY <4>1, <4>2
      <3> QED
        BY <2>1, <3>1, <3>2
    <2> QED
      BY <1>3, <2>1, <2>2, <2>3, StillStanding, PoolKept DEF AllPooled
  <1>19. ASSUME NEW r \in Request, ReturnClaimed(r) PROVE AllPooled'
    <2>1. PICK v \in Volunteer : /\ v = asking[r].v /\ asking[r].step = "add"
                                 /\ UNCHANGED <<live, conn, gone, socketOf>>
                                 /\ pool' = pool \cup {v} /\ Asks(r, "done", None)
      <3>1. asking[r].step = "add"
        BY <1>19 DEF ReturnClaimed
      <3> QED
        BY <1>19, <3>1, ReturningBase
    <2>2. Adding(v)
      BY <2>1 DEF Adding
    <2>3. ASSUME NEW w \in Volunteer PROVE (Placed(w) => Placed(w)') /\ (Adding(w)' => Adding(w))
      <3>1. Adding(w)' => Adding(w)
        BY <2>1 DEF Asks, AskSet, Adding
      <3>2. CASE w = v
        BY <2>1, <3>1, <3>2 DEF Placed
      <3>3. CASE w # v
        BY <2>1, <3>1, <3>3 DEF Asks, AskSet, Placed, Engaged, Claims, Returning, Closing, TornDown
      <3> QED
        BY <3>2, <3>3
    <2>4. Seated(v)'
      BY <1>3, <2>1, <2>2 DEF PoolOK, Seated
    <2> QED
      BY <1>3, <2>1, <2>3, <2>4, StillStanding, PoolKept DEF AllPooled
  <1>20. ASSUME NEW r \in Request, ConnectElsewhere(r) \/ AcceptElsewhere(r) PROVE AllPooled'
    <2>1. PICK v \in Volunteer : Opens(r, v) /\ pool' = pool \ {v} /\ asking[r].step = "new"
      BY <1>1, <1>20, ElsewhereBase
    <2>2. UNCHANGED <<live, conn, gone, socketOf>>
      BY <2>1 DEF Opens
    <2>3. /\ row'[r] = "active" /\ listener'[r] = v
          /\ \A q \in Request : q # r => row'[q] = row[q] /\ listener'[q] = listener[q]
      BY <1>1, <2>1 DEF Opens, TypeOK
    <2>4. ASSUME NEW w \in Volunteer PROVE (Placed(w) => Placed(w)') /\ (Adding(w)' => Adding(w))
      <3>1. \A q \in Request : Engaged(q, w) => Engaged(q, w)'
        BY <2>1, <2>3 DEF Opens, AskSet, Engaged, Claims
      <3>2. \A q \in Request : Returning(q, w) => Returning(q, w)'
        BY <2>1 DEF Opens, AskSet, Returning
      <3>3. \A q \in Request : Closing(q, w) => Closing(q, w)'
        BY <2>1, <2>3 DEF Opens, Untouched, NotEnding, Closing, TornDown
      <3>4. Adding(w)' => Adding(w)
        BY <2>1, <2>3 DEF Opens, AskSet, Untouched, NotEnding, Adding
      <3>5. Engaged(r, v)'
        BY <2>3 DEF Engaged
      <3> QED
        BY <2>1, <3>1, <3>2, <3>3, <3>4, <3>5 DEF Placed
    <2> QED
      BY <1>3, <2>1, <2>2, <2>4, StillStanding, PoolKept DEF AllPooled
  <1>21. ASSUME NEW c \in Socket, JoinStep(c) \/ \E r \in Request : ValidateJoin(c, r)
         PROVE AllPooled'
    <2>1. UNCHANGED <<live, conn, gone, socketOf, asking, row, listener, ending, pool>>
      BY <1>21 DEF JoinStep, EnterRoom, Rejoin, StartTimer, ValidateJoin
    <2> QED
      BY <1>14, <2>1
  <1>22. ASSUME NEW k \in Request, NEW by, NEW b, NEW s, Ended(k, by, b, s),
                UNCHANGED <<live, conn, gone, socketOf, asking, listener, pool>>
         PROVE  AllPooled'
    <2>1. CASE row[k] # "active"
      BY <1>14, <1>22, <2>1 DEF Ended
    <2>2. CASE row[k] = "active"
      <3>1. /\ ending'[k].step = "clear" /\ \A q \in Request : q # k => ending'[q] = ending[q]
            /\ \A q \in Request : q # k => row'[q] = row[q]
            /\ ending[k] = NotEnding /\ asking[k].step = "done"
        <4>1. row' = [row EXCEPT ![k] = s] /\ EndSet(k, [by |-> by, step |-> "clear", of |-> b])
          BY <1>22, <2>2 DEF Ended
        <4>2. ending'[k].step = "clear" /\ \A q \in Request : q # k => ending'[q] = ending[q]
          BY <4>1 DEF EndSet
        <4>3. \A q \in Request : q # k => row'[q] = row[q]
          BY <1>1, <4>1 DEF TypeOK
        <4>4. RowOK(k) /\ row[k] = "active"
          BY <1>1, <2>2 DEF Base
        <4>5. ending[k].by = "none"
          BY <4>4 DEF RowOK
        <4> QED
          BY <4>2, <4>3, <4>4, <4>5 DEF RowOK
      <3>2. ASSUME NEW v \in Volunteer PROVE (Placed(v) => Placed(v)') /\ (Adding(v)' => Adding(v))
        <4>1. Engaged(k, v) => Closing(k, v)'
          BY <1>22, <3>1 DEF Engaged, Claims, Closing, TornDown
        <4>2. \A q \in Request : q # k => /\ Engaged(q, v) => Engaged(q, v)'
                                          /\ Closing(q, v) => Closing(q, v)'
          BY <1>22, <3>1 DEF Engaged, Claims, Closing, TornDown
        <4>3. ~Closing(k, v) /\ \A q \in Request : Returning(q, v) => Returning(q, v)'
          BY <1>22, <3>1 DEF NotEnding, Closing, TornDown, Returning
        <4>4. Adding(v)' => Adding(v)
          BY <1>22, <3>1 DEF Adding
        <4> QED
          BY <1>22, <4>1, <4>2, <4>3, <4>4 DEF Placed
      <3> QED
        BY <1>3, <1>22, <3>2, StillStanding, PoolKept DEF AllPooled
    <2> QED
      BY <2>1, <2>2
  <1>23. ASSUME NEW c \in Socket, NEW k \in Request, SessionEnd(c, k) PROVE AllPooled'
    <2>1. UNCHANGED <<live, conn, gone, socketOf, asking, listener, pool>>
      BY <1>23 DEF SessionEnd
    <2> QED
      BY <1>22, <1>23, <2>1, SessionEndBase
  <1>24. ASSUME NEW k \in Request, NEW s, TearsDown(k, s), NEW v \in Volunteer, v = listener[k],
                ~TornDown(k),
                \A w \in Volunteer : w # v => (w \in pool' <=> w \in pool),
                v \in pool' => v \in pool \/ Seated(v), s # "add" \/ Seated(v),
                Here(v) /\ Placed(v) => v \in pool' \/ s \in {"back", "add"}
         PROVE  AllPooled'
    <2>1. UNCHANGED <<live, conn, gone, socketOf, asking, row, listener>>
          /\ ending'[k].step = s /\ \A q \in Request : q # k => ending'[q] = ending[q]
      BY <1>24 DEF TearsDown, EndSet
    <2>2. ASSUME NEW w \in Volunteer, w # v
          PROVE (Placed(w) => Placed(w)') /\ (Adding(w)' => Adding(w))
      BY <1>24, <2>1, <2>2 DEF Placed, Engaged, Claims, Returning, Closing, TornDown, Adding
    <2>3. Adding(v)' => Adding(v) \/ Seated(v)
      BY <1>24, <2>1 DEF Adding
    <2>4. Here(v) /\ Placed(v) => Placed(v)'
      <3>1. s \in {"back", "add"} => Closing(k, v)'
        BY <1>24, <2>1 DEF Closing, TornDown
      <3> QED
        BY <1>24, <3>1 DEF Placed
    <2> QED
      BY <1>3, <1>24, <2>1, <2>2, <2>3, <2>4, StillStanding, PoolKept DEF AllPooled
  <1>25. ASSUME NEW k \in Request, ClearSession(k) PROVE AllPooled'
    <2>1. ending[k].step = "clear" /\ TearsDown(k, "back") /\ UNCHANGED pool
      BY <1>25, ClearBase
    <2>2. listener[k] \in Volunteer /\ ~TornDown(k)
      BY <2>1, TeardownFacts DEF TornDown
    <2> QED
      BY <1>24, <2>1, <2>2
  <1>26. ASSUME NEW k \in Request, ClearThrows(k) \/ CheckListener(k) \/ ReturnListener(k)
         PROVE  AllPooled'
    <2>1. PICK v \in Volunteer : v = listener[k]
      BY <1>26, TeardownBase
    <2>2. CASE /\ ending[k].step = "back" /\ UNCHANGED pool
               /\ Leaving(listener[k]) => "late_drop" \in mishaps'
               /\ \/ TearsDown(k, "add") /\ Eligible(listener[k])
                  \/ TearsDown(k, "done") /\ ~Eligible(listener[k])
      <3>1. ~TornDown(k) /\ ~Leaving(v)
        BY <1>1, <2>1, <2>2 DEF TornDown
      <3> QED
        BY <1>3, <1>24, <2>1, <2>2, <3>1
    <2>3. CASE ending[k].step = "add" /\ TearsDown(k, "done") /\ pool' = pool \cup {listener[k]}
      <3>1. ~TornDown(k) /\ Adding(v)
        BY <2>1, <2>3 DEF TornDown, Adding
      <3>2. Seated(v)
        BY <1>3, <3>1 DEF PoolOK
      <3> QED
        BY <1>24, <2>1, <2>3, <3>1, <3>2
    <2> QED
      BY <1>1, <1>26, <2>2, <2>3, TeardownBase
  <1>27. ASSUME NEW k \in Request, JobStep(k) PROVE AllPooled'
    <2>1. CASE ChatTimeout(k)
      <3>1. UNCHANGED <<live, conn, gone, socketOf, asking, listener, pool>>
        BY <2>1 DEF ChatTimeout
      <3> QED
        BY <1>22, <2>1, <3>1, ChatTimeoutBase
    <2>2. ASSUME NEW a \in Account, StartReconnectExpire(k, a) \/ SkipReconnectExpire(k, a)
          PROVE  AllPooled'
      BY <1>14, <2>2 DEF StartReconnectExpire, SkipReconnectExpire
    <2>3. ASSUME NEW a \in Account, ReconnectExpire(k, a) PROVE AllPooled'
      <3>1. UNCHANGED <<live, conn, gone, socketOf, asking, listener, pool>>
        BY <2>3 DEF ReconnectExpire
      <3> QED
        BY <1>22, <2>3, <3>1, ExpireBase
    <2> QED
      BY <1>27, <2>1, <2>2, <2>3 DEF JobStep
  <1>28. ASSUME NEW k \in Request, SessionTimeout(k) PROVE AllPooled'
    <2>1. UNCHANGED <<live, conn, gone, socketOf, asking, listener, ending, pool>>
      BY <1>28 DEF SessionTimeout
    <2>2. row[k] # "active"
      BY <1>1, <1>28, SessionTimeoutBase
    <2>3. \A q \in Request : row'[q] = row[q]
      BY <1>28, <2>2, SessionTimeoutBase
    <2>4. ASSUME NEW v \in Volunteer PROVE (Placed(v) => Placed(v)') /\ (Adding(v)' => Adding(v))
      BY <2>1, <2>3 DEF Placed, Engaged, Claims, Returning, Closing, TornDown, Adding
    <2> QED
      BY <1>3, <2>1, <2>4, StillStanding, PoolKept DEF AllPooled
  <1>29. ASSUME NEW v \in Volunteer, ToggleAvailable(v) PROVE FALSE
    BY <1>1, <1>29, ToggleBase
  <1> QED
    BY <1>5, <1>6, <1>7, <1>8, <1>9, <1>10, <1>11, <1>12, <1>13, <1>15, <1>16, <1>17, <1>18, <1>19,
       <1>20, <1>21, <1>23, <1>25, <1>26, <1>27, <1>28, <1>29
       DEF Next, ConnectStep, DisconnectStep, RequestStep, TeardownStep

(* When no handler runs and none of the named mishaps has happened, the    *)
(* pool holds the volunteers who are connected, available and in no        *)
(* session: nobody is offered who cannot listen, and nobody is forgotten   *)
(* (PoolIsRight).                                                          *)
THEOREM PresencePoolRight == Spec => []PoolIsRight
  <1> DEFINE Inv == Base /\ OneSocket /\ OneChat /\ Mapped /\ Pooled
  <1>1. Init => Inv
    BY BaseInit, AwayInit, OneChatInit, PoolInit
  <1>2. Inv /\ [Next]_vars => Inv'
    BY BaseStep, OneSocketStep, OneChatStep, MappedStep, PooledStep
  <1>3. Inv => PoolIsRight
    <2> SUFFICES ASSUME Inv, Quiet, Orderly
                 PROVE  pool = {v \in available : LiveSockets(v) # {} /\ Active(v) = {}}
      BY DEF PoolIsRight, Orderly
    <2>1. Mapping /\ AllPooled /\ EngagedOnce /\ TypeOK /\ available = Volunteer
          /\ pool \subseteq Volunteer /\ live \subseteq Socket
      BY DEF Mapped, Pooled, OneChat, Orderly, Spared, Base, TypeOK, Mapping
    <2>2. ASSUME NEW v \in pool PROVE LiveSockets(v) # {} /\ Active(v) = {}
      <3>1. v \in Volunteer /\ PoolOK(v) /\ Coming(v) /\ v \in Account
        BY <2>1, Constants DEF AllPooled, Coming
      <3>2. ~Leaving(v)
        BY DEF Quiet, Leaving
      <3>3. Seated(v)
        BY <3>1, <3>2 DEF PoolOK
      <3>4. socketOf[v] \in LiveSockets(v)
        BY <2>1, <3>1, <3>3, Constants DEF Seated, LiveSockets, TypeOK
      <3>5. \A r \in Request : row[r] = "active" => listener[r] # v /\ SeekerOf[r] # v
        BY <2>1, <3>1, Constants DEF EngagedOnce, Engaged
      <3> QED
        BY <3>4, <3>5 DEF Active, Parties
    <2>3. ASSUME NEW v \in Volunteer, LiveSockets(v) # {}, Active(v) = {} PROVE v \in pool
      <3>1. PICK c \in live : Owner[c] = v
        BY <2>3 DEF LiveSockets
      <3>2. conn[c] = "done"
        BY <2>1, <3>1 DEF Quiet, Base, SocketOK
      <3>3. Placed(v)
        BY <2>1, <3>1, <3>2 DEF AllPooled, PoolOK, Here
      <3>4. \A r \in Request : ~Engaged(r, v) /\ ~Returning(r, v) /\ ~Closing(r, v)
        BY <2>3 DEF Quiet, Engaged, Claims, Returning, Closing, Active, Parties
      <3> QED
        BY <3>3, <3>4 DEF Placed
    <2> QED
      BY <2>1, <2>2, <2>3
  <1> HIDE DEF Inv
  <1> QED
    BY <1>1, <1>2, <1>3, PTL DEF Spec

-----------------------------------------------------------------------------
(* The refinement of SessionContract: a step opens or ends one session, or *)
(* leaves all sessions as they are.                                        *)

LEMMA RowSteps ==
  ASSUME Base, [Next]_vars
  PROVE  \/ UNCHANGED <<row, listener>>
         \/ \E r \in Request, v \in Volunteer : Opens(r, v)
         \/ \E r \in Request :
              /\ row[r] = "active" /\ row'[r] \in {"completed", "cancelled"}
              /\ UNCHANGED listener /\ \A q \in Request : q # r => row'[q] = row[q]
  <1> USE DEF sessionVars
  <1>0. row \in [Request -> {"none", "active", "completed", "cancelled"}]
    BY DEF Base, TypeOK
  <1>1. ASSUME NEW r \in Request, NEW by, NEW a, NEW s \in {"completed", "cancelled"},
               EndRow(r, by, a, s), UNCHANGED listener
        PROVE  \/ UNCHANGED <<row, listener>>
               \/ /\ row[r] = "active" /\ row'[r] \in {"completed", "cancelled"}
                  /\ UNCHANGED listener /\ \A q \in Request : q # r => row'[q] = row[q]
    BY <1>0, <1>1 DEF EndRow
  <1>2. CASE UNCHANGED vars
    BY <1>2 DEF vars
  <1>3. CASE \E c \in Socket :
               Connect(c) \/ Drop(c) \/ ConnectStep(c) \/ DisconnectStep(c) \/ JoinStep(c)
    <2>1. ASSUME NEW c \in Socket, Connect(c) \/ Drop(c) PROVE UNCHANGED <<row, listener>>
      BY <2>1 DEF Connect, Drop
    <2>2. ASSUME NEW c \in Socket, ConnectStep(c) PROVE UNCHANGED <<row, listener>>
      BY <2>2 DEF ConnectStep, MapSocket, AddOnline, AddToPool
    <2>3. ASSUME NEW c \in Socket, DisconnectStep(c) PROVE UNCHANGED <<row, listener>>
      BY <2>3 DEF DisconnectStep, Unmap, DeleteMapping, LeavePools
    <2>4. ASSUME NEW c \in Socket, JoinStep(c) PROVE UNCHANGED <<row, listener>>
      BY <2>4 DEF JoinStep, EnterRoom, Rejoin, StartTimer
    <2> QED
      BY <1>3, <2>1, <2>2, <2>3, <2>4
  <1>4. CASE \E c \in Socket, r \in Request : ValidateJoin(c, r)
    BY <1>4 DEF ValidateJoin
  <1>5. ASSUME NEW c \in Socket, NEW r \in Request, SessionEnd(c, r)
        PROVE  EndRow(r, "user", Owner[c], "completed") /\ UNCHANGED listener
    BY <1>5 DEF SessionEnd
  <1>6. ASSUME NEW r \in Request,
               CheckRequest(r) \/ RequestStep(r) \/ ConnectElsewhere(r) \/ AcceptElsewhere(r)
        PROVE  UNCHANGED <<row, listener>> \/ \E v \in Volunteer : Opens(r, v)
    <2>1. CASE CheckRequest(r)
      BY <2>1 DEF CheckRequest
    <2>2. CASE ClaimVolunteer(r)
      BY <2>2 DEF ClaimVolunteer
    <2>3. CASE CreateSession(r)
      BY <2>3, CreateBase DEF Asks
    <2>4. CASE CheckClaimed(r) \/ ReturnClaimed(r)
      BY <2>4 DEF CheckClaimed, ReturnClaimed
    <2>5. CASE ConnectElsewhere(r) \/ AcceptElsewhere(r)
      BY <2>5, ElsewhereBase
    <2> QED
      BY <1>6, <2>1, <2>2, <2>3, <2>4, <2>5 DEF RequestStep
  <1>7. ASSUME NEW r \in Request, TeardownStep(r) PROVE UNCHANGED <<row, listener>>
    BY <1>7 DEF TeardownStep, ClearSession, ClearThrows, CheckListener, ReturnListener
  <1>8. ASSUME NEW r \in Request, JobStep(r)
        PROVE  \/ UNCHANGED <<row, listener>>
               \/ EndRow(r, "timeout", None, "completed") /\ UNCHANGED listener
               \/ \E a \in Account : EndRow(r, "reconnect", a, "cancelled") /\ UNCHANGED listener
    BY <1>8 DEF JobStep, ChatTimeout, StartReconnectExpire, ReconnectExpire, SkipReconnectExpire
  <1>9. ASSUME NEW r \in Request, SessionTimeout(r)
        PROVE  \/ UNCHANGED <<row, listener>>
               \/ /\ row[r] = "active" /\ row'[r] \in {"completed", "cancelled"}
                  /\ UNCHANGED listener /\ \A q \in Request : q # r => row'[q] = row[q]
    BY <1>0, <1>9 DEF SessionTimeout
  <1>10. CASE \E v \in Volunteer : ToggleAvailable(v)
    BY <1>10 DEF ToggleAvailable
  <1>11. ASSUME NEW r \in Request, JobStep(r)
         PROVE  \/ UNCHANGED <<row, listener>>
                \/ /\ row[r] = "active" /\ row'[r] \in {"completed", "cancelled"}
                   /\ UNCHANGED listener /\ \A q \in Request : q # r => row'[q] = row[q]
    BY <1>1, <1>8, <1>11
  <1>12. ASSUME NEW c \in Socket, NEW r \in Request, SessionEnd(c, r)
         PROVE  \/ UNCHANGED <<row, listener>>
                \/ /\ row[r] = "active" /\ row'[r] \in {"completed", "cancelled"}
                   /\ UNCHANGED listener /\ \A q \in Request : q # r => row'[q] = row[q]
    BY <1>1, <1>5, <1>12
  <1> QED
    BY <1>2, <1>3, <1>4, <1>6, <1>7, <1>9, <1>10, <1>11, <1>12 DEF Next

LEMMA Phases ==
  ASSUME NEW r \in Request
  PROVE  /\ row[r] = "none" => Phase(r) = "none"
         /\ row[r] = "active" => Phase(r) = "matched"
         /\ row'[r] = "active" => Phase(r)' = "matched"
         /\ row'[r] \in {"completed", "cancelled"} => Phase(r)' = "ended"
  BY DEF Phase

LEMMA PhaseOfOne ==
  ASSUME NEW r \in Request, \A q \in Request : q # r => row'[q] = row[q]
  PROVE  [q \in Request |-> Phase(q)]' = [[q \in Request |-> Phase(q)] EXCEPT ![r] = Phase(r)']
  <1>1. \A q \in Request : q # r => Phase(q)' = Phase(q)
    BY DEF Phase
  <1> QED
    BY <1>1

LEMMA StepsKeepContract ==
  ASSUME Base, [Next]_vars
  PROVE  [Contract!Next]_(Contract!contract)
  <1> DEFINE phase == [q \in Request |-> Phase(q)]
  <1>1. SUFFICES Contract!Next \/ UNCHANGED <<phase, listener>>
    BY DEF Contract!contract
  <1>2. ASSUME UNCHANGED row PROVE UNCHANGED phase
    BY <1>2 DEF Phase
  <1>3. \A r \in Request : phase[r] = Phase(r)
    OBVIOUS
  <1>4. ASSUME NEW r \in Request, NEW v \in Volunteer, Opens(r, v) PROVE Contract!Next
    <2>1. row \in [Request -> {"none", "active", "completed", "cancelled"}]
      BY DEF Base, TypeOK
    <2>2. /\ row[r] = "none" /\ row'[r] = "active"
          /\ \A q \in Request : q # r => row'[q] = row[q]
          /\ listener' = [listener EXCEPT ![r] = v]
      BY <1>4, <2>1 DEF Opens
    <2>3. phase[r] = "none" /\ phase' = [phase EXCEPT ![r] = "matched"]
      BY <2>2, Phases, PhaseOfOne
    <2> QED
      BY <2>2, <2>3 DEF Contract!Next, Contract!OpenMatched
  <1>5. ASSUME NEW r \in Request, row[r] = "active", row'[r] \in {"completed", "cancelled"},
               UNCHANGED listener, \A q \in Request : q # r => row'[q] = row[q]
        PROVE  Contract!Next
    <2>1. phase[r] = "matched" /\ phase' = [phase EXCEPT ![r] = "ended"]
      BY <1>5, Phases, PhaseOfOne
    <2> QED
      BY <1>5, <2>1 DEF Contract!Next, Contract!End
  <1> HIDE DEF phase
  <1> QED
    BY <1>2, <1>4, <1>5, RowSteps

(* The socket handlers and the chat jobs keep the contract of a session,   *)
(* whatever mishaps happen: a session over WebSocket is opened matched and *)
(* closed once, by session:end, by one of the two chat queues or by        *)
(* session:timeout, and no listener is replaced.                           *)
THEOREM PresenceKeepsContract == Spec => ImplementsContract
  <1>1. Init => Contract!Init
    <2> SUFFICES ASSUME Init PROVE Contract!Init
      OBVIOUS
    <2>1. \A r \in Request : Phase(r) = "none"
      BY Phases DEF Init
    <2> QED
      BY <2>1 DEF Init, Contract!Init
  <1>2. Base /\ [Next]_vars => [Contract!Next]_(Contract!contract)
    BY StepsKeepContract
  <1>3. Init => Base
    BY BaseInit
  <1>4. Base /\ [Next]_vars => Base'
    BY BaseStep
  <1> QED
    BY <1>1, <1>2, <1>3, <1>4, PTL DEF Spec, ImplementsContract, Contract!Spec

=============================================================================
