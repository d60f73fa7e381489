------------------------------- MODULE Journey -------------------------------
(***************************************************************************)
(* What the two phones show from the tap on Connect to the chat.  The      *)
(* server tells the apps how a session goes in HTTP answers, which may get *)
(* lost, and in socket notices, which reach only a socket that is          *)
(* registered at the moment of the emit and a screen that listens.  Nobody *)
(* asks again for a notice, and only the volunteers' list is polled.       *)
(*                                                                         *)
(* SessionLifecycle has the steps of connect(), accept() and match:timeout *)
(* on the stores; here each of them decides in one step and then notifies  *)
(* in the order of the code.                                               *)
(***************************************************************************)
EXTENDS Naturals, Sequences

CONSTANTS
  Seeker, Volunteer,
  Session,      \* bound: the connect requests
  SeekerOf,     \* who sends each of them
  Direct,       \* bound: the requests that suit a volunteer in the pool (Path A)
  MishapBound,  \* bound: connections that drop and answers that get lost
  None

Account == Seeker \cup Volunteer

ASSUME JourneyConstants ==
  /\ SeekerOf \in [Session -> Seeker] /\ Direct \subseteq Session
  /\ MishapBound \in Nat
  /\ Seeker \cap Volunteer = {} /\ None \notin Account \cup Session \cup {"refused", "waiting", "chat"}

VARIABLES
  state,     \* the row and hash of each session
  listener,  \* chat_session.listener_id
  request,   \* how far connect() is with each session
  answer,    \* and what it answers
  timeout,   \* how far match:timeout is
  call,      \* each volunteer's accept(): how far, and for which session
  link,      \* each account's socket: down, opening (not registered yet), up
  inbox,     \* the notices on their way to it
  screen,    \* what each phone shows, and of which session
  list,      \* the volunteer's cached list of waiting sessions
  fetch,     \* his request for it
  missed,    \* history: the sessions of whose end a seeker missed a notice or answer
  mishaps    \* history: how many mishaps there were

serverVars == <<state, listener, request, answer, timeout>>
phoneVars == <<screen, list, fetch>>
vars == <<state, listener, request, answer, timeout, call, link, inbox, screen, list, fetch, missed,
          mishaps>>

Notice == {"session:waiting", "session:accepted", "session:matched", "session:ended"} \X Session
Home == <<"home", None>>
SeekerScreen == {Home} \cup ({"waiting", "timeout", "chat"} \X Session)
VolunteerScreen == {Home} \cup ({"offer", "chat"} \X Session)
Idle == <<"idle", None>>
NoFetch == [at |-> "idle", sessions |-> {}]

Settled(s) == state[s] \in {"matched", "cancelled", "over"}

TypeOK ==
  /\ state \in [Session -> {"none", "refused", "waiting", "matched", "cancelled", "over"}]
  /\ listener \in [Session -> Volunteer \cup {None}]
  /\ \A s \in Session : listener[s] # None <=> state[s] \in {"matched", "over"}
  /\ request \in [Session -> {"none", "sent", "publish", "answered", "done"}]
  /\ answer \in [Session -> {None, "refused", "waiting", "chat"}]
  /\ \A s \in Session : request[s] \in {"none", "sent"} <=> state[s] = "none"
  /\ \A s \in Session : answer[s] = None <=> state[s] = "none"
  /\ timeout \in [Session -> {"none", "notify", "done"}]
  /\ call \in [Volunteer -> {Idle} \cup
       ({"sent", "matched", "accepted", "granted", "refused"} \X Session)]
  /\ link \in [Account -> {"down", "opening", "up"}]
  /\ \A a \in Account : link[a] = "down" => inbox[a] = <<>>
  /\ inbox \in [Account -> Seq(Notice)]
  /\ screen \in [Account -> SeekerScreen \cup VolunteerScreen]
  /\ \A k \in Seeker : screen[k] \in SeekerScreen
  /\ \A v \in Volunteer : screen[v] \in VolunteerScreen
  /\ list \in [Volunteer -> SUBSET Session]
  /\ fetch \in [Volunteer -> [at: {"idle", "served"}, sessions: SUBSET Session]]
  /\ missed \subseteq Session
  /\ mishaps \in 0..MishapBound

Init ==
  /\ state = [s \in Session |-> "none"] /\ listener = [s \in Session |-> None]
  /\ request = [s \in Session |-> "none"] /\ answer = [s \in Session |-> None]
  /\ timeout = [s \in Session |-> "none"]
  /\ call = [v \in Volunteer |-> Idle]
  /\ link = [a \in Account |-> "up"] /\ inbox = [a \in Account |-> <<>>]
  /\ screen = [a \in Account |-> Home]
  /\ list = [v \in Volunteer |-> {}] /\ fetch = [v \in Volunteer |-> NoFetch]
  /\ missed = {} /\ mishaps = 0

-----------------------------------------------------------------------------
(* The server's notices.  A socket that is gone, or has not been           *)
(* registered yet, gets nothing.                                           *)

Listening(to) == {a \in to : link[a] = "up"}

Emit(to, n) ==
  inbox' = [a \in Account |-> IF a \in Listening(to) THEN Append(inbox[a], n) ELSE inbox[a]]

Mishap == mishaps < MishapBound /\ mishaps' = mishaps + 1

Miss(s) == missed' = missed \cup {s}

(* The notices on their way to account a. *)
Notices(a) == {inbox[a][i] : i \in DOMAIN inbox[a]}

Mut_TellNobody(s, kind) == UNCHANGED <<inbox, missed>>

(* A notice about session s for the seeker who waits on it. *)
TellSeeker(s, kind) ==
  /\ Emit({SeekerOf[s]}, <<kind, s>>)
  /\ IF SeekerOf[s] \in Listening(Account) THEN UNCHANGED missed ELSE Miss(s)

-----------------------------------------------------------------------------
(* connect() *)

Mine(k) == {s \in Session : SeekerOf[s] = k}

(* The seeker taps Connect: a session of its own key each time. *)
TapConnect(s) ==
  /\ request[s] = "none" /\ screen[SeekerOf[s]] = Home
  /\ \A q \in Mine(SeekerOf[s]) : request[q] \notin {"sent", "publish", "answered"}
  /\ request' = [request EXCEPT ![s] = "sent"]
  /\ UNCHANGED <<state, listener, answer, timeout, call, link, inbox, phoneVars, missed, mishaps>>

(* The caller has another session that is active. *)
Busy(k) == \E s \in Mine(k) : state[s] \in {"waiting", "matched"}

(* The pool holds the registered volunteers that no direct match has taken. *)
Pool == {v \in Volunteer :
  link[v] = "up" /\ ~\E s \in Direct : answer[s] = "chat" /\ state[s] = "matched" /\ listener[s] = v}

Refuse(s) ==
  /\ request[s] = "sent" /\ Busy(SeekerOf[s])
  /\ state' = [state EXCEPT ![s] = "refused"]
  /\ request' = [request EXCEPT ![s] = "answered"]
  /\ answer' = [answer EXCEPT ![s] = "refused"]
  /\ UNCHANGED <<listener, timeout, call, link, inbox, phoneVars, missed, mishaps>>

(* Path A: there is a volunteer, who is not told. *)
MatchNow(s, v) ==
  /\ request[s] = "sent" /\ ~Busy(SeekerOf[s])
  /\ s \in Direct /\ v \in Pool
  /\ state' = [state EXCEPT ![s] = "matched"]
  /\ listener' = [listener EXCEPT ![s] = v]
  /\ request' = [request EXCEPT ![s] = "answered"]
  /\ answer' = [answer EXCEPT ![s] = "chat"]
  /\ UNCHANGED <<timeout, call, link, inbox, phoneVars, missed, mishaps>>

(* Path B: nobody is free, so the session waits. *)
OpenWaiting(s) ==
  /\ request[s] = "sent" /\ ~Busy(SeekerOf[s])
  /\ s \notin Direct \/ Pool = {}
  /\ state' = [state EXCEPT ![s] = "waiting"]
  /\ request' = [request EXCEPT ![s] = "publish"]
  /\ answer' = [answer EXCEPT ![s] = "waiting"]
  /\ UNCHANGED <<listener, timeout, call, link, inbox, phoneVars, missed, mishaps>>

(* session:waiting to the volunteers, before the seeker has her answer. *)
PublishWaiting(s) ==
  /\ request[s] = "publish"
  /\ Emit(Volunteer, <<"session:waiting", s>>)
  /\ request' = [request EXCEPT ![s] = "answered"]
  /\ UNCHANGED <<state, listener, answer, timeout, call, link, phoneVars, missed, mishaps>>

(* The answer opens the waiting screen, the chat, or an alert. *)
TakeConnectAnswer(s) ==
  /\ request[s] = "answered"
  /\ request' = [request EXCEPT ![s] = "done"]
  /\ screen' = IF answer[s] = "refused" THEN screen
               ELSE [screen EXCEPT ![SeekerOf[s]] = <<answer[s], s>>]
  /\ UNCHANGED <<state, listener, answer, timeout, call, link, inbox, list, fetch, missed, mishaps>>

(* The request was served and its answer does not arrive: an alert. *)
LoseConnectAnswer(s) ==
  /\ request[s] = "answered" /\ Mishap
  /\ request' = [request EXCEPT ![s] = "done"]
  /\ Miss(s)
  /\ UNCHANGED <<state, listener, answer, timeout, call, link, inbox, phoneVars>>

-----------------------------------------------------------------------------
(* accept() and match:timeout *)

(* The volunteer opens an entry of his list, and may decline it. *)
OpenOffer(v, s) ==
  /\ screen[v] = Home /\ s \in list[v]
  /\ screen' = [screen EXCEPT ![v] = <<"offer", s>>]
  /\ UNCHANGED <<serverVars, call, link, inbox, list, fetch, missed, mishaps>>

Decline(v) ==
  /\ screen[v][1] = "offer" /\ call[v] = Idle
  /\ screen' = [screen EXCEPT ![v] = Home]
  /\ UNCHANGED <<serverVars, call, link, inbox, list, fetch, missed, mishaps>>

TapAccept(v) ==
  /\ screen[v][1] = "offer" /\ call[v] = Idle
  /\ call' = [call EXCEPT ![v] = <<"sent", screen[v][2]>>]
  /\ UNCHANGED <<serverVars, link, inbox, phoneVars, missed, mishaps>>

Mut_ClaimAnyway(v, s) == ~\E q \in Session : state[q] = "matched" /\ listener[q] = v

Claimable(v, s) ==
  /\ state[s] = "waiting"
  /\ ~\E q \in Session : state[q] = "matched" /\ listener[q] = v

(* 404, 409 or 403 *)
RefuseAccept(v) ==
  /\ call[v][1] = "sent" /\ ~Claimable(v, call[v][2])
  /\ call' = [call EXCEPT ![v] = <<"refused", call[v][2]>>]
  /\ UNCHANGED <<serverVars, link, inbox, phoneVars, missed, mishaps>>

Claim(v) ==
  LET s == call[v][2] IN
  /\ call[v][1] = "sent" /\ Claimable(v, s)
  /\ state' = [state EXCEPT ![s] = "matched"]
  /\ listener' = [listener EXCEPT ![s] = v]
  /\ call' = [call EXCEPT ![v] = <<"matched", call[v][2]>>]
  /\ UNCHANGED <<request, answer, timeout, link, inbox, phoneVars, missed, mishaps>>

EmitMatched(v) ==
  /\ call[v][1] = "matched"
  /\ TellSeeker(call[v][2], "session:matched")
  /\ call' = [call EXCEPT ![v] = <<"accepted", call[v][2]>>]
  /\ UNCHANGED <<state, listener, request, answer, timeout, link, phoneVars, mishaps>>

EmitAccepted(v) ==
  /\ call[v][1] = "accepted"
  /\ Emit(Volunteer, <<"session:accepted", call[v][2]>>)
  /\ call' = [call EXCEPT ![v] = <<"granted", call[v][2]>>]
  /\ UNCHANGED <<serverVars, link, phoneVars, missed, mishaps>>

(* Success opens the chat; each refusal that the screen knows leads home.  *)
TakeAcceptAnswer(v) ==
  /\ call[v][1] \in {"granted", "refused"}
  /\ screen' = [screen EXCEPT ![v] =
       IF call[v][1] = "granted" THEN <<"chat", call[v][2]>> ELSE Home]
  /\ call' = [call EXCEPT ![v] = Idle]
  /\ UNCHANGED <<serverVars, link, inbox, list, fetch, missed, mishaps>>

(* An answer that does not arrive leaves the offer on the screen; a second *)
(* tap is refused, because he is in the session already.                   *)
LoseAcceptAnswer(v) ==
  /\ call[v][1] = "granted" /\ Mishap
  /\ call' = [call EXCEPT ![v] = Idle]
  /\ UNCHANGED <<serverVars, link, inbox, phoneVars, missed>>

(* Nobody accepted within three minutes, in which connect() has come to    *)
(* its end; the job then tells the seeker.                                 *)
MatchTimeout(s) ==
  /\ state[s] = "waiting" /\ request[s] # "publish"
  /\ state' = [state EXCEPT ![s] = "cancelled"]
  /\ timeout' = [timeout EXCEPT ![s] = "notify"]
  /\ UNCHANGED <<listener, request, answer, call, link, inbox, phoneVars, missed, mishaps>>

EmitEnded(s) ==
  /\ timeout[s] = "notify"
  /\ TellSeeker(s, "session:ended")
  /\ timeout' = [timeout EXCEPT ![s] = "done"]
  /\ UNCHANGED <<state, listener, request, answer, call, link, phoneVars, mishaps>>

-----------------------------------------------------------------------------
(* The phones *)

Mut_AnySessionEnds(on, s) == IF on[1] = "waiting" THEN <<"timeout", on[2]>> ELSE on
Mut_MatchOnly(on, s) == on

(* The waiting screen: the match opens the chat, the end without a         *)
(* volunteer says so, and notices of another session are not for it.       *)
OnMatched(on, s) == IF on = <<"waiting", s>> THEN <<"chat", s>> ELSE on

OnEnded(on, s) == IF on = <<"waiting", s>> THEN <<"timeout", s>> ELSE on

(* A notice that finds no waiting screen of its session changes nothing.   *)
HearSeeker(k) ==
  LET kind == Head(inbox[k])[1]  s == Head(inbox[k])[2] IN
  /\ inbox[k] # <<>>
  /\ inbox' = [inbox EXCEPT ![k] = Tail(@)]
  /\ screen' = [screen EXCEPT ![k] =
       IF kind = "session:matched" THEN OnMatched(@, s) ELSE OnEnded(@, s)]
  /\ IF screen[k] = <<"waiting", s>> THEN UNCHANGED missed
     ELSE Miss(s)
  /\ UNCHANGED <<serverVars, call, link, list, fetch, mishaps>>

(* The list: session:waiting adds, session:accepted removes. *)
Listed(sessions, kind, s) ==
  IF kind = "session:waiting" THEN sessions \cup {s} ELSE sessions \ {s}

HearVolunteer(v) ==
  /\ inbox[v] # <<>>
  /\ inbox' = [inbox EXCEPT ![v] = Tail(@)]
  /\ list' = [list EXCEPT ![v] = Listed(@, Head(inbox[v])[1], Head(inbox[v])[2])]
  /\ UNCHANGED <<serverVars, call, link, screen, fetch, missed, mishaps>>

(* The sessions that wait in the set, in the hash and in the row. *)
Snapshot == {s \in Session : state[s] = "waiting"}

(* Every ten seconds, unless a request is under way; this is the moment    *)
(* the server reads, and the answer is on its way.                         *)
Poll(v) ==
  /\ fetch[v] = NoFetch
  /\ fetch' = [fetch EXCEPT ![v] = [at |-> "served", sessions |-> Snapshot]]
  /\ UNCHANGED <<serverVars, call, link, inbox, screen, list, missed, mishaps>>

(* The answer replaces the cache, whatever notices came in the meantime. *)
TakeList(v) ==
  /\ fetch[v].at = "served"
  /\ list' = [list EXCEPT ![v] = fetch[v].sessions]
  /\ fetch' = [fetch EXCEPT ![v] = NoFetch]
  /\ UNCHANGED <<serverVars, call, link, inbox, screen, missed, mishaps>>

(* A connection drops with the notices on it. *)
Drop(a) ==
  /\ link[a] # "down" /\ Mishap
  /\ link' = [link EXCEPT ![a] = "down"]
  /\ inbox' = [inbox EXCEPT ![a] = <<>>]
  /\ missed' = missed \cup {s \in Mine(a) : \E n \in Notices(a) : n[2] = s}
  /\ UNCHANGED <<serverVars, call, phoneVars>>

(* The phone is connected again.  A volunteer's drops the request under    *)
(* way and polls at once; the seeker's asks for nothing.                   *)
Reopen(a) ==
  /\ link[a] = "down"
  /\ link' = [link EXCEPT ![a] = "opening"]
  /\ fetch' = IF a \in Volunteer THEN [fetch EXCEPT ![a] = NoFetch] ELSE fetch
  /\ UNCHANGED <<serverVars, call, inbox, screen, list, missed, mishaps>>

(* handleConnection has authenticated the socket and stores it. *)
Register(a) ==
  /\ link[a] = "opening"
  /\ link' = [link EXCEPT ![a] = "up"]
  /\ UNCHANGED <<serverVars, call, inbox, phoneVars, missed, mishaps>>

(* Cancel and Go Back only leave the screen: the session stays. *)
LeaveWaiting(k) ==
  /\ screen[k][1] \in {"waiting", "timeout"}
  /\ screen' = [screen EXCEPT ![k] = Home]
  /\ UNCHANGED <<serverVars, call, link, inbox, list, fetch, missed, mishaps>>

(* One of the two ends the chat, and everyone in it goes to rate. *)
EndChat(a) ==
  /\ screen[a][1] = "chat" /\ state[screen[a][2]] = "matched"
  /\ state' = [state EXCEPT ![screen[a][2]] = "over"]
  /\ UNCHANGED <<listener, request, answer, timeout, call, link, inbox, phoneVars, missed, mishaps>>

LeaveChat(a) ==
  /\ screen[a][1] = "chat" /\ state[screen[a][2]] = "over"
  /\ screen' = [screen EXCEPT ![a] = Home]
  /\ UNCHANGED <<serverVars, call, link, inbox, list, fetch, missed, mishaps>>

-----------------------------------------------------------------------------
Connecting(s) ==
  \/ Refuse(s) \/ OpenWaiting(s) \/ (\E v \in Volunteer : MatchNow(s, v))
  \/ PublishWaiting(s)

Accepting(v) ==
  RefuseAccept(v) \/ Claim(v) \/ EmitMatched(v) \/ EmitAccepted(v)

Tap ==
  \/ \E s \in Session : TapConnect(s)
  \/ \E v \in Volunteer, s \in Session : OpenOffer(v, s)
  \/ \E v \in Volunteer : Decline(v) \/ TapAccept(v)
  \/ \E k \in Seeker : LeaveWaiting(k)
  \/ \E a \in Account : EndChat(a) \/ LeaveChat(a)

Lose ==
  \/ \E s \in Session : LoseConnectAnswer(s)
  \/ \E v \in Volunteer : LoseAcceptAnswer(v)
  \/ \E a \in Account : Drop(a) \/ Reopen(a)

Next ==
  \/ Tap \/ Lose
  \/ \E s \in Session : Connecting(s) \/ TakeConnectAnswer(s) \/ MatchTimeout(s) \/ EmitEnded(s)
  \/ \E v \in Volunteer :
       \/ Accepting(v) \/ TakeAcceptAnswer(v) \/ HearVolunteer(v)
       \/ Poll(v) \/ TakeList(v)
  \/ \E k \in Seeker : HearSeeker(k)
  \/ \E a \in Account : Register(a)

Spec == Init /\ [][Next]_vars

(* The server continues a handler it has begun and runs a job that is due; *)
(* a notice arrives or its connection drops; the volunteers' app polls and *)
(* the answer comes.  Nothing is assumed of people and of networks.  Strong*)
(* fairness of TakeList: a reconnect starts the fetch again, so that the   *)
(* answer could be about to come forever.                                  *)
Fairness ==
  /\ \A s \in Session : WF_vars(Connecting(s) \/ TakeConnectAnswer(s))
  /\ \A s \in Session : WF_vars(MatchTimeout(s) \/ EmitEnded(s))
  /\ \A v \in Volunteer : WF_vars(Accepting(v)) /\ WF_vars(HearVolunteer(v))
  /\ \A v \in Volunteer : WF_vars(Poll(v)) /\ SF_vars(TakeList(v))
  /\ \A k \in Seeker : WF_vars(HearSeeker(k))

FairSpec == Spec /\ Fairness

-----------------------------------------------------------------------------
(* What a phone shows is true: a chat is opened by the two people of a     *)
(* matched session alone, "no volunteers available" is shown of a session  *)
(* that was cancelled, and a waiting screen is the seeker's own.  Notices  *)
(* of an earlier session may arrive on the screen of the next one.         *)
ScreenTrue(a, s) ==
  /\ screen[a] = <<"chat", s>> =>
       state[s] \in {"matched", "over"} /\ a \in {SeekerOf[s], listener[s]}
  /\ screen[a] = <<"timeout", s>> => state[s] = "cancelled" /\ a = SeekerOf[s]
  /\ screen[a] = <<"waiting", s>> => state[s] \notin {"none", "refused"} /\ a = SeekerOf[s]

ScreensTellTruth == \A a \in Account, s \in Session : ScreenTrue(a, s)

NoticesTrue ==
  \A k \in Seeker : \A n \in Notices(k) :
    /\ SeekerOf[n[2]] = k
    /\ \/ n[1] = "session:matched" /\ state[n[2]] \in {"matched", "over"}
       \/ n[1] = "session:ended" /\ state[n[2]] = "cancelled"

AnswersTrue ==
  \A s \in Session :
    /\ answer[s] = "chat" => state[s] \in {"matched", "over"}
    /\ answer[s] = "waiting" => state[s] # "refused"

CallsTrue ==
  \A v \in Volunteer : call[v][1] \in {"matched", "accepted", "granted"} =>
    state[call[v][2]] \in {"matched", "over"} /\ listener[call[v][2]] = v

EndsTrue == \A s \in Session : timeout[s] = "notify" => state[s] = "cancelled"

(* Whatever the server has said or is about to say about a session stays   *)
(* true until the phone hears it: an answer or a notice that opens a chat  *)
(* is of a matched session and goes to one of its two people, and an       *)
(* announced end is of a cancelled one.  A job or a call that wrote the    *)
(* row of a session after another had announced it would break this.       *)
Truth == NoticesTrue /\ AnswersTrue /\ CallsTrue /\ EndsTrue

(* A volunteer who accepted does not sit in a chat alone: the seeker is    *)
(* there, has the notice in flight, ended the chat, or missed the notice.  *)
NobodyAlone ==
  \A v \in Volunteer, s \in Session :
    screen[v] = <<"chat", s>> /\ state[s] = "matched" /\ s \notin missed =>
      \/ screen[SeekerOf[s]] = <<"chat", s>>
      \/ <<"session:matched", s>> \in Notices(SeekerOf[s])

(* The waiting screen ends, unless the seeker missed the one notice of how *)
(* the search ended: because her socket was down, or because it came       *)
(* before the answer that opens the screen.                                *)
WaitingScreenEnds ==
  \A s \in Session :
    screen[SeekerOf[s]] = <<"waiting", s>> ~>
      screen[SeekerOf[s]] # <<"waiting", s>> \/ s \in missed

(* An entry that no longer waits leaves every volunteer's list, also when  *)
(* he missed the notice, when the notice met an older answer on its way,   *)
(* and when there is no notice because the session was cancelled.          *)
StaleOfferGoes ==
  \A v \in Volunteer, s \in Session :
    Settled(s) /\ s \in list[v] ~> s \notin list[v]

(* Nobody is left with a screen of a session that is over for him.         *)
JourneyEnds == WaitingScreenEnds /\ StaleOfferGoes

(* backend/README.md:1017: session:matched "notifies both parties that a   *)
(* match has been made".  When connect() or accept() has answered, both    *)
(* have been sent a notice or an answer that names the match.              *)
BothToldOfMatch ==
  \A s \in Session :
    state[s] = "matched" /\ request[s] \in {"answered", "done"}
      /\ (\A v \in Volunteer : call[v][2] # s)
    => \/ screen[listener[s]] = <<"chat", s>>
       \/ <<"session:matched", s>> \in Notices(listener[s])

(* The sessions as SessionContract sees them.                              *)
Phase(s) ==
  CASE state[s] \in {"none", "refused"} -> "none"
    [] state[s] \in {"waiting", "matched"} -> state[s]
    [] state[s] \in {"cancelled", "over"} -> "ended"

Contract == INSTANCE SessionContract WITH
  Listener <- Volunteer, Nobody <- None, phase <- [s \in Session |-> Phase(s)]

(* connect(), accept() and match:timeout keep the contract of a session    *)
(* here too, where each decides in one step.                               *)
ImplementsContract == Contract!Spec
=============================================================================
