------------------------------ MODULE ChatRelay -------------------------------
(***************************************************************************)
(* The encrypted chat of one session: the hook useChat in the two apps and *)
(* the handlers room:join, key:exchange and message:send of ChatGateway    *)
(* with the keys and the message buffer they keep in Redis.                *)
(*                                                                         *)
(* Every app has a Socket.IO connection: two FIFO channels that a drop     *)
(* empties.  What an app emits while its socket is down waits in the       *)
(* socket's send buffer and goes out when it is connected.                 *)
(*                                                                         *)
(* A key pair is named <<party, n>>; the secret that two key pairs agree   *)
(* on is the set of both.  A message is its number, its sender and the     *)
(* secret it was encrypted with, and opens with that secret only.          *)
(***************************************************************************)
EXTENDS Integers, SequencesExt, FiniteSets

CONSTANTS
  Party,         \* the two accounts of the session
  MaxMessages,   \* MAX_SESSION_MESSAGES, the length the buffer is trimmed to
  MessageBound,  \* bound: messages typed
  KeyBound,      \* bound: key pairs an app makes
  MishapBound,   \* bound: kinds of mishap in one behaviour, each happens once
  Allow,         \* the mishaps that may happen
  None           \* no key, no secret, no message index

(* leave: a user leaves the chat screen; he may open it again.             *)
(* drop: the transport is lost; Socket.IO connects the same socket again.  *)
(* refresh: the app gets a new access token and replaces its socket.       *)
(* kill: the app's process dies and is started again.                      *)
(* early_key: key:exchange is handled before the room:join emitted just    *)
(*   in front of it has joined the room.                                   *)
(* early_event: an event arrives before handleConnection has finished.     *)
(* end: the session ends.                                                  *)
Mishap == {"leave", "drop", "refresh", "kill", "early_key", "early_event", "end"}

KeyPair == Party \X (1..KeyBound)
Secret == {{a, b} : a, b \in KeyPair}

ASSUME RelayConstants ==
  /\ \E p, q \in Party : p # q /\ Party = {p, q}
  /\ {MaxMessages, MessageBound, KeyBound} \subseteq Nat \ {0}
  /\ MishapBound \in Nat
  /\ Allow \subseteq Mishap
  /\ None \notin Party \cup KeyPair \cup Secret

VARIABLES
  app,      \* what the app of each party holds: the refs and state of useChat
  store,    \* the secret key each app keeps in SecureStore
  up,       \* events on their way to the gateway
  down,     \* events on their way to the app
  sock,     \* each party's connection
  joining,  \* the room:join handler in flight of each party
  room,     \* the parties whose socket is in the room
  member,   \* account:{id}:session is set
  away,     \* reconnecting:{id} of the session hash
  keys,     \* session:{id}:keys
  msgs,     \* session:{id}:msgs
  relayq,   \* messages buffered and not yet emitted
  over,     \* the session row: "no", "ending" (not yet purged), "yes"
  log,      \* history: the messages the gateway took
  typed,    \* number of messages typed
  mishaps   \* history: the mishaps so far

serverVars == <<joining, room, member, away, keys, msgs, relayq, over, log>>
vars == <<app, store, up, down, sock, joining, room, member, away, keys, msgs,
          relayq, over, log, typed, mishaps>>

Other(p) == CHOOSE q \in Party : q # p

Message == [id: 1..MessageBound, from: Party, secret: Secret]

(* useChat: `screen` says how far its init is ("closed": not mounted);     *)
(* `rerun` that a connect event has bumped socketTick and the effect is    *)
(* yet to run again; `deleting` that a delete of the stored key is issued. *)
AppState ==
  [screen: {"closed", "reading", "writing", "ready"},
   rerun: BOOLEAN, deleting: BOOLEAN, ended: BOOLEAN,
   key: KeyPair \cup {None}, secret: Secret \cup {None},
   last: Int, pending: Seq(Message), shown: Seq(1..MessageBound),
   made: 0..KeyBound]

Closed(made) ==
  [screen |-> "closed", rerun |-> FALSE, deleting |-> FALSE, ended |-> FALSE,
   key |-> None, secret |-> None, last |-> -1, pending |-> <<>>,
   shown |-> <<>>, made |-> made]

TypeOK ==
  /\ app \in [Party -> AppState]
  /\ store \in [Party -> KeyPair \cup {None}]
  /\ sock \in [Party -> {"down", "new", "accepted", "up"}]
  /\ joining \in [Party -> [step: {"none", "check", "sync"}, after: Int]]
  /\ room \subseteq Party
  /\ member \subseteq Party
  /\ away \subseteq Party
  /\ keys \in [Party -> KeyPair \cup {None}]
  /\ msgs \in Seq(Message) /\ Len(msgs) <= MaxMessages
  /\ over \in {"no", "ending", "yes"}
  /\ typed \in 0..MessageBound
  /\ mishaps \subseteq Allow
  /\ \A p \in Party : sock[p] \in {"down", "new"} => p \notin room

NoJoin == [step |-> "none", after |-> 0]

(* The chat opens on a connected socket, whose token handleConnection may  *)
(* still be verifying.                                                     *)
Init ==
  /\ app = [p \in Party |-> Closed(0)]
  /\ store = [p \in Party |-> None]
  /\ up = [p \in Party |-> <<>>]
  /\ down = [p \in Party |-> <<>>]
  /\ sock \in [Party -> {"accepted", "up"}]
  /\ joining = [p \in Party |-> NoJoin]
  /\ room = {} /\ member = {} /\ away = {}
  /\ keys = [p \in Party |-> None]
  /\ msgs = <<>> /\ relayq = <<>> /\ log = <<>>
  /\ over = "no"
  /\ typed = 0 /\ mishaps = {}

Connected(p) == sock[p] \in {"accepted", "up"}
Mounted(p) == app[p].screen # "closed"

Happens(m) ==
  /\ m \in Allow \ mishaps
  /\ Cardinality(mishaps) < MishapBound
  /\ mishaps' = mishaps \cup {m}

Join(after) == [kind |-> "join", after |-> after]
KeyOffer(k) == [kind |-> "key", key |-> k]

-----------------------------------------------------------------------------
(* The app: useChat                                                        *)

Emit(p, events) == up' = [up EXCEPT ![p] = @ \o events]

(* Mount.  If the socket is connected, subscribeToConnect() calls back at  *)
(* once and the setup effect runs twice: the cleanup in between deletes    *)
(* the stored key while the second run reads it.                           *)
OpenChat(p) ==
  /\ ~Mounted(p)
  /\ app' = [app EXCEPT ![p].screen = "reading", ![p].deleting = Connected(p)]
  /\ UNCHANGED <<store, up, down, sock, serverVars, typed, mishaps>>

(* The effect runs again after a connect: its cleanup leaves the room (an  *)
(* event the gateway has no handler for), deletes the stored key and       *)
(* clears the refs, except lastMsgIndex; `messages` is state and stays.    *)
RerunEffect(p) ==
  /\ app[p].rerun
  /\ app' = [app EXCEPT ![p].rerun = FALSE, ![p].screen = "reading",
                        ![p].deleting = TRUE, ![p].key = None,
                        ![p].secret = None, ![p].pending = <<>>]
  /\ UNCHANGED <<store, up, down, sock, serverVars, typed, mishaps>>

(* init() reads the stored key, before or after a delete in flight, and    *)
(* makes a key pair if there is none; then it joins and offers its key.    *)
ReadKey(p) ==
  /\ app[p].screen = "reading"
  /\ \E found \in IF app[p].deleting THEN {store[p], None} ELSE {store[p]} :
       IF found # None
         THEN /\ app' = [app EXCEPT ![p].screen = "ready", ![p].key = found,
                                    ![p].deleting = FALSE]
              /\ store' = [store EXCEPT ![p] = IF app[p].deleting THEN None ELSE @]
              /\ Emit(p, <<Join(None), KeyOffer(found)>>)
         ELSE LET k == <<p, app[p].made + 1>> IN
              /\ app[p].made < KeyBound
              /\ app' = [app EXCEPT ![p].screen = "writing", ![p].key = k,
                                    ![p].made = @ + 1, ![p].deleting = FALSE]
              /\ store' = [store EXCEPT ![p] = k]
              /\ UNCHANGED up
  /\ UNCHANGED <<down, sock, serverVars, typed, mishaps>>

JoinRoom(p) ==
  /\ app[p].screen = "writing"
  /\ app' = [app EXCEPT ![p].screen = "ready"]
  /\ Emit(p, <<Join(None), KeyOffer(app[p].key)>>)
  /\ UNCHANGED <<store, down, sock, serverVars, typed, mishaps>>

SendMessage(p) ==
  /\ Mounted(p) /\ app[p].secret # None /\ ~app[p].ended
  /\ typed < MessageBound
  /\ typed' = typed + 1
  /\ app' = [app EXCEPT ![p].shown = Append(@, typed + 1)]
  /\ Emit(p, <<[kind |-> "send",
               m |-> [id |-> typed + 1, from |-> p, secret |-> app[p].secret]]>>)
  /\ UNCHANGED <<store, down, sock, serverVars, mishaps>>

(* The elements of s at the positions I, in their order. *)
Kept(s, I) ==
  [n \in 1..Cardinality(I) |->
     s[CHOOSE i \in I : Cardinality({j \in I : j <= i}) = n]]

Ids(ms) == [i \in DOMAIN ms |-> ms[i].id]
Opens(secret, ms) == Kept(ms, {i \in DOMAIN ms : ms[i].secret = secret})
Later(i, j) == IF i > j THEN i ELSE j

Mut_FirstKeyStays(a, k) ==
  IF a.key = None \/ a.secret # None THEN a
  ELSE LET secret == {a.key, k} IN
       [a EXCEPT !.secret = secret, !.pending = <<>>,
                 !.shown = @ \o Ids(Opens(secret, a.pending))]

OnKeyExchange(a, k) ==
  IF a.key = None THEN a
  ELSE LET secret == {a.key, k} IN
       [a EXCEPT !.secret = secret, !.pending = <<>>,
                 !.shown = @ \o Ids(Opens(secret, a.pending))]

OnMessageReceive(a, m, index) ==
  LET seen == [a EXCEPT !.last = Later(@, index)] IN
  IF a.secret = None THEN [seen EXCEPT !.pending = Append(@, m)]
  ELSE [seen EXCEPT !.shown = IF m.secret = a.secret THEN Append(@, m.id) ELSE @]

(* A sync is ignored without a secret, leaves out own and known messages,  *)
(* and counts only the messages that open.                                 *)
OnMessageSync(p, a, ms, from) ==
  LET new == {i \in DOMAIN ms : ms[i].from # p /\ ms[i].secret = a.secret} IN
  IF a.secret = None \/ new = {} THEN a
  ELSE [a EXCEPT
          !.shown = @ \o Ids(Kept(ms, {i \in new :
                                       \A j \in DOMAIN a.shown : a.shown[j] # ms[i].id})),
          !.last = Later(@, from + (CHOOSE i \in new : \A j \in new : j <= i) - 1)]

(* A closed screen has taken its handlers off the socket.                  *)
Receive(p) ==
  /\ down[p] # <<>>
  /\ down' = [down EXCEPT ![p] = Tail(@)]
  /\ LET e == Head(down[p])
         a == app[p]
     IN app' = [app EXCEPT ![p] =
          CASE a.screen = "closed" -> a
            [] a.screen # "closed" /\ e.kind = "key" -> OnKeyExchange(a, e.key)
            [] a.screen # "closed" /\ e.kind = "message" ->
                 OnMessageReceive(a, e.m, e.index)
            [] a.screen # "closed" /\ e.kind = "sync" ->
                 OnMessageSync(p, a, e.ms, e.from)
            [] a.screen # "closed" /\ e.kind = "ack" ->
                 [a EXCEPT !.last = Later(@, e.index)]
            [] a.screen # "closed" /\ e.kind = "ended" ->
                 [a EXCEPT !.ended = TRUE]]
  /\ UNCHANGED <<store, up, sock, serverVars, typed, mishaps>>

(* Unmount: the cleanup once more; the component's state is gone. *)
LeaveChat(p) ==
  /\ Mounted(p)
  /\ Happens("leave")
  /\ app' = [app EXCEPT ![p] = Closed(app[p].made)]
  /\ store' = [store EXCEPT ![p] = None]
  /\ UNCHANGED <<up, down, sock, serverVars, typed>>

-----------------------------------------------------------------------------
(* The connection.  Losing it runs handleDisconnect, which marks a member  *)
(* of the session as reconnecting.                                         *)

Lose(p, state) ==
  /\ up' = [up EXCEPT ![p] = <<>>]
  /\ down' = [down EXCEPT ![p] = <<>>]
  /\ sock' = [sock EXCEPT ![p] = state]
  /\ joining' = [joining EXCEPT ![p] = NoJoin]
  /\ room' = room \ {p}
  /\ away' = IF p \in member THEN away \cup {p} ELSE away
  /\ UNCHANGED <<member, keys, msgs, relayq, over, log, typed>>

Drop(p) ==
  /\ Connected(p)
  /\ Happens("drop")
  /\ Lose(p, "down")
  /\ UNCHANGED <<app, store>>

(* _layout's effect disconnects the socket and opens another one with the  *)
(* new token.                                                              *)
RefreshToken(p) ==
  /\ Connected(p)
  /\ Happens("refresh")
  /\ Lose(p, "new")
  /\ UNCHANGED <<app, store>>

KillApp(p) ==
  /\ Mounted(p)
  /\ Happens("kill")
  /\ Lose(p, "new")
  /\ app' = [app EXCEPT ![p] = Closed(app[p].made)]
  /\ UNCHANGED store

(* The socket is connected.  onReconnect, which only a socket that was     *)
(* connected before calls, has put its events behind those that wait in    *)
(* the send buffer; then the connect event bumps socketTick.               *)
Connect(p) ==
  /\ ~Connected(p)
  /\ sock' = [sock EXCEPT ![p] = "accepted"]
  /\ IF Mounted(p) /\ sock[p] = "down"
       THEN Emit(p, <<Join(IF app[p].last >= 0 THEN app[p].last + 1 ELSE None)>>
                    \o (IF app[p].key # None THEN <<KeyOffer(app[p].key)>> ELSE <<>>))
       ELSE UNCHANGED up
  /\ app' = [app EXCEPT ![p].rerun = Mounted(p)]
  /\ UNCHANGED <<store, down, serverVars, typed, mishaps>>

(* handleConnection has verified the token and mapped the socket.          *)
Authenticate(p) ==
  /\ sock[p] = "accepted"
  /\ sock' = [sock EXCEPT ![p] = "up"]
  /\ UNCHANGED <<app, store, up, down, serverVars, typed, mishaps>>

-----------------------------------------------------------------------------
(* The gateway                                                             *)

NextEvent(p, kind) ==
  /\ sock[p] = "up"
  /\ up[p] # <<>> /\ Head(up[p]).kind = kind
  /\ up' = [up EXCEPT ![p] = Tail(@)]

(* client.data has no account yet: "Not authenticated". *)
RejectEarly(p) ==
  /\ sock[p] = "accepted" /\ up[p] # <<>>
  /\ Happens("early_event")
  /\ up' = [up EXCEPT ![p] = Tail(@)]
  /\ UNCHANGED <<app, store, down, sock, serverVars, typed>>

(* room:join: validateSession reads the row, the rest comes after.  A      *)
(* second join of the same socket is taken up when the first is done.      *)
HandleJoin(p) ==
  /\ joining[p] = NoJoin
  /\ NextEvent(p, "join")
  /\ joining' = IF over = "no"
                  THEN [joining EXCEPT ![p] = [step |-> "check",
                          after |-> IF Head(up[p]).after = None THEN 0
                                    ELSE Head(up[p]).after]]
                  ELSE joining
  /\ UNCHANGED <<app, store, down, sock, room, member, away, keys, msgs,
                 relayq, over, log, typed, mishaps>>

Mut_JoinSendsNoKeys(p) ==
  /\ joining[p].step = "check"
  /\ room' = room \cup {p}
  /\ member' = member \cup {p}
  /\ joining' = [joining EXCEPT ![p] =
                   IF p \in away THEN [@ EXCEPT !.step = "sync"] ELSE NoJoin]
  /\ UNCHANGED <<app, store, up, down, sock, away, keys, msgs, relayq, over,
                 log, typed, mishaps>>

(* The socket joins the room; unless it is a reconnect it is sent the key  *)
(* the other party stored.                                                 *)
EnterRoom(p) ==
  /\ joining[p].step = "check"
  /\ room' = room \cup {p}
  /\ member' = member \cup {p}
  /\ IF p \in away
       THEN joining' = [joining EXCEPT ![p].step = "sync"] /\ UNCHANGED down
       ELSE /\ joining' = [joining EXCEPT ![p] = NoJoin]
            /\ down' = IF keys[Other(p)] = None THEN down
                       ELSE [down EXCEPT ![p] = Append(@, KeyOffer(keys[Other(p)]))]
  /\ UNCHANGED <<app, store, up, sock, away, keys, msgs, relayq, over, log,
                 typed, mishaps>>

(* A reconnect: clear the flag, push what was buffered since. *)
SyncMissed(p) ==
  /\ joining[p].step = "sync"
  /\ joining' = [joining EXCEPT ![p] = NoJoin]
  /\ away' = away \ {p}
  /\ LET from == joining[p].after
         missed == SubSeq(msgs, from + 1, Len(msgs))
     IN down' = IF missed = <<>> THEN down
                ELSE [down EXCEPT ![p] =
                        Append(@, [kind |-> "sync", ms |-> missed, from |-> from])]
  /\ UNCHANGED <<app, store, up, sock, room, member, keys, msgs, relayq, over,
                 log, typed, mishaps>>

(* key:exchange: store and relay, or "Not in session".  Behind a join that *)
(* is still reading the row the socket is not in the room.                 *)
HandleKey(p) ==
  /\ NextEvent(p, "key")
  /\ IF joining[p].step = "check" THEN Happens("early_key") ELSE UNCHANGED mishaps
  /\ LET k == Head(up[p]).key IN
     IF p \in room
       THEN /\ keys' = [keys EXCEPT ![p] = k]
            /\ down' = IF Other(p) \in room
                         THEN [down EXCEPT ![Other(p)] = Append(@, KeyOffer(k))]
                         ELSE down
       ELSE UNCHANGED <<keys, down>>
  /\ UNCHANGED <<app, store, sock, joining, room, member, away, msgs, relayq,
                 over, log, typed>>

(* message:send: RPUSH, trim to the last MaxMessages, and number the       *)
(* message by the length before the trim, at most MaxMessages - 1.         *)
BufferMessage(p) ==
  /\ NextEvent(p, "send")
  /\ IF p \notin room THEN UNCHANGED <<msgs, relayq, log>>
     ELSE LET m == Head(up[p]).m
              all == Append(msgs, m)
          IN /\ msgs' = IF Len(all) > MaxMessages THEN Tail(all) ELSE all
             /\ relayq' = Append(relayq, [m |-> m,
                  index |-> IF Len(all) > MaxMessages THEN MaxMessages - 1
                            ELSE Len(all) - 1])
             /\ log' = Append(log, m)
  /\ UNCHANGED <<app, store, down, sock, joining, room, member, away, keys,
                 over, typed, mishaps>>

Mut_EchoToRoom ==
  /\ relayq # <<>>
  /\ relayq' = Tail(relayq)
  /\ down' = [p \in Party |->
       IF p \in room
         THEN Append(down[p], [kind |-> "message", m |-> Head(relayq).m,
                               index |-> Head(relayq).index])
         ELSE down[p]]
  /\ UNCHANGED <<app, store, up, sock, joining, room, member, away, keys, msgs,
                 over, log, typed, mishaps>>

(* ... and, when Redis has answered, in the order of the answers, relay it *)
(* to the other party in the room and acknowledge it.                      *)
RelayMessage ==
  /\ relayq # <<>>
  /\ relayq' = Tail(relayq)
  /\ LET m == Head(relayq).m
         i == Head(relayq).index
         q == Other(m.from)
     IN down' = [p \in Party |->
          CASE p = q /\ q \in room ->
                 Append(down[p], [kind |-> "message", m |-> m, index |-> i])
            [] p = m.from /\ Connected(p) ->
                 Append(down[p], [kind |-> "ack", index |-> i])
            [] (p = q /\ q \notin room) \/ (p = m.from /\ ~Connected(p)) -> down[p]]
  /\ UNCHANGED <<app, store, up, sock, joining, room, member, away, keys, msgs,
                 over, log, typed, mishaps>>

(* The session ends (session:end or a timer) and its Redis state is        *)
(* purged; the sockets stay in the room.                                   *)
EndSession ==
  /\ over = "no" /\ room # {}
  /\ Happens("end")
  /\ over' = "ending"
  /\ down' = [p \in Party |-> IF p \in room THEN Append(down[p], [kind |-> "ended"])
                              ELSE down[p]]
  /\ UNCHANGED <<app, store, up, sock, joining, room, member, away, keys, msgs,
                 relayq, log, typed>>

Purge ==
  /\ over = "ending"
  /\ over' = "yes"
  /\ member' = {} /\ away' = {}
  /\ keys' = [p \in Party |-> None]
  /\ msgs' = <<>>
  /\ UNCHANGED <<app, store, up, down, sock, joining, room, relayq, log, typed,
                 mishaps>>

-----------------------------------------------------------------------------

AppStep(p) ==
  OpenChat(p) \/ RerunEffect(p) \/ ReadKey(p) \/ JoinRoom(p) \/ SendMessage(p)
  \/ Receive(p) \/ LeaveChat(p)

GatewayStep(p) ==
  HandleJoin(p) \/ EnterRoom(p) \/ SyncMissed(p) \/ HandleKey(p)
  \/ BufferMessage(p)

Next ==
  \/ \E p \in Party :
       \/ AppStep(p) \/ GatewayStep(p) \/ Authenticate(p) \/ RejectEarly(p)
       \/ Drop(p) \/ RefreshToken(p) \/ KillApp(p) \/ Connect(p)
  \/ RelayMessage \/ EndSession \/ Purge

Spec == Init /\ [][Next]_vars

-----------------------------------------------------------------------------

(* Both chats are open and nothing is on its way. *)
Quiet ==
  /\ over = "no" /\ relayq = <<>>
  /\ \A p \in Party :
       /\ sock[p] = "up" /\ up[p] = <<>> /\ down[p] = <<>> /\ joining[p] = NoJoin
       /\ app[p].screen = "ready" /\ ~app[p].rerun

Agreed == {app[p].key : p \in Party}

(* Two screens never hold different secrets for good: once nothing is on   *)
(* its way and the gateway has stored the keys in use, an app that has a   *)
(* secret has the one of those two keys.  Otherwise both would show a      *)
(* chat in which neither can read the other.                               *)
SecretsAgree ==
  Quiet /\ (\A p \in Party : keys[p] = app[p].key) =>
    \A p \in Party : app[p].secret \in {None, Agreed}

From(p, ms) == Kept(ms, {i \in DOMAIN ms : ms[i].from = p})
FromPeer(p, ids) ==
  Kept(ids, {i \in DOMAIN ids :
               \E j \in DOMAIN log : log[j].id = ids[i] /\ log[j].from # p})

(* As long as no mishap happens, an app shows nothing twice, and what it   *)
(* shows or keeps for later of the other party's messages is what the      *)
(* gateway took, in that order and, once nothing is on its way, complete.  *)
DeliveredInOrder ==
  mishaps = {} =>
    \A p \in Party :
      /\ IsInjective(app[p].shown)
      /\ LET got == FromPeer(p, app[p].shown) \o Ids(app[p].pending)
             all == Ids(From(Other(p), log))
         IN IsPrefix(got, all) /\ (Quiet => got = all)

(* On reconnection the client derives the shared key again: when nothing   *)
(* is on its way any more, both open chats have a secret, also after a     *)
(* party has left the screen and come back or has lost the connection.     *)
(* (It is not so after both, nor after a token refresh, a restart or an    *)
(* early event: the gateway takes the first room:join after a disconnect   *)
(* for that of a screen that still has its secret, and sends no key.)      *)
KeysReachBoth ==
  mishaps \in {{}, {"leave"}, {"drop"}} /\ Quiet =>
    \A p \in Party : app[p].secret # None

=============================================================================
