------------------------------ MODULE AuthTokens ------------------------------
(***************************************************************************)
(* The tokens of one account: the rows of refresh_token that AuthService   *)
(* rotates, and the clients that hold them.  A phone keeps the pair of     *)
(* tokens in memory and, key by key, in SecureStore; the tabs of the       *)
(* dashboard share the cookies of one browser.  Every client refreshes     *)
(* when a request is answered 401, one refresh at a time, and queues the   *)
(* requests that are answered 401 meanwhile.                               *)
(*                                                                         *)
(* A pair of tokens is named by the second it was signed in: the payload   *)
(* is the account, its roles and that second, so two pairs signed in the   *)
(* same second are the same strings.                                       *)
(***************************************************************************)
EXTENDS Integers, Sequences, FiniteSets

CONSTANTS
  Phone,        \* installed apps
  Tab,          \* tabs of the one browser
  Browser,      \* that browser
  Request,      \* bound: requests in flight at once
  CallBound,    \* bound: sign-in and refresh calls in flight at once
  ClockBound,   \* bound: seconds in which tokens are signed
  RowBound,     \* bound: rows of refresh_token
  SignInBound,  \* bound: sign-ins
  MishapBound,  \* bound: kinds of mishap in one behaviour, each happens once
  Allow,        \* the mishaps that may happen
  None

(* kill: a phone's process dies and is started again.                      *)
(* lost: the answer to a call is lost.                                     *)
(* same_second: a pair is signed in the second of the pair before it.      *)
(* late_401: a request is answered 401 while a phone, its refresh having   *)
(*   failed, awaits clearTokens.                                           *)
(* leftover_401: a request sent before a sign-out is answered 401 during   *)
(*   the sign-in after it.                                                 *)
(* logout_expired: the logout request itself is answered 401.              *)
(* logout_in_refresh: a logout and a refresh of one client overlap.        *)
(* two_tabs: a tab refreshes while another tab does.                       *)
(* idle: refresh tokens reach their expiry.                                *)
(* bar: an administrator suspends or bans the account.                     *)
Mishap == {"kill", "lost", "same_second", "late_401", "leftover_401", "logout_expired",
           "logout_in_refresh", "two_tabs", "idle", "bar"}

ASSUME AuthConstants ==
  /\ {CallBound, ClockBound, RowBound, SignInBound} \subseteq Nat \ {0}
  /\ MishapBound \in Nat
  /\ Allow \subseteq Mishap
  /\ Phone \cap Tab = {} /\ Browser \notin Phone \cup Tab
  /\ None \notin Phone \cup Tab \cup Request \cup Int

VARIABLES
  status,   \* the account: "none", "active", "barred" (suspended or banned)
  clock,    \* the last second in which tokens were signed
  stale,    \* access tokens signed up to this second have expired
  rows,     \* refresh_token
  calls,    \* sign-in and refresh calls in flight
  sweep,    \* the revocation of a family that each call has begun
  mem,      \* the pair each phone holds in memory, and the browser's cookies
  disk,     \* the pair in each phone's SecureStore
  flow,     \* what an interceptor or a sign-in or sign-out of a client awaits
  req,      \* the requests of the clients
  grace,    \* history: the last second a barred account may have tokens of
  burnt,    \* history: families in which a reused token was detected
  escaped,  \* history: families that got a row while one was revoked
  left,     \* history: families a client has logged out of
  signIns,  \* number of sign-ins submitted
  mishaps   \* history: the mishaps so far

revocation == <<sweep, escaped>>
tokenVars == <<status, clock, stale, rows, calls, mem, disk, flow, req, grace, burnt, left,
          signIns, mishaps, revocation>>
serverVars == <<status, clock, stale, rows, grace, burnt, left, revocation>>

App == Phone \cup Tab
Second == 1..ClockBound
Held == Second \cup {None}
Pair == [access: Held, refresh: Held]
NoPair == [access |-> None, refresh |-> None]
PairOf(t) == [access |-> t, refresh |-> t]

(* The tabs share what their browser holds. *)
Home(a) == IF a \in Tab THEN Browser ELSE a

Row == [tok: Second, family: 1..RowBound, revoked: BOOLEAN, expired: BOOLEAN]
Live(r) == ~r.revoked
(* A call: register(), login() or refresh().  `app` is None when nobody    *)
(* waits for the answer any more; `row` is the row refresh() has found.    *)
Call == [app: App \cup {None}, kind: {"register", "login", "refresh"},
         tok: Held, phase: {"sent", "creating", "reuse", "barred", "expired", "go", "done"},
         row: 0..RowBound, answer: Held]
(* updateMany over a family in flight: `seen` rows were there when it      *)
(* began.                                                                  *)
Sweep == [family: 1..RowBound, seen: 1..RowBound]
(* A request: `body` is the refresh token a logout carries. *)
Sent == [state: {"sent", "queued", "refreshing"}, app: App, access: Second,
         body: Held, retried: BOOLEAN]
(* What each phone awaits between two writes of its SecureStore. *)
Flow == [refresh: {"none", "persist", "clear"}, sign: {"none", "signIn", "signOut"},
         new: Held, signed: Held]
NoFlow == [refresh |-> "none", sign |-> "none", new |-> None, signed |-> None]

ASSUME NoneIsNoRecord == None \notin Call \cup Sent \cup Sweep

TokensTypeOK ==
  /\ status \in {"none", "active", "barred"}
  /\ clock \in 0..ClockBound /\ stale \in 0..clock
  /\ rows \in Seq(Row) /\ Len(rows) <= RowBound
  /\ \A n \in DOMAIN rows : rows[n].tok <= clock /\ rows[n].family <= n
  /\ calls \in [1..CallBound -> Call \cup {None}]
  /\ \A i \in 1..CallBound : calls[i] # None =>
       /\ calls[i].row <= Len(rows)
       /\ calls[i].kind = "refresh" /\ calls[i].phase \notin {"sent", "done"} => calls[i].row # 0
       /\ calls[i].kind # "refresh" => calls[i].phase \notin {"reuse", "barred", "expired"}
  /\ sweep \in [1..CallBound -> Sweep \cup {None}]
  /\ mem \in [Phone \cup {Browser} -> Pair]
  /\ disk \in [Phone -> Pair]
  /\ flow \in [Phone -> Flow]
  /\ req \in [Request -> Sent \cup {None}]
  /\ grace \in 0..(ClockBound + CallBound)
  /\ burnt \subseteq 1..Len(rows) /\ left \subseteq 1..Len(rows) /\ escaped \subseteq 1..Len(rows)
  /\ signIns \in 0..SignInBound /\ mishaps \subseteq Allow

TokensInit ==
  /\ status = "none" /\ clock = 0 /\ stale = 0 /\ rows = << >>
  /\ calls = [i \in 1..CallBound |-> None]
  /\ sweep = [i \in 1..CallBound |-> None] /\ escaped = {}
  /\ mem = [h \in Phone \cup {Browser} |-> NoPair]
  /\ disk = [p \in Phone |-> NoPair]
  /\ flow = [p \in Phone |-> NoFlow]
  /\ req = [q \in Request |-> None]
  /\ grace = 0 /\ burnt = {} /\ left = {} /\ signIns = 0 /\ mishaps = {}

(* Mishap m happens in this step. *)
Mishappens(m) ==
  /\ m \in Allow \ mishaps
  /\ Cardinality(mishaps) < MishapBound
  /\ mishaps' = mishaps \cup {m}

(* Mishap m happens in this step just when `case` holds. *)
Note(case, m) == IF case THEN Mishappens(m) ELSE UNCHANGED mishaps

(* The mishaps in M, if any, happen in this step. *)
NoteAll(M) ==
  /\ M \subseteq Allow \ mishaps
  /\ Cardinality(mishaps) + Cardinality(M) <= MishapBound
  /\ mishaps' = mishaps \cup M

CallsOf(a) == {i \in 1..CallBound : calls[i] # None /\ calls[i].app = a}
RefreshCallsOf(a) == {i \in CallsOf(a) : calls[i].kind = "refresh"}
(* A call waits for its answer in a free place. *)
CanCall == \E i \in 1..CallBound : calls[i] = None
Place == CHOOSE i \in 1..CallBound : calls[i] = None
WithCall(a, kind, tok) ==
  [calls EXCEPT ![Place] = [app |-> a, kind |-> kind, tok |-> tok,
                            phase |-> "sent", row |-> 0, answer |-> None]]
AtPhase(i, phase) == calls[i] # None /\ calls[i].phase = phase
Answered(i, t) ==
  IF calls[i].app = None THEN [calls EXCEPT ![i] = None]
  ELSE [calls EXCEPT ![i].phase = "done", ![i].answer = t, ![i].row = 0]

-----------------------------------------------------------------------------
(* AuthService *)

(* isRefreshing of a client. *)
Refreshing(a) ==
  \/ RefreshCallsOf(a) # {}
  \/ a \in Phone /\ flow[a].refresh # "none"

(* generateTokens: a pair is signed in second t, which is the second of    *)
(* the pair before it only by mishap.                                      *)
Signs(t) ==
  /\ t \in Second
  /\ t = clock + 1 \/ t = clock
  /\ clock' = t
  /\ Note(t = clock, "same_second")

(* storeRefreshToken, and the row a rotation creates. *)
NewRow(t, f) == [tok |-> t, family |-> f, revoked |-> FALSE, expired |-> FALSE]

RevokeRow(n) == [rows EXCEPT ![n].revoked = TRUE]

(* The statement revokes those rows of its family that it sees. *)
RevokeFamily(w) ==
  [n \in DOMAIN rows |->
     [rows[n] EXCEPT !.revoked = @ \/ (rows[n].family = w.family /\ n <= w.seen)]]

(* register() and registerVolunteer() find no account, or refuse. *)
RegisterFind(i) ==
  /\ AtPhase(i, "sent") /\ calls[i].kind = "register"
  /\ calls' = IF status = "none" THEN [calls EXCEPT ![i].phase = "creating"]
              ELSE Answered(i, None)
  /\ UNCHANGED <<serverVars, mem, disk, flow, req, signIns, mishaps>>

(* Their transaction; a second registration of the address is refused. *)
RegisterCreate(i) ==
  /\ AtPhase(i, "creating")
  /\ IF status = "none"
     THEN /\ status' = "active"
          /\ calls' = [calls EXCEPT ![i].phase = "go"]
     ELSE /\ calls' = Answered(i, None)
          /\ UNCHANGED status
  /\ UNCHANGED <<grace, clock, stale, rows, burnt, left, revocation, mem, disk, flow, req, signIns, mishaps>>

(* login() checks the account, or refuses. *)
LoginCheck(i) ==
  /\ AtPhase(i, "sent") /\ calls[i].kind = "login"
  /\ calls' = IF status = "active" THEN [calls EXCEPT ![i].phase = "go"]
              ELSE Answered(i, None)
  /\ UNCHANGED <<serverVars, mem, disk, flow, req, signIns, mishaps>>

(* generateTokens and storeRefreshToken, with a family of their own: a     *)
(* family is named by its first row.                                       *)
StoreRefreshToken(i, t) ==
  /\ AtPhase(i, "go") /\ calls[i].kind # "refresh"
  /\ Len(rows) < RowBound
  /\ Signs(t)
  /\ rows' = Append(rows, NewRow(t, Len(rows) + 1))
  /\ calls' = Answered(i, t)
  /\ UNCHANGED <<grace, status, stale, burnt, left, revocation, mem, disk, flow, req, signIns>>

(* refresh() finds a row with the token's hash (findFirst takes any of     *)
(* them; there is one, as a token is answered only once its row is stored) *)
(* and decides on what it read.                                            *)
Verdict(r) ==
  CASE r.revoked -> "reuse"
    [] ~r.revoked /\ status = "barred" -> "barred"
    [] ~r.revoked /\ status # "barred" /\ r.expired -> "expired"
    [] OTHER -> "go"

RefreshFind(i) ==
  /\ AtPhase(i, "sent") /\ calls[i].kind = "refresh"
  /\ \E n \in DOMAIN rows :
       /\ rows[n].tok = calls[i].tok
       /\ calls' = [calls EXCEPT ![i].phase = Verdict(rows[n]), ![i].row = n,
                                 ![i].tok = None]
  /\ UNCHANGED <<serverVars, mem, disk, flow, req, signIns, mishaps>>

(* A reused token, or a barred account: the whole family is revoked by one *)
(* updateMany, which PostgreSQL runs at READ COMMITTED: it works on the    *)
(* rows committed when it begins, waits for those a rotation has locked,   *)
(* and does not see a row that is committed while it runs.                 *)
RevocationBegins(i) ==
  /\ AtPhase(i, "reuse") \/ AtPhase(i, "barred")
  /\ sweep[i] = None
  /\ sweep' = [sweep EXCEPT ![i] =
                 [family |-> rows[calls[i].row].family, seen |-> Len(rows)]]
  /\ UNCHANGED <<status, clock, stale, rows, grace, burnt, left, escaped, calls, mem, disk,
                 flow, req, signIns, mishaps>>

RefreshRevokes(i) ==
  /\ AtPhase(i, "reuse") \/ AtPhase(i, "barred")
  /\ sweep[i] # None
  /\ rows' = RevokeFamily(sweep[i])
  /\ burnt' = IF AtPhase(i, "reuse") THEN burnt \cup {sweep[i].family} ELSE burnt
  /\ sweep' = [sweep EXCEPT ![i] = None]
  /\ calls' = Answered(i, None)
  /\ UNCHANGED <<grace, status, clock, stale, left, escaped, mem, disk, flow, req, signIns,
                 mishaps>>

(* An expired token: its row is revoked. *)
RefreshExpired(i) ==
  /\ AtPhase(i, "expired")
  /\ rows' = RevokeRow(calls[i].row)
  /\ calls' = Answered(i, None)
  /\ UNCHANGED <<grace, status, clock, stale, burnt, left, revocation, mem, disk, flow, req, signIns, mishaps>>

Mut_RotateAny(n) == TRUE

(* The rotation signs a pair and then, in one transaction, revokes the row *)
(* found if nobody has and inserts the new row in its family.  The step is *)
(* the COMMIT: until then nobody sees either write, and the UPDATE's lock  *)
(* on the row found makes every other writer of that row wait for it, so   *)
(* what the guard read still holds.                                        *)
Rotates(n) == ~rows[n].revoked

Swept(f) == \E j \in 1..CallBound : sweep[j] # None /\ sweep[j].family = f

RefreshRotate(i, t) ==
  /\ AtPhase(i, "go") /\ calls[i].kind = "refresh"
  /\ Len(rows) < RowBound
  /\ Signs(t)
  /\ LET n == calls[i].row
         f == rows[n].family
     IN
       IF Rotates(n)
       THEN /\ rows' = Append(RevokeRow(n), NewRow(t, f))
            /\ escaped' = IF Swept(f) THEN escaped \cup {f} ELSE escaped
            /\ calls' = Answered(i, t)
       ELSE /\ calls' = Answered(i, None)
            /\ UNCHANGED <<rows, escaped>>
  /\ UNCHANGED <<grace, status, stale, burnt, left, sweep, mem, disk, flow, req, signIns>>

(* The access tokens signed so far expire. *)
AccessTokensExpire ==
  /\ stale < clock
  /\ stale' = clock
  /\ UNCHANGED <<grace, status, clock, rows, calls, mem, disk, flow, req, burnt, left, revocation, signIns, mishaps>>

(* Seven days without a refresh. *)
RefreshTokensExpire ==
  /\ rows # << >>
  /\ rows' = [n \in DOMAIN rows |-> [rows[n] EXCEPT !.expired = TRUE]]
  /\ stale' = clock
  /\ Mishappens("idle")
  /\ UNCHANGED <<grace, status, clock, calls, mem, disk, flow, req, burnt, left, revocation, signIns>>

(* An administrator suspends or bans the account. *)
Bar ==
  /\ status = "active"
  /\ status' = "barred"
  /\ grace' = clock + Cardinality({i \in 1..CallBound : AtPhase(i, "go")})
  /\ Mishappens("bar")
  /\ UNCHANGED <<clock, stale, rows, calls, mem, disk, flow, req, burnt, left, revocation, signIns>>

-----------------------------------------------------------------------------
(* The clients *)

Idle(p) == flow[p] = NoFlow
LogoutsOf(h) == {q \in Request : req[q] # None /\ Home(req[q].app) = h /\ req[q].body # None}
RequestsOf(a) == {q \in Request : req[q] # None /\ req[q].app = a}
Queue(a) == {q \in RequestsOf(a) : req[q].state = "queued"}
HomeRefreshes(h) == \E a \in App : Home(a) = h /\ Refreshing(a)
HomeLogsOut(h) ==
  \/ LogoutsOf(h) # {}
  \/ h \in Phone /\ flow[h].sign = "signOut"

(* The screens signIn and signUp of a client that holds no tokens. *)
SignInSubmit(a) ==
  /\ mem[Home(a)] = NoPair
  /\ CallsOf(a) = {}
  /\ a \in Phone => Idle(a)
  /\ LogoutsOf(Home(a)) = {}
  /\ CanCall
  /\ signIns < SignInBound /\ signIns' = signIns + 1
  /\ \E kind \in {"register", "login"} :
       /\ kind = "register" => a \in Phone
       /\ calls' = WithCall(a, kind, None)
  /\ UNCHANGED <<serverVars, mem, disk, flow, req, mishaps>>

(* The pair reaches the client: a phone writes its first key and then      *)
(* awaits the second (SignedIn); the dashboard sets its cookies at once.   *)
SignInAnswer(i) ==
  /\ AtPhase(i, "done") /\ calls[i].kind # "refresh"
  /\ LET a == calls[i].app IN
     LET t == calls[i].answer IN
     IF t = None THEN UNCHANGED <<mem, disk, flow>>
     ELSE IF a \in Tab
     THEN /\ mem' = [mem EXCEPT ![Browser] = PairOf(t)]
          /\ UNCHANGED <<disk, flow>>
     ELSE /\ disk' = [disk EXCEPT ![a].access = t]
          /\ flow' = [flow EXCEPT ![a].sign = "signIn", ![a].signed = t]
          /\ UNCHANGED mem
  /\ calls' = [calls EXCEPT ![i] = None]
  /\ UNCHANGED <<serverVars, req, signIns, mishaps>>

SignedIn(p) ==
  /\ flow[p].sign = "signIn"
  /\ disk' = [disk EXCEPT ![p].refresh = flow[p].signed]
  /\ mem' = [mem EXCEPT ![p] = PairOf(flow[p].signed)]
  /\ flow' = [flow EXCEPT ![p].sign = "none", ![p].signed = None]
  /\ UNCHANGED <<serverVars, calls, req, signIns, mishaps>>

(* A request, its interceptor attaching the access token held. *)
Attach(a, body, retried) ==
  [state |-> "sent", app |-> a, access |-> mem[Home(a)].access,
   body |-> body, retried |-> retried]

SendRequest(a, q) ==
  /\ req[q] = None
  /\ mem[Home(a)].access # None
  /\ req' = [req EXCEPT ![q] = Attach(a, None, FALSE)]
  /\ UNCHANGED <<serverVars, calls, mem, disk, flow, signIns, mishaps>>

(* The settings' Log out: POST /auth/logout with the refresh token held. *)
SendLogout(a, q) ==
  /\ req[q] = None
  /\ mem[Home(a)].refresh # None /\ mem[Home(a)].access # None
  /\ LogoutsOf(Home(a)) = {}
  /\ a \in Phone => flow[a].sign = "none"
  /\ req' = [req EXCEPT ![q] = Attach(a, mem[Home(a)].refresh, FALSE)]
  /\ Note(HomeRefreshes(Home(a)), "logout_in_refresh")
  /\ UNCHANGED <<serverVars, calls, mem, disk, flow, signIns>>

(* What a logout's handler does when its request is over: signOut of a     *)
(* phone deletes the first key and awaits the second (SignedOut); the      *)
(* dashboard removes its cookies.                                          *)
FinishLogout(a) ==
  IF a \in Tab
  THEN /\ mem' = [mem EXCEPT ![Browser] = NoPair]
       /\ UNCHANGED <<disk, flow>>
  ELSE /\ disk' = [disk EXCEPT ![a].access = None]
       /\ flow' = [flow EXCEPT ![a].sign = "signOut"]
       /\ UNCHANGED mem

Finish(q) ==
  /\ req' = [req EXCEPT ![q] = None]
  /\ IF req[q].body = None THEN UNCHANGED <<mem, disk, flow>> ELSE FinishLogout(req[q].app)

SignedOut(p) ==
  /\ flow[p].sign = "signOut"
  /\ disk' = [disk EXCEPT ![p].refresh = None]
  /\ mem' = [mem EXCEPT ![p] = NoPair]
  /\ flow' = [flow EXCEPT ![p].sign = "none"]
  /\ UNCHANGED <<serverVars, calls, req, signIns, mishaps>>

(* VerificationPending signs out without a logout. *)
SignOut(p) ==
  /\ mem[p] # NoPair /\ LogoutsOf(p) = {} /\ flow[p].sign = "none"
  /\ Note(Refreshing(p), "logout_in_refresh")
  /\ FinishLogout(p)
  /\ UNCHANGED <<serverVars, calls, req, signIns>>

Unauthorized(q) == req[q] # None /\ req[q].state = "sent" /\ req[q].access <= stale

Mut_RootRowOnly(q) ==
  {n \in DOMAIN rows : req[q].body # None /\ rows[n].tok = req[q].body /\ rows[n].family = n}

(* A request whose access token is valid is served; logout() revokes the   *)
(* rows with the hash of the token it was sent.                            *)
LogoutRows(q) == {n \in DOMAIN rows : req[q].body # None /\ rows[n].tok = req[q].body}

Served(q) ==
  /\ req[q] # None /\ req[q].state = "sent" /\ req[q].access > stale
  /\ LET mine == LogoutRows(q) IN
       /\ rows' = [n \in DOMAIN rows |-> [rows[n] EXCEPT !.revoked = @ \/ n \in mine]]
       /\ left' = left \cup {rows[n].family : n \in {m \in DOMAIN rows : rows[m].tok = req[q].body}}
  /\ Finish(q)
  /\ UNCHANGED <<grace, status, clock, stale, calls, burnt, revocation, signIns, mishaps>>

(* A second 401 of one request is passed to its caller. *)
Reject(q) ==
  /\ Unauthorized(q) /\ req[q].retried
  /\ Finish(q)
  /\ UNCHANGED <<serverVars, calls, signIns, mishaps>>

(* A 401 while the client refreshes waits in failedQueue. *)
Queues(a) == Refreshing(a)

JoinQueue(q) ==
  /\ Unauthorized(q) /\ ~req[q].retried /\ Queues(req[q].app)
  /\ LET a == req[q].app IN
       Note(a \in Phone /\ RefreshCallsOf(a) = {} /\ flow[a].refresh = "clear", "late_401")
  /\ req' = [req EXCEPT ![q].state = "queued"]
  /\ UNCHANGED <<serverVars, calls, mem, disk, flow, signIns>>

(* The first 401 takes the refresh token held and calls refresh(). *)
RefreshMishaps(q) ==
  LET a == req[q].app IN
  (IF req[q].body # None THEN {"logout_expired"} ELSE {})
    \cup (IF HomeLogsOut(Home(a)) /\ req[q].body = None THEN {"logout_in_refresh"} ELSE {})
    \cup (IF \E b \in Tab \ {a} : a \in Tab /\ Refreshing(b) THEN {"two_tabs"} ELSE {})

StartRefresh(q) ==
  /\ Unauthorized(q) /\ ~req[q].retried /\ ~Queues(req[q].app)
  /\ mem[Home(req[q].app)].refresh # None
  /\ CanCall
  /\ calls' = WithCall(req[q].app, "refresh", mem[Home(req[q].app)].refresh)
  /\ req' = [req EXCEPT ![q].state = "refreshing", ![q].retried = TRUE]
  /\ NoteAll(RefreshMishaps(q))
  /\ UNCHANGED <<serverVars, mem, disk, flow, signIns>>

(* A refresh has failed.  A phone rejects its queue, resets its memory,    *)
(* deletes the first key and awaits the second (Cleared); the request that *)
(* refreshed is rejected after that.  A tab removes the cookies and leaves *)
(* for the login page, which ends its requests.                            *)
FailRefresh(a) ==
  IF a \in Tab
  THEN /\ mem' = [mem EXCEPT ![Browser] = NoPair]
       /\ req' = [q \in Request |-> IF q \in RequestsOf(a) THEN None ELSE req[q]]
       /\ UNCHANGED <<disk, flow>>
  ELSE /\ mem' = [mem EXCEPT ![a] = NoPair]
       /\ req' = [q \in Request |-> IF q \in Queue(a) THEN None ELSE req[q]]
       /\ disk' = [disk EXCEPT ![a].access = None]
       /\ flow' = [flow EXCEPT ![a].refresh = "clear",
                    ![a].sign = IF Queue(a) \cap LogoutsOf(a) # {} THEN "signOut" ELSE @]

HomeSignsIn(h) ==
  \/ \E i \in 1..CallBound : calls[i] # None /\ calls[i].app # None /\ Home(calls[i].app) = h
                             /\ calls[i].kind # "refresh"
  \/ h \in Phone /\ flow[h].sign = "signIn"

(* A 401 to a request of a client that has signed out since. *)
NoTokenToRefresh(q) ==
  /\ Unauthorized(q) /\ ~req[q].retried /\ ~Queues(req[q].app)
  /\ LET a == req[q].app IN
       /\ mem[Home(a)].refresh = None
       /\ IF a \in Tab THEN FailRefresh(a)
          ELSE /\ disk' = [disk EXCEPT ![a].access = None]
               /\ flow' = [flow EXCEPT ![a].refresh = "clear"]
               /\ req' = [req EXCEPT ![q].state = "refreshing", ![q].retried = TRUE]
               /\ mem' = [mem EXCEPT ![a] = NoPair]
       /\ Note(HomeSignsIn(Home(a)), "leftover_401")
  /\ UNCHANGED <<serverVars, calls, signIns>>

RefreshRefused(i) ==
  /\ AtPhase(i, "done") /\ calls[i].kind = "refresh" /\ calls[i].answer = None
  /\ FailRefresh(calls[i].app)
  /\ calls' = [calls EXCEPT ![i] = None]
  /\ UNCHANGED <<serverVars, signIns, mishaps>>

Cleared(p) ==
  /\ flow[p].refresh = "clear"
  /\ LET mine == {q \in RequestsOf(p) : req[q].state = "refreshing"} IN
       /\ disk' = [disk EXCEPT ![p].refresh = None]
       /\ flow' = [flow EXCEPT ![p].refresh = "none",
                    ![p].sign = IF mine \cap LogoutsOf(p) # {} THEN "signOut" ELSE @]
       /\ req' = [q \in Request |-> IF q \in mine THEN None ELSE req[q]]
  /\ UNCHANGED <<serverVars, calls, mem, signIns, mishaps>>

Mut_QueueForgotten(a, t) ==
  [q \in Request |->
     IF q \in RequestsOf(a) /\ req[q].state = "refreshing"
     THEN [req[q] EXCEPT !.state = "sent", !.access = t] ELSE req[q]]

(* processQueue with the new token, and the retry of the request that      *)
(* refreshed.  The dashboard does not mark the queued ones as retried.     *)
Retries(a, t) ==
  [q \in Request |->
     IF q \in RequestsOf(a) /\ req[q].state # "sent"
     THEN [req[q] EXCEPT !.state = "sent", !.access = t, !.retried = @ \/ a \in Phone]
     ELSE req[q]]

(* The new pair reaches the client: a phone writes its first key and       *)
(* awaits the second (Persisted).                                          *)
RefreshAnswer(i) ==
  /\ AtPhase(i, "done") /\ calls[i].kind = "refresh" /\ calls[i].answer # None
  /\ LET a == calls[i].app IN
     LET t == calls[i].answer IN
     IF a \in Tab
     THEN /\ mem' = [mem EXCEPT ![Browser] = PairOf(t)]
          /\ req' = Retries(a, t)
          /\ UNCHANGED <<disk, flow>>
     ELSE /\ disk' = [disk EXCEPT ![a].access = t]
          /\ flow' = [flow EXCEPT ![a].refresh = "persist", ![a].new = t]
          /\ UNCHANGED <<mem, req>>
  /\ calls' = [calls EXCEPT ![i] = None]
  /\ UNCHANGED <<serverVars, signIns, mishaps>>

Mut_MemoryOnly(p) ==
  /\ flow[p].refresh = "persist"
  /\ mem' = [mem EXCEPT ![p] = PairOf(flow[p].new)]
  /\ req' = Retries(p, flow[p].new)
  /\ flow' = [flow EXCEPT ![p].refresh = "none", ![p].new = None]
  /\ UNCHANGED <<serverVars, calls, disk, signIns, mishaps>>

Persisted(p) ==
  /\ flow[p].refresh = "persist"
  /\ disk' = [disk EXCEPT ![p].refresh = flow[p].new]
  /\ mem' = [mem EXCEPT ![p] = PairOf(flow[p].new)]
  /\ req' = Retries(p, flow[p].new)
  /\ flow' = [flow EXCEPT ![p].refresh = "none", ![p].new = None]
  /\ UNCHANGED <<serverVars, calls, signIns, mishaps>>

(* The answer of call i is lost while the server goes on with it. *)
Lost(i) ==
  /\ calls[i] # None /\ calls[i].app # None
  /\ Mishappens("lost")
  /\ calls' = IF AtPhase(i, "done") THEN [calls EXCEPT ![i] = None]
              ELSE [calls EXCEPT ![i].app = None]
  /\ IF calls[i].kind = "refresh" THEN FailRefresh(calls[i].app)
     ELSE UNCHANGED <<mem, disk, flow, req, signIns>>
  /\ UNCHANGED <<serverVars, signIns>>

(* The process of a phone dies and is started again: hydrate takes the     *)
(* pair in SecureStore, if both keys are there.                            *)
Kill(p) ==
  /\ mem[p] # NoPair \/ CallsOf(p) # {} \/ ~Idle(p)
  /\ Mishappens("kill")
  /\ mem' = [mem EXCEPT ![p] = IF None \in {disk[p].access, disk[p].refresh} THEN NoPair
                               ELSE disk[p]]
  /\ flow' = [flow EXCEPT ![p] = NoFlow]
  /\ req' = [q \in Request |-> IF q \in RequestsOf(p) THEN None ELSE req[q]]
  /\ calls' = [i \in 1..CallBound |->
                 IF i \notin CallsOf(p) THEN calls[i]
                 ELSE IF AtPhase(i, "done") THEN None ELSE [calls[i] EXCEPT !.app = None]]
  /\ UNCHANGED <<serverVars, disk, signIns>>

-----------------------------------------------------------------------------
ServerStep(i) ==
  \/ RegisterFind(i) \/ RegisterCreate(i) \/ LoginCheck(i)
  \/ RefreshFind(i) \/ RevocationBegins(i) \/ RefreshRevokes(i) \/ RefreshExpired(i)
  \/ \E t \in Second : StoreRefreshToken(i, t) \/ RefreshRotate(i, t)

TokensNext ==
  \/ \E i \in 1..CallBound :
       ServerStep(i) \/ SignInAnswer(i) \/ RefreshRefused(i) \/ RefreshAnswer(i) \/ Lost(i)
  \/ \E a \in App : SignInSubmit(a) \/ \E q \in Request : SendRequest(a, q) \/ SendLogout(a, q)
  \/ \E q \in Request :
       Served(q) \/ Reject(q) \/ JoinQueue(q) \/ StartRefresh(q) \/ NoTokenToRefresh(q)
  \/ \E p \in Phone :
       SignedIn(p) \/ SignedOut(p) \/ SignOut(p) \/ Cleared(p) \/ Persisted(p) \/ Kill(p)
  \/ AccessTokensExpire \/ RefreshTokensExpire \/ Bar

TokensSpec == TokensInit /\ [][TokensNext]_tokenVars

-----------------------------------------------------------------------------
(* A family never has two live tokens: two refreshes that both read a live *)
(* row do not both rotate it (auth.service.ts:376-399).                    *)
OneLivePerFamily ==
  \A m, n \in DOMAIN rows :
    rows[m].family = rows[n].family /\ Live(rows[m]) /\ Live(rows[n]) => m = n

(* Once the reuse of a token was detected its family stays dead, whatever  *)
(* refresh was under way (auth.service.ts:333-343), unless a rotation      *)
(* committed its new row while the revocation ran: that row lives on.      *)
BurntStaysDead ==
  \A n \in DOMAIN rows : rows[n].family \in burnt \ escaped => rows[n].revoked

(* A barred account is given no tokens but by the calls that had passed    *)
(* the check of its status before (auth.service.ts:225-230, 346-359).      *)
BarredGetsNothing == status = "barred" => clock <= grace

(* The rows of refresh_token are right: a family lives in at most one      *)
(* token, a burnt one in none but for the overtaken revocation, and a      *)
(* barred account is given no new one.                                     *)
RowsAreSound == OneLivePerFamily /\ BurntStaysDead /\ BarredGetsNothing

(* Every client that is at rest can refresh: the token it holds is live,   *)
(* unless one of the mishaps excepted here has made it dead                *)
(* (client.ts:52-104).                                                     *)
AtRest(h) ==
  /\ \A a \in App : Home(a) = h => CallsOf(a) = {} /\ LogoutsOf(h) = {}
  /\ h \in Phone => Idle(h)

SignedInCanRefresh ==
  mishaps \subseteq {"late_401"} =>
    \A h \in Phone \cup {Browser} : AtRest(h) /\ mem[h].refresh # None =>
      \E n \in DOMAIN rows : rows[n].tok = mem[h].refresh /\ Live(rows[n]) /\ ~rows[n].expired

(* A phone at rest keeps on disk the pair it holds in memory: a restart    *)
(* signs in whom it would have been (useAuth.ts:66-113).                   *)
StoreFollowsMemory ==
  mishaps \cap {"kill", "logout_in_refresh", "leftover_401"} = {} =>
    \A p \in Phone : Idle(p) => disk[p] = mem[p]

(* A client has the tokens it would sign in with, in memory, on disk and   *)
(* on the server.                                                          *)
TokensAgree == SignedInCanRefresh /\ StoreFollowsMemory

(* A request waits in failedQueue only while a refresh is under way that   *)
(* will empty it, unless its 401 came during clearTokens                   *)
(* (client.ts:63-72, 94-101).                                              *)
NoRequestHangs ==
  "late_401" \notin mishaps => \A a \in App : Queue(a) # {} => Refreshing(a)

(* A family that a client has logged out of keeps no live token            *)
(* (auth.service.ts:409-424), unless the logout and a refresh overlapped   *)
(* or two families share a token.                                          *)
LogoutSticks ==
  mishaps \subseteq {"lost", "late_401", "idle", "bar"} =>
    \A n \in DOMAIN rows : rows[n].family \in left => rows[n].revoked
=============================================================================
