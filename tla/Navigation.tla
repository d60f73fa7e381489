------------------------------ MODULE Navigation ------------------------------
(***************************************************************************)
(* Which screens a phone shows: the router's stack, the account the phone  *)
(* is signed in with and the calls whose answers navigate.  What the       *)
(* screens of a session decide is left to Journey: here they are only      *)
(* places to come from and to go to.                                       *)
(*                                                                         *)
(* A route is the path of its navigators (the _layout files) followed by   *)
(* its page.  push adds a route, replace replaces the entry of the deepest *)
(* navigator that the two routes share, with all that is inside that       *)
(* entry.  An answer navigates from whatever screen is in front.           *)
(***************************************************************************)
EXTENDS Integers, Sequences, FiniteSets

CONSTANTS
  MaxStack,    \* bound: routes in the stack
  NavCalls,    \* bound: calls the user has in flight
  MaxTrouble,  \* bound: kinds of trouble in one run of the app
  AllowTrouble,
  NoOne

(* late: an answer navigates though its screen is not in front any more.   *)
(* reset: the backend refuses to refresh the session, the phone forgets it.*)
(* env_role: the build is for another role than the restored session's.    *)
(* test_screen: a button of the test tabs that leaves the role's screens.  *)
(* ungated: a volunteer signs in who is not approved.                      *)
(* split: a match is announced while a screen outside the volunteer's own  *)
(*   is in front, so that his screens are in two entries of the root.      *)
NavTrouble == {"late", "reset", "env_role", "test_screen", "ungated", "split"}

Role == {"user", "volunteer"}
Status == {"none", "pending", "approved", "rejected"}
CallKind ==
  {"gate", "mount", "check", "login", "register", "logout", "apply", "forgot", "otp",
   "password", "rate"}

ASSUME NavigationConstants ==
  /\ MaxStack \in Nat \ {0} /\ {NavCalls, MaxTrouble} \subseteq Nat
  /\ AllowTrouble \subseteq NavTrouble
  /\ NoOne \notin Role

VARIABLES
  stack,   \* the routes, the one in front last
  who,     \* the account whose tokens the phone has, or NoOne
  known,   \* account and userRole are set: false after a restart
  status,  \* verificationStatus of the volunteer's application
  calls,   \* the calls in flight
  trouble  \* history: the troubles since the app was started

navVars == <<stack, who, known, status, calls, trouble>>

-----------------------------------------------------------------------------
Index == <<"index">>
Welcome == <<"start/welcome">>
ComingSoon == <<"coming-soon">>
Start(r) == IF r = "user" THEN "start/user" ELSE "start/volunteer"
Begin(r, page) == <<Start(r), page>>
Auth(r, page) == <<Start(r), "authScreens", page>>
Home(r) == <<r, "(tabs)">>
Chat(r) == <<r, "session", "[chat]">>
Rate(r) == IF r = "user" THEN <<r, "rate", "rateSession">> ELSE <<r, "rateSession">>
Waiting == <<"user", "WaitingScreen", "waitingScreen">>
Accept == <<"volunteer", "accept", "acceptSession">>
PendingScreen == <<"volunteer", "VerificationPending", "pending">>
Rejected == <<"volunteer", "VerificationPending", "rejected">>
ChangePassword == <<"user", "changePassword">>
TnS == <<"user", "TnS-agree", "TnS">>  \* "TnS agree" in the code
(* EditProfile, session history, the filters: screens with a way back only. *)
Other(r) == <<r, "other", "other">>

-----------------------------------------------------------------------------
(* The buttons and timers that need no answer: per screen, where each goes.*)
Push(to) == [how |-> "push", to |-> to]
Replace(to) == [how |-> "replace", to |-> to]
From(s, exits) == {<<s, e>> : e \in exits}

WelcomeExits == From(Welcome, {Push(Begin(r, "selectLanguage")) : r \in Role})

UserSelectLanguage == From(Begin("user", "selectLanguage"), {Push(Auth("user", "signIn"))})
UserSignupNlogin ==
  From(Auth("user", "signupNlogin"), {Push(Auth("user", p)) : p \in {"signIn", "signUp"}})
UserSignIn == From(Auth("user", "signIn"), {Push(Auth("user", p)) : p \in {"enterEmail", "signUp"}})
UserSignUp == From(Auth("user", "signUp"), {Push(Auth("user", "signIn"))})
UserRegistered ==
  From(Auth("user", "registerSuccessful"), {Replace(Begin("user", "specialnotice"))})
UserNotice == From(Begin("user", "specialnotice"), {Replace(Home("user"))})

VolunteerSelectLanguage ==
  From(Begin("volunteer", "selectLanguage"), {Push(Auth("volunteer", "signupNlogin"))})
VolunteerSignupNlogin ==
  From(Auth("volunteer", "signupNlogin"), {Push(Auth("volunteer", p)) : p \in {"signIn", "signUp"}})
VolunteerSignIn ==
  From(Auth("volunteer", "signIn"), {Push(Auth("volunteer", p)) : p \in {"enterEmail", "signUp"}})
VolunteerRegistered ==
  From(Auth("volunteer", "registerSuccessful"), {Replace(Auth("volunteer", "verify"))})
VolunteerEnterEmail ==
  From(Auth("volunteer", "enterEmail"), {Push(Auth("volunteer", "OTPVerification"))})
VolunteerOtp ==
  From(Auth("volunteer", "OTPVerification"), {Push(Auth("volunteer", "CreateNewPassword"))})
VolunteerNewPassword ==
  From(Auth("volunteer", "CreateNewPassword"), {Push(Auth("volunteer", "ResetPassword"))})
VolunteerReset == From(Auth("volunteer", "ResetPassword"), {Replace(Auth("volunteer", "signIn"))})

UserHome == From(Home("user"), {Push(ComingSoon)})
UserConnect == From(Home("user"), {Push(Waiting), Push(Chat("user"))})
UserSettings == From(Home("user"), {Push(ChangePassword)})
UserProTalk == From(Home("user"), {Push(TnS), Push(Other("user"))})
UserGroups == From(Home("user"), {Push(Welcome), Push(Chat("user")), Push(ComingSoon)})
TnSAgree == From(TnS, {Push(Index)})
WaitingExits == From(Waiting, {Replace(Chat("user"))})
UserChatExits == From(Chat("user"), {Replace(Rate("user")), Replace(Home("user"))})

VolunteerHome == From(Home("volunteer"), {Push(ComingSoon)})
VolunteerConnect == From(Home("volunteer"), {Push(Accept)})
VolunteerSettings == From(Home("volunteer"), {Push(Other("volunteer"))})
VolunteerProTalk ==
  From(Home("volunteer"), {Push(Other("volunteer")), Push(Accept), Push(Auth("volunteer", "verify"))})
VolunteerGroups == From(Home("volunteer"), {Push(Chat("user")), Push(ComingSoon)})
AcceptExits == From(Accept, {Replace(Chat("volunteer")), Replace(Home("volunteer"))})
VolunteerChatExits ==
  From(Chat("volunteer"), {Replace(Rate("volunteer")), Replace(Home("volunteer"))})
(* handleSkip *)
RateExits == UNION {From(Rate(r), {Replace(Home(r))}) : r \in Role}

(* Those that leave the screens of their role. *)
TestExits == {x \in UserGroups \cup VolunteerGroups \cup VolunteerProTalk \cup TnSAgree :
                /\ x[2].to[1] # x[1][1] /\ x[2].to # ComingSoon}

Exits ==
  UNION {WelcomeExits, UserSelectLanguage, UserSignupNlogin, UserSignIn, UserSignUp, UserRegistered,
         UserNotice, VolunteerSelectLanguage, VolunteerSignupNlogin, VolunteerSignIn,
         VolunteerRegistered, VolunteerEnterEmail, VolunteerOtp, VolunteerNewPassword,
         VolunteerReset, UserHome, UserConnect, UserSettings, UserProTalk, UserGroups, TnSAgree,
         WaitingExits, UserChatExits, VolunteerHome, VolunteerConnect, VolunteerSettings,
         VolunteerProTalk, VolunteerGroups, AcceptExits, VolunteerChatExits, RateExits}

-----------------------------------------------------------------------------
Top == stack[Len(stack)]
Shown == {stack[i] : i \in 1..Len(stack)}

(* The navigators that two routes share, counted from the root. *)
Shared(a, b) ==
  CHOOSE n \in 0..Len(a) :
    /\ n < Len(a) /\ n < Len(b) /\ \A i \in 1..n : a[i] = b[i]
    /\ ~(n + 1 < Len(a) /\ n + 1 < Len(b) /\ a[n + 1] = b[n + 1])

(* a and b are inside one entry of the navigator at depth d. *)
SameEntry(a, b, d) ==
  Len(a) > d + 1 /\ Len(b) > d + 1 /\ \A i \in 1..(d + 1) : a[i] = b[i]

Pushed(st, to) == Append(st, to)
Replaced(st, to) ==
  LET top == st[Len(st)]
      kept == {i \in 1..(Len(st) - 1) :
                 \E m \in i..(Len(st) - 1) : ~SameEntry(st[m], top, Shared(top, to))}
  IN Append(SubSeq(st, 1, Cardinality(kept)), to)

(* <Slot/> renders the last entry of the root only. *)
Mounted(st, s) == \E i \in 1..Len(st) :
  st[i] = s /\ \A j \in i..Len(st) : st[j][1] = st[Len(st)][1]

Call(kind, as) == [kind |-> kind, at |-> Top, by |-> who, as |-> as, live |-> TRUE]
Busy(kind) == \E c \in calls : c.kind = kind /\ c.live /\ c.at = Top

(* The stack becomes st and the calls cs; the screens that are gone hear   *)
(* no answer, and a pending screen without a status fetches it.            *)
GoTo(st, cs) ==
  /\ Len(st) <= MaxStack
  /\ stack' = st
  /\ calls' = {[c EXCEPT !.live = c.live /\ Mounted(st, c.at)] : c \in cs}

(* ... and a pending screen opened without a status fetches it.            *)
GoToPending(cs) ==
  GoTo(Replaced(stack, PendingScreen),
       cs \cup {[kind |-> "mount", at |-> PendingScreen, by |-> who, as |-> NoOne, live |-> TRUE]})

Troubled(ms) ==
  /\ ms \subseteq AllowTrouble
  /\ trouble' = trouble \cup ms
  /\ Cardinality(trouble') <= MaxTrouble
When(case, m) == IF case THEN {m} ELSE {}
Late(c) == When(~c.live \/ c.at # Top, "late")
Ungated(r) == When(r = "volunteer" /\ status # "approved", "ungated")

-----------------------------------------------------------------------------
AuthPage ==
  {"signupNlogin", "signIn", "signUp", "enterEmail", "OTPVerification", "CreateNewPassword",
   "ResetPassword", "loginSuccessful", "registerSuccessful", "verify"}
Route ==
  {Index, Welcome, ComingSoon, Waiting, Accept, PendingScreen, Rejected, ChangePassword, TnS}
    \cup {Begin(r, page) : r \in Role, page \in {"selectLanguage", "specialnotice"}}
    \cup {Auth(r, page) : r \in Role, page \in AuthPage}
    \cup UNION {{Home(r), Chat(r), Rate(r), Other(r)} : r \in Role}

CallType ==
  [kind: CallKind, at: Route, by: Role \cup {NoOne}, as: Role \cup {NoOne}, live: BOOLEAN]

NavTypeOK ==
  /\ stack \in Seq(Route) /\ Len(stack) \in 1..MaxStack
  /\ who \in Role \cup {NoOne} /\ known \in BOOLEAN /\ (known => who # NoOne)
  /\ status \in Status
  /\ calls \subseteq CallType /\ trouble \subseteq AllowTrouble

NavInit ==
  /\ stack = <<Index>>
  /\ who \in Role \cup {NoOne} /\ known = FALSE
  /\ status \in Status
  /\ calls = {} /\ trouble = {}

(* The app is killed and started again: the tokens are restored, the       *)
(* account is not.                                                         *)
Restart ==
  /\ stack # <<Index>>
  /\ stack' = <<Index>> /\ known' = FALSE /\ calls' = {} /\ trouble' = {}
  /\ UNCHANGED <<who, status>>

(* A button or a timer of the screen in front. *)
Follow(st, e) == IF e.how = "push" THEN Pushed(st, e.to) ELSE Replaced(st, e.to)
Loading == Top = PendingScreen /\ Busy("mount")

Press ==
  /\ \E x \in Exits :
       /\ x[1] = Top
       /\ x[2].how = "push" => x[2].to \notin Shown  \* bound: a route is pushed once
       /\ GoTo(Follow(stack, x[2]), calls)
       /\ Troubled(When(x \in TestExits, "test_screen"))
  /\ UNCHANGED <<who, known, status>>

(* router.back(), the back button and the gesture. *)
GoBack ==
  /\ Len(stack) > 1
  /\ GoTo(SubSeq(stack, 1, Len(stack) - 1), calls)
  /\ UNCHANGED <<who, known, status, trouble>>

(* A call of the screen in front, its button being off while it runs. *)
Ask(kind, as) ==
  /\ ~Busy(kind) /\ Cardinality(calls) < NavCalls
  /\ Call(kind, as) \notin calls
  /\ calls' = calls \cup {Call(kind, as)}
  /\ UNCHANGED <<stack, who, known, status, trouble>>

TapLogin == \E s, r \in Role : Top = Auth(s, "signIn") /\ Ask("login", r)
(* bound: one volunteer account, so he registers before he applies *)
TapRegister == \E s \in Role :
  (s = "volunteer" => status = "none") /\ Top = Auth(s, "signUp") /\ Ask("register", s)
TapApply == Top = Auth("volunteer", "verify") /\ Ask("apply", NoOne)
TapCheck == Top = PendingScreen /\ ~Loading /\ Ask("check", NoOne)
TapLogout == Top \in {Home(r) : r \in Role} /\ who # NoOne /\ Ask("logout", NoOne)
TapForgot == Top = Auth("user", "enterEmail") /\ Ask("forgot", NoOne)
TapOtp == Top = Auth("user", "OTPVerification") /\ Ask("otp", NoOne)
TapPassword == Top = ChangePassword /\ Ask("password", NoOne)
TapRate == Top \in {Rate(r) : r \in Role} /\ Ask("rate", NoOne)

-----------------------------------------------------------------------------
(* The splash screen is over: `userRole || envRole`.  The latter is that   *)
(* of the screens shown last or, at the start, EXPO_PUBLIC_ROLE of the     *)
(* build, which may be for either role or for none.  The flag AUTH_BYPASS  *)
(* (48-51) of development builds, which skips accounts and gate, is off.   *)
ResolvedRole(env) ==
  IF who = NoOne THEN NoOne
  ELSE IF known THEN who
  ELSE IF Len(stack) > 1 THEN "user" ELSE env

Redirect ==
  /\ Top = Index /\ ~Busy("gate")
  /\ \E env \in Role \cup {NoOne} :
       LET role == ResolvedRole(env) IN
         /\ CASE role = "volunteer" -> GoTo(stack, calls \cup {Call("gate", NoOne)})
              [] role = "user" -> GoTo(Replaced(stack, Home("user")), calls)
              [] OTHER -> GoTo(Replaced(stack, Welcome), calls)
         /\ Troubled(When(role # who, "env_role"))
  /\ UNCHANGED <<who, known, status>>

(* GET /volunteer/profile: only an account that has applied has one.       *)
Answers(c) ==
  {"failed"} \cup (IF c.by = "volunteer" /\ status # "none" THEN {status} ELSE {})

Mut_HoldRejectedOnly(answer) ==
  IF answer = "rejected" THEN Rejected
  ELSE IF answer = "failed" THEN PendingScreen ELSE Home("volunteer")

(* Where VolunteerGate goes.  A fetch that failed leads to the pending     *)
(* screen (28-34); the comment over it (11) says to the home.              *)
GateTarget(answer) ==
  IF answer = "approved" THEN Home("volunteer")
  ELSE IF answer = "rejected" THEN Rejected ELSE PendingScreen

GateAnswered(c) ==
  /\ c.kind = "gate"
  /\ \E answer \in Answers(c) :
       IF answer = "failed" /\ GateTarget(answer) = PendingScreen
       THEN GoToPending(calls \ {c})
       ELSE GoTo(Replaced(stack, GateTarget(answer)), calls \ {c})
  /\ Troubled(Late(c))
  /\ UNCHANGED <<who, known, status>>

(* The pending screen turns into the rejected one where it is. *)
ShowRejected(c) ==
  IF c.live THEN [i \in 1..Len(stack) |-> IF stack[i] = PendingScreen THEN Rejected ELSE stack[i]]
  ELSE stack

(* The automatic and the manual check of the pending screen. *)
CheckAnswered(c) ==
  /\ c.kind \in {"mount", "check"}
  /\ \E answer \in Answers(c) :
       /\ CASE answer = "approved" -> GoTo(Replaced(stack, Home("volunteer")), calls \ {c})
            [] answer = "rejected" -> GoTo(ShowRejected(c), calls \ {c})
            [] OTHER -> GoTo(stack, calls \ {c})
       /\ Troubled(When(answer = "approved" /\ (~c.live \/ c.at # Top), "late"))
  /\ UNCHANGED <<who, known, status>>

-----------------------------------------------------------------------------
LoginAnswered(c) ==
  /\ c.kind = "login"
  /\ who' = c.as /\ known' = TRUE
  /\ GoTo(Replaced(stack, <<c.at[1], "authScreens", "loginSuccessful">>), calls \ {c})
  /\ Troubled(Late(c))
  /\ UNCHANGED status

(* loginSuccessful, five seconds later. *)
LoginDone ==
  /\ Top \in {Auth(r, "loginSuccessful") : r \in Role}
  /\ LET r == IF known /\ who = "volunteer" THEN "volunteer" ELSE "user" IN
       /\ GoTo(Replaced(stack, Home(r)), calls)
       /\ Troubled(Ungated(r))
  /\ UNCHANGED <<who, known, status>>

(* A fresh account; the phone could not keep its tokens in the last case.  *)
RegisterAnswered(c) ==
  /\ c.kind = "register"
  /\ \/ /\ who' = c.as /\ known' = TRUE
        /\ GoTo(IF c.as = "user" THEN Replaced(stack, Auth("user", "registerSuccessful"))
                ELSE Pushed(stack, Auth("volunteer", "registerSuccessful")),
                calls \ {c})
     \/ /\ who' = NoOne /\ known' = FALSE
        /\ GoTo(Replaced(stack, Auth(c.as, "signIn")), calls \ {c})
  /\ Troubled(Late(c))
  /\ UNCHANGED status

(* onSuccess of `apply` runs only while the form is mounted. *)
ApplyAnswered(c) ==
  /\ c.kind = "apply" /\ c.by = "volunteer" /\ status \in {"none", "rejected"}
  /\ status' = "pending"
  /\ IF c.live THEN GoToPending(calls \ {c}) ELSE GoTo(stack, calls \ {c})
  /\ Troubled(When(c.live /\ c.at # Top, "late"))
  /\ UNCHANGED <<who, known>>

Mut_WelcomePushed(st) == Append(st, Welcome)

(* Where the phone goes once it has signed out. *)
SignedOut(st) == Replaced(st, Welcome)

(* handleLogout of the settings: whatever the backend answered. *)
LogoutAnswered(c) ==
  /\ c.kind = "logout"
  /\ who' = NoOne /\ known' = FALSE
  /\ GoTo(SignedOut(stack), calls \ {c})
  /\ Troubled(Late(c))
  /\ UNCHANGED status

(* handleSignOut of the pending screen asks nobody; nor does handleLogout  *)
(* of a phone that has lost its tokens.                                    *)
SignOutHere ==
  /\ \/ Top \in {PendingScreen, Rejected} /\ ~Loading
     \/ Top \in {Home(r) : r \in Role} /\ who = NoOne
  /\ who' = NoOne /\ known' = FALSE
  /\ GoTo(SignedOut(stack), calls)
  /\ UNCHANGED <<status, trouble>>

ForgotAnswered(c) ==
  /\ c.kind \in {"forgot", "otp"}
  /\ GoTo(Pushed(stack, Auth("user", IF c.kind = "forgot" THEN "OTPVerification"
                                     ELSE "CreateNewPassword")), calls \ {c})
  /\ Troubled(Late(c))
  /\ UNCHANGED <<who, known, status>>

(* The alert's OK goes back. *)
PasswordAnswered(c) ==
  /\ c.kind = "password" /\ Len(stack) > 1
  /\ GoTo(SubSeq(stack, 1, Len(stack) - 1), calls \ {c})
  /\ Troubled(Late(c))
  /\ UNCHANGED <<who, known, status>>

(* onSuccess and the 409 of a rating. *)
RateAnswered(c) ==
  /\ c.kind = "rate"
  /\ GoTo(Replaced(stack, Home(c.at[1])), calls \ {c})
  /\ Troubled(Late(c))
  /\ UNCHANGED <<who, known, status>>

(* Any other call fails with an alert. *)
CallFailed(c) ==
  /\ c.kind \notin {"gate", "mount", "check", "logout"}
  /\ GoTo(stack, calls \ {c})
  /\ UNCHANGED <<who, known, status, trouble>>

-----------------------------------------------------------------------------
(* session:matched, heard by a volunteer who has signed in. *)
Matched ==
  /\ known /\ who = "volunteer" /\ status = "approved"
  /\ GoTo(Pushed(stack, Chat("volunteer")), calls)
  /\ Troubled(When(Top[1] # "volunteer", "split"))
  /\ UNCHANGED <<who, known, status>>

Reset ==
  /\ who # NoOne
  /\ who' = NoOne /\ known' = FALSE
  /\ Troubled({"reset"})
  /\ UNCHANGED <<stack, status, calls>>

(* A reviewer decides. *)
Decide ==
  /\ status = "pending" /\ status' \in {"approved", "rejected"}
  /\ UNCHANGED <<stack, who, known, calls, trouble>>

Answered(c) ==
  \/ GateAnswered(c) \/ CheckAnswered(c) \/ LoginAnswered(c) \/ RegisterAnswered(c)
  \/ ApplyAnswered(c) \/ LogoutAnswered(c) \/ ForgotAnswered(c) \/ PasswordAnswered(c)
  \/ RateAnswered(c) \/ CallFailed(c)

NavNext ==
  \/ Restart \/ Press \/ GoBack \/ Redirect \/ LoginDone \/ SignOutHere \/ Matched \/ Reset \/ Decide
  \/ TapLogin \/ TapRegister \/ TapApply \/ TapCheck \/ TapLogout \/ TapForgot \/ TapOtp
  \/ TapPassword \/ TapRate
  \/ \E c \in calls : Answered(c)

NavSpec == NavInit /\ [][NavNext]_navVars

-----------------------------------------------------------------------------
(* Nobody is in the volunteers' home before he is approved, however he got *)
(* there: from the splash screen, the pending screen, a rating or a match  *)
(* (index.tsx:12-36, verificationPending.tsx:43-102), unless by signing in *)
(* (loginSuccessful.tsx:13-24).  index.tsx contradicts itself on a fetch   *)
(* that failed: the comment of line 11 reads "falls back to volunteer home *)
(* (never blocks the user)", the catch and its comment (29-30, "don't      *)
(* bypass the gate") hold him at the pending screen.  The property takes   *)
(* the side of the code.                                                   *)
HomeIsVerified ==
  (\E i \in 1..Len(stack) : stack[i] = Home("volunteer")) /\ "ungated" \notin trouble
    => status = "approved"

(* The screens of the seekers and those of the volunteers are in the stack *)
(* only while the phone is signed in with such an account: going back      *)
(* never leads to a screen of an account that has signed out.              *)
OwnScreens ==
  trouble \cap {"late", "reset", "env_role", "test_screen", "split"} = {}
    => \A i \in 1..Len(stack) : stack[i][1] \in Role => stack[i][1] = who
=============================================================================
