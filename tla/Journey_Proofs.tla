---------------------------- MODULE Journey_Proofs ----------------------------
(***************************************************************************)
(* What the phones show is true, for any number of seekers, volunteers and *)
(* sessions, with any number of dropped connections and lost answers.      *)
(***************************************************************************)
EXTENDS Journey, TLAPS

IInv == TypeOK /\ Truth /\ ScreensTellTruth

(* Appending a notice to the sockets of some accounts adds it to what is   *)
(* on its way, for these accounts alone.                                   *)
LEMMA EmitAdds ==
  ASSUME inbox \in [Account -> Seq(Notice)], NEW to, NEW n \in Notice, Emit(to, n)
  PROVE  /\ inbox' \in [Account -> Seq(Notice)]
         /\ \A a \in Account : link[a] = "down" => inbox'[a] = inbox[a]
         /\ \A a \in Account : Notices(a)' \subseteq Notices(a) \cup {n}
         /\ \A a \in Account : a \notin to => Notices(a)' = Notices(a)
BY DEF Emit, Notices, Listening

(* Taking the first notice leaves the others. *)
LEMMA TailKeeps ==
  ASSUME inbox \in [Account -> Seq(Notice)], NEW b \in Account, inbox[b] # <<>>,
         inbox' = [inbox EXCEPT ![b] = Tail(@)]
  PROVE  /\ inbox' \in [Account -> Seq(Notice)]
         /\ Head(inbox[b]) \in Notices(b) /\ Head(inbox[b]) \in Notice
         /\ \A a \in Account : Notices(a)' \subseteq Notices(a)
         /\ \A a \in Account : inbox[a] = <<>> => inbox'[a] = <<>>
BY DEF Notices

(* Dropping the connection loses them all. *)
LEMMA DropLoses ==
  ASSUME inbox \in [Account -> Seq(Notice)], NEW b \in Account,
         inbox' = [inbox EXCEPT ![b] = <<>>]
  PROVE  /\ inbox' \in [Account -> Seq(Notice)]
         /\ \A a \in Account : Notices(a)' \subseteq Notices(a)
BY DEF Notices

LEMMA NoticesTyped ==
  ASSUME inbox \in [Account -> Seq(Notice)], NEW a \in Account
  PROVE  Notices(a) \subseteq Notice
BY DEF Notices

LEMMA InitHolds == Init => IInv
<1> SUFFICES ASSUME Init PROVE IInv
  OBVIOUS
<1>1. TypeOK
  BY JourneyConstants DEF Init, TypeOK, SeekerScreen, VolunteerScreen, Home, Idle, NoFetch, Account
<1>2. \A a \in Account : Notices(a) = {}
  BY DEF Init, Notices
<1>3. Truth
  BY <1>2, JourneyConstants
  DEF Init, Truth, NoticesTrue, AnswersTrue, CallsTrue, EndsTrue, Idle, Account
<1>4. ScreensTellTruth
  BY DEF Init, ScreensTellTruth, ScreenTrue, Home
<1> QED
  BY <1>1, <1>3, <1>4 DEF IInv

(* The actions, one by one. *)
LEMMA StepCases ==
  [Next]_vars =>
    \/ UNCHANGED vars
    \/ \E s \in Session : TapConnect(s)
    \/ \E s \in Session : Refuse(s)
    \/ \E s \in Session, v \in Volunteer : MatchNow(s, v)
    \/ \E s \in Session : OpenWaiting(s)
    \/ \E s \in Session : PublishWaiting(s)
    \/ \E s \in Session : TakeConnectAnswer(s)
    \/ \E s \in Session : LoseConnectAnswer(s)
    \/ \E v \in Volunteer, s \in Session : OpenOffer(v, s)
    \/ \E v \in Volunteer : Decline(v)
    \/ \E v \in Volunteer : TapAccept(v)
    \/ \E v \in Volunteer : RefuseAccept(v)
    \/ \E v \in Volunteer : Claim(v)
    \/ \E v \in Volunteer : EmitMatched(v)
    \/ \E v \in Volunteer : EmitAccepted(v)
    \/ \E v \in Volunteer : TakeAcceptAnswer(v)
    \/ \E v \in Volunteer : LoseAcceptAnswer(v)
    \/ \E s \in Session : MatchTimeout(s)
    \/ \E s \in Session : EmitEnded(s)
    \/ \E k \in Seeker : HearSeeker(k)
    \/ \E v \in Volunteer : HearVolunteer(v)
    \/ \E v \in Volunteer : Poll(v)
    \/ \E v \in Volunteer : TakeList(v)
    \/ \E a \in Account : Drop(a)
    \/ \E a \in Account : Reopen(a)
    \/ \E a \in Account : Register(a)
    \/ \E k \in Seeker : LeaveWaiting(k)
    \/ \E a \in Account : EndChat(a)
    \/ \E a \in Account : LeaveChat(a)
BY DEF Next, Tap, Lose, Connecting, Accepting

(* What a step may do to a session: a match lasts until the end of the     *)
(* chat and keeps its listener, a cancellation lasts, and a session that   *)
(* was opened is not refused afterwards.                                   *)
Grows ==
  \A s \in Session :
    /\ state[s] \in {"matched", "over"} => state'[s] \in {"matched", "over"} /\ listener'[s] = listener[s]
    /\ state[s] = "cancelled" => state'[s] = "cancelled"
    /\ state[s] \notin {"none", "refused"} => state'[s] \notin {"none", "refused"}

(* Every step does only that. *)
LEMMA StatesGrow == IInv /\ [Next]_vars => Grows
  <1> SUFFICES ASSUME IInv, [Next]_vars PROVE Grows
    OBVIOUS
  <1>1. ASSUME NEW s \in Session, Refuse(s) PROVE Grows
    BY <1>1 DEF Refuse, IInv, TypeOK, Grows
  <1>2. ASSUME NEW s \in Session, NEW v \in Volunteer, MatchNow(s, v) PROVE Grows
    BY <1>2 DEF MatchNow, IInv, TypeOK, Grows
  <1>3. ASSUME NEW s \in Session, OpenWaiting(s) PROVE Grows
    BY <1>3 DEF OpenWaiting, IInv, TypeOK, Grows
  <1>4. ASSUME NEW s \in Session, MatchTimeout(s) PROVE Grows
    BY <1>4 DEF MatchTimeout, IInv, TypeOK, Grows
  <1>5. ASSUME NEW v \in Volunteer, Claim(v) PROVE Grows
    BY <1>5 DEF Claim, Claimable, IInv, TypeOK, Grows
  <1>6. ASSUME NEW a \in Account, EndChat(a) PROVE Grows
    BY <1>6 DEF EndChat, IInv, TypeOK, Grows
  <1>7. ASSUME UNCHANGED <<state, listener>> PROVE Grows
    BY <1>7 DEF Grows
  <1>8. \/ UNCHANGED <<state, listener>>
        \/ \E s \in Session : Refuse(s)
        \/ \E s \in Session, v \in Volunteer : MatchNow(s, v)
        \/ \E s \in Session : OpenWaiting(s)
        \/ \E s \in Session : MatchTimeout(s)
        \/ \E v \in Volunteer : Claim(v)
        \/ \E a \in Account : EndChat(a)
    BY StepCases DEF TapConnect, PublishWaiting, TakeConnectAnswer, LoseConnectAnswer,
           OpenOffer, Decline, TapAccept, RefuseAccept, EmitMatched, EmitAccepted,
           TakeAcceptAnswer, LoseAcceptAnswer, EmitEnded, HearSeeker, HearVolunteer,
           Poll, TakeList, Drop, Reopen, Register, LeaveWaiting, LeaveChat, vars,
           serverVars, phoneVars
  <1> QED
    BY <1>1, <1>2, <1>3, <1>4, <1>5, <1>6, <1>7, <1>8

(* A notice stays true: what it announces is final. *)
LEMMA NoticesStayTrue == IInv /\ [Next]_vars => NoticesTrue'
  <1> SUFFICES ASSUME IInv, [Next]_vars PROVE NoticesTrue'
    OBVIOUS
  <1>a. Grows
    BY StatesGrow
  <1>b. ASSUME \A k \in Seeker : Notices(k)' \subseteq Notices(k) PROVE NoticesTrue'
    <2>1. \A k \in Seeker : Notices(k) \subseteq Notice
      BY NoticesTyped DEF IInv, TypeOK, Account
    <2> QED
      BY <1>a, <1>b, <2>1 DEF IInv, Truth, NoticesTrue, Notice, Grows
  <1>1. ASSUME NEW s \in Session, PublishWaiting(s) PROVE NoticesTrue'
    <2>1. <<"session:waiting", s>> \in Notice
      BY <1>1 DEF PublishWaiting, IInv, TypeOK, Notice, Idle
    <2>2. Emit(Volunteer, <<"session:waiting", s>>)
      BY <1>1 DEF PublishWaiting
    <2>3. \A k \in Seeker : Notices(k)' = Notices(k)
      BY <2>1, <2>2, EmitAdds, JourneyConstants DEF IInv, TypeOK, Account
    <2> QED
      BY <2>3, <1>b
  <1>2. ASSUME NEW v \in Volunteer, EmitAccepted(v) PROVE NoticesTrue'
    <2>1. <<"session:accepted", call[v][2]>> \in Notice
      BY <1>2 DEF EmitAccepted, IInv, TypeOK, Notice, Idle
    <2>2. Emit(Volunteer, <<"session:accepted", call[v][2]>>)
      BY <1>2 DEF EmitAccepted
    <2>3. \A k \in Seeker : Notices(k)' = Notices(k)
      BY <2>1, <2>2, EmitAdds, JourneyConstants DEF IInv, TypeOK, Account
    <2> QED
      BY <2>3, <1>b
  <1>3. ASSUME NEW v \in Volunteer, EmitMatched(v) PROVE NoticesTrue'
    <2>1. call[v][2] \in Session /\ <<"session:matched", call[v][2]>> \in Notice
      BY <1>3 DEF EmitMatched, IInv, TypeOK, Notice, Idle
    <2>2. Emit({SeekerOf[call[v][2]]}, <<"session:matched", call[v][2]>>)
      BY <1>3 DEF EmitMatched, TellSeeker
    <2>3. \A k \in Seeker : \/ Notices(k)' = Notices(k)
                            \/ k = SeekerOf[call[v][2]] /\ Notices(k)' \subseteq Notices(k) \cup {<<"session:matched", call[v][2]>>}
      BY <2>1, <2>2, EmitAdds, JourneyConstants DEF IInv, TypeOK, Account
    <2>4. UNCHANGED state
      BY <1>3 DEF EmitMatched
    <2>5. state[call[v][2]] \in {"matched", "over"}
      BY <1>3 DEF EmitMatched, IInv, Truth, CallsTrue
    <2> QED
      BY <2>1, <2>3, <2>4, <2>5 DEF IInv, Truth, NoticesTrue
  <1>4. ASSUME NEW s \in Session, EmitEnded(s) PROVE NoticesTrue'
    <2>1. s \in Session /\ <<"session:ended", s>> \in Notice
      BY <1>4 DEF EmitEnded, IInv, TypeOK, Notice, Idle
    <2>2. Emit({SeekerOf[s]}, <<"session:ended", s>>)
      BY <1>4 DEF EmitEnded, TellSeeker
    <2>3. \A k \in Seeker : \/ Notices(k)' = Notices(k)
                            \/ k = SeekerOf[s] /\ Notices(k)' \subseteq Notices(k) \cup {<<"session:ended", s>>}
      BY <2>1, <2>2, EmitAdds, JourneyConstants DEF IInv, TypeOK, Account
    <2>4. UNCHANGED state
      BY <1>4 DEF EmitEnded
    <2>5. state[s] = "cancelled"
      BY <1>4 DEF EmitEnded, IInv, Truth, EndsTrue
    <2> QED
      BY <2>1, <2>3, <2>4, <2>5 DEF IInv, Truth, NoticesTrue
  <1>5. ASSUME NEW k \in Seeker, HearSeeker(k) PROVE NoticesTrue'
    <2>1. k \in Account
      BY DEF Account
    <2>2. \A b \in Account : Notices(b)' \subseteq Notices(b)
      BY <1>5, <2>1, TailKeeps DEF HearSeeker, IInv, TypeOK
    <2> QED
      BY <2>2, <1>b DEF Account
  <1>6. ASSUME NEW v \in Volunteer, HearVolunteer(v) PROVE NoticesTrue'
    <2>1. v \in Account
      BY DEF Account
    <2>2. \A b \in Account : Notices(b)' \subseteq Notices(b)
      BY <1>6, <2>1, TailKeeps DEF HearVolunteer, IInv, TypeOK
    <2> QED
      BY <2>2, <1>b DEF Account
  <1>7. ASSUME NEW a \in Account, Drop(a) PROVE NoticesTrue'
    <2>1. a \in Account
      BY DEF Account
    <2>2. \A b \in Account : Notices(b)' \subseteq Notices(b)
      BY <1>7, <2>1, DropLoses DEF Drop, IInv, TypeOK
    <2> QED
      BY <2>2, <1>b DEF Account
  <1>8. ASSUME UNCHANGED <<inbox>> PROVE NoticesTrue'
    <2>1. \A k \in Seeker : Notices(k)' = Notices(k)
      BY <1>8 DEF Notices
    <2> QED
      BY <2>1, <1>b
  <1>9. \/ UNCHANGED <<inbox>>
        \/ \E s \in Session : PublishWaiting(s)
        \/ \E v \in Volunteer : EmitAccepted(v)
        \/ \E v \in Volunteer : EmitMatched(v)
        \/ \E s \in Session : EmitEnded(s)
        \/ \E k \in Seeker : HearSeeker(k)
        \/ \E v \in Volunteer : HearVolunteer(v)
        \/ \E a \in Account : Drop(a)
    BY StepCases DEF TapConnect, Refuse, MatchNow, OpenWaiting, TakeConnectAnswer,
           LoseConnectAnswer, OpenOffer, Decline, TapAccept, RefuseAccept, Claim,
           TakeAcceptAnswer, LoseAcceptAnswer, MatchTimeout, Poll, TakeList, Reopen,
           Register, LeaveWaiting, EndChat, LeaveChat, vars, serverVars, phoneVars
  <1> QED
    BY <1>1, <1>2, <1>3, <1>4, <1>5, <1>6, <1>7, <1>8, <1>9

(* So does the answer to a connect request. *)
LEMMA AnswersStayTrue == IInv /\ [Next]_vars => AnswersTrue'
  <1> SUFFICES ASSUME IInv, [Next]_vars PROVE AnswersTrue'
    OBVIOUS
  <1>a. Grows
    BY StatesGrow
  <1>1. ASSUME NEW s \in Session, TapConnect(s) PROVE AnswersTrue'
    BY <1>a, <1>1 DEF TapConnect, IInv, TypeOK, Truth, AnswersTrue, Grows
  <1>2. ASSUME NEW s \in Session, Refuse(s) PROVE AnswersTrue'
    BY <1>a, <1>2 DEF Refuse, IInv, TypeOK, Truth, AnswersTrue, Grows
  <1>3. ASSUME NEW s \in Session, OpenWaiting(s) PROVE AnswersTrue'
    BY <1>a, <1>3 DEF OpenWaiting, IInv, TypeOK, Truth, AnswersTrue, Grows
  <1>4. ASSUME NEW s \in Session, NEW v \in Volunteer, MatchNow(s, v) PROVE AnswersTrue'
    BY <1>a, <1>4 DEF MatchNow, IInv, TypeOK, Truth, AnswersTrue, Grows
  <1>5. ASSUME NEW s \in Session, PublishWaiting(s) PROVE AnswersTrue'
    BY <1>a, <1>5 DEF PublishWaiting, IInv, TypeOK, Truth, AnswersTrue, Grows
  <1>6. ASSUME NEW s \in Session, TakeConnectAnswer(s) PROVE AnswersTrue'
    BY <1>a, <1>6 DEF TakeConnectAnswer, IInv, TypeOK, Truth, AnswersTrue, Grows
  <1>7. ASSUME NEW s \in Session, LoseConnectAnswer(s) PROVE AnswersTrue'
    BY <1>a, <1>7 DEF LoseConnectAnswer, IInv, TypeOK, Truth, AnswersTrue, Grows
  <1>8. ASSUME UNCHANGED <<request, answer>> PROVE AnswersTrue'
    BY <1>a, <1>8, JourneyConstants DEF IInv, TypeOK, Truth, AnswersTrue, Grows
  <1>9. \/ UNCHANGED <<request, answer>>
        \/ \E s \in Session : TapConnect(s)
        \/ \E s \in Session : Refuse(s)
        \/ \E s \in Session : OpenWaiting(s)
        \/ \E s \in Session, v \in Volunteer : MatchNow(s, v)
        \/ \E s \in Session : PublishWaiting(s)
        \/ \E s \in Session : TakeConnectAnswer(s)
        \/ \E s \in Session : LoseConnectAnswer(s)
    BY StepCases DEF OpenOffer, Decline, TapAccept, RefuseAccept, Claim, EmitMatched,
           EmitAccepted, TakeAcceptAnswer, LoseAcceptAnswer, MatchTimeout, EmitEnded,
           HearSeeker, HearVolunteer, Poll, TakeList, Drop, Reopen, Register,
           LeaveWaiting, EndChat, LeaveChat, vars, serverVars, phoneVars
  <1> QED
    BY <1>1, <1>2, <1>3, <1>4, <1>5, <1>6, <1>7, <1>8, <1>9

(* And what accept() is about to say. *)
LEMMA CallsStayTrue == IInv /\ [Next]_vars => CallsTrue'
  <1> SUFFICES ASSUME IInv, [Next]_vars PROVE CallsTrue'
    OBVIOUS
  <1>a. Grows
    BY StatesGrow
  <1>1. ASSUME NEW v \in Volunteer, TapAccept(v) PROVE CallsTrue'
    BY <1>a, <1>1, JourneyConstants DEF TapAccept, IInv, TypeOK, Truth, CallsTrue, Grows, Idle
  <1>2. ASSUME NEW v \in Volunteer, RefuseAccept(v) PROVE CallsTrue'
    BY <1>a, <1>2, JourneyConstants DEF RefuseAccept, IInv, TypeOK, Truth, CallsTrue, Grows, Idle
  <1>3. ASSUME NEW v \in Volunteer, Claim(v) PROVE CallsTrue'
    BY <1>a, <1>3, JourneyConstants DEF Claim, IInv, TypeOK, Truth, CallsTrue, Grows, Idle
  <1>4. ASSUME NEW v \in Volunteer, EmitMatched(v) PROVE CallsTrue'
    BY <1>a, <1>4, JourneyConstants DEF EmitMatched, IInv, TypeOK, Truth, CallsTrue, Grows, Idle
  <1>5. ASSUME NEW v \in Volunteer, EmitAccepted(v) PROVE CallsTrue'
    BY <1>a, <1>5, JourneyConstants DEF EmitAccepted, IInv, TypeOK, Truth, CallsTrue, Grows, Idle
  <1>6. ASSUME NEW v \in Volunteer, TakeAcceptAnswer(v) PROVE CallsTrue'
    BY <1>a, <1>6, JourneyConstants DEF TakeAcceptAnswer, IInv, TypeOK, Truth, CallsTrue, Grows, Idle
  <1>7. ASSUME NEW v \in Volunteer, LoseAcceptAnswer(v) PROVE CallsTrue'
    BY <1>a, <1>7, JourneyConstants DEF LoseAcceptAnswer, IInv, TypeOK, Truth, CallsTrue, Grows, Idle
  <1>8. ASSUME UNCHANGED <<call>> PROVE CallsTrue'
    BY <1>a, <1>8 DEF IInv, TypeOK, Truth, CallsTrue, Grows, Idle
  <1>9. \/ UNCHANGED <<call>>
        \/ \E v \in Volunteer : TapAccept(v)
        \/ \E v \in Volunteer : RefuseAccept(v)
        \/ \E v \in Volunteer : Claim(v)
        \/ \E v \in Volunteer : EmitMatched(v)
        \/ \E v \in Volunteer : EmitAccepted(v)
        \/ \E v \in Volunteer : TakeAcceptAnswer(v)
        \/ \E v \in Volunteer : LoseAcceptAnswer(v)
    BY StepCases DEF TapConnect, Refuse, MatchNow, OpenWaiting, PublishWaiting,
           TakeConnectAnswer, LoseConnectAnswer, OpenOffer, Decline, MatchTimeout,
           EmitEnded, HearSeeker, HearVolunteer, Poll, TakeList, Drop, Reopen, Register,
           LeaveWaiting, EndChat, LeaveChat, vars, serverVars, phoneVars
  <1> QED
    BY <1>1, <1>2, <1>3, <1>4, <1>5, <1>6, <1>7, <1>8, <1>9

(* And what match:timeout is about to say. *)
LEMMA EndsStayTrue == IInv /\ [Next]_vars => EndsTrue'
  <1> SUFFICES ASSUME IInv, [Next]_vars PROVE EndsTrue'
    OBVIOUS
  <1>a. Grows
    BY StatesGrow
  <1>1. ASSUME NEW s \in Session, MatchTimeout(s) PROVE EndsTrue'
    BY <1>a, <1>1 DEF MatchTimeout, IInv, TypeOK, Truth, EndsTrue, Grows
  <1>2. ASSUME NEW s \in Session, EmitEnded(s) PROVE EndsTrue'
    BY <1>a, <1>2 DEF EmitEnded, IInv, TypeOK, Truth, EndsTrue, Grows
  <1>3. ASSUME UNCHANGED <<timeout>> PROVE EndsTrue'
    BY <1>a, <1>3 DEF IInv, TypeOK, Truth, EndsTrue, Grows
  <1>4. \/ UNCHANGED <<timeout>>
        \/ \E s \in Session : MatchTimeout(s)
        \/ \E s \in Session : EmitEnded(s)
    BY StepCases DEF TapConnect, Refuse, MatchNow, OpenWaiting, PublishWaiting,
           TakeConnectAnswer, LoseConnectAnswer, OpenOffer, Decline, TapAccept,
           RefuseAccept, Claim, EmitMatched, EmitAccepted, TakeAcceptAnswer,
           LoseAcceptAnswer, HearSeeker, HearVolunteer, Poll, TakeList, Drop, Reopen,
           Register, LeaveWaiting, EndChat, LeaveChat, vars, serverVars, phoneVars
  <1> QED
    BY <1>1, <1>2, <1>3, <1>4

(* What account a may be shown after the step. *)
Fits(a, page) ==
  \A s \in Session :
    /\ page = <<"chat", s>> => state'[s] \in {"matched", "over"} /\ a \in {SeekerOf[s], listener'[s]}
    /\ page = <<"timeout", s>> => state'[s] = "cancelled" /\ a = SeekerOf[s]
    /\ page = <<"waiting", s>> => state'[s] \notin {"none", "refused"} /\ a = SeekerOf[s]

(* A screen opens on what the phone has been told, and stays true. *)
LEMMA ScreensStayTrue == IInv /\ [Next]_vars => ScreensTellTruth'
  <1> SUFFICES ASSUME IInv, [Next]_vars PROVE ScreensTellTruth'
    OBVIOUS
  <1>a. Grows
    BY StatesGrow
  <1>b. ASSUME \A a \in Account : screen'[a] \in {screen[a], Home} PROVE ScreensTellTruth'
    <2> SUFFICES ASSUME NEW a \in Account, NEW s \in Session
                 PROVE  ScreenTrue(a, s)'
      BY DEF ScreensTellTruth, ScreenTrue
    <2>1. <<"chat", s>> # Home /\ <<"timeout", s>> # Home /\ <<"waiting", s>> # Home
      BY DEF Home
    <2>2. ScreenTrue(a, s)
      BY DEF IInv, ScreensTellTruth, ScreenTrue
    <2> QED
      BY <1>a, <1>b, <2>1, <2>2 DEF Grows, ScreenTrue
  <1>c. ASSUME NEW b \in Account, NEW page, screen' = [screen EXCEPT ![b] = page], Fits(b, page),
               UNCHANGED <<state, listener>>
        PROVE  ScreensTellTruth'
    <2> SUFFICES ASSUME NEW a \in Account, NEW s \in Session
                 PROVE  ScreenTrue(a, s)'
      BY DEF ScreensTellTruth, ScreenTrue
    <2>1. ScreenTrue(a, s)
      BY DEF IInv, ScreensTellTruth, ScreenTrue
    <2>2. screen'[a] = IF a = b THEN page ELSE screen[a]
      BY <1>c DEF IInv, TypeOK
    <2> QED
      BY <1>c, <2>1, <2>2 DEF ScreenTrue, Fits
  <1>1. ASSUME NEW s \in Session, TakeConnectAnswer(s) PROVE ScreensTellTruth'
    <2>1. UNCHANGED <<state, listener>> /\ SeekerOf[s] \in Account
      BY <1>1, JourneyConstants DEF TakeConnectAnswer, Account
    <2>2. CASE answer[s] = "refused"
      <3>1. UNCHANGED screen
        BY <1>1, <2>2 DEF TakeConnectAnswer
      <3> QED
        BY <1>b, <3>1
    <2>3. CASE answer[s] # "refused"
      <3>1. screen' = [screen EXCEPT ![SeekerOf[s]] = <<answer[s], s>>]
        BY <1>1, <2>3 DEF TakeConnectAnswer
      <3>2. answer[s] \in {"waiting", "chat"}
        BY <1>1, <2>3 DEF TakeConnectAnswer, IInv, TypeOK
      <3>3. Fits(SeekerOf[s], <<answer[s], s>>)
        BY <2>1, <3>2, JourneyConstants DEF Fits, IInv, TypeOK, Truth, AnswersTrue
      <3> QED
        BY <1>c, <2>1, <3>1, <3>3
    <2> QED
      BY <2>2, <2>3
  <1>2. ASSUME NEW v \in Volunteer, NEW s \in Session, OpenOffer(v, s) PROVE ScreensTellTruth'
    <2>1. /\ screen' = [screen EXCEPT ![v] = <<"offer", s>>] /\ v \in Account
          /\ UNCHANGED <<state, listener>>
      BY <1>2 DEF OpenOffer, Account, serverVars
    <2>2. \A q \in Session : <<"offer", s>> \notin {<<"chat", q>>, <<"timeout", q>>, <<"waiting", q>>}
      OBVIOUS
    <2> QED
      BY <1>c, <2>1, <2>2 DEF Fits
  <1>3. ASSUME NEW v \in Volunteer, Decline(v) PROVE ScreensTellTruth'
    BY <1>b, <1>3 DEF Decline, IInv, TypeOK, Account
  <1>4. ASSUME NEW v \in Volunteer, TakeAcceptAnswer(v) PROVE ScreensTellTruth'
    <2>1. UNCHANGED <<state, listener>> /\ v \in Account
      BY <1>4 DEF TakeAcceptAnswer, serverVars, Account
    <2>2. CASE call[v][1] = "granted"
      <3>1. screen' = [screen EXCEPT ![v] = <<"chat", call[v][2]>>]
        BY <1>4, <2>2 DEF TakeAcceptAnswer
      <3>2. Fits(v, <<"chat", call[v][2]>>)
        BY <2>1, <2>2 DEF Fits, IInv, Truth, CallsTrue
      <3> QED
        BY <1>c, <2>1, <3>1, <3>2
    <2>3. CASE call[v][1] # "granted"
      <3>1. screen' = [screen EXCEPT ![v] = Home]
        BY <1>4, <2>3 DEF TakeAcceptAnswer
      <3> QED
        BY <1>b, <3>1, <2>1 DEF IInv, TypeOK
    <2> QED
      BY <2>2, <2>3
  <1>5. ASSUME NEW k \in Seeker, HearSeeker(k) PROVE ScreensTellTruth'
    <2> DEFINE n == Head(inbox[k])
    <2>1. UNCHANGED <<state, listener>> /\ k \in Account
      BY <1>5 DEF HearSeeker, serverVars, Account
    <2>2. n \in Notices(k) /\ n \in Notice
      BY <1>5, <2>1, TailKeeps DEF HearSeeker, IInv, TypeOK
    <2>3. /\ n[2] \in Session /\ SeekerOf[n[2]] = k
          /\ \/ n[1] = "session:matched" /\ state[n[2]] \in {"matched", "over"}
             \/ n[1] = "session:ended" /\ state[n[2]] = "cancelled"
      BY <2>2 DEF IInv, Truth, NoticesTrue, Notice
    <2>4. screen' = [screen EXCEPT ![k] =
            IF n[1] = "session:matched" THEN OnMatched(screen[k], n[2]) ELSE OnEnded(screen[k], n[2])]
      BY <1>5 DEF HearSeeker
    <2> HIDE DEF n
    <2>5. Fits(k, <<"chat", n[2]>>) \/ n[1] # "session:matched"
      BY <2>1, <2>3 DEF Fits
    <2>6. Fits(k, <<"timeout", n[2]>>) \/ n[1] = "session:matched"
      BY <2>1, <2>3 DEF Fits
    <2>7. CASE screen' = [screen EXCEPT ![k] = <<"chat", n[2]>>] /\ n[1] = "session:matched"
      BY <1>c, <2>1, <2>5, <2>7
    <2>8. CASE screen' = [screen EXCEPT ![k] = <<"timeout", n[2]>>] /\ n[1] # "session:matched"
      BY <1>c, <2>1, <2>6, <2>8
    <2>9. CASE screen' = [screen EXCEPT ![k] = screen[k]]
      BY <1>b, <2>9 DEF IInv, TypeOK
    <2> QED
      BY <2>4, <2>7, <2>8, <2>9 DEF OnMatched, OnEnded
  <1>6. ASSUME NEW k \in Seeker, LeaveWaiting(k) PROVE ScreensTellTruth'
    BY <1>b, <1>6 DEF LeaveWaiting, IInv, TypeOK, Account
  <1>7. ASSUME NEW a \in Account, LeaveChat(a) PROVE ScreensTellTruth'
    BY <1>b, <1>7 DEF LeaveChat, IInv, TypeOK, Account
  <1>8. ASSUME UNCHANGED <<screen>> PROVE ScreensTellTruth'
    BY <1>b, <1>8
  <1>9. \/ UNCHANGED <<screen>>
        \/ \E s \in Session : TakeConnectAnswer(s)
        \/ \E v \in Volunteer, s \in Session : OpenOffer(v, s)
        \/ \E v \in Volunteer : Decline(v)
        \/ \E v \in Volunteer : TakeAcceptAnswer(v)
        \/ \E k \in Seeker : HearSeeker(k)
        \/ \E k \in Seeker : LeaveWaiting(k)
        \/ \E a \in Account : LeaveChat(a)
    BY StepCases DEF TapConnect, Refuse, MatchNow, OpenWaiting, PublishWaiting,
           LoseConnectAnswer, TapAccept, RefuseAccept, Claim, EmitMatched, EmitAccepted,
           LoseAcceptAnswer, MatchTimeout, EmitEnded, HearVolunteer, Poll, TakeList,
           Drop, Reopen, Register, EndChat, vars, serverVars, phoneVars
  <1> QED
    BY <1>1, <1>2, <1>3, <1>4, <1>5, <1>6, <1>7, <1>8, <1>9

(* And the types. *)
LEMMA TypesStay == IInv /\ [Next]_vars => TypeOK'
  <1> SUFFICES ASSUME IInv, [Next]_vars PROVE TypeOK'
    OBVIOUS
  <1> USE JourneyConstants DEF SeekerScreen, VolunteerScreen, Home, Idle, NoFetch, Account,
      serverVars, phoneVars
  <1>1. ASSUME NEW s \in Session, TapConnect(s) PROVE TypeOK'
    BY <1>1 DEF TapConnect, IInv, TypeOK
  <1>2. ASSUME NEW s \in Session, Refuse(s) PROVE TypeOK'
    BY <1>2 DEF Refuse, IInv, TypeOK
  <1>3. ASSUME NEW s \in Session, NEW v \in Volunteer, MatchNow(s, v) PROVE TypeOK'
    BY <1>3 DEF MatchNow, IInv, TypeOK
  <1>4. ASSUME NEW s \in Session, OpenWaiting(s) PROVE TypeOK'
    BY <1>4 DEF OpenWaiting, IInv, TypeOK
  <1>5. ASSUME NEW s \in Session, PublishWaiting(s) PROVE TypeOK'
    <2>1. <<"session:waiting", s>> \in Notice
      BY <1>5 DEF PublishWaiting, IInv, TypeOK, Notice
    <2>2. Emit(Volunteer, <<"session:waiting", s>>)
      BY <1>5 DEF PublishWaiting
    <2>3. /\ inbox' \in [Account -> Seq(Notice)]
          /\ \A a \in Account : link[a] = "down" => inbox'[a] = inbox[a]
      BY <2>1, <2>2, EmitAdds DEF IInv, TypeOK
    <2>4. missed' \subseteq Session
      BY <1>5 DEF PublishWaiting, Miss, IInv, TypeOK
    <2> QED
      BY <1>5, <2>3, <2>4 DEF PublishWaiting, IInv, TypeOK
  <1>6. ASSUME NEW s \in Session, TakeConnectAnswer(s) PROVE TypeOK'
    <2>1. answer[s] \in {"refused", "waiting", "chat"}
      BY <1>6 DEF TakeConnectAnswer, IInv, TypeOK
    <2>2. /\ screen' \in [Account -> SeekerScreen \cup VolunteerScreen]
          /\ \A q \in Seeker : screen'[q] \in SeekerScreen
          /\ \A v \in Volunteer : screen'[v] \in VolunteerScreen
      BY <1>6, <2>1 DEF TakeConnectAnswer, IInv, TypeOK
    <2> QED
      BY <1>6, <2>2 DEF TakeConnectAnswer, IInv, TypeOK
  <1>7. ASSUME NEW s \in Session, LoseConnectAnswer(s) PROVE TypeOK'
    BY <1>7 DEF LoseConnectAnswer, Mishap, Miss, IInv, TypeOK
  <1>8. ASSUME NEW v \in Volunteer, NEW s \in Session, OpenOffer(v, s) PROVE TypeOK'
    BY <1>8 DEF OpenOffer, IInv, TypeOK
  <1>9. ASSUME NEW v \in Volunteer, Decline(v) PROVE TypeOK'
    BY <1>9 DEF Decline, IInv, TypeOK
  <1>10. ASSUME NEW v \in Volunteer, TapAccept(v) PROVE TypeOK'
    BY <1>10 DEF TapAccept, IInv, TypeOK
  <1>11. ASSUME NEW v \in Volunteer, RefuseAccept(v) PROVE TypeOK'
    BY <1>11 DEF RefuseAccept, IInv, TypeOK
  <1>12. ASSUME NEW v \in Volunteer, Claim(v) PROVE TypeOK'
    <2>1. call[v][2] \in Session
      BY <1>12 DEF Claim, IInv, TypeOK
    <2> QED
      BY <1>12, <2>1 DEF Claim, Claimable, IInv, TypeOK
  <1>13. ASSUME NEW v \in Volunteer, EmitMatched(v) PROVE TypeOK'
    <2>1. <<"session:matched", call[v][2]>> \in Notice
      BY <1>13 DEF EmitMatched, IInv, TypeOK, Notice
    <2>2. Emit({SeekerOf[call[v][2]]}, <<"session:matched", call[v][2]>>)
      BY <1>13 DEF EmitMatched, TellSeeker
    <2>3. /\ inbox' \in [Account -> Seq(Notice)]
          /\ \A a \in Account : link[a] = "down" => inbox'[a] = inbox[a]
      BY <2>1, <2>2, EmitAdds DEF IInv, TypeOK
    <2>4. missed' \subseteq Session
      BY <1>13 DEF EmitMatched, TellSeeker, Miss, IInv, TypeOK
    <2>5. call[v][2] \in Session
      BY <1>13 DEF EmitMatched, IInv, TypeOK
    <2>6. call' \in [Volunteer -> {Idle} \cup
                   ({"sent", "matched", "accepted", "granted", "refused"} \X Session)]
      BY <1>13, <2>5 DEF EmitMatched, IInv, TypeOK
    <2> QED
      BY <1>13, <2>3, <2>4, <2>6 DEF EmitMatched, IInv, TypeOK
  <1>14. ASSUME NEW v \in Volunteer, EmitAccepted(v) PROVE TypeOK'
    <2>1. <<"session:accepted", call[v][2]>> \in Notice
      BY <1>14 DEF EmitAccepted, IInv, TypeOK, Notice
    <2>2. Emit(Volunteer, <<"session:accepted", call[v][2]>>)
      BY <1>14 DEF EmitAccepted
    <2>3. /\ inbox' \in [Account -> Seq(Notice)]
          /\ \A a \in Account : link[a] = "down" => inbox'[a] = inbox[a]
      BY <2>1, <2>2, EmitAdds DEF IInv, TypeOK
    <2>4. missed' \subseteq Session
      BY <1>14 DEF EmitAccepted, Miss, IInv, TypeOK
    <2>5. call[v][2] \in Session
      BY <1>14 DEF EmitAccepted, IInv, TypeOK
    <2>6. call' \in [Volunteer -> {Idle} \cup
                   ({"sent", "matched", "accepted", "granted", "refused"} \X Session)]
      BY <1>14, <2>5 DEF EmitAccepted, IInv, TypeOK
    <2> QED
      BY <1>14, <2>3, <2>4, <2>6 DEF EmitAccepted, IInv, TypeOK
  <1>15. ASSUME NEW v \in Volunteer, TakeAcceptAnswer(v) PROVE TypeOK'
    BY <1>15 DEF TakeAcceptAnswer, IInv, TypeOK
  <1>16. ASSUME NEW v \in Volunteer, LoseAcceptAnswer(v) PROVE TypeOK'
    BY <1>16 DEF LoseAcceptAnswer, Mishap, Miss, IInv, TypeOK
  <1>17. ASSUME NEW s \in Session, MatchTimeout(s) PROVE TypeOK'
    BY <1>17 DEF MatchTimeout, IInv, TypeOK
  <1>18. ASSUME NEW s \in Session, EmitEnded(s) PROVE TypeOK'
    <2>1. <<"session:ended", s>> \in Notice
      BY <1>18 DEF EmitEnded, IInv, TypeOK, Notice
    <2>2. Emit({SeekerOf[s]}, <<"session:ended", s>>)
      BY <1>18 DEF EmitEnded, TellSeeker
    <2>3. /\ inbox' \in [Account -> Seq(Notice)]
          /\ \A a \in Account : link[a] = "down" => inbox'[a] = inbox[a]
      BY <2>1, <2>2, EmitAdds DEF IInv, TypeOK
    <2>4. missed' \subseteq Session
      BY <1>18 DEF EmitEnded, TellSeeker, Miss, IInv, TypeOK
    <2> QED
      BY <1>18, <2>3, <2>4 DEF EmitEnded, IInv, TypeOK
  <1>19. ASSUME NEW k \in Seeker, HearSeeker(k) PROVE TypeOK'
    <2>1. /\ inbox' \in [Account -> Seq(Notice)] /\ Head(inbox[k]) \in Notice
          /\ \A b \in Account : inbox[b] = <<>> => inbox'[b] = <<>>
      BY <1>19, TailKeeps DEF HearSeeker, IInv, TypeOK
    <2>2. Head(inbox[k])[2] \in Session
      BY <2>1 DEF Notice
    <2>3. missed' \subseteq Session
      BY <1>19, <2>2 DEF HearSeeker, Miss, IInv, TypeOK
    <2>4. /\ screen' \in [Account -> SeekerScreen \cup VolunteerScreen]
          /\ \A q \in Seeker : screen'[q] \in SeekerScreen
          /\ \A v \in Volunteer : screen'[v] \in VolunteerScreen
      BY <1>19, <2>2 DEF HearSeeker, OnMatched, OnEnded, IInv, TypeOK
    <2> QED
      BY <1>19, <2>1, <2>3, <2>4 DEF HearSeeker, IInv, TypeOK
  <1>20. ASSUME NEW v \in Volunteer, HearVolunteer(v) PROVE TypeOK'
    <2>1. /\ inbox' \in [Account -> Seq(Notice)] /\ Head(inbox[v]) \in Notice
          /\ \A b \in Account : inbox[b] = <<>> => inbox'[b] = <<>>
      BY <1>20, TailKeeps DEF HearVolunteer, IInv, TypeOK
    <2>2. Head(inbox[v])[2] \in Session
      BY <2>1 DEF Notice
    <2>3. list' \in [Volunteer -> SUBSET Session]
      BY <1>20, <2>2 DEF HearVolunteer, Listed, IInv, TypeOK
    <2> QED
      BY <1>20, <2>1, <2>3 DEF HearVolunteer, IInv, TypeOK
  <1>21. ASSUME NEW v \in Volunteer, Poll(v) PROVE TypeOK'
    <2>1. fetch' \in [Volunteer -> [at: {"idle", "served"}, sessions: SUBSET Session]]
      BY <1>21 DEF Poll, Snapshot, IInv, TypeOK
    <2> QED
      BY <1>21, <2>1 DEF Poll, IInv, TypeOK
  <1>22. ASSUME NEW v \in Volunteer, TakeList(v) PROVE TypeOK'
    BY <1>22 DEF TakeList, IInv, TypeOK
  <1>23. ASSUME NEW a \in Account, Drop(a) PROVE TypeOK'
    <2>1. inbox' \in [Account -> Seq(Notice)]
      BY <1>23, DropLoses DEF Drop, IInv, TypeOK
    <2>2. \A b \in Account : link'[b] = "down" => inbox'[b] = <<>>
      BY <1>23 DEF Drop, IInv, TypeOK
    <2>3. missed' \subseteq Session
      BY <1>23 DEF Drop, Mine, IInv, TypeOK
    <2> QED
      BY <1>23, <2>1, <2>2, <2>3 DEF Drop, Mishap, IInv, TypeOK
  <1>24. ASSUME NEW a \in Account, Reopen(a) PROVE TypeOK'
    BY <1>24 DEF Reopen, IInv, TypeOK
  <1>25. ASSUME NEW a \in Account, Register(a) PROVE TypeOK'
    BY <1>25 DEF Register, IInv, TypeOK
  <1>26. ASSUME NEW k \in Seeker, LeaveWaiting(k) PROVE TypeOK'
    BY <1>26 DEF LeaveWaiting, IInv, TypeOK
  <1>27. ASSUME NEW a \in Account, EndChat(a) PROVE TypeOK'
    BY <1>27 DEF EndChat, IInv, TypeOK
  <1>28. ASSUME NEW a \in Account, LeaveChat(a) PROVE TypeOK'
    BY <1>28 DEF LeaveChat, IInv, TypeOK
  <1>29. ASSUME UNCHANGED vars PROVE TypeOK'
    BY <1>29 DEF vars, IInv, TypeOK
  <1> QED
    BY StepCases, <1>1, <1>2, <1>3, <1>4, <1>5, <1>6, <1>7, <1>8, <1>9, <1>10, <1>11,
       <1>12, <1>13, <1>14, <1>15, <1>16, <1>17, <1>18, <1>19, <1>20, <1>21, <1>22,
       <1>23, <1>24, <1>25, <1>26, <1>27, <1>28, <1>29

(* Every step keeps the three. *)
LEMMA StepKeeps == IInv /\ [Next]_vars => IInv'
  <1> SUFFICES ASSUME IInv, [Next]_vars PROVE IInv'
    OBVIOUS
  <1> QED
    BY TypesStay, NoticesStayTrue, AnswersStayTrue, CallsStayTrue, EndsStayTrue, ScreensStayTrue
    DEF IInv, Truth

(* The notices, the answers and the screens are as TypeOK says. *)
THEOREM TypeCorrect == Spec => []TypeOK
  <1>1. IInv => TypeOK
    BY DEF IInv
  <1> QED
    BY <1>1, InitHolds, StepKeeps, PTL DEF Spec

(* Whatever the server says or is about to say about a session is true     *)
(* until the phone hears it, over every order in which connect(), accept() *)
(* and match:timeout run.                                                  *)
THEOREM TruthHolds == Spec => []Truth
  <1>1. IInv => Truth
    BY DEF IInv
  <1> QED
    BY <1>1, InitHolds, StepKeeps, PTL DEF Spec

(* So what a phone shows is true: a chat belongs to the two people of a    *)
(* matched session, and "no volunteers" to a session that was cancelled.   *)
THEOREM PhonesTellTruth == Spec => []ScreensTellTruth
  <1>1. IInv => ScreensTellTruth
    BY DEF IInv
  <1> QED
    BY <1>1, InitHolds, StepKeeps, PTL DEF Spec

-----------------------------------------------------------------------------
(* That no volunteer sits in a chat alone needs more: which session a      *)
(* volunteer can have been let into, and what the seeker's phone can show  *)
(* while a request of hers is under way.                                   *)

(* A session that waits was answered as waiting, and it alone is accepted. *)
WaitedFirst == \A s \in Session : state[s] = "waiting" => answer[s] = "waiting"

LetIn(v, s) ==
  \/ screen[v] = <<"chat", s>>
  \/ call[v] \in {<<"matched", s>>, <<"accepted", s>>, <<"granted", s>>}

AcceptedWaited == \A v \in Volunteer, s \in Session : LetIn(v, s) => answer[s] = "waiting"

(* While accept() runs, the phone that called it shows the offer. *)
CallsFromOffer == \A v \in Volunteer : call[v] # Idle => screen[v][1] = "offer"

(* A seeker has one request at a time under way, and waits at home for its *)
(* answer.                                                                 *)
Underway(s) == request[s] \in {"sent", "publish", "answered"}

AsksFromHome == \A s \in Session : Underway(s) => screen[SeekerOf[s]] = Home

AsksOnce ==
  \A s, q \in Session : Underway(s) /\ Underway(q) /\ SeekerOf[s] = SeekerOf[q] => s = q

(* Once accept() has notified, the seeker of a session that waited is in   *)
(* the chat, has the notice in flight, or missed something.                *)
Announced(s) ==
  /\ state[s] = "matched" /\ answer[s] = "waiting"
  /\ s \notin missed /\ \A v \in Volunteer : call[v] # <<"matched", s>>

Knows(s) ==
  \/ screen[SeekerOf[s]] = <<"chat", s>>
  \/ <<"session:matched", s>> \in Notices(SeekerOf[s])

SeekerKnows == \A s \in Session : Announced(s) => Knows(s)

Company ==
  WaitedFirst /\ AcceptedWaited /\ CallsFromOffer /\ AsksFromHome /\ AsksOnce /\ SeekerKnows

(* Appending keeps what is on its way and reaches whoever listens.         *)
LEMMA EmitKeeps ==
  ASSUME inbox \in [Account -> Seq(Notice)], NEW to, NEW n \in Notice, Emit(to, n)
  PROVE  /\ \A a \in Account : Notices(a) \subseteq Notices(a)'
         /\ \A a \in Account : a \in to /\ link[a] = "up" => n \in Notices(a)'
<1> SUFFICES ASSUME NEW a \in Account
             PROVE  /\ Notices(a) \subseteq Notices(a)'
                    /\ a \in to /\ link[a] = "up" => n \in Notices(a)'
  OBVIOUS
<1>1. inbox[a] \in Seq(Notice)
  OBVIOUS
<1>2. inbox'[a] = inbox[a] \/ inbox'[a] = Append(inbox[a], n)
  BY DEF Emit
<1>3. a \in to /\ link[a] = "up" => inbox'[a] = Append(inbox[a], n)
  BY DEF Emit, Listening
<1>4. /\ DOMAIN Append(inbox[a], n) = 1..(Len(inbox[a]) + 1)
      /\ Append(inbox[a], n)[Len(inbox[a]) + 1] = n
      /\ \A i \in DOMAIN inbox[a] :
           i \in DOMAIN Append(inbox[a], n) /\ Append(inbox[a], n)[i] = inbox[a][i]
  BY <1>1
<1>5. Len(inbox[a]) + 1 \in 1..(Len(inbox[a]) + 1)
  BY <1>1
<1> QED
  BY <1>2, <1>3, <1>4, <1>5 DEF Notices

(* Taking the first notice takes that one alone, from this phone.          *)
LEMMA TailTakesOne ==
  ASSUME inbox \in [Account -> Seq(Notice)], NEW b \in Account, inbox[b] # <<>>,
         inbox' = [inbox EXCEPT ![b] = Tail(@)]
  PROVE  /\ Notices(b) \subseteq Notices(b)' \cup {Head(inbox[b])}
         /\ \A a \in Account : a # b => Notices(a)' = Notices(a)
<1>1. inbox[b] \in Seq(Notice) /\ inbox'[b] = Tail(inbox[b])
  OBVIOUS
<1>2. \A i \in DOMAIN inbox[b] :
        \/ inbox[b][i] = Head(inbox[b])
        \/ i - 1 \in DOMAIN Tail(inbox[b]) /\ Tail(inbox[b])[i - 1] = inbox[b][i]
  BY <1>1
<1> QED
  BY <1>1, <1>2 DEF Notices

LEMMA CompanyInit == Init => Company
<1> SUFFICES ASSUME Init PROVE Company
  OBVIOUS
<1>1. WaitedFirst /\ AcceptedWaited /\ CallsFromOffer
  BY DEF Init, WaitedFirst, AcceptedWaited, LetIn, CallsFromOffer, Idle, Home, Account
<1>2. AsksFromHome /\ AsksOnce
  BY DEF Init, AsksFromHome, AsksOnce, Underway
<1>3. SeekerKnows
  BY DEF Init, SeekerKnows, Announced
<1> QED
  BY <1>1, <1>2, <1>3 DEF Company

(* An answer is given once. *)
LEMMA AnswersLast ==
  ASSUME IInv, [Next]_vars
  PROVE  \A s \in Session : answer[s] # None => answer'[s] = answer[s]
<1> DEFINE Last == \A s \in Session : answer[s] # None => answer'[s] = answer[s]
<1>1. ASSUME NEW s \in Session, Refuse(s) PROVE Last
  BY <1>1 DEF Refuse, IInv, TypeOK
<1>2. ASSUME NEW s \in Session, NEW v \in Volunteer, MatchNow(s, v) PROVE Last
  BY <1>2 DEF MatchNow, IInv, TypeOK
<1>3. ASSUME NEW s \in Session, OpenWaiting(s) PROVE Last
  BY <1>3 DEF OpenWaiting, IInv, TypeOK
<1>4. ASSUME UNCHANGED answer PROVE Last
  BY <1>4
<1>5. \/ UNCHANGED answer
      \/ \E s \in Session : Refuse(s)
      \/ \E s \in Session, v \in Volunteer : MatchNow(s, v)
      \/ \E s \in Session : OpenWaiting(s)
  BY StepCases DEF TapConnect, PublishWaiting, TakeConnectAnswer, LoseConnectAnswer,
     OpenOffer, Decline, TapAccept, RefuseAccept, Claim, EmitMatched, EmitAccepted,
     TakeAcceptAnswer, LoseAcceptAnswer, MatchTimeout, EmitEnded, HearSeeker, HearVolunteer,
     Poll, TakeList, Drop, Reopen, Register, LeaveWaiting, EndChat, LeaveChat, vars,
     serverVars, phoneVars
<1> QED
  BY <1>1, <1>2, <1>3, <1>4, <1>5

(* A session begins to wait with its answer. *)
LEMMA WaitedFirstStays == IInv /\ Company /\ [Next]_vars => WaitedFirst'
<1> SUFFICES ASSUME IInv, Company, [Next]_vars PROVE WaitedFirst'
  OBVIOUS
<1> USE DEF IInv, TypeOK, Company, WaitedFirst
<1>a. \A s \in Session : answer[s] # None => answer'[s] = answer[s]
  BY AnswersLast
<1>b. None # "waiting"
  BY JourneyConstants
<1>1. ASSUME NEW s \in Session, Refuse(s) PROVE WaitedFirst'
  BY <1>a, <1>b, <1>1 DEF Refuse
<1>2. ASSUME NEW s \in Session, NEW v \in Volunteer, MatchNow(s, v) PROVE WaitedFirst'
  BY <1>a, <1>b, <1>2 DEF MatchNow
<1>3. ASSUME NEW s \in Session, OpenWaiting(s) PROVE WaitedFirst'
  BY <1>a, <1>b, <1>3 DEF OpenWaiting
<1>4. ASSUME NEW s \in Session, MatchTimeout(s) PROVE WaitedFirst'
  BY <1>a, <1>b, <1>4 DEF MatchTimeout
<1>5. ASSUME NEW v \in Volunteer, Claim(v) PROVE WaitedFirst'
  BY <1>a, <1>b, <1>5 DEF Claim, Claimable
<1>6. ASSUME NEW a \in Account, EndChat(a) PROVE WaitedFirst'
  BY <1>a, <1>b, <1>6 DEF EndChat
<1>7. ASSUME UNCHANGED state PROVE WaitedFirst'
  BY <1>a, <1>b, <1>7
<1>8. \/ UNCHANGED state
      \/ \E s \in Session : Refuse(s)
      \/ \E s \in Session, v \in Volunteer : MatchNow(s, v)
      \/ \E s \in Session : OpenWaiting(s)
      \/ \E s \in Session : MatchTimeout(s)
      \/ \E v \in Volunteer : Claim(v)
      \/ \E a \in Account : EndChat(a)
  BY StepCases DEF TapConnect, PublishWaiting, TakeConnectAnswer, LoseConnectAnswer,
     OpenOffer, Decline, TapAccept, RefuseAccept, EmitMatched, EmitAccepted,
     TakeAcceptAnswer, LoseAcceptAnswer, EmitEnded, HearSeeker, HearVolunteer,
     Poll, TakeList, Drop, Reopen, Register, LeaveWaiting, LeaveChat, vars,
     serverVars, phoneVars
<1> QED
  BY <1>1, <1>2, <1>3, <1>4, <1>5, <1>6, <1>7, <1>8

(* What a step does to a volunteer's phone and call. *)
PhoneStep(v) ==
  \/ UNCHANGED <<screen[v], call[v]>>
  \/ screen'[v] = Home /\ call'[v] = Idle
  \/ screen[v] = Home /\ screen'[v][1] = "offer" /\ UNCHANGED call[v]
  \/ screen[v][1] = "offer" /\ UNCHANGED screen[v]
       /\ \/ call'[v][1] \in {"idle", "sent", "refused"}
          \/ call[v][1] \in {"matched", "accepted"} /\ call'[v][1] \in {"accepted", "granted"}
               /\ call'[v][2] = call[v][2]
          \/ state[call[v][2]] = "waiting" /\ call[v] \in {"sent"} \X Session
               /\ call'[v] = <<"matched", call[v][2]>>
  \/ call[v][1] = "granted" /\ call'[v] = Idle /\ screen'[v] = <<"chat", call[v][2]>>

LEMMA PhoneSteps ==
  ASSUME IInv, Company, [Next]_vars, NEW v \in Volunteer
  PROVE  PhoneStep(v)
<1> USE JourneyConstants DEF PhoneStep, IInv, TypeOK, Company, CallsFromOffer, VolunteerScreen, Home, Idle, Account
<1>a. /\ screen[v] \in VolunteerScreen
      /\ call[v] \in {Idle} \cup ({"sent", "matched", "accepted", "granted", "refused"} \X Session)
      /\ v \notin Seeker
  OBVIOUS
<1>1. ASSUME NEW s \in Session, TakeConnectAnswer(s) PROVE PhoneStep(v)
  BY <1>a, <1>1 DEF TakeConnectAnswer
<1>2. ASSUME NEW w \in Volunteer, NEW s \in Session, OpenOffer(w, s) PROVE PhoneStep(v)
  BY <1>a, <1>2 DEF OpenOffer
<1>3. ASSUME NEW w \in Volunteer, Decline(w) PROVE PhoneStep(v)
  BY <1>a, <1>3 DEF Decline
<1>4. ASSUME NEW w \in Volunteer, TapAccept(w) PROVE PhoneStep(v)
  BY <1>a, <1>4 DEF TapAccept, phoneVars
<1>5. ASSUME NEW w \in Volunteer, RefuseAccept(w) PROVE PhoneStep(v)
  BY <1>a, <1>5 DEF RefuseAccept, phoneVars
<1>6. ASSUME NEW w \in Volunteer, Claim(w) PROVE PhoneStep(v)
  BY <1>a, <1>6 DEF Claim, Claimable, phoneVars
<1>7. ASSUME NEW w \in Volunteer, EmitMatched(w) PROVE PhoneStep(v)
  BY <1>a, <1>7 DEF EmitMatched, phoneVars
<1>8. ASSUME NEW w \in Volunteer, EmitAccepted(w) PROVE PhoneStep(v)
  BY <1>a, <1>8 DEF EmitAccepted, phoneVars
<1>9. ASSUME NEW w \in Volunteer, TakeAcceptAnswer(w) PROVE PhoneStep(v)
  BY <1>a, <1>9 DEF TakeAcceptAnswer
<1>10. ASSUME NEW w \in Volunteer, LoseAcceptAnswer(w) PROVE PhoneStep(v)
  BY <1>a, <1>10 DEF LoseAcceptAnswer, phoneVars
<1>11. ASSUME NEW k \in Seeker, HearSeeker(k) PROVE PhoneStep(v)
  BY <1>a, <1>11 DEF HearSeeker
<1>12. ASSUME NEW k \in Seeker, LeaveWaiting(k) PROVE PhoneStep(v)
  BY <1>a, <1>12 DEF LeaveWaiting
<1>13. ASSUME NEW a \in Account, LeaveChat(a) PROVE PhoneStep(v)
  BY <1>a, <1>13 DEF LeaveChat
<1>14. ASSUME UNCHANGED <<screen, call>> PROVE PhoneStep(v)
  BY <1>14
<1> HIDE DEF PhoneStep, IInv, Company
<1>15. \/ UNCHANGED <<screen, call>>
       \/ \E s \in Session : TakeConnectAnswer(s)
       \/ \E w \in Volunteer, s \in Session : OpenOffer(w, s)
       \/ \E w \in Volunteer : Decline(w)
       \/ \E w \in Volunteer : TapAccept(w)
       \/ \E w \in Volunteer : RefuseAccept(w)
       \/ \E w \in Volunteer : Claim(w)
       \/ \E w \in Volunteer : EmitMatched(w)
       \/ \E w \in Volunteer : EmitAccepted(w)
       \/ \E w \in Volunteer : TakeAcceptAnswer(w)
       \/ \E w \in Volunteer : LoseAcceptAnswer(w)
       \/ \E k \in Seeker : HearSeeker(k)
       \/ \E k \in Seeker : LeaveWaiting(k)
       \/ \E a \in Account : LeaveChat(a)
  BY StepCases DEF TapConnect, Refuse, MatchNow, OpenWaiting, PublishWaiting,
     LoseConnectAnswer, MatchTimeout, EmitEnded, HearVolunteer,
     Poll, TakeList, Drop, Reopen, Register, EndChat, vars, serverVars, phoneVars
<1> QED
  BY <1>1, <1>2, <1>3, <1>4, <1>5, <1>6, <1>7, <1>8, <1>9, <1>10, <1>11, <1>12, <1>13, <1>14, <1>15

(* accept() lets a volunteer into sessions that waited, and its answer     *)
(* finds the offer on his screen.                                          *)
LEMMA VolunteersStay == IInv /\ Company /\ [Next]_vars => AcceptedWaited' /\ CallsFromOffer'
<1> SUFFICES ASSUME IInv, Company, [Next]_vars PROVE AcceptedWaited' /\ CallsFromOffer'
  OBVIOUS
<1>a. \A s \in Session : answer[s] # None => answer'[s] = answer[s]
  BY AnswersLast
<1>b. None # "waiting"
  BY JourneyConstants
<1>c. /\ \A v \in Volunteer, s \in Session : LetIn(v, s) => answer[s] = "waiting"
      /\ \A s \in Session : state[s] = "waiting" => answer[s] = "waiting"
      /\ \A v \in Volunteer : call[v] # Idle => screen[v][1] = "offer"
  BY DEF Company, AcceptedWaited, WaitedFirst, CallsFromOffer
<1>d. \A v \in Volunteer :
        /\ screen[v] \in VolunteerScreen
        /\ call[v] \in {Idle} \cup ({"sent", "matched", "accepted", "granted", "refused"} \X Session)
        /\ call'[v] \in {Idle} \cup ({"sent", "matched", "accepted", "granted", "refused"} \X Session)
  BY TypesStay DEF IInv, TypeOK
<1>1. ASSUME NEW v \in Volunteer, NEW s \in Session, LetIn(v, s)' PROVE answer'[s] = "waiting"
  <2>1. PhoneStep(v)
    BY PhoneSteps
  <2>2. CASE LetIn(v, s)
    BY <1>a, <1>b, <1>c, <2>2
  <2>3. CASE ~LetIn(v, s)
    <3>1. call[v] = <<"sent", s>> /\ state[s] = "waiting"
      BY <2>1, <2>3, <1>1, <1>d DEF LetIn, PhoneStep, VolunteerScreen, Home, Idle
    <3> QED
      BY <3>1, <1>a, <1>b, <1>c
  <2> QED
    BY <2>2, <2>3
<1>2. ASSUME NEW v \in Volunteer, call'[v] # Idle PROVE screen'[v][1] = "offer"
  <2>1. PhoneStep(v)
    BY PhoneSteps
  <2> QED
    BY <1>2, <2>1, <1>c, <1>d DEF PhoneStep, Home, Idle
<1> QED
  BY <1>1, <1>2 DEF AcceptedWaited, CallsFromOffer, LetIn

(* A seeker's phone leaves home with the answer to her request alone, and  *)
(* she asks again when no request of hers is under way.                    *)
LEMMA SeekersStay == IInv /\ Company /\ [Next]_vars => AsksFromHome' /\ AsksOnce'
<1> SUFFICES ASSUME IInv, Company, [Next]_vars PROVE AsksFromHome' /\ AsksOnce'
  OBVIOUS
<1> DEFINE Good == AsksFromHome' /\ AsksOnce'
<1>a. /\ \A s \in Session : Underway(s) => screen[SeekerOf[s]] = Home
      /\ \A s, q \in Session : Underway(s) /\ Underway(q) /\ SeekerOf[s] = SeekerOf[q] => s = q
  BY DEF Company, AsksFromHome, AsksOnce
<1>b. /\ request \in [Session -> {"none", "sent", "publish", "answered", "done"}]
      /\ screen \in [Account -> SeekerScreen \cup VolunteerScreen]
  BY DEF IInv, TypeOK
<1>c. \A s \in Session : SeekerOf[s] \in Seeker /\ SeekerOf[s] \in Account /\ SeekerOf[s] \notin Volunteer
  BY JourneyConstants DEF Account
<1>d. ASSUME \A s \in Session : Underway(s)' => Underway(s),
             \A s \in Session : Underway(s)' => screen'[SeekerOf[s]] = screen[SeekerOf[s]]
                                                \/ screen'[SeekerOf[s]] = Home
      PROVE  Good
  BY <1>a, <1>d DEF AsksFromHome, AsksOnce
<1>1. ASSUME NEW s \in Session, TapConnect(s) PROVE Good
  <2>1. \A q \in Session : Underway(q)' => q = s \/ Underway(q)
    BY <1>1, <1>b DEF TapConnect, Underway
  <2>2. \A q \in Session : SeekerOf[q] = SeekerOf[s] => ~Underway(q)
    BY <1>1 DEF TapConnect, Mine, Underway
  <2>3. screen' = screen /\ screen[SeekerOf[s]] = Home
    BY <1>1 DEF TapConnect, phoneVars
  <2> QED
    BY <1>a, <2>1, <2>2, <2>3 DEF AsksFromHome, AsksOnce
<1>2. ASSUME NEW s \in Session, Refuse(s) PROVE Good
  BY <1>2, <1>b, <1>d DEF Refuse, Underway, phoneVars
<1>3. ASSUME NEW s \in Session, NEW v \in Volunteer, MatchNow(s, v) PROVE Good
  BY <1>3, <1>b, <1>d DEF MatchNow, Underway, phoneVars
<1>4. ASSUME NEW s \in Session, OpenWaiting(s) PROVE Good
  BY <1>4, <1>b, <1>d DEF OpenWaiting, Underway, phoneVars
<1>5. ASSUME NEW s \in Session, PublishWaiting(s) PROVE Good
  BY <1>5, <1>b, <1>d DEF PublishWaiting, Underway, phoneVars
<1>6. ASSUME NEW s \in Session, TakeConnectAnswer(s) PROVE Good
  <2>1. Underway(s) /\ \A q \in Session : Underway(q)' => Underway(q) /\ q # s
    BY <1>6, <1>b DEF TakeConnectAnswer, Underway
  <2>2. \A q \in Session : SeekerOf[q] # SeekerOf[s] => screen'[SeekerOf[q]] = screen[SeekerOf[q]]
    BY <1>6, <1>b, <1>c DEF TakeConnectAnswer
  <2> QED
    BY <1>a, <1>d, <2>1, <2>2
<1>7. ASSUME NEW s \in Session, LoseConnectAnswer(s) PROVE Good
  BY <1>7, <1>b, <1>d DEF LoseConnectAnswer, Underway, phoneVars
<1>8. ASSUME NEW v \in Volunteer, NEW page, screen' = [screen EXCEPT ![v] = page], UNCHANGED request
      PROVE  Good
  <2>1. \A s \in Session : screen'[SeekerOf[s]] = screen[SeekerOf[s]]
    BY <1>8, <1>b, <1>c
  <2>2. \A s \in Session : Underway(s)' => Underway(s)
    BY <1>8 DEF Underway
  <2> QED
    BY <1>d, <2>1, <2>2
<1>9. ASSUME NEW k \in Seeker, HearSeeker(k) PROVE Good
  <2>1. \A s \in Session : Underway(s)' => Underway(s)
    BY <1>9 DEF HearSeeker, serverVars, Underway
  <2>2. \A s \in Session : Underway(s) => screen'[SeekerOf[s]] = screen[SeekerOf[s]]
    BY <1>9, <1>a, <1>b, <1>c DEF HearSeeker, OnMatched, OnEnded, Home
  <2> QED
    BY <1>d, <2>1, <2>2
<1>10. ASSUME NEW k \in Seeker, LeaveWaiting(k) PROVE Good
  BY <1>10, <1>b, <1>c, <1>d DEF LeaveWaiting, Underway, serverVars
<1>11. ASSUME NEW b \in Account, LeaveChat(b) PROVE Good
  BY <1>11, <1>b, <1>c, <1>d DEF LeaveChat, Underway, serverVars
<1>12. ASSUME UNCHANGED <<request, screen>> PROVE Good
  BY <1>12, <1>d DEF Underway
<1> HIDE DEF Good
<1>13. \/ UNCHANGED <<request, screen>>
       \/ \E s \in Session : TapConnect(s)
       \/ \E s \in Session : Refuse(s)
       \/ \E s \in Session, v \in Volunteer : MatchNow(s, v)
       \/ \E s \in Session : OpenWaiting(s)
       \/ \E s \in Session : PublishWaiting(s)
       \/ \E s \in Session : TakeConnectAnswer(s)
       \/ \E s \in Session : LoseConnectAnswer(s)
       \/ \E v \in Volunteer, s \in Session : OpenOffer(v, s)
       \/ \E v \in Volunteer : Decline(v)
       \/ \E v \in Volunteer : TakeAcceptAnswer(v)
       \/ \E k \in Seeker : HearSeeker(k)
       \/ \E k \in Seeker : LeaveWaiting(k)
       \/ \E a \in Account : LeaveChat(a)
  BY StepCases DEF TapAccept, RefuseAccept, Claim, EmitMatched, EmitAccepted, LoseAcceptAnswer,
     MatchTimeout, EmitEnded, HearVolunteer, Poll, TakeList, Drop, Reopen, Register, EndChat,
     vars, serverVars, phoneVars
<1>14. ASSUME NEW v \in Volunteer, NEW s \in Session, OpenOffer(v, s) PROVE Good
  BY <1>14, <1>8 DEF OpenOffer, serverVars
<1>15. ASSUME NEW v \in Volunteer, Decline(v) PROVE Good
  BY <1>15, <1>8 DEF Decline, serverVars
<1>16. ASSUME NEW v \in Volunteer, TakeAcceptAnswer(v) PROVE Good
  BY <1>16, <1>8 DEF TakeAcceptAnswer, serverVars
<1>17. Good
  BY <1>1, <1>2, <1>3, <1>4, <1>5, <1>6, <1>7, <1>9, <1>10, <1>11, <1>12, <1>13, <1>14, <1>15, <1>16
<1> QED
  BY <1>17 DEF Good

(* A session is announced by accept()'s notice, and by nothing else. *)
LEMMA AnnouncedByEmit ==
  ASSUME IInv, Company, [Next]_vars, NEW s \in Session, Announced(s)'
  PROVE  Announced(s) \/ \E v \in Volunteer : EmitMatched(v) /\ call[v][2] = s
<1> DEFINE Done == Announced(s) \/ \E v \in Volunteer : EmitMatched(v) /\ call[v][2] = s
<1>a. /\ state'[s] = "matched" /\ answer'[s] = "waiting" /\ s \notin missed'
      /\ \A v \in Volunteer : call'[v] # <<"matched", s>>
  BY DEF Announced
<1>b. /\ state \in [Session -> {"none", "refused", "waiting", "matched", "cancelled", "over"}]
      /\ answer \in [Session -> {None, "refused", "waiting", "chat"}]
      /\ call \in [Volunteer -> {Idle} \cup
           ({"sent", "matched", "accepted", "granted", "refused"} \X Session)]
  BY DEF IInv, TypeOK
<1>1. ASSUME NEW q \in Session, Refuse(q) PROVE Done
  BY <1>1, <1>a, <1>b DEF Refuse, Announced
<1>2. ASSUME NEW q \in Session, NEW v \in Volunteer, MatchNow(q, v) PROVE Done
  BY <1>2, <1>a, <1>b DEF MatchNow, Announced
<1>3. ASSUME NEW q \in Session, OpenWaiting(q) PROVE Done
  BY <1>3, <1>a, <1>b DEF OpenWaiting, Announced
<1>4. ASSUME NEW q \in Session, MatchTimeout(q) PROVE Done
  BY <1>4, <1>a, <1>b DEF MatchTimeout, Announced
<1>5. ASSUME NEW b \in Account, EndChat(b) PROVE Done
  BY <1>5, <1>a, <1>b DEF EndChat, Announced
<1>6. ASSUME NEW v \in Volunteer, Claim(v) PROVE Done
  <2>1. call'[v] = <<"matched", call[v][2]>>
    BY <1>6, <1>b DEF Claim
  <2>2. call[v][2] # s /\ call[v] # <<"matched", s>>
    BY <1>6, <1>a, <2>1 DEF Claim
  <2>3. state[s] = "matched" /\ answer[s] = "waiting" /\ s \notin missed
    BY <1>6, <1>a, <1>b, <2>2 DEF Claim
  <2>4. \A w \in Volunteer : call[w] # <<"matched", s>>
    BY <1>6, <1>a, <1>b, <2>2 DEF Claim
  <2> QED
    BY <2>3, <2>4 DEF Announced
<1>7. ASSUME NEW v \in Volunteer, EmitMatched(v) PROVE Done
  <2>1. CASE call[v][2] = s
    BY <1>7, <2>1
  <2>2. CASE call[v][2] # s
    <3>1. s \notin missed
      BY <1>7, <1>a DEF EmitMatched, TellSeeker, Miss
    <3>2. \A w \in Volunteer : call[w] # <<"matched", s>>
      BY <1>7, <1>a, <1>b, <2>2 DEF EmitMatched
    <3> QED
      BY <1>7, <1>a, <3>1, <3>2 DEF EmitMatched, Announced
  <2> QED
    BY <2>1, <2>2
<1>8. ASSUME NEW v \in Volunteer, NEW now, call[v][1] # "matched", call' = [call EXCEPT ![v] = now],
             UNCHANGED <<state, answer, missed>>
      PROVE  Done
  BY <1>8, <1>a, <1>b DEF Announced
<1>9. ASSUME UNCHANGED <<state, answer, call>>, missed \subseteq missed' PROVE Done
  BY <1>9, <1>a DEF Announced
<1> HIDE DEF Done
<1>10. ASSUME NEW v \in Volunteer, TapAccept(v) PROVE Done
  <2>1. call[v][1] # "matched"
    BY <1>10 DEF TapAccept, Idle
  <2>2. call' = [call EXCEPT ![v] = <<"sent", screen[v][2]>>] /\ UNCHANGED <<state, answer, missed>>
    BY <1>10 DEF TapAccept, serverVars
  <2> QED
    BY <1>8, <2>1, <2>2
<1>11. ASSUME NEW v \in Volunteer, RefuseAccept(v) PROVE Done
  BY <1>11, <1>8 DEF RefuseAccept, serverVars
<1>12. ASSUME NEW v \in Volunteer, EmitAccepted(v) PROVE Done
  BY <1>12, <1>8 DEF EmitAccepted, serverVars
<1>13. ASSUME NEW v \in Volunteer, TakeAcceptAnswer(v) PROVE Done
  BY <1>13, <1>8 DEF TakeAcceptAnswer, serverVars
<1>14. ASSUME NEW v \in Volunteer, LoseAcceptAnswer(v) PROVE Done
  BY <1>14, <1>8 DEF LoseAcceptAnswer, serverVars
<1>15. \/ UNCHANGED <<state, answer, call>> /\ missed \subseteq missed'
       \/ \E q \in Session : Refuse(q)
       \/ \E q \in Session, v \in Volunteer : MatchNow(q, v)
       \/ \E q \in Session : OpenWaiting(q)
       \/ \E q \in Session : MatchTimeout(q)
       \/ \E b \in Account : EndChat(b)
       \/ \E v \in Volunteer : Claim(v)
       \/ \E v \in Volunteer : EmitMatched(v)
       \/ \E v \in Volunteer : TapAccept(v)
       \/ \E v \in Volunteer : RefuseAccept(v)
       \/ \E v \in Volunteer : EmitAccepted(v)
       \/ \E v \in Volunteer : TakeAcceptAnswer(v)
       \/ \E v \in Volunteer : LoseAcceptAnswer(v)
  BY StepCases DEF TapConnect, PublishWaiting, TakeConnectAnswer, LoseConnectAnswer, OpenOffer,
     Decline, EmitEnded, TellSeeker, Miss, HearSeeker, HearVolunteer, Poll, TakeList, Drop, Reopen,
     Register, LeaveWaiting, LeaveChat, vars, serverVars, phoneVars
<1>16. Done
  BY <1>1, <1>2, <1>3, <1>4, <1>5, <1>6, <1>7, <1>9, <1>10, <1>11, <1>12, <1>13, <1>14, <1>15
<1> QED
  BY <1>16 DEF Done

(* The seeker who knows of her match stays in the chat, keeps the notice,  *)
(* or misses it.                                                           *)
LEMMA KnowledgeLasts ==
  ASSUME IInv, Company, [Next]_vars, NEW s \in Session, Announced(s), Announced(s)'
  PROVE  Knows(s)'
<1> DEFINE k == SeekerOf[s]
           n == <<"session:matched", s>>
<1>a. /\ state[s] = "matched" /\ s \notin missed' /\ Knows(s)
      /\ k \in Seeker /\ k \in Account /\ k \notin Volunteer
  BY JourneyConstants DEF Company, SeekerKnows, Announced, Account
<1>b. /\ screen \in [Account -> SeekerScreen \cup VolunteerScreen]
      /\ inbox \in [Account -> Seq(Notice)]
      /\ \A v \in Volunteer : call[v] \in {Idle} \cup
           ({"sent", "matched", "accepted", "granted", "refused"} \X Session)
  BY DEF IInv, TypeOK
<1>c. screen[k] = <<"chat", s>> \/ n \in Notices(k)
  BY <1>a DEF Knows
<1>d. ASSUME screen'[k] = screen[k] \/ screen[k] # <<"chat", s>>,
             screen[k] = <<"chat", s>> \/ n \in Notices(k)'
      PROVE  Knows(s)'
  BY <1>c, <1>d DEF Knows
<1>e. ASSUME inbox' = inbox, screen'[k] = screen[k] \/ screen[k] # <<"chat", s>> PROVE Knows(s)'
  BY <1>c, <1>e DEF Knows, Notices
<1>f. ASSUME NEW to, NEW m \in Notice, Emit(to, m), UNCHANGED screen PROVE Knows(s)'
  <2>1. Notices(k) \subseteq Notices(k)'
    BY <1>a, <1>b, <1>f, EmitKeeps
  <2> QED
    BY <1>c, <1>d, <1>f, <2>1
<1>1. ASSUME NEW q \in Session, PublishWaiting(q) PROVE Knows(s)'
  BY <1>1, <1>f DEF PublishWaiting, phoneVars, Notice
<1>2. ASSUME NEW q \in Session, TakeConnectAnswer(q) PROVE Knows(s)'
  <2>1. Underway(q) /\ UNCHANGED inbox
    BY <1>2 DEF TakeConnectAnswer, Underway
  <2>2. screen[SeekerOf[q]] = Home
    BY <2>1 DEF Company, AsksFromHome
  <2>3. screen'[k] = screen[k] \/ k = SeekerOf[q]
    BY <1>2, <1>a, <1>b DEF TakeConnectAnswer
  <2> QED
    BY <1>e, <2>1, <2>2, <2>3 DEF Home
<1>3. ASSUME NEW v \in Volunteer, NEW page, screen' = [screen EXCEPT ![v] = page], inbox' = inbox
      PROVE  Knows(s)'
  BY <1>3, <1>a, <1>b, <1>e
<1>4. ASSUME NEW v \in Volunteer, EmitMatched(v) PROVE Knows(s)'
  <2>1. <<"session:matched", call[v][2]>> \in Notice
    BY <1>4, <1>b DEF EmitMatched, Notice, Idle
  <2> QED
    BY <1>4, <1>f, <2>1 DEF EmitMatched, TellSeeker, phoneVars
<1>5. ASSUME NEW v \in Volunteer, EmitAccepted(v) PROVE Knows(s)'
  <2>1. <<"session:accepted", call[v][2]>> \in Notice
    BY <1>5, <1>b DEF EmitAccepted, Notice, Idle
  <2> QED
    BY <1>5, <1>f, <2>1 DEF EmitAccepted, phoneVars
<1>6. ASSUME NEW q \in Session, EmitEnded(q) PROVE Knows(s)'
  BY <1>6, <1>f DEF EmitEnded, TellSeeker, phoneVars, Notice
<1>7. ASSUME NEW j \in Seeker, HearSeeker(j) PROVE Knows(s)'
  <2>1. j \in Account /\ inbox[j] # <<>> /\ inbox' = [inbox EXCEPT ![j] = Tail(@)]
    BY <1>7 DEF HearSeeker, Account
  <2>2. CASE j # k
    <3>1. Notices(k)' = Notices(k)
      BY <1>a, <1>b, <2>1, <2>2, TailTakesOne
    <3>2. screen'[k] = screen[k]
      BY <1>7, <1>a, <1>b, <2>2 DEF HearSeeker
    <3> QED
      BY <1>c, <1>d, <3>1, <3>2
  <2>3. CASE j = k
    <3>1. Head(inbox[k]) \in Notices(k) /\ Head(inbox[k]) \in Notice
      BY <1>a, <1>b, <2>1, <2>3, TailKeeps
    <3>2. PICK kind, q : Head(inbox[k]) = <<kind, q>> /\ q \in Session
      BY <3>1 DEF Notice
    <3>3. \/ kind = "session:matched" /\ state[q] \in {"matched", "over"}
          \/ kind = "session:ended" /\ state[q] = "cancelled"
      BY <3>1, <3>2, <1>a DEF IInv, Truth, NoticesTrue
    <3>4. screen'[k] = IF kind = "session:matched" THEN OnMatched(screen[k], q) ELSE OnEnded(screen[k], q)
      BY <1>7, <1>a, <1>b, <2>3, <3>2 DEF HearSeeker
    <3>5. screen[k] = <<"waiting", q>> \/ q \in missed'
      BY <1>7, <2>3, <3>2 DEF HearSeeker, Miss
    <3>6. CASE screen[k] = <<"chat", s>>
      <4>1. screen'[k] = screen[k]
        BY <3>4, <3>6 DEF OnMatched, OnEnded
      <4> QED
        BY <1>d, <3>6, <4>1
    <3>7. CASE screen[k] # <<"chat", s>> /\ Head(inbox[k]) = n
      <4>1. kind = "session:matched" /\ q = s
        BY <3>2, <3>7
      <4>2. screen[k] = <<"waiting", s>>
        BY <4>1, <3>5, <1>a
      <4> QED
        BY <3>4, <4>1, <4>2 DEF OnMatched, Knows
    <3>8. CASE screen[k] # <<"chat", s>> /\ Head(inbox[k]) # n
      <4>1. Notices(k) \subseteq Notices(k)' \cup {Head(inbox[k])}
        BY <1>a, <1>b, <2>1, <2>3, TailTakesOne
      <4> QED
        BY <1>c, <1>d, <3>8, <4>1
    <3> QED
      BY <3>6, <3>7, <3>8
  <2> QED
    BY <2>2, <2>3
<1>8. ASSUME NEW v \in Volunteer, HearVolunteer(v) PROVE Knows(s)'
  <2>1. v \in Account /\ inbox[v] # <<>> /\ inbox' = [inbox EXCEPT ![v] = Tail(@)] /\ k # v
    BY <1>8, <1>a DEF HearVolunteer, Account
  <2>2. Notices(k)' = Notices(k)
    BY <1>a, <1>b, <2>1, TailTakesOne
  <2> QED
    BY <1>8, <1>c, <1>d, <2>2 DEF HearVolunteer
<1>9. ASSUME NEW b \in Account, Drop(b) PROVE Knows(s)'
  <2>1. UNCHANGED screen
    BY <1>9 DEF Drop, phoneVars
  <2>2. CASE b # k
    <3>1. Notices(k)' = Notices(k)
      BY <1>9, <1>a, <1>b, <2>2 DEF Drop, Notices
    <3> QED
      BY <1>c, <1>d, <2>1, <3>1
  <2>3. CASE b = k
    <3>1. n \notin Notices(k)
      BY <1>9, <1>a, <2>3 DEF Drop, Mine
    <3> QED
      BY <1>c, <1>d, <2>1, <3>1
  <2> QED
    BY <2>2, <2>3
<1>10. ASSUME NEW j \in Seeker, LeaveWaiting(j) PROVE Knows(s)'
  <2>1. screen'[k] = screen[k] \/ screen[k] # <<"chat", s>>
    BY <1>10, <1>a, <1>b DEF LeaveWaiting
  <2> QED
    BY <1>10, <1>e, <2>1 DEF LeaveWaiting
<1>11. ASSUME NEW b \in Account, LeaveChat(b) PROVE Knows(s)'
  <2>1. screen'[k] = screen[k] \/ screen[k] # <<"chat", s>>
    BY <1>11, <1>a, <1>b DEF LeaveChat
  <2> QED
    BY <1>11, <1>e, <2>1 DEF LeaveChat
<1>12. ASSUME UNCHANGED <<inbox, screen>> PROVE Knows(s)'
  BY <1>12, <1>e
<1> HIDE DEF k, n
<1>13. ASSUME NEW v \in Volunteer, NEW q \in Session, OpenOffer(v, q) PROVE Knows(s)'
  BY <1>13, <1>3 DEF OpenOffer
<1>14. ASSUME NEW v \in Volunteer, Decline(v) PROVE Knows(s)'
  BY <1>14, <1>3 DEF Decline
<1>15. ASSUME NEW v \in Volunteer, TakeAcceptAnswer(v) PROVE Knows(s)'
  BY <1>15, <1>3 DEF TakeAcceptAnswer
<1>16. \/ UNCHANGED <<inbox, screen>>
       \/ \E q \in Session : PublishWaiting(q)
       \/ \E q \in Session : TakeConnectAnswer(q)
       \/ \E v \in Volunteer, q \in Session : OpenOffer(v, q)
       \/ \E v \in Volunteer : Decline(v)
       \/ \E v \in Volunteer : EmitMatched(v)
       \/ \E v \in Volunteer : EmitAccepted(v)
       \/ \E v \in Volunteer : TakeAcceptAnswer(v)
       \/ \E q \in Session : EmitEnded(q)
       \/ \E j \in Seeker : HearSeeker(j)
       \/ \E v \in Volunteer : HearVolunteer(v)
       \/ \E b \in Account : Drop(b)
       \/ \E j \in Seeker : LeaveWaiting(j)
       \/ \E b \in Account : LeaveChat(b)
  BY StepCases DEF TapConnect, Refuse, MatchNow, OpenWaiting, LoseConnectAnswer, TapAccept,
     RefuseAccept, Claim, LoseAcceptAnswer, MatchTimeout, Poll, TakeList, Reopen, Register, EndChat,
     vars, serverVars, phoneVars
<1> QED
  BY <1>1, <1>2, <1>4, <1>5, <1>6, <1>7, <1>8, <1>9, <1>10, <1>11, <1>12, <1>13, <1>14, <1>15, <1>16

(* The notice reaches her socket, or she misses it. *)
LEMMA KnowsFromEmit ==
  ASSUME IInv, NEW v \in Volunteer, NEW s, EmitMatched(v), call[v][2] = s, s \notin missed'
  PROVE  Knows(s)'
<1>1. s \in Session /\ <<"session:matched", s>> \in Notice
  BY DEF EmitMatched, IInv, TypeOK, Notice, Idle
<1>2. SeekerOf[s] \in Account
  BY <1>1, JourneyConstants DEF Account
<1>3. link[SeekerOf[s]] = "up" /\ Emit({SeekerOf[s]}, <<"session:matched", s>>)
  BY <1>2 DEF EmitMatched, TellSeeker, Miss, Listening
<1>4. <<"session:matched", s>> \in Notices(SeekerOf[s])'
  BY <1>1, <1>2, <1>3, EmitKeeps DEF IInv, TypeOK
<1> QED
  BY <1>4 DEF Knows

LEMMA CompanyStays == IInv /\ Company /\ [Next]_vars => Company'
<1> SUFFICES ASSUME IInv, Company, [Next]_vars PROVE Company'
  OBVIOUS
<1>1. ASSUME NEW s \in Session, Announced(s)' PROVE Knows(s)'
  <2>1. CASE Announced(s)
    BY <1>1, <2>1, KnowledgeLasts
  <2>2. CASE ~Announced(s)
    <3>1. PICK v \in Volunteer : EmitMatched(v) /\ call[v][2] = s
      BY <1>1, <2>2, AnnouncedByEmit
    <3>2. s \notin missed'
      BY <1>1 DEF Announced
    <3> QED
      BY <3>1, <3>2, KnowsFromEmit
  <2> QED
    BY <2>1, <2>2
<1>2. SeekerKnows'
  BY <1>1 DEF SeekerKnows
<1> QED
  BY <1>2, WaitedFirstStays, VolunteersStay, SeekersStay DEF Company

(* With this, a volunteer in a chat has accepted, and his call is over. *)
LEMMA CompanyIsEnough == IInv /\ Company => NobodyAlone
<1> SUFFICES ASSUME IInv, Company, NEW v \in Volunteer, NEW s \in Session,
                    screen[v] = <<"chat", s>>, state[s] = "matched", s \notin missed
             PROVE  Knows(s)
  BY DEF NobodyAlone, Knows
<1>1. v \in Account /\ v # SeekerOf[s]
  BY JourneyConstants DEF Account
<1>2. listener[s] = v
  BY <1>1 DEF IInv, ScreensTellTruth, ScreenTrue
<1>3. answer[s] = "waiting"
  BY DEF Company, AcceptedWaited, LetIn
<1>4. ASSUME NEW w \in Volunteer, call[w] = <<"matched", s>> PROVE FALSE
  <2>1. listener[s] = w
    BY <1>4 DEF IInv, Truth, CallsTrue
  <2>2. screen[w][1] = "offer"
    BY <1>4 DEF Company, CallsFromOffer, Idle
  <2> QED
    BY <1>2, <2>1, <2>2
<1> QED
  BY <1>3, <1>4 DEF Company, SeekerKnows, Announced

(* A volunteer who accepted does not sit in a chat alone, unless the       *)
(* seeker lost a connection or an answer: whatever the order of accept()'s *)
(* notice, connect()'s answer and her taps.                                *)
THEOREM NobodySitsAlone == Spec => []NobodyAlone
  <1>1. Init => IInv /\ Company
    BY InitHolds, CompanyInit
  <1>2. IInv /\ Company /\ [Next]_vars => (IInv /\ Company)'
    BY StepKeeps, CompanyStays
  <1> QED
    BY <1>1, <1>2, CompanyIsEnough, PTL DEF Spec
-----------------------------------------------------------------------------
(* The refinement of SessionContract: a step opens, matches or ends one    *)
(* session, or leaves all sessions as they are.                            *)

LEMMA Phases ==
  ASSUME NEW s \in Session
  PROVE  /\ state[s] \in {"none", "refused"} => Phase(s) = "none"
         /\ state[s] \in {"waiting", "matched"} => Phase(s) = state[s]
         /\ state[s] \in {"cancelled", "over"} => Phase(s) = "ended"
         /\ state'[s] \in {"none", "refused"} => Phase(s)' = "none"
         /\ state'[s] \in {"waiting", "matched"} => Phase(s)' = state'[s]
         /\ state'[s] \in {"cancelled", "over"} => Phase(s)' = "ended"
  BY DEF Phase

LEMMA PhaseOfOne ==
  ASSUME NEW s \in Session, \A q \in Session : q # s => state'[q] = state[q]
  PROVE  [q \in Session |-> Phase(q)]' = [[q \in Session |-> Phase(q)] EXCEPT ![s] = Phase(s)']
  <1>1. \A q \in Session : q # s => Phase(q)' = Phase(q)
    BY DEF Phase
  <1> QED
    BY <1>1

LEMMA StepsKeepContract ==
  ASSUME TypeOK, [Next]_vars
  PROVE  [Contract!Next]_(Contract!contract)
  <1> DEFINE phase == [q \in Session |-> Phase(q)]
  <1>1. SUFFICES Contract!Next \/ UNCHANGED <<phase, listener>>
    BY DEF Contract!contract
  <1>2. ASSUME UNCHANGED state PROVE UNCHANGED phase
    BY <1>2 DEF Phase
  <1>3. \A s \in Session : phase[s] = Phase(s)
    OBVIOUS
  <1>4. ASSUME NEW s \in Session, Refuse(s) PROVE UNCHANGED <<phase, listener>>
    <2>1. /\ UNCHANGED listener /\ state[s] = "none" /\ state'[s] = "refused"
          /\ \A q \in Session : q # s => state'[q] = state[q]
      BY <1>4 DEF Refuse, TypeOK
    <2>2. Phase(s)' = Phase(s)
      BY <2>1, Phases
    <2> QED
      BY <2>1, <2>2, PhaseOfOne
  <1>5. ASSUME NEW s \in Session, NEW v \in Volunteer, MatchNow(s, v) PROVE Contract!Next
    <2>1. /\ state[s] = "none" /\ state'[s] = "matched"
          /\ \A q \in Session : q # s => state'[q] = state[q]
          /\ listener' = [listener EXCEPT ![s] = v]
      BY <1>5 DEF MatchNow, TypeOK
    <2>2. phase[s] = "none" /\ phase' = [phase EXCEPT ![s] = "matched"]
      BY <2>1, Phases, PhaseOfOne
    <2> QED
      BY <2>1, <2>2 DEF Contract!Next, Contract!OpenMatched
  <1>6. ASSUME NEW s \in Session, OpenWaiting(s) PROVE Contract!Next
    <2>1. /\ state[s] = "none" /\ state'[s] = "waiting" /\ UNCHANGED listener
          /\ \A q \in Session : q # s => state'[q] = state[q]
      BY <1>6 DEF OpenWaiting, TypeOK
    <2>2. phase[s] = "none" /\ phase' = [phase EXCEPT ![s] = "waiting"]
      BY <2>1, Phases, PhaseOfOne
    <2> QED
      BY <2>1, <2>2 DEF Contract!Next, Contract!Open
  <1>7. ASSUME NEW v \in Volunteer, Claim(v) PROVE Contract!Next
    <2>1. PICK s \in Session : s = call[v][2]
      BY <1>7 DEF Claim, TypeOK, Idle
    <2>2. /\ state[s] = "waiting" /\ state'[s] = "matched"
          /\ \A q \in Session : q # s => state'[q] = state[q]
          /\ listener' = [listener EXCEPT ![s] = v]
      BY <1>7, <2>1 DEF Claim, Claimable, TypeOK
    <2>3. phase[s] = "waiting" /\ phase' = [phase EXCEPT ![s] = "matched"]
      BY <2>2, Phases, PhaseOfOne
    <2> QED
      BY <2>2, <2>3 DEF Contract!Next, Contract!Match
  <1>8. ASSUME NEW s \in Session, state[s] \in {"waiting", "matched"},
               state'[s] \in {"cancelled", "over"}, UNCHANGED listener,
               \A q \in Session : q # s => state'[q] = state[q]
        PROVE  Contract!Next
    <2>1. phase[s] \in {"waiting", "matched"} /\ phase' = [phase EXCEPT ![s] = "ended"]
      BY <1>8, Phases, PhaseOfOne
    <2> QED
      BY <1>8, <2>1 DEF Contract!Next, Contract!End
  <1>9. ASSUME NEW s \in Session, MatchTimeout(s) PROVE Contract!Next
    BY <1>8, <1>9 DEF MatchTimeout, TypeOK
  <1>10. ASSUME NEW a \in Account, EndChat(a) PROVE Contract!Next
    <2> DEFINE s == screen[a][2]
    <2>1. s \in Session
      <3>1. screen[a] \in SeekerScreen \cup VolunteerScreen /\ screen[a][1] = "chat"
        BY <1>10 DEF EndChat, TypeOK
      <3>2. screen[a] # Home
        BY <3>1 DEF Home
      <3> QED
        BY <3>1, <3>2 DEF SeekerScreen, VolunteerScreen
    <2>2. /\ state[s] = "matched" /\ state'[s] = "over" /\ UNCHANGED listener
          /\ \A q \in Session : q # s => state'[q] = state[q]
      BY <1>10, <2>1 DEF EndChat, TypeOK
    <2> HIDE DEF s
    <2> QED
      BY <1>8, <2>1, <2>2
  <1>11. \/ UNCHANGED <<state, listener>>
         \/ \E s \in Session : Refuse(s) \/ OpenWaiting(s) \/ MatchTimeout(s)
         \/ \E s \in Session, v \in Volunteer : MatchNow(s, v)
         \/ \E v \in Volunteer : Claim(v)
         \/ \E a \in Account : EndChat(a)
    BY StepCases DEF vars, serverVars, TapConnect, PublishWaiting, TakeConnectAnswer,
       LoseConnectAnswer, OpenOffer, Decline, TapAccept, RefuseAccept, EmitMatched, EmitAccepted,
       TakeAcceptAnswer, LoseAcceptAnswer, EmitEnded, HearSeeker, HearVolunteer, Poll, TakeList,
       Drop, Reopen, Register, LeaveWaiting, LeaveChat
  <1> HIDE DEF phase
  <1> QED
    BY <1>2, <1>4, <1>5, <1>6, <1>7, <1>9, <1>10, <1>11

(* Told in whole steps, connect(), accept() and match:timeout keep the     *)
(* contract of a session, as they do step by step in SessionLifecycle.     *)
THEOREM ContractKept == Spec => ImplementsContract
  <1>1. Init => Contract!Init
    <2> SUFFICES ASSUME Init PROVE Contract!Init
      OBVIOUS
    <2>1. \A s \in Session : Phase(s) = "none"
      BY Phases DEF Init
    <2> QED
      BY <2>1 DEF Init, Contract!Init
  <1>2. TypeOK /\ [Next]_vars => [Contract!Next]_(Contract!contract)
    BY StepsKeepContract
  <1> QED
    BY <1>1, <1>2, TypeCorrect, PTL DEF Spec, ImplementsContract, Contract!Spec

=============================================================================
