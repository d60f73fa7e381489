------------------------------ MODULE Moderation ------------------------------
(***************************************************************************)
(* Decisions that people take over HTTP, each read in one statement and    *)
(* written in a later one: administrators review the applications of a     *)
(* volunteer and the reports of a session (AdminService), the volunteer    *)
(* applies and sets his availability (VolunteerService), the two parties   *)
(* of the session report and rate it (ReportsService, SessionService.rate).*)
(*                                                                         *)
(* A task is a call that has read its item and not yet written it.         *)
(***************************************************************************)
EXTENDS Integers, FiniteSets

CONSTANTS
  Task,       \* bound: calls in flight at once
  Party,      \* the two accounts of the session
  Applicant,  \* the one of them that applies as a volunteer
  Reporter,   \* bound: those of them that report and rate
  Rating,     \* the ratings given
  AppBound,   \* bound: applications
  ActionBound,\* bound: actions on record when an account is acted upon
  AllowOverlap,      \* the overlaps that may happen
  Unset

(* double_apply: two calls of apply overlap.                               *)
(* double_review: two reviews of one application, or of one report, do.    *)
Overlap == {"double_apply", "double_review"}

ASSUME ModerationConstants ==
  /\ \E p, q \in Party : p # q /\ Party = {p, q}
  /\ Applicant \in Party /\ Reporter \subseteq Party
  /\ AppBound \in Nat /\ ActionBound \in Nat
  /\ AllowOverlap \subseteq Overlap
  /\ Unset \notin Party \cup Rating
  /\ Unset \notin {"pending", "approved", "rejected", "resolved", "dismissed", "on", "off"}

VARIABLES
  standing,     \* account.status of each party
  application,  \* the rows of volunteer_verification, in the order created
  count,        \* how many there are
  profile,      \* volunteer_profile.verificationStatus
  available,    \* volunteer_profile.isAvailable
  role,         \* the applicant has the role volunteer
  report,       \* the report each party has filed: its status
  actions,      \* account_action: <<account, the reporter or Unset, type>>
  completed,    \* the session is completed
  rating,       \* userRating and volunteerRating
  tasks,        \* the calls in flight
  late,         \* history: the tasks that had read an item when it was decided
  overlaps      \* history: the overlaps so far

rowVars == <<standing, application, count, profile, available, role, report, actions,
             completed, rating>>
decisionVars == <<standing, application, count, profile, available, role, report, actions,
          completed, rating, tasks, late, overlaps>>

Other(p) == CHOOSE q \in Party : q # p

Review == {"pending", "approved", "rejected"}
Report == {"pending", "resolved", "dismissed"}
ActionType == {"warning", "suspend", "ban"}

(* What is decided once: an application, a report, a rating.  The call to  *)
(* apply and the one to change availability are about the account.         *)
Application == {"application"} \X (1..AppBound)
Filed == {"report"} \X Party
Given == {"rating"} \X Party
Account == {"account"} \X Party
Item == Application \cup Filed \cup Given \cup Account
Decision ==
  [item: Application, as: {"approved", "rejected"}]
    \cup [item: Filed, as: ActionType \cup {"dismissed"}]
    \cup [item: Given, as: Rating]
    \cup [item: Account, as: {"on", "off", Unset}]

DecisionsTypeOK ==
  /\ standing \in [Party -> {"active", "suspended", "banned"}]
  /\ application \in [1..AppBound -> Review \cup {Unset}]
  /\ count \in 0..AppBound
  /\ \A n \in 1..AppBound : application[n] = Unset <=> n > count
  /\ profile \in Review \cup {Unset} /\ (profile = Unset <=> count = 0)
  /\ available \in BOOLEAN /\ role \in BOOLEAN
  /\ report \in [Party -> Report \cup {Unset}]
  /\ actions \subseteq Party \X (Party \cup {Unset}) \X ActionType
  /\ completed \in BOOLEAN
  /\ rating \in [Party -> Rating \cup {Unset}]
  /\ tasks \in [Task -> Decision \cup {Unset}]
  /\ late \in [Item -> SUBSET Task]
  /\ overlaps \subseteq AllowOverlap

(* The applicant may have registered as a volunteer, and so have the role. *)
DecisionsInit ==
  /\ standing = [p \in Party |-> "active"]
  /\ application = [n \in 1..AppBound |-> Unset] /\ count = 0
  /\ profile = Unset /\ available = FALSE /\ role \in BOOLEAN
  /\ report = [p \in Party |-> Unset] /\ actions = {}
  /\ completed = FALSE /\ rating = [p \in Party |-> Unset]
  /\ tasks = [t \in Task |-> Unset]
  /\ late = [i \in Item |-> {}] /\ overlaps = {}

Decided(i) ==
  \/ i \in Application /\ application[i[2]] \in {"approved", "rejected"}
  \/ i \in Filed /\ report[i[2]] \in {"resolved", "dismissed"}
  \/ i \in Given /\ rating[i[2]] # Unset
  \/ i \in Account /\ standing[i[2]] # "active"

On(i) == {t \in Task : tasks[t] # Unset /\ tasks[t].item = i}

(* Overlap m happens in this step just when `case` holds. *)
NoteOverlap(case, m) ==
  IF case THEN m \in AllowOverlap /\ overlaps' = overlaps \cup {m} ELSE UNCHANGED overlaps

(* Task t has read item i and will write decision `as`. *)
Reads(t, i, as) ==
  /\ tasks[t] = Unset
  /\ tasks' = [tasks EXCEPT ![t] = [item |-> i, as |-> as]]
  /\ UNCHANGED <<rowVars, late>>

(* Which tasks have read an item that this step decides. *)
Lateness(over) ==
  late' = [i \in Item |-> (late[i] \cup (IF ~Decided(i) /\ Decided(i)' THEN On(i) ELSE {})) \ over]

(* Task t is over. *)
Writes(t) ==
  /\ tasks' = [tasks EXCEPT ![t] = Unset]
  /\ Lateness({t})
  /\ UNCHANGED overlaps

-----------------------------------------------------------------------------
(* VolunteerService *)

(* applyAsVolunteer: the account is active and has no application that is  *)
(* pending or approved.                                                    *)
OpenApplication(n) == application[n] \in {"pending", "approved"}

Mut_ApplyOncePending(t) ==
  /\ standing[Applicant] = "active"
  /\ \A n \in 1..count : application[n] # "pending"
  /\ NoteOverlap(\E u \in On(<<"account", Applicant>>) : tasks[u].as = Unset, "double_apply")
  /\ Reads(t, <<"account", Applicant>>, Unset)

ApplyRead(t) ==
  /\ standing[Applicant] = "active"
  /\ \A n \in 1..count : ~OpenApplication(n)
  /\ NoteOverlap(\E u \in On(<<"account", Applicant>>) : tasks[u].as = Unset, "double_apply")
  /\ Reads(t, <<"account", Applicant>>, Unset)

(* The rest of the transaction: the profile starts again, the application  *)
(* is created.                                                             *)
ApplyWrite(t) ==
  /\ tasks[t] # Unset /\ tasks[t] = [item |-> <<"account", Applicant>>, as |-> Unset]
  /\ count < AppBound
  /\ count' = count + 1
  /\ application' = [application EXCEPT ![count + 1] = "pending"]
  /\ profile' = "pending" /\ available' = FALSE
  /\ UNCHANGED <<standing, role, report, actions, completed, rating>>
  /\ Writes(t)

Mut_AvailableAnyway(t, as) ==
  /\ profile = "approved"
  /\ as \in {"on", "off"}
  /\ Reads(t, <<"account", Applicant>>, as)
  /\ UNCHANGED overlaps

(* updateStatus: the account is active and its profile approved. *)
AvailableRead(t, as) ==
  /\ standing[Applicant] = "active" /\ profile = "approved"
  /\ as \in {"on", "off"}
  /\ Reads(t, <<"account", Applicant>>, as)
  /\ UNCHANGED overlaps

AvailableWrite(t) ==
  /\ tasks[t] # Unset /\ tasks[t].item = <<"account", Applicant>> /\ tasks[t].as \in {"on", "off"}
  /\ available' = (tasks[t].as = "on")
  /\ UNCHANGED <<standing, application, count, profile, role, report, actions, completed,
                 rating>>
  /\ Writes(t)

-----------------------------------------------------------------------------
(* AdminService *)

(* approveVolunteerApplication and rejectVolunteerApplication find the     *)
(* application pending ...                                                 *)
Reviewable(n) == n <= count /\ application[n] = "pending"

ReviewRead(t, n, verdict) ==
  /\ Reviewable(n)
  /\ NoteOverlap(On(<<"application", n>>) # {}, "double_review")
  /\ Reads(t, <<"application", n>>, verdict)

(* ... and write it, the profile and, to approve, the role. *)
ReviewWrite(t, n) ==
  /\ tasks[t] # Unset /\ tasks[t].item = <<"application", n>>
  /\ application' = [application EXCEPT ![n] = tasks[t].as]
  /\ profile' = tasks[t].as
  /\ role' = (role \/ tasks[t].as = "approved")
  /\ UNCHANGED <<standing, count, available, report, actions, completed, rating>>
  /\ Writes(t)

(* takeAction and dismissReport find the report of p open ... *)
OpenReport(p) == report[p] = "pending"

ReportRead(t, p, as) ==
  /\ OpenReport(p)
  /\ as \in ActionType \cup {"dismissed"}
  /\ NoteOverlap(On(<<"report", p>>) # {}, "double_review")
  /\ Reads(t, <<"report", p>>, as)

(* suspend and ban set the standing of the account, whatever it was. *)
Punished(p, type) ==
  [standing EXCEPT ![p] = CASE type = "suspend" -> "suspended"
                          [] type = "ban" -> "banned"
                          [] OTHER -> @]

(* ... and dismiss it, or record the action, resolve it and set the standing *)
(* of the account reported.                                                *)
ReportWrite(t, p) ==
  /\ tasks[t] # Unset /\ tasks[t].item = <<"report", p>>
  /\ LET as == tasks[t].as IN
     IF as = "dismissed"
     THEN /\ report' = [report EXCEPT ![p] = "dismissed"]
          /\ UNCHANGED <<actions, standing>>
     ELSE /\ report' = [report EXCEPT ![p] = "resolved"]
          /\ actions' = actions \cup {<<Other(p), p, as>>}
          /\ standing' = Punished(Other(p), as)
  /\ UNCHANGED <<application, count, profile, available, role, completed, rating>>
  /\ Writes(t)

(* takeAccountAction reads nothing it uses. *)
AccountAction(p, type) ==
  /\ Cardinality(actions) < ActionBound
  /\ actions' = actions \cup {<<p, Unset, type>>}
  /\ standing' = Punished(p, type)
  /\ UNCHANGED <<application, count, profile, available, role, report, completed, rating, tasks,
                 overlaps>>
  /\ Lateness({})

-----------------------------------------------------------------------------
(* The parties of the session *)

(* createReport: one for each party and session. *)
CreateReport(p) ==
  /\ report[p] = Unset
  /\ report' = [report EXCEPT ![p] = "pending"]
  /\ UNCHANGED <<standing, application, count, profile, available, role, actions, completed,
                 rating, tasks, late, overlaps>>

Mut_RateAgain(p) == TRUE

(* rate() finds the session completed and not yet rated by p ... *)
Unrated(p) == rating[p] = Unset

RateRead(t, p, stars) ==
  /\ completed /\ Unrated(p)
  /\ Reads(t, <<"rating", p>>, stars)
  /\ UNCHANGED overlaps

(* ... and writes its rating. *)
RateWrite(t, p) ==
  /\ tasks[t] # Unset /\ tasks[t].item = <<"rating", p>>
  /\ rating' = [rating EXCEPT ![p] = tasks[t].as]
  /\ UNCHANGED <<standing, application, count, profile, available, role, report, actions,
                 completed>>
  /\ Writes(t)

Complete ==
  /\ ~completed
  /\ completed' = TRUE
  /\ UNCHANGED <<standing, application, count, profile, available, role, report, actions,
                 rating, tasks, late, overlaps>>

-----------------------------------------------------------------------------
DecisionsNext ==
  \/ \E t \in Task :
       \/ ApplyRead(t) \/ ApplyWrite(t) \/ AvailableWrite(t)
       \/ \E as \in {"on", "off"} : AvailableRead(t, as)
       \/ \E n \in 1..AppBound :
            \/ \E verdict \in {"approved", "rejected"} : ReviewRead(t, n, verdict)
            \/ ReviewWrite(t, n)
       \/ \E p \in Reporter :
            \/ \E as \in ActionType \cup {"dismissed"} : ReportRead(t, p, as)
            \/ \E stars \in Rating : RateRead(t, p, stars)
            \/ ReportWrite(t, p) \/ RateWrite(t, p)
  \/ \E p \in Reporter : CreateReport(p)
  \/ \E p \in Party, type \in ActionType : AccountAction(p, type)
  \/ Complete

DecisionsSpec == DecisionsInit /\ [][DecisionsNext]_decisionVars

-----------------------------------------------------------------------------
(* What is decided stays as it is: an application, a report or a rating    *)
(* changes again only by a call that had read it before it was decided     *)
(* (admin.service.ts:107-171, 228-318, session.service.ts:922-1003).       *)
Standing(i) ==
  CASE i \in Application -> application[i[2]]
    [] i \in Filed -> report[i[2]]
    [] i \in Given -> rating[i[2]]

DecisionsStand ==
  [][\A i \in Application \cup Filed \cup Given :
       Decided(i) /\ Standing(i)' # Standing(i)
         => \E t \in late[i] : tasks[t] # Unset /\ tasks'[t] = Unset]_decisionVars

(* A suspended or banned account does not apply and does not change its    *)
(* availability, except by a call that had read its standing before          *)
(* (volunteer.service.ts:18-29, 134-162).                                  *)
BarredDoNothing ==
  [][standing[Applicant] # "active" /\ (count' # count \/ (available' /\ ~available))
       => \E t \in late[<<"account", Applicant>>] : tasks[t] # Unset /\ tasks'[t] = Unset]_decisionVars

(* An account has one open application (volunteer.service.ts:165-175).     *)
OneOpenApplication ==
  overlaps = {} =>
    \A m, n \in 1..count : OpenApplication(m) /\ OpenApplication(n) => m = n

(* The profile, the role and the availability agree with the last          *)
(* application (volunteer.service.ts:177-214, admin.service.ts:252-318).   *)
ProfileFollowsApplication ==
  overlaps = {} =>
    /\ count > 0 => profile = application[count]
    /\ profile = "approved" => role
    /\ available => profile = "approved"

(* A dismissed report has led to no action, a resolved one to one          *)
(* (admin.service.ts:100-171).                                             *)
ReportsAndActionsAgree ==
  "double_review" \notin overlaps =>
    \A p \in Party :
      (report[p] = "resolved") <=> (\E type \in ActionType : <<Other(p), p, type>> \in actions)

(* What is on record about an account agrees: its applications with each   *)
(* other and with the profile, the reports with the actions taken on them. *)
RecordsAgree ==
  OneOpenApplication /\ ProfileFollowsApplication /\ ReportsAndActionsAgree
=============================================================================
