--------------------------- MODULE AccountRecords ---------------------------
(***************************************************************************)
(* The handlers that read a row and write it some awaits later: two        *)
(* registrations, the edits of one account (its languages, its password,   *)
(* the tokens of its devices) and the reset of its password.  Each is two  *)
(* or three steps that those of another request come between; what keeps   *)
(* the rows right is a unique index, a transaction, or nothing.            *)
(*                                                                         *)
(* The specialisations of a volunteer are replaced as languages are.  What *)
(* a bar does to calls is AuthTokens, what a reviewer decides Moderation.  *)
(***************************************************************************)
EXTENDS Integers, FiniteSets

CONSTANTS
  Handler,    \* the requests
  Person,     \* those who register; each has an e-mail address
  Nickname,   \* nicknames that can be drawn
  Language,
  WriteBound, \* bound: requests of two steps, and one-time passwords, in a behaviour
  Absent

ASSUME AccountRecordsConstants ==
  /\ WriteBound \in Nat /\ IsFiniteSet(Language)
  /\ Absent \notin Person \cup Nickname

Kind == {"register", "languages", "password", "device", "otp"}

VARIABLES
  accounts,  \* those registered: [email, nickname]
  languages, \* account_language of the account: [language, by], by the replacement that inserted it
  password,  \* its password, as the number of the change that set it
  devices,   \* device_token rows with the phone's token
  otp,       \* a one-time password is in Redis
  handling,  \* the request behind each Handler, or Absent
  asked,     \* history: the requests so far
  crossed,  \* history: kinds of which two requests overlapped
  last,      \* history: the languages that were set last
  sent,      \* history: one-time passwords that were sent
  spent,     \* history: requests that one of them let through
  rightful   \* history: every change was made by who knew the password in force

recordVars ==
  <<accounts, languages, password, devices, otp, handling, asked, crossed, last, sent, spent,
    rightful>>
histories == <<last, sent, spent, rightful>>

RecordsInit ==
  /\ \E s \in SUBSET Language : languages = {[language |-> l, by |-> 0] : l \in s}
  /\ accounts = {} /\ password = 0 /\ devices = 0 /\ otp = FALSE
  /\ handling = [c \in Handler |-> Absent] /\ asked = 0 /\ crossed = {}
  /\ last = languages /\ sent = 0 /\ spent = 0 /\ rightful = TRUE

(* A request between its steps, with what the first of them read.          *)
LanguageRow == [language : Language, by : Nat]
RecordCall ==
  [kind : {"register"}, email : Person, nickname : Nickname \cup {Absent}]
  \cup [kind : {"languages"}, seen : SUBSET LanguageRow, to : SUBSET LanguageRow]
  \cup [kind : {"password"}, read : Nat, to : Nat]
  \cup [kind : {"device"}, found : BOOLEAN]
  \cup [kind : {"otp"}]

RecordsTypeOK ==
  /\ languages \subseteq LanguageRow /\ last \subseteq LanguageRow /\ password \in Nat /\ devices \in Nat
  /\ otp \in BOOLEAN /\ handling \in [Handler -> RecordCall \cup {Absent}] /\ asked \in Nat
  /\ crossed \subseteq Kind /\ sent \in Nat /\ spent \in Nat /\ rightful \in BOOLEAN

-----------------------------------------------------------------------------
Doing(c, k) == handling[c] # Absent /\ handling[c].kind = k

(* A request, with what its first query read.  Only requests of one kind   *)
(* can disturb each other.                                                 *)
Start(c, call) ==
  /\ handling[c] = Absent /\ asked < WriteBound
  /\ handling' = [handling EXCEPT ![c] = call]
  /\ asked' = asked + 1
  /\ crossed' = IF \E d \in Handler : Doing(d, call.kind)
                 THEN crossed \cup {call.kind} ELSE crossed

Done(c) == handling' = [handling EXCEPT ![c] = Absent] /\ UNCHANGED <<asked, crossed>>

-----------------------------------------------------------------------------
(* register and registerVolunteer: is the address free, which nickname is, *)
(* and the insertion, which a unique index refuses.                        *)
CheckEmail(c, p) ==
  /\ \A a \in accounts : a.email # p
  /\ Start(c, [kind |-> "register", email |-> p, nickname |-> Absent])
  /\ UNCHANGED <<accounts, languages, password, devices, otp, histories>>

(* One that is taken is drawn again; the last attempt is not looked up. *)
DrawNickname(c, n) ==
  /\ Doing(c, "register") /\ handling[c].nickname = Absent
  /\ (\E free \in Nickname : \A a \in accounts : a.nickname # free)
       => \A a \in accounts : a.nickname # n
  /\ handling' = [handling EXCEPT ![c].nickname = n]
  /\ UNCHANGED <<accounts, languages, password, devices, otp, asked, crossed, histories>>

Mut_NoUniqueIndex(r) == TRUE

(* account.email and account.nickname are unique. *)
Insertable(r) == \A a \in accounts : a.email # r.email /\ a.nickname # r.nickname

CreateAccount(c) ==
  /\ Doing(c, "register") /\ handling[c].nickname # Absent
  /\ accounts' = IF Insertable(handling[c])
                 THEN accounts \cup {[email |-> handling[c].email, nickname |-> handling[c].nickname,
                                      by |-> c]}
                 ELSE accounts
  /\ Done(c)
  /\ UNCHANGED <<languages, password, devices, otp, histories>>

-----------------------------------------------------------------------------
(* The transaction of updateMe, of the languages alone: a name with them   *)
(* would lock the account first.  At the isolation of the database the     *)
(* deletion takes away the rows that were committed when it started, ...   *)
DeleteLanguages(c, s) ==
  /\ Start(c, [kind |-> "languages", seen |-> languages,
               to |-> {[language |-> l, by |-> asked + 1] : l \in s}])
  /\ UNCHANGED <<accounts, languages, password, devices, otp, histories>>

(* ... those that another has inserted since stay, and break the           *)
(* transaction when they are of a language that is set.                    *)
CreateLanguages(c) ==
  /\ Doing(c, "languages")
  /\ LET kept == languages \ handling[c].seen
         new == handling[c].to
     IN IF \A k \in kept, n \in new : k.language # n.language
        THEN languages' = kept \cup new /\ last' = new
        ELSE UNCHANGED <<languages, last>>
  /\ Done(c)
  /\ UNCHANGED <<accounts, password, devices, otp, sent, spent, rightful>>

-----------------------------------------------------------------------------
(* changePassword: the current password is compared with the row read. *)
VerifyPassword(c) ==
  /\ Start(c, [kind |-> "password", read |-> password, to |-> asked + 1])
  /\ UNCHANGED <<accounts, languages, password, devices, otp, histories>>

WritePassword(c) ==
  /\ Doing(c, "password")
  /\ password' = handling[c].to
  /\ rightful' = (rightful /\ handling[c].read = password)
  /\ Done(c)
  /\ UNCHANGED <<accounts, languages, devices, otp, last, sent, spent>>

-----------------------------------------------------------------------------
(* registerToken: an update of the row that was found, or a new one. *)
FindDevice(c) ==
  /\ Start(c, [kind |-> "device", found |-> devices > 0])
  /\ UNCHANGED <<accounts, languages, password, devices, otp, histories>>

WriteDevice(c) ==
  /\ Doing(c, "device")
  /\ devices' = IF handling[c].found THEN devices ELSE devices + 1
  /\ Done(c)
  /\ UNCHANGED <<accounts, languages, password, otp, histories>>

(* removeToken deletes all; an update whose row is gone fails. *)
RemoveDevice ==
  /\ devices > 0 /\ devices' = 0
  /\ UNCHANGED <<accounts, languages, password, otp, handling, asked, crossed, histories>>

-----------------------------------------------------------------------------
(* forgotPassword: another one takes the place of the first. *)
ForgotPassword ==
  /\ sent < WriteBound
  /\ otp' = TRUE /\ sent' = sent + 1
  /\ UNCHANGED <<accounts, languages, password, devices, handling, asked, crossed, last, spent, rightful>>

(* verifyOtp: GET and the comparison, then DEL and a token for the reset. *)
ReadOtp(c) ==
  /\ otp
  /\ Start(c, [kind |-> "otp"])
  /\ UNCHANGED <<accounts, languages, password, devices, otp, histories>>

(* It is removed to prevent reuse, and one sent since GET with it. *)
SpendOtp(c) ==
  /\ Doing(c, "otp")
  /\ otp' = FALSE /\ spent' = spent + 1
  /\ Done(c)
  /\ UNCHANGED <<accounts, languages, password, devices, last, sent, rightful>>

OtpExpires ==
  /\ otp /\ otp' = FALSE
  /\ UNCHANGED <<accounts, languages, password, devices, handling, asked, crossed, histories>>

-----------------------------------------------------------------------------
RecordsNext ==
  \/ \E c \in Handler :
       \/ \E p \in Person : CheckEmail(c, p)
       \/ \E n \in Nickname : DrawNickname(c, n)
       \/ CreateAccount(c)
       \/ \E s \in SUBSET Language : DeleteLanguages(c, s)
       \/ CreateLanguages(c)
       \/ VerifyPassword(c) \/ WritePassword(c)
       \/ FindDevice(c) \/ WriteDevice(c)
       \/ ReadOtp(c) \/ SpendOtp(c)
  \/ RemoveDevice \/ ForgotPassword \/ OtpExpires

RecordsSpec == RecordsInit /\ [][RecordsNext]_recordVars

-----------------------------------------------------------------------------
(* However two requests come between each other's steps, no two accounts   *)
(* have one address or one nickname, the languages of the last replacement *)
(* are all there, and none is there twice.  With nobody between its steps  *)
(* a replacement leaves no other, a phone has one row, a password is       *)
(* changed by who knew it and a one-time password serves once              *)
(* (auth.service.ts:39-190,259-309, account.service.ts:80-200,             *)
(* device.service.ts:11-35).                                               *)
RecordsHold ==
  /\ \A a, b \in accounts : a # b => a.email # b.email /\ a.nickname # b.nickname
  /\ last \subseteq languages
  /\ \A k, m \in languages : k.language = m.language => k = m
  /\ "languages" \notin crossed => languages = last
  /\ "device" \notin crossed => devices <= 1
  /\ "password" \notin crossed => rightful
  /\ "otp" \notin crossed => spent <= sent
=============================================================================
