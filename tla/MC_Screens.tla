------------------------------ MODULE MC_Screens ------------------------------
(* The screens that are not about a session, in four parts that share no   *)
(* state: a volunteer's profile (ProfileCache), the way from screen to     *)
(* screen (Navigation), the form of the seeker (ConnectForm) and the       *)
(* dashboard of the admins (Dashboard).  A behaviour is one of one part.   *)
EXTENDS ProfileCache, Navigation, ConnectForm, Dashboard, TLC

VARIABLE part

(* The parts that a behaviour is not of stay in one initial state. *)
Resting(p, some) == part = p \/ some
PartsInit ==
  /\ part \in {"profile", "navigation", "form", "dashboard"}
  /\ ProfileInit /\ NavInit /\ FormInit /\ DashInit
  /\ Resting("profile", row = (CHOOSE p \in Profile : TRUE))
  /\ Resting("navigation", who = NoOne /\ status = "none")
  /\ Resting("form", remaining = 0)
  /\ Resting("dashboard", rows = << >> /\ list = "reports")

PartsNext ==
  \/ part = "profile" /\ ProfileNext /\ UNCHANGED <<part, navVars, formVars, dashVars>>
  \/ part = "navigation" /\ NavNext /\ UNCHANGED <<part, profileVars, formVars, dashVars>>
  \/ part = "form" /\ FormNext /\ UNCHANGED <<part, profileVars, navVars, dashVars>>
  \/ part = "dashboard" /\ DashNext /\ UNCHANGED <<part, profileVars, navVars, formVars>>

PartsSpec == PartsInit /\ [][PartsNext]_<<part, profileVars, navVars, formVars, dashVars>>
=============================================================================
