------------------------------ MODULE MC_Accounts ------------------------------
(* What a backend keeps of accounts, in four parts that share no state:    *)
(* its tokens (AuthTokens), with one phone and the two tabs of one browser,*)
(* what is decided about it (Moderation), with a seeker, a volunteer and   *)
(* one session of theirs, its rows (AccountRecords) and its tickets over   *)
(* the dates (Tickets).  A behaviour is of one part; two calls are in      *)
(* flight in each of the first three, so Request, Task and Handler are the *)
(* same set.                                                               *)
EXTENDS AuthTokens, Moderation, AccountRecords, Tickets, TLC

CONSTANTS a1, a2, s1, s2, s3, s4

MCSeeker == {a1, a2}
MCSession == {s1, s2, s3, s4}
(* a1 has three sessions, one more than the smaller limit allows. *)
MCSeekerOf == s1 :> a1 @@ s2 :> a1 @@ s3 :> a1 @@ s4 :> a2
MCLimits == {1, 2}

VARIABLE part

(* The parts that a behaviour is not of stay in one initial state. *)
PartsInit ==
  /\ part \in {"tokens", "decisions", "records", "days"}
  /\ TokensInit /\ DecisionsInit /\ RecordsInit /\ DaysInit
  /\ part # "decisions" => role
  /\ part # "records" => languages = {}
  /\ part # "days" => \A l \in Limits : configured <= l

PartsNext ==
  \/ part = "tokens" /\ TokensNext
       /\ UNCHANGED <<part, decisionVars, recordVars, dayVars>>
  \/ part = "decisions" /\ DecisionsNext
       /\ UNCHANGED <<part, tokenVars, recordVars, dayVars>>
  \/ part = "records" /\ RecordsNext
       /\ UNCHANGED <<part, tokenVars, decisionVars, dayVars>>
  \/ part = "days" /\ DaysNext
       /\ UNCHANGED <<part, tokenVars, decisionVars, recordVars>>

PartsSpec ==
  PartsInit /\ [][PartsNext]_<<part, tokenVars, decisionVars, recordVars, dayVars>>

Symmetry == Permutations(Tab) \cup Permutations(Task) \cup Permutations(Rating)
=============================================================================
