--------------------------- MODULE SessionContract ---------------------------
(***************************************************************************)
(* What a help session promises the people in it, whatever handlers, jobs  *)
(* and stores carry it out: it is opened waiting for a volunteer or        *)
(* already matched with one, it is matched at most once, its listener      *)
(* never changes, and once it is over it stays over.                       *)
(***************************************************************************)
CONSTANTS Session, Listener, Nobody

VARIABLES phase, listener

contract == <<phase, listener>>

Init ==
  /\ phase = [s \in Session |-> "none"]
  /\ listener = [s \in Session |-> Nobody]

Open(s) ==
  /\ phase[s] = "none"
  /\ phase' = [phase EXCEPT ![s] = "waiting"]
  /\ UNCHANGED listener

OpenMatched(s, v) ==
  /\ phase[s] = "none"
  /\ phase' = [phase EXCEPT ![s] = "matched"]
  /\ listener' = [listener EXCEPT ![s] = v]

Match(s, v) ==
  /\ phase[s] = "waiting"
  /\ phase' = [phase EXCEPT ![s] = "matched"]
  /\ listener' = [listener EXCEPT ![s] = v]

(* Nobody came, or a matched session is over. *)
End(s) ==
  /\ phase[s] \in {"waiting", "matched"}
  /\ phase' = [phase EXCEPT ![s] = "ended"]
  /\ UNCHANGED listener

Next ==
  \E s \in Session :
    \/ Open(s)
    \/ End(s)
    \/ \E v \in Listener : OpenMatched(s, v) \/ Match(s, v)

Spec == Init /\ [][Next]_contract

=============================================================================
