--------------------------- MODULE MC_ChatPresence -----------------------------
(* A seeker with two requests and a volunteer who connects twice. *)
EXTENDS ChatPresence
CONSTANTS volunteer, seeker
MCOwner == [c \in Socket |-> IF c = 0 THEN seeker ELSE volunteer]
MCSeekerOf == [r \in Request |-> seeker]
MCPosedBy == [p \in Problem |-> seeker]
MCAllow == Mishap
=============================================================================
