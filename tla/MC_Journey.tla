------------------------------ MODULE MC_Journey ------------------------------
(* One seeker who may ask twice, and two volunteers. *)
EXTENDS Journey
CONSTANTS k, v1, v2, s1, s2

OneSeeker == [s \in Session |-> k]
=============================================================================
