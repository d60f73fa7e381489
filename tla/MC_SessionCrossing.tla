------------------------- MODULE MC_SessionCrossing --------------------------
(* The instances of MC_SessionLifecycle with the history of SessionCrossing. *)
EXTENDS MC_SessionLifecycle, SessionCrossing

(* Two requests with one key may change places, and so may two calls.      *)
Alike2 == TwoCalls \cup Permutations({r1, r2})
=============================================================================
