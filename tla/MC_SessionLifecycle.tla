------------------------- MODULE MC_SessionLifecycle -------------------------
(***************************************************************************)
(* Small instances of SessionLifecycle: one or two connect requests of a   *)
(* seeker, and up to three accept calls, of one volunteer who taps twice   *)
(* or of two or three who race.                                            *)
(***************************************************************************)
EXTENDS SessionInvariant, TLC

CONSTANTS k1, key1, r1, r2, v1, v2, v3, a1, a2, a3

SameSeeker == [r \in Request |-> k1]
SameKey == [r \in Request |-> key1]

TwoTaps == [a \in Acceptor |-> v1]
OneEach == a1 :> v1 @@ a2 :> v2
ThreeEach == a1 :> v1 @@ a2 :> v2 @@ a3 :> v3

NoBlocks == {}
BlockV1 == {<<k1, v1>>}

(* Two calls of one volunteer may change places. *)
TwoCalls == Permutations({a1, a2})
=============================================================================
