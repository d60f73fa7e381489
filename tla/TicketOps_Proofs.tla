-------------------------- MODULE TicketOps_Proofs ---------------------------
(***************************************************************************)
(* What the ticket scripts keep true of a key, for every hash and limit.   *)
(***************************************************************************)
EXTENDS TicketOps, TLAPS

(* The allowance fixed on a key is one of the configured limits, or not    *)
(* fixed yet, and the tickets reserved and consumed never exceed it.       *)
KeyOK(t, limits) ==
  /\ t \in TicketHash
  /\ t.daily \in limits \cup {0}
  /\ t.consumed + t.reserved <= t.daily

LEMMA EmptyKeyOK ==
  ASSUME NEW limits
  PROVE  KeyOK(EmptyKey, limits)
  BY DEF KeyOK, EmptyKey, TicketHash

(* tryReserve keeps a key sound, whatever limit the deployment reads. *)
LEMMA ReserveOK ==
  ASSUME NEW limits \in SUBSET Nat, NEW t, KeyOK(t, limits),
         NEW c \in limits, c # 0
  PROVE  KeyOK(TryReserve(t, c), limits)
  <1>1. c \in Nat /\ c > 0
    OBVIOUS
  <1>2. PICK d \in Nat, u \in Nat, r \in Nat :
              t = [daily |-> d, consumed |-> u, reserved |-> r]
    BY DEF KeyOK, TicketHash
  <1>3. WithDaily(t, c) =
          [daily |-> IF d = 0 THEN c ELSE d, consumed |-> u, reserved |-> r]
    BY <1>2 DEF WithDaily
  <1>4. CASE CanReserve(t, c)
    BY <1>1, <1>2, <1>3, <1>4
      DEF KeyOK, TicketHash, TryReserve, CanReserve, Free
  <1>5. CASE ~CanReserve(t, c)
    BY <1>1, <1>2, <1>3, <1>5 DEF KeyOK, TicketHash, TryReserve
  <1>6. QED
    BY <1>4, <1>5

(* The two settle scripts keep a key sound. *)
LEMMA ReleaseOK ==
  ASSUME NEW limits \in SUBSET Nat, NEW t, KeyOK(t, limits)
  PROVE  KeyOK(ReleaseReserved(t), limits)
  BY DEF KeyOK, TicketHash, ReleaseReserved

LEMMA ConsumeOK ==
  ASSUME NEW limits \in SUBSET Nat, NEW t, KeyOK(t, limits)
  PROVE  KeyOK(ConsumeReserved(t), limits)
  <1>1. PICK d \in Nat, u \in Nat, r \in Nat :
              t = [daily |-> d, consumed |-> u, reserved |-> r]
    BY DEF KeyOK, TicketHash
  <1>2. r # 0 => ConsumeReserved(t) =
                   [daily |-> d, consumed |-> u + 1, reserved |-> r - 1]
    BY <1>1 DEF ConsumeReserved
  <1>3. r = 0 => ConsumeReserved(t) = t
    BY <1>1 DEF ConsumeReserved
  <1>4. QED
    BY <1>1, <1>2, <1>3 DEF KeyOK, TicketHash

(* Both settle scripts take one ticket off the reserved count, or none. *)
LEMMA SettleTakesOne ==
  ASSUME NEW d \in Nat, NEW u \in Nat, NEW r \in Nat, NEW t,
         t = [daily |-> d, consumed |-> u, reserved |-> r]
  PROVE  /\ ReleaseReserved(t).reserved = IF r = 0 THEN 0 ELSE r - 1
         /\ ConsumeReserved(t).reserved = IF r = 0 THEN 0 ELSE r - 1
  <1>1. r # 0 => ConsumeReserved(t) =
                   [daily |-> d, consumed |-> u + 1, reserved |-> r - 1]
    BY DEF ConsumeReserved
  <1>2. r # 0 => ReleaseReserved(t) =
                   [daily |-> d, consumed |-> u, reserved |-> r - 1]
    BY DEF ReleaseReserved
  <1>3. r = 0 => ReleaseReserved(t) = t /\ ConsumeReserved(t) = t
    BY DEF ReleaseReserved, ConsumeReserved
  <1>4. QED
    BY <1>1, <1>2, <1>3

=============================================================================
