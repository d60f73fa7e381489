--------------------------- MODULE Tickets_Proofs ----------------------------
(***************************************************************************)
(* TicketService never over-grants, for any accounts, sessions, limits and *)
(* number of days.                                                         *)
(***************************************************************************)
EXTENDS Tickets, TicketOps_Proofs, FiniteSetTheorems

IInv ==
  /\ DaysTypeOK
  /\ \A a \in Seeker : KeyOK(ticket[a], Limits)
  /\ \A s \in Session : heldOn[s] <= today

LEMMA IInvInit == DaysInit => IInv
  <1> SUFFICES ASSUME DaysInit PROVE IInv
    OBVIOUS
  <1>1. EmptyKey \in TicketHash
    BY DEF EmptyKey, TicketHash
  <1>2. DaysTypeOK
    BY <1>1, TicketConstants DEF DaysInit, DaysTypeOK
  <1>3. QED
    BY <1>2, EmptyKeyOK DEF DaysInit, IInv

LEMMA IInvNext == IInv /\ [DaysNext]_dayVars => IInv'
  <1> SUFFICES ASSUME IInv, [DaysNext]_dayVars PROVE IInv'
    OBVIOUS
  <1> USE DEF IInv, DaysTypeOK
  <1>1. ASSUME NEW s \in Session, Reserve(s) \/ Refuse(s) PROVE IInv'
    <2>1. SeekerOf[s] \in Seeker
      BY TicketConstants
    <2>2. KeyOK(TryReserve(ticket[SeekerOf[s]], configured), Limits)
      BY <2>1, ReserveOK, TicketConstants
    <2>3. TryReserve(ticket[SeekerOf[s]], configured) \in TicketHash
      BY <2>2 DEF KeyOK
    <2>4. QED
      BY <1>1, <2>1, <2>2, <2>3 DEF Reserve, Refuse
  <1>2. ASSUME NEW s \in Session, Release(s) PROVE IInv'
    <2>1. SeekerOf[s] \in Seeker
      BY TicketConstants
    <2>2. KeyOK(ReleaseReserved(ticket[SeekerOf[s]]), Limits)
      BY <2>1, ReleaseOK, TicketConstants
    <2>3. ReleaseReserved(ticket[SeekerOf[s]]) \in TicketHash
      BY <2>2 DEF KeyOK
    <2>4. QED
      BY <1>2, <2>1, <2>2, <2>3 DEF Release, Settled
  <1>3. ASSUME NEW s \in Session, Consume(s) PROVE IInv'
    <2>1. SeekerOf[s] \in Seeker
      BY TicketConstants
    <2>2. KeyOK(ConsumeReserved(ticket[SeekerOf[s]]), Limits)
      BY <2>1, ConsumeOK, TicketConstants
    <2>3. ConsumeReserved(ticket[SeekerOf[s]]) \in TicketHash
      BY <2>2 DEF KeyOK
    <2>4. QED
      BY <1>3, <2>1, <2>2, <2>3 DEF Consume, Settled
  <1>4. CASE Midnight
    <2>1. EmptyKey \in TicketHash
      BY DEF EmptyKey, TicketHash
    <2>2. today' \in 0 .. MaxDay
      BY <1>4, TicketConstants DEF Midnight
    <2>3. QED
      BY <1>4, <2>1, <2>2, EmptyKeyOK DEF Midnight
  <1>5. CASE Redeploy
    BY <1>5 DEF Redeploy
  <1>6. CASE UNCHANGED dayVars
    BY <1>6 DEF dayVars
  <1>7. QED
    BY <1>1, <1>2, <1>3, <1>4, <1>5, <1>6 DEF DaysNext

LEMMA IInvAlways == DaysSpec => []IInv
  <1>1. QED
    BY IInvInit, IInvNext, PTL DEF DaysSpec

(* Every state of TicketService is well typed. *)
THEOREM TypeCorrect == DaysSpec => []DaysTypeOK
  <1>1. IInv => DaysTypeOK
    BY DEF IInv
  <1>2. QED
    BY <1>1, IInvAlways, PTL

(* No interleaving over-grants a day's allowance. *)
THEOREM DailyBoundHolds == DaysSpec => []DailyBound
  <1>1. IInv => DailyBound
    BY DEF IInv, KeyOK, DailyBound
  <1>2. QED
    BY <1>1, IInvAlways, PTL

(* The TypeScript count and the Lua grant agree in every state. *)
THEOREM RemainingHonest == DaysSpec => []RemainingIsHonest
  <1>1. ASSUME IInv PROVE RemainingIsHonest
    <2>1. SUFFICES ASSUME NEW a \in Seeker
          PROVE (GetRemaining(ticket[a], configured) > 0)
                  <=> CanReserve(ticket[a], configured)
      BY DEF RemainingIsHonest
    <2>2. ticket[a] \in TicketHash /\ configured \in Nat
      BY <1>1, TicketConstants DEF IInv, DaysTypeOK
    <2>3. QED
      BY <2>2 DEF GetRemaining, CanReserve, WithDaily, Free, TicketHash
  <1>2. QED
    BY <1>1, IInvAlways, PTL

(* A consumed ticket is never given back on its date. *)
THEOREM SpentStays == DaysSpec => SpentStaysSpent
  <1>1. ASSUME IInv, [DaysNext]_dayVars, today' = today, NEW a \in Seeker
        PROVE  /\ ticket'[a].consumed >= ticket[a].consumed
               /\ ticket[a].daily # 0 => ticket'[a].daily = ticket[a].daily
    <2> DEFINE t == ticket[a]
    <2>1. t \in TicketHash /\ configured \in Nat /\ today \in Int
      BY <1>1, TicketConstants DEF IInv, DaysTypeOK
    <2>2. \/ ticket'[a] = t
          \/ ticket'[a] = TryReserve(t, configured)
          \/ ticket'[a] = ReleaseReserved(t)
          \/ ticket'[a] = ConsumeReserved(t)
      BY <1>1, <2>1, TicketConstants
        DEF IInv, DaysTypeOK, DaysNext, dayVars, Reserve, Refuse, Release, Consume, Settled,
            Midnight, Redeploy
    <2> HIDE DEF t
    <2>3. PICK d \in Nat, u \in Nat, r \in Nat :
                t = [daily |-> d, consumed |-> u, reserved |-> r]
      BY <2>1 DEF TicketHash
    <2>4. WithDaily(t, configured) =
            [daily |-> IF d = 0 THEN configured ELSE d,
             consumed |-> u, reserved |-> r]
      BY <2>3 DEF WithDaily
    <2>5. /\ ticket'[a].consumed >= u
          /\ d # 0 => ticket'[a].daily = d
      <3>1. CASE ticket'[a] = t
        BY <3>1, <2>3
      <3>2. CASE ticket'[a] = TryReserve(t, configured)
        BY <3>2, <2>3, <2>4 DEF TryReserve
      <3>3. CASE ticket'[a] = ReleaseReserved(t)
        BY <3>3, <2>3 DEF ReleaseReserved
      <3>4. CASE ticket'[a] = ConsumeReserved(t)
        BY <3>4, <2>3 DEF ConsumeReserved
      <3>5. QED
        BY <2>2, <3>1, <3>2, <3>3, <3>4
    <2>6. QED
      BY <2>3, <2>5 DEF t
  <1>2. IInv /\ [DaysNext]_dayVars =>
          [today' = today =>
             \A a \in Seeker :
               /\ ticket'[a].consumed >= ticket[a].consumed
               /\ ticket[a].daily # 0 => ticket'[a].daily = ticket[a].daily]_dayVars
    BY <1>1
  <1>3. QED
    BY <1>2, IInvAlways, PTL DEF DaysSpec, SpentStaysSpent

-----------------------------------------------------------------------------
LEMMA HeldFinite ==
  ASSUME IsFiniteSet(Session), NEW a
  PROVE  IsFiniteSet(HeldToday(a)) /\ Cardinality(HeldToday(a)) \in Nat
  <1>1. HeldToday(a) \subseteq Session
    BY DEF HeldToday
  <1>2. QED
    BY <1>1, FS_Subset, FS_CardinalityType

Accounted(a) ==
  /\ ticket[a].reserved <= Cardinality(HeldToday(a))
  /\ Cardinality(HeldToday(a)) <= ticket[a].reserved + strays[a]

LEMMA AccountedNext ==
  ASSUME IsFiniteSet(Session), IInv, ReservationsAccounted, [DaysNext]_dayVars
  PROVE  ReservationsAccounted'
  <1> USE DEF IInv, DaysTypeOK
  <1>1. SUFFICES ASSUME NEW a \in Seeker PROVE Accounted(a)'
    BY DEF ReservationsAccounted, Accounted
  <1> DEFINE t == ticket[a]
             held == HeldToday(a)
             n == Cardinality(held)
             o == strays[a]
  <1>2. PICK d \in Nat, u \in Nat, r \in Nat :
               t = [daily |-> d, consumed |-> u, reserved |-> r]
    BY DEF TicketHash
  <1>3. IsFiniteSet(held) /\ n \in Nat /\ o \in Nat /\ r <= n /\ n <= r + o
    BY <1>2, HeldFinite DEF ReservationsAccounted
  <1>4. ASSUME NEW s \in Session, Reserve(s)
        PROVE  Accounted(a)'
    <2>1. strays' = strays
      BY <1>4 DEF Reserve
    <2>2. CASE SeekerOf[s] # a
      <3>1. ticket'[a] = t /\ HeldToday(a)' = held
        BY <1>4, <2>2, TicketConstants DEF Reserve, HeldToday
      <3>2. QED
        BY <1>2, <1>3, <2>1, <3>1 DEF Accounted
    <2>3. CASE SeekerOf[s] = a
      <3>1. s \notin held /\ HeldToday(a)' = held \cup {s}
        BY <1>4, <2>3, TicketConstants DEF Reserve, HeldToday
      <3>2. Cardinality(HeldToday(a)') = n + 1
        BY <3>1, <1>3, FS_AddElement
      <3>3. configured \in Nat
        BY TicketConstants
      <3>4. ticket'[a] = TryReserve(t, configured)
        BY <1>4, <2>3, TicketConstants DEF Reserve
      <3>5. ticket'[a].reserved = r + 1
        BY <3>3, <3>4, <1>2, <1>4, <2>3 DEF TryReserve, CanReserve, WithDaily, Reserve
      <3> HIDE DEF n, o, held, t
      <3>6. /\ r + 1 <= n + 1
            /\ n + 1 <= (r + 1) + o
        BY <1>2, <1>3
      <3>7. strays'[a] = o
        BY <2>1 DEF o
      <3>8. QED
        BY <3>2, <3>5, <3>6, <3>7 DEF Accounted
    <2>4. QED
      BY <2>2, <2>3
  <1>5. ASSUME NEW s \in Session, Refuse(s)
        PROVE  Accounted(a)'
    <2>1. HeldToday(a)' = held /\ strays' = strays
      BY <1>5 DEF Refuse, HeldToday
    <2>2. ticket'[a] = t \/ ticket'[a] = WithDaily(t, configured)
      BY <1>5, TicketConstants DEF Refuse, TryReserve
    <2>3. ticket'[a].reserved = r
      BY <2>2, <1>2 DEF WithDaily
    <2>4. QED
      BY <1>3, <2>1, <2>3 DEF Accounted
  <1>6. ASSUME NEW s \in Session, Release(s) \/ Consume(s)
        PROVE  Accounted(a)'
    <2>1. HeldToday(a)' = held \ {s}
      BY <1>6 DEF Release, Consume, Settled, HeldToday
    <2>2. CASE SeekerOf[s] # a
      <3>1. ticket'[a] = t /\ s \notin held /\ strays'[a] = o
        BY <1>6, <2>2, TicketConstants DEF Release, Consume, Settled, HeldToday
      <3>2. held \ {s} = held
        BY <3>1
      <3>3. QED
        BY <1>2, <1>3, <2>1, <3>1, <3>2 DEF Accounted
    <2>3. CASE SeekerOf[s] = a
      <3>1. ticket'[a] = ReleaseReserved(t) \/ ticket'[a] = ConsumeReserved(t)
        BY <1>6, <2>3, TicketConstants DEF Release, Consume
      <3>2. ticket'[a].reserved = IF r = 0 THEN 0 ELSE r - 1
        BY <3>1, <1>2, SettleTakesOne
      <3>3. Cardinality(held \ {s}) = IF s \in held THEN n - 1 ELSE n
        BY <1>3, FS_RemoveElement, FS_CardinalityType
      <3>4. s \in held <=> heldOn[s] = today
        BY <1>6, <2>3 DEF Release, Consume, HeldToday
      <3>5. strays'[a] = IF s \notin held /\ r > 0 THEN o + 1 ELSE o
        BY <1>2, <1>6, <2>3, <3>4 DEF Release, Consume, Settled
      <3> DEFINE r2 == IF r = 0 THEN 0 ELSE r - 1
                 n2 == IF s \in held THEN n - 1 ELSE n
                 o2 == IF s \notin held /\ r > 0 THEN o + 1 ELSE o
      <3> HIDE DEF n, o, held, t
      <3>6. r2 <= n2 /\ n2 <= r2 + o2
        <4>1. s \in held => n > 0
          BY <1>3, FS_EmptySet DEF n
        <4>2. QED
          BY <1>2, <1>3, <4>1
      <3>7. ticket'[a].reserved = r2 /\ strays'[a] = o2 /\ Cardinality(HeldToday(a)') = n2
        BY <2>1, <3>2, <3>3, <3>5
      <3>8. QED
        BY <3>6, <3>7 DEF Accounted
    <2>4. QED
      BY <2>2, <2>3
  <1>7. CASE Midnight
    <2>1. ticket'[a].reserved = 0 /\ strays'[a] = 0
      BY <1>7 DEF Midnight, EmptyKey
    <2>2. \A s \in Session : heldOn'[s] # today'
      BY <1>7, TicketConstants DEF Midnight
    <2>3. HeldToday(a)' = {}
      BY <2>2 DEF HeldToday
    <2>4. QED
      BY <2>1, <2>3, FS_EmptySet DEF Accounted
  <1>8. CASE Redeploy \/ UNCHANGED dayVars
    <2>1. ticket'[a] = t /\ HeldToday(a)' = held /\ strays'[a] = o
      BY <1>8 DEF Redeploy, dayVars, HeldToday
    <2>2. QED
      BY <1>2, <1>3, <2>1 DEF Accounted
  <1>9. QED
    BY <1>4, <1>5, <1>6, <1>7, <1>8 DEF DaysNext

(* For any finite set of sessions, seekers, limits and dates: a            *)
(* reservation belongs to a session of that date, and a session of the     *)
(* date is short of its reservation only on account of one that was        *)
(* settled on a later date than it reserved (ticket.service.ts:145).       *)
THEOREM ReservationsAccountedHold ==
  ASSUME IsFiniteSet(Session)
  PROVE  DaysSpec => []ReservationsAccounted
  <1>1. DaysInit => ReservationsAccounted
    <2>1. SUFFICES ASSUME DaysInit, NEW a \in Seeker
                   PROVE  Accounted(a)
      BY DEF ReservationsAccounted, Accounted
    <2>2. ticket[a].reserved = 0 /\ strays[a] = 0
      BY <2>1 DEF DaysInit, EmptyKey
    <2>3. HeldToday(a) = {}
      BY <2>1 DEF DaysInit, HeldToday
    <2>4. QED
      BY <2>2, <2>3, FS_EmptySet DEF Accounted
  <1>2. QED
    BY <1>1, AccountedNext, IInvAlways, PTL DEF DaysSpec

=============================================================================
