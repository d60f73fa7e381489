------------------------------- MODULE Tickets -------------------------------
(***************************************************************************)
(* TicketService over time: the sessions of several seekers reserve,       *)
(* release and consume tickets while the UTC date changes and the service  *)
(* is redeployed with another DAILY_TICKET_LIMIT.                          *)
(*                                                                         *)
(* A key is ticket:{account}:{UTC date} (getTicketKey), computed from the  *)
(* clock of the call and never from the session: only today's key is ever  *)
(* read or written, so `ticket` keeps today's hash per account and         *)
(* Midnight replaces it by the untouched key of the next day.  The 36 h    *)
(* TTL is renewed by every write, so a key outlives its own date.          *)
(***************************************************************************)
EXTENDS TicketOps, FiniteSets

CONSTANTS
  Seeker,      \* accounts that seek
  Session,     \* sessions, each holding at most one reservation
  SeekerOf,    \* the seeker of each session
  Limits,      \* values DAILY_TICKET_LIMIT may take (at least 1 each)
  MaxDay       \* bound on the number of midnights

ASSUME TicketConstants ==
  /\ SeekerOf \in [Session -> Seeker]
  /\ Limits \subseteq Nat \ {0}
  /\ Limits # {}
  /\ MaxDay \in Nat

VARIABLES
  today,       \* number of the current UTC date
  configured,  \* the limit this deployment reads from its environment
  ticket,      \* ticket[a]: the hash at a's key of today
  stage,       \* stage[s]: "new", "held" (tryReserve said 1) or "settled"
  heldOn,      \* heldOn[s]: the date of s's tryReserve
  strays       \* history: of a's reservations of today, those that were
               \* settled for a session of an earlier date

dayVars == <<today, configured, ticket, stage, heldOn, strays>>

DaysTypeOK ==
  /\ today \in 0 .. MaxDay
  /\ configured \in Limits
  /\ ticket \in [Seeker -> TicketHash]
  /\ stage \in [Session -> {"new", "held", "settled"}]
  /\ heldOn \in [Session -> 0 .. MaxDay]
  /\ strays \in [Seeker -> Nat]

DaysInit ==
  /\ today = 0
  /\ configured \in Limits
  /\ ticket = [a \in Seeker |-> EmptyKey]
  /\ stage = [s \in Session |-> "new"]
  /\ heldOn = [s \in Session |-> 0]
  /\ strays = [a \in Seeker |-> 0]

Reserve(s) ==
  /\ stage[s] = "new"
  /\ CanReserve(ticket[SeekerOf[s]], configured)
  /\ ticket' = [ticket EXCEPT ![SeekerOf[s]] = TryReserve(@, configured)]
  /\ stage' = [stage EXCEPT ![s] = "held"]
  /\ heldOn' = [heldOn EXCEPT ![s] = today]
  /\ UNCHANGED <<today, configured, strays>>

(* tryReserve answers 0: connect() throws 403. *)
Refuse(s) ==
  /\ stage[s] = "new"
  /\ ~CanReserve(ticket[SeekerOf[s]], configured)
  /\ ticket' = [ticket EXCEPT ![SeekerOf[s]] = TryReserve(@, configured)]
  /\ stage' = [stage EXCEPT ![s] = "settled"]
  /\ UNCHANGED <<today, configured, heldOn, strays>>

(* Neither script is told which session it settles for: one that runs      *)
(* after midnight takes a reservation of the new date, if there is one.    *)
Settled(s) ==
  LET a == SeekerOf[s]
  IN  /\ stage' = [stage EXCEPT ![s] = "settled"]
      /\ strays' = IF heldOn[s] # today /\ ticket[a].reserved > 0
                     THEN [strays EXCEPT ![a] = @ + 1] ELSE strays
      /\ UNCHANGED <<today, configured, heldOn>>

Release(s) ==
  /\ stage[s] = "held"
  /\ ticket' = [ticket EXCEPT ![SeekerOf[s]] = ReleaseReserved(@)]
  /\ Settled(s)

Consume(s) ==
  /\ stage[s] = "held"
  /\ ticket' = [ticket EXCEPT ![SeekerOf[s]] = ConsumeReserved(@)]
  /\ Settled(s)

Midnight ==
  /\ today < MaxDay
  /\ today' = today + 1
  /\ ticket' = [a \in Seeker |-> EmptyKey]
  /\ strays' = [a \in Seeker |-> 0]
  /\ UNCHANGED <<configured, stage, heldOn>>

Redeploy ==
  /\ configured' \in Limits \ {configured}
  /\ UNCHANGED <<today, ticket, stage, heldOn, strays>>

DaysNext ==
  \/ \E s \in Session : Reserve(s) \/ Refuse(s) \/ Release(s) \/ Consume(s)
  \/ Midnight
  \/ Redeploy

DaysSpec == DaysInit /\ [][DaysNext]_dayVars

-----------------------------------------------------------------------------

(* The sessions that have reserved a ticket of today and not settled yet. *)
HeldToday(a) ==
  {s \in Session : SeekerOf[s] = a /\ stage[s] = "held" /\ heldOn[s] = today}

(* However reservations, refunds, consumptions, date changes and redeploys *)
(* interleave, a seeker never has more tickets reserved and consumed on a  *)
(* date than the allowance fixed at the first use of that date's key.      *)
DailyBound ==
  \A a \in Seeker :
    /\ ticket[a].consumed + ticket[a].reserved <= ticket[a].daily
    /\ ticket[a].daily \in Limits \cup {0}

(* Each reservation on the key of today is one of a session of today that  *)
(* has yet to settle, and of those sessions as many are without one as     *)
(* sessions of earlier dates were settled against this key.  So on a date  *)
(* that no older session settles on, the key counts exactly the sessions   *)
(* that hold a ticket; after a midnight a release or a charge may use up   *)
(* the reservation of a newer session (the scripts compute the key from    *)
(* the clock, 145), which then settles against nothing, and never more     *)
(* than one for each session that ran across the midnight.                 *)
ReservationsAccounted ==
  \A a \in Seeker :
    LET held == Cardinality(HeldToday(a))
    IN  /\ ticket[a].reserved <= held
        /\ held <= ticket[a].reserved + strays[a]

(* The count the app shows (TypeScript over a plain read) agrees with the  *)
(* script that grants: it is positive exactly when a connect would get a   *)
(* ticket, also after a redeploy changed the limit in the middle of a day. *)
RemainingIsHonest ==
  \A a \in Seeker :
    (GetRemaining(ticket[a], configured) > 0) <=> CanReserve(ticket[a], configured)

(* Within a date an allowance, once fixed, and the tickets already spent   *)
(* stand: no refund or redeploy gives a consumed ticket back.              *)
SpentStaysSpent ==
  [][today' = today =>
       \A a \in Seeker :
         /\ ticket'[a].consumed >= ticket[a].consumed
         /\ ticket[a].daily # 0 => ticket'[a].daily = ticket[a].daily]_dayVars

=============================================================================
