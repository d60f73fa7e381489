--------------------------- MODULE SessionCrossing ---------------------------
(***************************************************************************)
(* How far the promises to a seeker reach.  backend/README.md:67 (one      *)
(* active session), session.service.ts:96 (one session per idempotency     *)
(* key) and backend/README.md:954 (a session that ends within grace        *)
(* releases its ticket) are not kept by connect() and the jobs as they     *)
(* stand: connect() checks and acts in separate awaits, and nothing        *)
(* releases the ticket of a matched session.  SessionLifecycle states the  *)
(* last two as they are written (OneSessionPerKey, TicketsSettled).  Here  *)
(* each is stated with the one interleaving that breaks it named in a      *)
(* history variable, so that everything else is still promised.            *)
(*                                                                         *)
(* The history variables only watch: CrossSpec is Spec with three more     *)
(* components of the state that no step reads.                             *)
(***************************************************************************)
EXTENDS SessionInvariant

VARIABLES
  overlapped,  \* history: connects of one seeker that were in flight at once
  raced,       \* history: those of them that both had found no active session
               \* and had not opened theirs, until a session of theirs is over
  charged      \* history: requests whose grace-end took a ticket

crossVars == <<vars, overlapped, raced, charged>>

(* The pairs of connects of one seeker that are both at one of these steps. *)
Both(steps) ==
  {p \in Request \X Request :
     /\ p[1] # p[2] /\ SeekerOf[p[1]] = SeekerOf[p[2]]
     /\ cpc[p[1]] \in steps /\ cpc[p[2]] \in steps}

(* Where connect() has found no active session of the seeker and has not   *)
(* opened one, and where it is in flight.                                  *)
Opening == {"reserve", "problem", "match", "createA", "createB"}
Underway == ConnectPc \ {"idle", "done"}

Over(r) == db[r].status \in Terminal

Watch ==
  /\ overlapped' = overlapped \cup Both(Underway)'
  /\ raced' = {p \in raced \cup Both(Opening)' : ~Over(p[1])' /\ ~Over(p[2])'}
  /\ charged' = charged \cup {r \in Request : job[r].grace = "charge"
                                              /\ job'[r].grace = "ack"}

CrossInit == Init /\ overlapped = {} /\ raced = {} /\ charged = {}
CrossNext == Next /\ Watch
CrossSpec == CrossInit /\ [][CrossNext]_crossVars

-----------------------------------------------------------------------------
(* backend/README.md:67 ("at most 1 active session at any time"), as far   *)
(* as session.service.ts:108-122 keeps it: a second active session of a    *)
(* seeker takes two connects that both passed the check of step 2 before   *)
(* either wrote its row.  Whatever else overlaps, retries, accepts,        *)
(* refunds and ends, there is one.                                         *)
OneActiveUnlessRaced ==
  \A q, r \in Request :
    q # r /\ SeekerOf[q] = SeekerOf[r] /\ Active(q) /\ Active(r) => <<q, r>> \in raced

(* session.service.ts:96, as far as steps 1 and 9 keep it: two requests    *)
(* with one key open two sessions only if the second was sent before the   *)
(* first was answered, the answer being what stores the key.               *)
OneSessionUnlessOverlapped ==
  \A q, r \in Request :
    q # r /\ KeyOf[q] = KeyOf[r] /\ db[q] # NoRow /\ db[r] # NoRow
      => <<q, r>> \in overlapped

ChargedOf(k) == {r \in RequestsOf(k) : r \in charged}

(* backend/README.md:954, as far as the jobs keep it: when all of a        *)
(* seeker's sessions are over and their jobs have run, every session       *)
(* nobody accepted has given its ticket back, every one that grace-end     *)
(* reached is paid once, and the tickets left reserved until the day's key *)
(* expires are those of the matched sessions that ended before it.         *)
TicketsAccounted ==
  \A k \in Seeker :
    (\A r \in RequestsOf(k) : Settled(r)) =>
      /\ ticket[k].consumed = Cardinality(ChargedOf(k))
      /\ ticket[k].reserved =
           Cardinality({r \in RequestsOf(k) : db[r].listener # None /\ r \notin charged})

-----------------------------------------------------------------------------
(* Why these hold.  A connect takes its place among the seeker's sessions  *)
(* at step 2 and keeps it until its session is over; it enters the use of  *)
(* its key at step 1, for good once it has a row.                          *)
Placed(r) == Active(r) \/ cpc[r] \in Opening
Entered(r) == db[r].status # "absent" \/ cpc[r] \in {"check"} \cup Opening

RacesKnown ==
  \A q, r \in Request :
    q # r /\ SeekerOf[q] = SeekerOf[r] /\ Placed(q) /\ Placed(r) => <<q, r>> \in raced

OverlapsKnown ==
  \A q, r \in Request :
    q # r /\ KeyOf[q] = KeyOf[r] /\ Entered(q) /\ Entered(r) => <<q, r>> \in overlapped

(* A key is stored before the connect that used it is over.                *)
KeysStored ==
  \A r \in Request : db[r].status # "absent" => InFlight(r) \/ idem[KeyOf[r]] # None

CrossingsKnown == RacesKnown /\ OverlapsKnown /\ KeysStored

(* A session without a listener ends by match:timeout alone, and a connect *)
(* that is over and made a problem made a session.                         *)
Ends(r) ==
  /\ db[r].listener = None /\ db[r].status \in Terminal => problem[r] = "expired"
  /\ cpc[r] \in {"jobB", "key"} => db[r].status # "absent"
  /\ cpc[r] = "done" /\ problem[r] # "absent" => db[r].status # "absent"

(* Where grace-end has not taken a ticket. *)
Owing == {"none", "delayed", "charge"}

(* grace-end finds a reserved ticket whenever it charges, and once. *)
ChargesKnown ==
  /\ \A r \in Request : Ends(r) /\ (r \in charged => job[r].grace \notin Owing)
  /\ \A k \in Seeker : ticket[k].consumed = Cardinality(ChargedOf(k))

=============================================================================
