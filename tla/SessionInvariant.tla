--------------------------- MODULE SessionInvariant ---------------------------
(***************************************************************************)
(* Why HSETNX, the row update and the hash deletions do not get in each    *)
(* other's way: the inductive invariant behind OneWinner, ClaimStands,     *)
(* EndedStaysEnded and the refinement of SessionContract, for a system     *)
(* whose timers and faults keep clear of the claim window (Calm).  After   *)
(* it the invariants behind the volunteer's, the seeker's and the tickets' *)
(* properties.                                                             *)
(***************************************************************************)
EXTENDS SessionLifecycle

(* No deadline, expiry, throw or crash falls into an accept(). *)
Calm == Allow \subseteq {"parallel_connect", "early_end", "lock_expiry"}

Undo == {"rollback", "refund"}
BeforeRow == {"idle", "check", "reserve", "problem", "match", "createA", "createB"}
Winning == {"multi", "blocks", "persist"}

(* What connect() has done for r at each of its steps. *)
Untouched(r) ==
  /\ hash[r].status = "none" /\ hash[r].listener = None
  /\ job[r].match = "none" /\ job[r].timeout = "none"

ConnectProgress(r) ==
  /\ cpc[r] \notin Undo
  /\ cpc[r] \in BeforeRow => db[r].status = "absent"
  /\ db[r].status = "absent" => db[r].listener = None /\ Untouched(r)
  /\ cpc[r] \in {"createA", "hashA", "jobsA"} => found[r] # None
  /\ cpc[r] \in (BeforeRow \ {"createA"}) \cup {"publishB", "jobB"} =>
       found[r] = None
  /\ cpc[r] \in {"hashA", "jobsA"} => Active(r) /\ db[r].listener # None
  /\ cpc[r] = "publishB" => Unmatched(r)
  /\ cpc[r] \in {"hashA", "publishB"} => Untouched(r)
  /\ cpc[r] = "jobsA" => job[r].timeout = "none"
  /\ cpc[r] = "jobB" => db[r].status # "absent"

(* An unclaimed waiting hash belongs to an unmatched row, or to one that   *)
(* match:timeout has just cancelled and is about to drop.                  *)
WaitingIsOpen(r) ==
  hash[r].status = "waiting" /\ hash[r].listener = None =>
    Unmatched(r) \/ job[r].match \in {"refund", "drop"}

ActiveIsClaimed(r) == hash[r].status = "active" => hash[r].listener # None

(* A row with a listener has left the waiting state in Redis for good, and *)
(* only such a row has a session:timeout or a chat to tear down.           *)
MatchedLeftWaiting(r) ==
  /\ db[r].listener # None => hash[r].status # "waiting"
  /\ job[r].timeout # "none" => db[r].listener # None
  /\ closing[r] # None \/ job[r].timeout = "cleanup" =>
       db[r].listener # None /\ ~Claiming(r)

(* While an accept() is between its read of the hash and the row update,   *)
(* match:timeout is not running and the hash exists.                       *)
ClaimWindow(a) ==
  apc[a] \in {"claim"} \cup Winning =>
    /\ job[target[a]].match \in JobIdle
    /\ hash[target[a]].status # "none"

(* The winner of HSETNX is named by the hash and works on an open row.     *)
WinnerHolds(a) ==
  apc[a] \in Winning =>
    /\ Unmatched(target[a])
    /\ hash[target[a]].listener = VolunteerOf[a]
    /\ hash[target[a]].status = IF apc[a] = "multi" THEN "waiting" ELSE "active"

OneClaimant ==
  \A a, b \in Acceptor :
    apc[a] \in Winning /\ apc[b] \in Winning /\ target[a] = target[b] => a = b

(* An accept() in flight is about a published session, and after Persist   *)
(* about a matched one.                                                    *)
AcceptProgress(a) ==
  /\ apc[a] # "idle" => Published(target[a])
  /\ apc[a] \in {"cancel", "schedule"} => db[target[a]].listener # None

WinnerIsListener(r) ==
  winners[r] = {} \/ (db[r].listener # None /\ winners[r] = {db[r].listener})

SessionPart(r) ==
  /\ ConnectProgress(r)
  /\ WaitingIsOpen(r)
  /\ ActiveIsClaimed(r)
  /\ MatchedLeftWaiting(r)
  /\ WinnerIsListener(r)

AcceptPart(a) == ClaimWindow(a) /\ WinnerHolds(a) /\ AcceptProgress(a)

(* The claim protocol: two volunteers, the worker and the chat side never  *)
(* undo each other's step on a session (session.service.ts:638-763,        *)
(* session.processor.ts:136-291).                                          *)
ClaimProtocol ==
  /\ \A r \in Request : SessionPart(r)
  /\ \A a \in Acceptor : AcceptPart(a)
  /\ OneClaimant

-----------------------------------------------------------------------------
(* The volunteer's side: what TakeLock, CheckVolunteer and Persist achieve *)
(* together, whatever throws, crashes, expires or comes late, as long as   *)
(* no lock expires under a call.                                           *)

Taken(r, v) == Active(r) /\ db[r].listener = v /\ v \in winners[r]

(* A call that got past CheckVolunteer belongs to a volunteer without an   *)
(* accepted session, and stays so because no other call of his runs.       *)
TakenOnce ==
  /\ \A a \in Acceptor : apc[a] # "idle" => Published(target[a])
  /\ \A r \in Request : winners[r] # {} => Published(r)
  /\ \A a \in Acceptor, q \in Request :
       apc[a] \in {"read", "claim"} \cup Winning => ~Taken(q, VolunteerOf[a])
  /\ \A v \in Volunteer, q, r \in Request : Taken(q, v) /\ Taken(r, v) => q = r

(* Behind StoresAgree: only connect() names a listener before the hash is  *)
(* written, and only an accept() that is about to write the row leaves an  *)
(* active hash ahead of it.                                                *)
Naming(r) == \E a \in Acceptor : target[a] = r /\ apc[a] \in {"blocks", "persist"}

ListenerKnown(r) ==
  /\ found[r] # None /\ db[r].listener # None => db[r].listener = found[r]
  /\ hash[r].status = "active" => db[r].listener = hash[r].listener \/ Naming(r)

-----------------------------------------------------------------------------
(* The books: what each request owes, from its problem and its jobs.       *)

(* The ticket r reserved is still reserved or has been consumed.           *)
Paying(r) ==
  /\ cpc[r] = "problem" \/ problem[r] # "absent"
  /\ problem[r] = "expired" => job[r].match = "refund"

(* ... and grace-end has not consumed it.                                  *)
Unspent(r) == Paying(r) /\ job[r].grace \in {"none", "delayed", "charge"}

(* What the problem, the row and the jobs of r say about each other.       *)
Progress(r) ==
  /\ cpc[r] \in {"idle", "check", "reserve", "problem"} => problem[r] = "absent"
  /\ cpc[r] \notin {"idle", "check", "reserve", "problem", "done"} => problem[r] # "absent"
  /\ Active(r) => problem[r] \in {"waiting", "matched"}
  /\ problem[r] = "absent" => db[r].status = "absent"
  /\ cpc[r] \in {"hashA", "jobsA"} => job[r].grace = "none"
  /\ job[r].match \in {"refund", "drop"} => problem[r] = "expired"
  /\ problem[r] = "expired" =>
       db[r].listener = None /\ db[r].status = "cancelled_timeout"
  /\ job[r].grace # "none" => db[r].listener # None
  /\ db[r].listener # None =>
       winners[r] # {} \/ (found[r] # None /\ problem[r] = "matched")

(* The jobs of an accepted session are added once.                         *)
Scheduling(a) ==
  apc[a] \in {"cancel", "schedule"} =>
    /\ job[target[a]].grace = "none"
    /\ \A b \in Acceptor :
         apc[b] \in {"cancel", "schedule"} /\ target[b] = target[a] => b = a

PayingOf(k) == {r \in RequestsOf(k) : Paying(r)}
UnspentOf(k) == {r \in RequestsOf(k) : Unspent(r)}

(* Every paying request has one ticket behind it, and those not yet        *)
(* consumed a reserved one.  That is why no release or charge finds        *)
(* `reserved` at zero and is lost.                                         *)
Booked(k) ==
  /\ IsFiniteSet(PayingOf(k))
  /\ ticket[k].reserved + ticket[k].consumed = Cardinality(PayingOf(k))
  /\ Cardinality(UnspentOf(k)) <= ticket[k].reserved

Books ==
  /\ \A r \in Request : Progress(r)
  /\ \A a \in Acceptor : Scheduling(a)
  /\ \A k \in Seeker : Booked(k)

-----------------------------------------------------------------------------
(* Why no session is forgotten: what is to end it is always on its way.    *)

(* An accept() has written the row and is about to add the jobs.           *)
Adding(r) == \E a \in Acceptor : target[a] = r /\ apc[a] \in {"cancel", "schedule"}

(* A session without a listener has its match:timeout waiting or about to  *)
(* cancel it, or connect() is about to add the job; a session with one has *)
(* its session:timeout waiting, or the handler that matched it is about to *)
(* add it.                                                                 *)
EndDue(r) ==
  /\ Unmatched(r) =>
       cpc[r] \in {"publishB", "jobB"} \/ job[r].match \in {"delayed", "cancel"}
  /\ Active(r) /\ db[r].listener # None =>
       cpc[r] \in {"hashA", "jobsA"} \/ Adding(r) \/ job[r].timeout = "delayed"

NoneForgotten == \A r \in Request : EndDue(r)

(* match:timeout gives way only to a claim that is still going to write    *)
(* the row, and a job that has begun to end a session has ended it.        *)
Winner(r) == \E a \in Acceptor : target[a] = r /\ apc[a] \in Winning

EndKept(r) ==
  /\ Unmatched(r) /\ hash[r].listener # None => Winner(r)
  /\ Unmatched(r) => job[r].match \in {"none", "delayed", "cancel"}
  /\ Active(r) => job[r].timeout \in {"none", "delayed"}

EndComes(r) == EndDue(r) /\ EndKept(r)
EndsCome == \A r \in Request : EndComes(r)

=============================================================================
