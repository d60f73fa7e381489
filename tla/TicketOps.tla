------------------------------ MODULE TicketOps ------------------------------
(***************************************************************************)
(* The ticket record a seeker has for one UTC day and the three Lua        *)
(* scripts that change it (session/ticket.service.ts).  Redis runs each    *)
(* script atomically, so each is one operator from the stored hash to the  *)
(* hash that replaces it.                                                  *)
(*                                                                         *)
(* A hash is a record.  daily = 0 stands for a hash without the field      *)
(* 'daily': the script writes that field on the first use of a day's key   *)
(* and never stores 0.  A missing 'consumed' or 'reserved' reads as 0.     *)
(***************************************************************************)
EXTENDS Integers

TicketHash == [daily: Nat, consumed: Nat, reserved: Nat]

(* The key of a day nobody has touched yet. *)
EmptyKey == [daily |-> 0, consumed |-> 0, reserved |-> 0]

(* Fix the day's allowance at the configured limit on first use. *)
WithDaily(t, configured) ==
  IF t.daily = 0 THEN [t EXCEPT !.daily = configured] ELSE t

Free(t) == t.daily - t.consumed - t.reserved

(* What tryReserve answers, and the hash it leaves. *)
Mut_OffByOne(t, configured) == Free(WithDaily(t, configured)) >= 0

CanReserve(t, configured) == Free(WithDaily(t, configured)) > 0

TryReserve(t, configured) ==
  IF CanReserve(t, configured)
    THEN [WithDaily(t, configured) EXCEPT !.reserved = @ + 1]
    ELSE WithDaily(t, configured)

(* Both settle scripts do nothing on a key without a reservation. *)
Mut_ReleaseRefundsSpent(t) ==
  IF t.reserved = 0 /\ t.consumed > 0 THEN [t EXCEPT !.consumed = @ - 1]
  ELSE [t EXCEPT !.reserved = IF @ = 0 THEN 0 ELSE @ - 1]

Mut_ReleaseAll(t) == [t EXCEPT !.reserved = 0]

ReleaseReserved(t) ==
  IF t.reserved = 0 THEN t ELSE [t EXCEPT !.reserved = @ - 1]

ConsumeReserved(t) ==
  IF t.reserved = 0 THEN t
  ELSE [t EXCEPT !.reserved = @ - 1, !.consumed = @ + 1]

(* The number GET /session/tickets shows, computed in TypeScript from a    *)
(* plain read of the hash, not by the script that reserves.                *)
GetRemaining(t, configured) ==
  LET left == (IF t.daily = 0 THEN configured ELSE t.daily)
                - t.consumed - t.reserved
  IN  IF left > 0 THEN left ELSE 0

=============================================================================
