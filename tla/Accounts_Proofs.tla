---------------------------- MODULE Accounts_Proofs ----------------------------
(***************************************************************************)
(* What is kept of accounts, for any number of calls in flight, of phones  *)
(* and tabs, rows, sign-ins and seconds, and of parties, applications,     *)
(* accounts and languages.                                                 *)
(*                                                                         *)
(* AuthTokens: the rows of refresh_token are sound, no request waits for a *)
(* refresh that is not under way, a logout is final, and a client at rest  *)
(* holds what it would sign in with.                                       *)
(*                                                                         *)
(* Moderation: a decision changes again, and a barred account acts, only   *)
(* through a call that had read the item before; and the records that one  *)
(* decision writes agree as long as no two calls crossed.                  *)
(*                                                                         *)
(* AccountRecords: what a request has read is still so when it writes, as  *)
(* long as no other of its kind came between; the index and the rows'      *)
(* identities do the rest.                                                 *)
(***************************************************************************)
EXTENDS AuthTokens, Moderation, AccountRecords, FiniteSetTheorems, TLAPS

-----------------------------------------------------------------------------
(* Types.  What TokensTypeOK says of a call, and in parts. *)
GoodCall(c, rowCount) ==
  /\ c.row <= rowCount
  /\ c.kind = "refresh" /\ c.phase \notin {"sent", "done"} => c.row # 0
  /\ c.kind # "refresh" => c.phase \notin {"reuse", "barred", "expired"}

CallsOK ==
  /\ calls \in [1..CallBound -> Call \cup {None}]
  /\ \A i \in 1..CallBound : calls[i] # None => GoodCall(calls[i], Len(rows))

RowsOK ==
  /\ rows \in Seq(Row) /\ Len(rows) <= RowBound
  /\ \A n \in DOMAIN rows : rows[n].tok <= clock /\ rows[n].family <= n
  /\ sweep \in [1..CallBound -> Sweep \cup {None}]
  /\ burnt \subseteq 1..Len(rows) /\ left \subseteq 1..Len(rows) /\ escaped \subseteq 1..Len(rows)

ServerOK ==
  /\ status \in {"none", "active", "barred"}
  /\ clock \in 0..ClockBound /\ stale \in 0..clock
  /\ grace \in 0..(ClockBound + CallBound)

ClientsOK ==
  /\ mem \in [Phone \cup {Browser} -> Pair]
  /\ disk \in [Phone -> Pair]
  /\ flow \in [Phone -> Flow]
  /\ req \in [Request -> Sent \cup {None}]

CountsOK == signIns \in 0..SignInBound /\ mishaps \subseteq Allow

LEMMA TypeParts ==
  TokensTypeOK <=> ServerOK /\ RowsOK /\ CallsOK /\ ClientsOK /\ CountsOK
  BY DEF TokensTypeOK, ServerOK, RowsOK, CallsOK, GoodCall, ClientsOK, CountsOK

LEMMA TypePartsNext ==
  ASSUME ServerOK', RowsOK', CallsOK', ClientsOK', CountsOK'
  PROVE  TokensTypeOK'
  BY DEF TokensTypeOK, ServerOK, RowsOK, CallsOK, GoodCall, ClientsOK, CountsOK

LEMMA Numbers ==
  CallBound \in Nat /\ ClockBound \in Nat /\ RowBound \in Nat /\ SignInBound \in Nat
  BY AuthConstants

LEMMA Bounds ==
  /\ None \notin App /\ \A n \in Int : n # None
  /\ None \notin Call /\ None \notin Sent /\ None \notin Sweep
  BY AuthConstants, NoneIsNoRecord DEF App

(* The calls in flight; a step changes one of them, ends it, or starts one. *)
LEMMA CallTyped ==
  ASSUME CallsOK, NEW i \in 1..CallBound, calls[i] # None
  PROVE  calls[i] \in Call /\ GoodCall(calls[i], Len(rows))
  BY DEF CallsOK

LEMMA CallChanged ==
  ASSUME CallsOK, NEW i \in 1..CallBound, NEW c \in Call \cup {None},
         calls' = [calls EXCEPT ![i] = c],
         Len(rows) \in Nat, Len(rows') \in Nat, Len(rows') >= Len(rows),
         c # None => c.row \in 0..Len(rows)
           /\ (c.kind = "refresh" /\ c.phase \notin {"sent", "done"} => c.row # 0)
           /\ (c.kind # "refresh" => c.phase \notin {"reuse", "barred", "expired"})
  PROVE  /\ CallsOK'
         /\ calls'[i] = c
         /\ \A j \in 1..CallBound : j # i => calls'[j] = calls[j]
  <1>1. /\ calls' \in [1..CallBound -> Call \cup {None}] /\ calls'[i] = c
        /\ \A j \in 1..CallBound : j # i => calls'[j] = calls[j]
    BY DEF CallsOK
  <1>2. ASSUME NEW j \in 1..CallBound, calls'[j] # None
        PROVE  GoodCall(calls'[j], Len(rows'))
    <2>1. CASE j = i
      BY <1>1, <1>2, <2>1 DEF GoodCall
    <2>2. CASE j # i
      <3>1. calls[j] \in Call /\ GoodCall(calls[j], Len(rows)) /\ calls'[j] = calls[j]
        BY <1>1, <1>2, <2>2, CallTyped
      <3>2. calls[j].row \in Nat
        BY <3>1, Numbers DEF Call
      <3>3. QED
        BY <3>1, <3>2 DEF GoodCall
    <2>3. QED
      BY <2>1, <2>2
  <1>3. QED
    BY <1>1, <1>2 DEF CallsOK

(* The answer of call i reaches its client, or nobody. *)
LEMMA AnsweredCall ==
  ASSUME CallsOK, RowsOK, NEW i \in 1..CallBound, calls[i] # None, NEW t \in Held,
         calls' = Answered(i, t), Len(rows') \in Nat, Len(rows') >= Len(rows)
  PROVE  /\ CallsOK'
         /\ \A j \in 1..CallBound : j # i => calls'[j] = calls[j]
         /\ calls[i].app = None => calls'[i] = None
         /\ calls[i].app # None =>
              /\ calls'[i] # None /\ calls'[i].app = calls[i].app
              /\ calls'[i].kind = calls[i].kind /\ calls'[i].phase = "done"
              /\ calls'[i].answer = t
  <1>1. calls[i] \in Call /\ GoodCall(calls[i], Len(rows)) /\ Len(rows) \in Nat
    BY CallTyped DEF RowsOK
  <1>2. CASE calls[i].app = None
    <2>1. calls' = [calls EXCEPT ![i] = None]
      BY <1>2 DEF Answered
    <2>2. /\ CallsOK' /\ calls'[i] = None
          /\ \A j \in 1..CallBound : j # i => calls'[j] = calls[j]
      BY <1>1, <2>1, CallChanged
    <2>3. QED
      BY <1>2, <2>2
  <1>3. CASE calls[i].app # None
    <2> DEFINE c == [calls[i] EXCEPT !.phase = "done", !.answer = t, !.row = 0]
    <2>1. c \in Call
      <3>1. 0 \in 0..RowBound /\ "done" \in {"sent", "creating", "reuse", "barred", "expired", "go", "done"}
        BY Numbers
      <3>2. QED
        BY <1>1, <3>1 DEF Call
    <2>2. /\ c.app = calls[i].app /\ c.kind = calls[i].kind /\ c.phase = "done" /\ c.answer = t
          /\ c.row = 0
      BY <1>1 DEF Call
    <2>3. calls' = [calls EXCEPT ![i] = c]
      BY <1>1, <1>3 DEF Answered, CallsOK
    <2>4. c # None
      BY <2>1, Bounds
    <2> HIDE DEF c
    <2>5. /\ c \in Call \cup {None} /\ c.row \in 0..Len(rows)
          /\ ~(c.kind = "refresh" /\ c.phase \notin {"sent", "done"})
          /\ ~(c.kind # "refresh" /\ c.phase \in {"reuse", "barred", "expired"})
      BY <1>1, <2>1, <2>2
    <2>6. /\ CallsOK' /\ calls'[i] = c
          /\ \A j \in 1..CallBound : j # i => calls'[j] = calls[j]
      BY <1>1, <2>3, <2>5, CallChanged
    <2>7. QED
      BY <1>3, <2>2, <2>4, <2>6
  <1>4. QED
    BY <1>2, <1>3


-----------------------------------------------------------------------------
(* The rows: some are revoked, and one may be appended. *)
Revoked(some) ==
  /\ some \in Seq(Row) /\ Len(some) = Len(rows)
  /\ \A n \in 1..Len(rows) :
       /\ some[n].tok = rows[n].tok /\ some[n].family = rows[n].family
       /\ Live(some[n]) => Live(rows[n])

(* What a revocation under way does not see of its family is known. *)
Known(w) ==
  /\ w.seen \in 1..Len(rows) /\ w.family \in 1..Len(rows)
  /\ \A n \in DOMAIN rows : n > w.seen /\ rows[n].family = w.family => w.family \in escaped

SweepsKnown == \A i \in 1..CallBound : sweep[i] # None => Known(sweep[i])

RowsInv == RowsOK /\ OneLivePerFamily /\ BurntStaysDead /\ SweepsKnown

(* Revocations go on or end. *)
SweepsEnd ==
  /\ sweep' \in [1..CallBound -> Sweep \cup {None}] /\ escaped' = escaped
  /\ \A i \in 1..CallBound : sweep'[i] # None => sweep'[i] = sweep[i]

LEMMA SweepsGoOn ==
  ASSUME RowsOK, UNCHANGED revocation
  PROVE  SweepsEnd
  BY DEF RowsOK, SweepsEnd, revocation

LEMMA RowTyped ==
  ASSUME RowsOK, NEW n \in DOMAIN rows
  PROVE  /\ rows[n] \in Row /\ n \in 1..Len(rows) /\ n \in Int
         /\ rows[n].family \in 1..Len(rows) /\ rows[n].family <= n
         /\ rows[n].tok \in 1..clock /\ rows[n].tok \in Int /\ rows[n].family \in Int
  <1>1. /\ rows \in Seq(Row) /\ Len(rows) \in Nat /\ rows[n] \in Row
        /\ rows[n].tok <= clock /\ rows[n].family <= n /\ n \in 1..Len(rows)
    BY DEF RowsOK
  <1>2. rows[n].tok \in 1..ClockBound /\ rows[n].family \in 1..RowBound
    BY <1>1 DEF Row, Second
  <1>3. QED
    BY <1>1, <1>2, Numbers

LEMMA OneRowRevoked ==
  ASSUME RowsOK, NEW n \in DOMAIN rows
  PROVE  Revoked(RevokeRow(n)) /\ ~Live(RevokeRow(n)[n])
         /\ \A m \in DOMAIN rows : m # n => RevokeRow(n)[m] = rows[m]
  <1> DEFINE some == RevokeRow(n)
  <1>1. rows \in Seq(Row) /\ Len(rows) \in Nat /\ DOMAIN rows = 1..Len(rows) /\ rows[n] \in Row
    BY DEF RowsOK
  <1>2. some = [rows EXCEPT ![n] = [rows[n] EXCEPT !.revoked = TRUE]]
    BY <1>1 DEF RevokeRow
  <1>3. [rows[n] EXCEPT !.revoked = TRUE] \in Row
    BY <1>1 DEF Row
  <1>4. /\ some \in Seq(Row) /\ Len(some) = Len(rows)
        /\ some[n] = [rows[n] EXCEPT !.revoked = TRUE]
        /\ \A m \in DOMAIN rows : m # n => some[m] = rows[m]
    BY <1>1, <1>2, <1>3
  <1>5. some[n].tok = rows[n].tok /\ some[n].family = rows[n].family /\ some[n].revoked = TRUE
    BY <1>1, <1>4 DEF Row
  <1>6. QED
    BY <1>1, <1>4, <1>5 DEF Revoked, Live

(* Several rows are revoked, or reach their expiry, at once. *)
LEMMA RowsRevoked ==
  ASSUME RowsOK, NEW gone \in SUBSET DOMAIN rows, NEW some,
         some = [n \in DOMAIN rows |-> [rows[n] EXCEPT !.revoked = @ \/ n \in gone]]
  PROVE  /\ Revoked(some)
         /\ \A n \in DOMAIN rows : /\ n \in gone => ~Live(some[n])
                                   /\ some[n].expired = rows[n].expired
                                   /\ n \notin gone /\ Live(rows[n]) => Live(some[n])
  <1>1. rows \in Seq(Row) /\ Len(rows) \in Nat /\ DOMAIN rows = 1..Len(rows)
    BY DEF RowsOK
  <1>2. ASSUME NEW n \in 1..Len(rows)
        PROVE  /\ some[n] \in Row
               /\ some[n].tok = rows[n].tok /\ some[n].family = rows[n].family
               /\ some[n].expired = rows[n].expired
               /\ Live(some[n]) <=> Live(rows[n]) /\ n \notin gone
    <2>1. rows[n] \in Row
      BY <1>1
    <2>2. some[n] = [rows[n] EXCEPT !.revoked = rows[n].revoked \/ n \in gone]
      BY <1>1
    <2>3. (rows[n].revoked \/ n \in gone) \in BOOLEAN
      BY <2>1 DEF Row
    <2>4. QED
      BY <2>1, <2>2, <2>3 DEF Row, Live
  <1>3. some \in [1..Len(rows) -> Row]
    BY <1>1, <1>2
  <1>4. some \in Seq(Row) /\ Len(some) = Len(rows)
    BY <1>1, <1>3
  <1>5. QED
    BY <1>1, <1>2, <1>4 DEF Revoked

LEMMA RevokedHolds ==
  ASSUME RowsInv, NEW some, Revoked(some), rows' = some,
         clock \in Nat, clock' \in Nat, clock' >= clock,
         burnt' \subseteq 1..Len(rows), left' \subseteq 1..Len(rows),
         SweepsEnd,
         \A n \in 1..Len(rows) : rows[n].family \in (burnt' \ burnt) \ escaped => ~Live(some[n])
  PROVE  RowsInv'
  <1>1. /\ Len(rows') = Len(rows) /\ DOMAIN rows' = 1..Len(rows) /\ DOMAIN rows = 1..Len(rows)
        /\ rows' \in Seq(Row) /\ Len(rows) <= RowBound
    BY DEF RowsInv, RowsOK, Revoked
  <1>2. ASSUME NEW n \in DOMAIN rows'
        PROVE  rows'[n].tok <= clock' /\ rows'[n].family <= n
    <2>1. n \in DOMAIN rows /\ rows'[n].tok = rows[n].tok /\ rows'[n].family = rows[n].family
      BY <1>1 DEF Revoked
    <2>2. rows[n].tok \in Int /\ rows[n].tok <= clock /\ rows[n].family <= n
      BY <2>1, RowTyped DEF RowsInv, RowsOK
    <2>3. QED
      BY <2>1, <2>2
  <1>3. RowsOK'
    BY <1>1, <1>2 DEF RowsOK, RowsInv, SweepsEnd
  <1>4. OneLivePerFamily'
    BY <1>1 DEF RowsInv, OneLivePerFamily, Revoked
  <1>5. BurntStaysDead'
    <2> SUFFICES ASSUME NEW n \in 1..Len(rows), rows'[n].family \in burnt' \ escaped
                 PROVE  rows'[n].revoked
      BY <1>1 DEF BurntStaysDead, SweepsEnd
    <2>1. rows'[n].family = rows[n].family /\ (Live(rows'[n]) => Live(rows[n]))
      BY DEF Revoked
    <2>2. CASE rows[n].family \in burnt
      BY <1>1, <2>1, <2>2 DEF RowsInv, BurntStaysDead, Live
    <2>3. CASE rows[n].family \notin burnt
      BY <2>1, <2>3 DEF Live
    <2>4. QED
      BY <2>2, <2>3
  <1>6. SweepsKnown'
    <2> SUFFICES ASSUME NEW i \in 1..CallBound, sweep'[i] # None
                 PROVE  Known(sweep[i])' /\ sweep'[i] = sweep[i]
      BY DEF SweepsKnown, Known
    <2>1. sweep'[i] = sweep[i] /\ Known(sweep[i])
      BY DEF SweepsEnd, RowsInv, SweepsKnown
    <2>2. QED
      BY <1>1, <2>1 DEF Known, SweepsEnd, Revoked
  <1>7. QED
    BY <1>3, <1>4, <1>5, <1>6 DEF RowsInv

(* A row is appended to a family that has none alive. *)
LEMMA AppendedHolds ==
  ASSUME RowsInv, NEW some, Revoked(some), NEW t \in Second, NEW f \in 1..(Len(rows) + 1),
         rows' = Append(some, NewRow(t, f)), Len(rows) < RowBound,
         clock \in Nat, clock' = t, t >= clock, UNCHANGED <<burnt, left, sweep>>,
         escaped \subseteq escaped', escaped' \subseteq 1..(Len(rows) + 1),
         f \in burnt => f \in escaped',
         \A i \in 1..CallBound : sweep[i] # None /\ sweep[i].family = f => f \in escaped',
         \A n \in 1..Len(rows) : rows[n].family = f => ~Live(some[n])
  PROVE  /\ RowsInv' /\ Len(rows') = Len(rows) + 1 /\ Len(rows) \in Nat
         /\ \A n \in 1..Len(rows) : rows'[n] = some[n]
         /\ rows'[Len(rows) + 1] = NewRow(t, f) /\ Live(NewRow(t, f))
  <1>0. /\ RowsOK /\ Len(rows) \in Nat /\ DOMAIN rows = 1..Len(rows)
        /\ some \in Seq(Row) /\ Len(some) = Len(rows)
    BY DEF RowsInv, RowsOK, Revoked
  <1>1. f \in 1..RowBound
    BY <1>0, Numbers
  <1>2. NewRow(t, f) \in Row /\ NewRow(t, f).tok = t /\ NewRow(t, f).family = f
        /\ Live(NewRow(t, f)) /\ NewRow(t, f).revoked = FALSE
    BY <1>1 DEF NewRow, Row, Live
  <1> DEFINE new == NewRow(t, f)
  <1> HIDE DEF new
  <1>3. /\ rows' \in Seq(Row) /\ Len(rows') = Len(rows) + 1
        /\ \A n \in 1..Len(rows) : rows'[n] = some[n]
        /\ rows'[Len(rows) + 1] = new
        /\ DOMAIN rows' = 1..(Len(rows) + 1)
    BY <1>0, <1>2 DEF new
  <1>4. ASSUME NEW n \in DOMAIN rows'
        PROVE  rows'[n].tok <= clock' /\ rows'[n].family <= n
    <2>1. CASE n = Len(rows) + 1
      BY <1>0, <1>2, <1>3, <2>1, Numbers DEF Second, new
    <2>2. CASE n \in 1..Len(rows)
      <3>1. rows'[n].tok = rows[n].tok /\ rows'[n].family = rows[n].family
        BY <1>3, <2>2 DEF Revoked
      <3>2. rows[n].tok \in Int /\ rows[n].tok <= clock /\ rows[n].family <= n
        BY <1>0, <2>2, RowTyped DEF RowsOK
      <3>3. QED
        BY <3>1, <3>2, Numbers DEF Second
    <2>3. QED
      BY <1>0, <1>3, <2>1, <2>2
  <1>5. RowsOK'
    BY <1>0, <1>3, <1>4, Numbers DEF RowsOK
  <1>6. OneLivePerFamily'
    <2> SUFFICES ASSUME NEW m \in DOMAIN rows', NEW n \in DOMAIN rows',
                        rows'[m].family = rows'[n].family, Live(rows'[m]), Live(rows'[n])
                 PROVE  m = n
      BY DEF OneLivePerFamily
    <2>1. ASSUME NEW k \in 1..Len(rows), Live(rows'[k])
          PROVE  rows'[k].family # f /\ Live(rows[k]) /\ rows'[k].family = rows[k].family
      BY <1>3, <2>1 DEF Revoked
    <2>2. CASE m \in 1..Len(rows) /\ n \in 1..Len(rows)
      BY <1>0, <2>1, <2>2 DEF RowsInv, OneLivePerFamily
    <2>3. CASE m = Len(rows) + 1 \/ n = Len(rows) + 1
      BY <1>0, <1>2, <1>3, <2>1, <2>3 DEF new
    <2>4. QED
      BY <1>0, <1>3, <2>2, <2>3
  <1>7. BurntStaysDead'
    <2> SUFFICES ASSUME NEW n \in DOMAIN rows', rows'[n].family \in burnt \ escaped'
                 PROVE  rows'[n].revoked
      BY DEF BurntStaysDead
    <2>1. n # Len(rows) + 1
      BY <1>2, <1>3 DEF new
    <2>2. n \in 1..Len(rows)
      BY <1>0, <1>3, <2>1
    <2>3. rows'[n] = some[n] /\ rows[n].family \in burnt \ escaped
      BY <1>3, <2>2 DEF Revoked
    <2>4. rows[n].revoked
      BY <1>0, <2>2, <2>3 DEF RowsInv, BurntStaysDead
    <2>5. QED
      BY <2>2, <2>3, <2>4 DEF Revoked, Live
  <1>8. SweepsKnown'
    <2> SUFFICES ASSUME NEW i \in 1..CallBound, sweep[i] # None
                 PROVE  Known(sweep[i])'
      BY DEF SweepsKnown, Known
    <2>1. Known(sweep[i])
      BY DEF RowsInv, SweepsKnown
    <2>2. ASSUME NEW n \in DOMAIN rows', n > sweep[i].seen, rows'[n].family = sweep[i].family
          PROVE  sweep[i].family \in escaped'
      <3>1. CASE n = Len(rows) + 1
        BY <1>2, <1>3, <2>2, <3>1 DEF new
      <3>2. CASE n \in 1..Len(rows)
        <4>1. rows[n].family = sweep[i].family
          BY <1>3, <2>2, <3>2 DEF Revoked
        <4>2. QED
          BY <1>0, <2>1, <2>2, <3>2, <4>1 DEF Known
      <3>3. QED
        BY <1>0, <1>3, <3>1, <3>2
    <2>3. QED
      BY <1>0, <1>3, <2>1, <2>2 DEF Known
  <1>9. QED
    BY <1>0, <1>2, <1>3, <1>5, <1>6, <1>7, <1>8 DEF RowsInv, new


-----------------------------------------------------------------------------
(* Nothing is signed for a barred account but by the calls that had passed *)
(* the check of its status, each of which signs once.                      *)
Going == {i \in 1..CallBound : AtPhase(i, "go")}
Counted == status = "barred" => clock + Cardinality(Going) <= grace

(* Only a client that still waits is answered. *)
AnswersAwaited == \A i \in 1..CallBound : AtPhase(i, "done") => calls[i].app # None

ServerInv == TokensTypeOK /\ RowsInv /\ Counted /\ AnswersAwaited

(* No call changes hands or kind in this step, or leaves its client waiting. *)
SameCallers ==
  \A i \in 1..CallBound :
    /\ calls'[i] # None =>
         calls[i] # None /\ calls'[i].app = calls[i].app /\ calls'[i].kind = calls[i].kind
    /\ calls[i] # None /\ calls[i].app # None => calls'[i] # None

LEMMA GoingFinite ==
  ASSUME NEW some \in SUBSET (1..CallBound)
  PROVE  IsFiniteSet(some) /\ Cardinality(some) \in Nat /\ Cardinality(some) <= CallBound
  <1>1. IsFiniteSet(1..CallBound) /\ Cardinality(1..CallBound) = CallBound
    BY Numbers, FS_Interval
  <1>2. IsFiniteSet(some) /\ Cardinality(some) <= Cardinality(1..CallBound)
    BY <1>1, FS_Subset
  <1>3. QED
    BY <1>1, <1>2, FS_CardinalityType

LEMMA CountKept ==
  ASSUME Counted, ServerOK, Going' \subseteq Going, UNCHANGED <<status, clock, grace>>
  PROVE  Counted'
  <1>1. /\ Going \in SUBSET (1..CallBound) /\ Going' \in SUBSET (1..CallBound)
    BY DEF Going
  <1> DEFINE now == Going'
  <1>2. IsFiniteSet(Going) /\ now \subseteq Going /\ Cardinality(Going) \in Nat
    BY <1>1, GoingFinite
  <1> HIDE DEF now
  <1>3. Cardinality(now) <= Cardinality(Going) /\ Cardinality(now) \in Nat
    BY <1>2, FS_Subset, FS_CardinalityType
  <1>4. status' = "barred" => clock' + Cardinality(now) <= grace'
    BY <1>2, <1>3, Numbers DEF Counted, ServerOK
  <1>5. QED
    BY <1>4 DEF Counted, now

LEMMA CountMoved ==
  ASSUME Counted, ServerOK, NEW i \in Going, Going' \subseteq Going \ {i},
         clock' \in {clock, clock + 1}, UNCHANGED <<status, grace>>
  PROVE  Counted'
  <1>1. Going \in SUBSET (1..CallBound)
    BY DEF Going
  <1> DEFINE now == Going'
  <1>2. IsFiniteSet(Going) /\ now \subseteq Going \ {i} /\ Cardinality(Going) \in Nat
    BY <1>1, GoingFinite
  <1> HIDE DEF now
  <1>3. Cardinality(Going \ {i}) = Cardinality(Going) - 1 /\ IsFiniteSet(Going \ {i})
    BY <1>2, FS_RemoveElement
  <1>4. Cardinality(now) <= Cardinality(Going) - 1 /\ Cardinality(now) \in Nat
    BY <1>2, <1>3, FS_Subset, FS_CardinalityType
  <1>5. status' = "barred" => clock' + Cardinality(now) <= grace'
    BY <1>2, <1>4, Numbers DEF Counted, ServerOK
  <1>6. QED
    BY <1>5 DEF Counted, now

(* Call i is answered: it signs no more. *)
LEMMA AnsweredKeeps ==
  ASSUME CallsOK, RowsOK, AnswersAwaited, NEW i \in 1..CallBound, calls[i] # None,
         NEW t \in Held, calls' = Answered(i, t), Len(rows') \in Nat, Len(rows') >= Len(rows)
  PROVE  CallsOK' /\ AnswersAwaited' /\ SameCallers /\ Going' \subseteq Going \ {i}
  <1>1. /\ CallsOK'
        /\ \A j \in 1..CallBound : j # i => calls'[j] = calls[j]
        /\ calls[i].app = None => calls'[i] = None
        /\ calls[i].app # None =>
              /\ calls'[i] # None /\ calls'[i].app = calls[i].app
              /\ calls'[i].kind = calls[i].kind /\ calls'[i].phase = "done"
    BY AnsweredCall
  <1>2. AnswersAwaited'
    BY <1>1 DEF AnswersAwaited, AtPhase
  <1>3. SameCallers
    BY <1>1 DEF SameCallers
  <1>4. Going' \subseteq Going \ {i}
    BY <1>1 DEF Going, AtPhase
  <1>5. QED
    BY <1>1, <1>2, <1>3, <1>4

(* Call i goes on, in another phase, perhaps with the row it has found. *)
LEMMA CallGoesOn ==
  ASSUME CallsOK, RowsOK, AnswersAwaited, NEW i \in 1..CallBound, calls[i] # None,
         NEW c \in Call, calls' = [calls EXCEPT ![i] = c],
         c.app = calls[i].app, c.kind = calls[i].kind, c.row <= Len(rows),
         c.kind = "refresh" => c.row # 0 /\ c.phase \in {"reuse", "barred", "expired", "go"},
         c.kind # "refresh" => c.phase \in {"creating", "go"},
         rows' = rows
  PROVE  /\ CallsOK' /\ AnswersAwaited' /\ SameCallers
         /\ Going' \subseteq (Going \cup IF c.phase = "go" THEN {i} ELSE {})
         /\ c # None /\ calls'[i] = c
         /\ \A j \in 1..CallBound : j # i => calls'[j] = calls[j]
  <1>1. Len(rows) \in Nat /\ Len(rows') \in Nat /\ Len(rows') >= Len(rows)
    BY DEF RowsOK
  <1>2. c \in Call \cup {None} /\ c.row \in 0..Len(rows) /\ c # None
    BY <1>1, Bounds DEF Call
  <1>3. /\ CallsOK' /\ calls'[i] = c
        /\ \A j \in 1..CallBound : j # i => calls'[j] = calls[j]
    BY <1>1, <1>2, CallChanged
  <1>4. AnswersAwaited' /\ SameCallers
    BY <1>2, <1>3 DEF AnswersAwaited, AtPhase, SameCallers
  <1>5. Going' \subseteq (Going \cup IF c.phase = "go" THEN {i} ELSE {})
    BY <1>2, <1>3 DEF Going, AtPhase
  <1>6. QED
    BY <1>2, <1>3, <1>4, <1>5

-----------------------------------------------------------------------------
(* AuthService, one step at a time. *)
LEMMA ServerParts ==
  ASSUME ServerInv
  PROVE  /\ TokensTypeOK /\ RowsInv /\ Counted /\ AnswersAwaited
         /\ ServerOK /\ RowsOK /\ CallsOK /\ ClientsOK /\ CountsOK
         /\ Len(rows) \in Nat /\ DOMAIN rows = 1..Len(rows)
         /\ clock \in Nat /\ stale \in Nat
  BY TypeParts, Numbers DEF ServerInv, RowsOK, ServerOK

LEMMA ClientsNext ==
  ASSUME ServerInv'
  PROVE  ClientsOK'
  BY DEF ServerInv, TokensTypeOK, ClientsOK

(* A step of the server leaves the clients alone. *)
LEMMA ServerStepHolds ==
  ASSUME ServerInv, RowsInv', Counted', AnswersAwaited', CallsOK', ServerOK',
         UNCHANGED <<mem, disk, flow, req, signIns>>, mishaps' \subseteq Allow
  PROVE  ServerInv'
  <1>1. ClientsOK' /\ CountsOK'
    BY ServerParts DEF ClientsOK, CountsOK
  <1>2. QED
    BY <1>1, TypePartsNext DEF ServerInv, RowsInv

LEMMA RowsUnchanged ==
  ASSUME RowsInv, UNCHANGED <<rows, clock, burnt, left, revocation>>
  PROVE  RowsInv'
  BY DEF RowsInv, RowsOK, OneLivePerFamily, BurntStaysDead, SweepsKnown, Known,
         revocation

LEMMA Mishaps ==
  ASSUME ServerInv
  PROVE  /\ \A m : Mishappens(m) => mishaps' \subseteq Allow /\ mishaps' = mishaps \cup {m}
         /\ \A case, m : Note(case, m) =>
              mishaps' \subseteq Allow /\ mishaps \subseteq mishaps' /\ (case => m \in mishaps')
         /\ \A t : Signs(t) => /\ clock' = t /\ t \in Second
                              /\ (t = clock + 1 \/ (t = clock /\ "same_second" \in mishaps'))
                              /\ mishaps' \subseteq Allow /\ mishaps \subseteq mishaps'
  <1>1. mishaps \subseteq Allow
    BY ServerParts DEF CountsOK
  <1>2. QED
    BY <1>1 DEF Mishappens, Note, Signs

LEMMA RegisterFindHolds ==
  ASSUME ServerInv, NEW i \in 1..CallBound, RegisterFind(i)
  PROVE  ServerInv' /\ SameCallers
  <1>1. /\ calls[i] # None /\ calls[i].kind = "register" /\ calls[i].phase = "sent"
        /\ UNCHANGED <<serverVars, mem, disk, flow, req, signIns, mishaps>>
    BY DEF RegisterFind, AtPhase
  <1>2. calls[i] \in Call /\ GoodCall(calls[i], Len(rows))
    BY <1>1, ServerParts, CallTyped
  <1>3. CallsOK' /\ AnswersAwaited' /\ SameCallers /\ Going' \subseteq Going
    <2>1. CASE status = "none"
      <3> DEFINE c == [calls[i] EXCEPT !.phase = "creating"]
      <3>1. calls' = [calls EXCEPT ![i] = c]
        BY <1>1, <2>1 DEF RegisterFind
      <3>2. /\ c \in Call /\ c.app = calls[i].app /\ c.kind = calls[i].kind
            /\ c.phase = "creating" /\ c.row <= Len(rows) /\ c.kind # "refresh"
        BY <1>1, <1>2 DEF Call, GoodCall
      <3> HIDE DEF c
      <3>3. QED
        BY <1>1, <3>1, <3>2, ServerParts, CallGoesOn DEF serverVars
    <2>2. CASE status # "none"
      <3>1. calls' = Answered(i, None) /\ None \in Held
        BY <2>2 DEF RegisterFind, Held
      <3>2. QED
        BY <1>1, <3>1, ServerParts, AnsweredKeeps DEF serverVars
    <2>3. QED
      BY <2>1, <2>2
  <1>4. RowsInv' /\ Counted' /\ ServerOK' /\ mishaps' \subseteq Allow
    BY <1>1, <1>3, ServerParts, CountKept, RowsUnchanged DEF serverVars, ServerOK, CountsOK
  <1>5. QED
    BY <1>1, <1>3, <1>4, ServerStepHolds

LEMMA RegisterCreateHolds ==
  ASSUME ServerInv, NEW i \in 1..CallBound, RegisterCreate(i)
  PROVE  ServerInv' /\ SameCallers
  <1>1. /\ calls[i] # None /\ calls[i].phase = "creating"
        /\ UNCHANGED <<grace, clock, stale, rows, burnt, left, revocation, mem, disk, flow, req, signIns,
                       mishaps>>
    BY DEF RegisterCreate, AtPhase
  <1>2. calls[i] \in Call /\ GoodCall(calls[i], Len(rows))
    BY <1>1, ServerParts, CallTyped
  <1>3. CASE status = "none"
    <2> DEFINE c == [calls[i] EXCEPT !.phase = "go"]
    <2>1. calls' = [calls EXCEPT ![i] = c] /\ status' = "active"
      BY <1>1, <1>3 DEF RegisterCreate
    <2>2. /\ c \in Call /\ c.app = calls[i].app /\ c.kind = calls[i].kind /\ c.phase = "go"
          /\ c.row <= Len(rows) /\ (c.kind = "refresh" => c.row # 0)
      BY <1>1, <1>2 DEF Call, GoodCall
    <2> HIDE DEF c
    <2>3. CallsOK' /\ AnswersAwaited' /\ SameCallers
      BY <1>1, <2>1, <2>2, ServerParts, CallGoesOn
    <2>4. RowsInv' /\ Counted' /\ ServerOK' /\ mishaps' \subseteq Allow
      BY <1>1, <2>1, ServerParts, RowsUnchanged DEF ServerOK, CountsOK, Counted
    <2>5. QED
      BY <1>1, <2>3, <2>4, ServerStepHolds
  <1>4. CASE status # "none"
    <2>1. calls' = Answered(i, None) /\ None \in Held /\ status' = status
      BY <1>4 DEF RegisterCreate, Held
    <2>2. CallsOK' /\ AnswersAwaited' /\ SameCallers /\ Going' \subseteq Going
      BY <1>1, <2>1, ServerParts, AnsweredKeeps
    <2>3. RowsInv' /\ Counted' /\ ServerOK' /\ mishaps' \subseteq Allow
      BY <1>1, <2>1, <2>2, ServerParts, CountKept, RowsUnchanged DEF ServerOK, CountsOK
    <2>4. QED
      BY <1>1, <2>2, <2>3, ServerStepHolds
  <1>5. QED
    BY <1>3, <1>4

LEMMA LoginCheckHolds ==
  ASSUME ServerInv, NEW i \in 1..CallBound, LoginCheck(i)
  PROVE  ServerInv' /\ SameCallers
  <1>1. /\ calls[i] # None /\ calls[i].kind = "login" /\ calls[i].phase = "sent"
        /\ UNCHANGED <<serverVars, mem, disk, flow, req, signIns, mishaps>>
    BY DEF LoginCheck, AtPhase
  <1>2. calls[i] \in Call /\ GoodCall(calls[i], Len(rows))
    BY <1>1, ServerParts, CallTyped
  <1>3. /\ CallsOK' /\ AnswersAwaited' /\ SameCallers
        /\ status = "active" \/ Going' \subseteq Going
    <2>1. CASE status = "active"
      <3> DEFINE c == [calls[i] EXCEPT !.phase = "go"]
      <3>1. calls' = [calls EXCEPT ![i] = c]
        BY <1>1, <2>1 DEF LoginCheck
      <3>2. /\ c \in Call /\ c.app = calls[i].app /\ c.kind = calls[i].kind
            /\ c.phase = "go" /\ c.row <= Len(rows) /\ c.kind # "refresh"
        BY <1>1, <1>2 DEF Call, GoodCall
      <3> HIDE DEF c
      <3>3. QED
        BY <1>1, <2>1, <3>1, <3>2, ServerParts, CallGoesOn DEF serverVars
    <2>2. CASE status # "active"
      <3>1. calls' = Answered(i, None) /\ None \in Held
        BY <2>2 DEF LoginCheck, Held
      <3>2. QED
        BY <1>1, <3>1, ServerParts, AnsweredKeeps DEF serverVars
    <2>3. QED
      BY <2>1, <2>2
  <1>4. Counted'
    <2>1. CASE status = "active"
      BY <1>1, <2>1 DEF Counted, serverVars
    <2>2. CASE status # "active"
      BY <1>1, <1>3, <2>2, ServerParts, CountKept DEF serverVars
    <2>3. QED
      BY <2>1, <2>2
  <1>5. RowsInv' /\ ServerOK' /\ mishaps' \subseteq Allow
    BY <1>1, ServerParts, RowsUnchanged DEF serverVars, ServerOK, CountsOK
  <1>6. QED
    BY <1>1, <1>3, <1>4, <1>5, ServerStepHolds

LEMMA StoreRefreshTokenHolds ==
  ASSUME ServerInv, NEW i \in 1..CallBound, NEW t \in Second, StoreRefreshToken(i, t)
  PROVE  /\ ServerInv' /\ SameCallers
         /\ Len(rows') = Len(rows) + 1
         /\ \A n \in 1..Len(rows) : rows'[n] = rows[n]
         /\ rows'[Len(rows) + 1] = NewRow(t, Len(rows) + 1)
  <1>1. /\ calls[i] # None /\ i \in Going /\ Len(rows) < RowBound /\ Signs(t)
        /\ rows' = Append(rows, NewRow(t, Len(rows) + 1)) /\ calls' = Answered(i, t)
        /\ UNCHANGED <<grace, status, stale, burnt, left, revocation, mem, disk, flow, req, signIns>>
    BY DEF StoreRefreshToken, AtPhase, Going
  <1>2. /\ clock' = t /\ clock' \in {clock, clock + 1} /\ t \in Second
        /\ mishaps' \subseteq Allow
    BY <1>1, Mishaps
  <1>3. Revoked(rows)
    BY ServerParts DEF Revoked, RowsOK
  <1>4. Len(rows) + 1 \in 1..(Len(rows) + 1) /\ Len(rows) + 1 \notin burnt
    BY ServerParts DEF RowsOK
  <1>5. \A n \in 1..Len(rows) : rows[n].family # Len(rows) + 1
    BY ServerParts, RowTyped
  <1>6. /\ t >= clock /\ UNCHANGED <<sweep, escaped>> /\ escaped \subseteq 1..(Len(rows) + 1)
        /\ \A j \in 1..CallBound : sweep[j] # None => sweep[j].family # Len(rows) + 1
    BY <1>1, <1>2, ServerParts DEF revocation, RowsOK, RowsInv, SweepsKnown, Known
  <1>7. /\ RowsInv' /\ Len(rows') = Len(rows) + 1
        /\ \A n \in 1..Len(rows) : rows'[n] = rows[n]
        /\ rows'[Len(rows) + 1] = NewRow(t, Len(rows) + 1)
    BY <1>1, <1>2, <1>3, <1>4, <1>5, <1>6, ServerParts, AppendedHolds
  <1>8. t \in Held
    BY DEF Held
  <1>9. CallsOK' /\ AnswersAwaited' /\ SameCallers /\ Going' \subseteq Going \ {i}
    BY <1>1, <1>7, <1>8, ServerParts, AnsweredKeeps
  <1>10. Counted'
    BY <1>1, <1>2, <1>9, ServerParts, CountMoved
  <1>11. ServerOK'
    BY <1>1, <1>2, ServerParts, Numbers DEF ServerOK, Second
  <1>12. QED
    BY <1>1, <1>2, <1>7, <1>9, <1>10, <1>11, ServerStepHolds

LEMMA RefreshFindHolds ==
  ASSUME ServerInv, NEW i \in 1..CallBound, RefreshFind(i)
  PROVE  ServerInv' /\ SameCallers
  <1>1. /\ calls[i] # None /\ calls[i].kind = "refresh" /\ calls[i].phase = "sent"
        /\ UNCHANGED <<serverVars, mem, disk, flow, req, signIns, mishaps>>
    BY DEF RefreshFind, AtPhase
  <1>2. calls[i] \in Call /\ GoodCall(calls[i], Len(rows))
    BY <1>1, ServerParts, CallTyped
  <1>3. PICK n \in DOMAIN rows :
          calls' = [calls EXCEPT ![i].phase = Verdict(rows[n]), ![i].row = n, ![i].tok = None]
    BY DEF RefreshFind
  <1>4. /\ rows[n] \in Row /\ n \in 1..Len(rows) /\ Len(rows) <= RowBound /\ Len(rows) \in Nat
        /\ None \in Held
    BY ServerParts, RowTyped DEF RowsOK, Held
  <1> DEFINE v == Verdict(rows[n])
             c == [calls[i] EXCEPT !.phase = v, !.row = n, !.tok = None]
  <1>5. v \in {"reuse", "barred", "expired", "go"} /\ (v = "go" => status # "barred")
    BY <1>4 DEF Verdict, Row
  <1> HIDE DEF v
  <1>6. calls' = [calls EXCEPT ![i] = c]
    BY <1>1, <1>3, ServerParts DEF CallsOK, v
  <1>7. n \in 0..RowBound /\ n # 0
    BY <1>4, Numbers
  <1>8. /\ c \in Call /\ c.app = calls[i].app /\ c.kind = calls[i].kind /\ c.phase = v
        /\ c.row = n
    BY <1>2, <1>4, <1>5, <1>7 DEF Call
  <1> HIDE DEF c
  <1>9. /\ CallsOK' /\ AnswersAwaited' /\ SameCallers
        /\ Going' \subseteq (Going \cup IF c.phase = "go" THEN {i} ELSE {})
    <2>1. /\ c.row <= Len(rows) /\ c.kind = "refresh" /\ c.row # 0
          /\ c.phase \in {"reuse", "barred", "expired", "go"} /\ rows' = rows
      BY <1>1, <1>4, <1>5, <1>7, <1>8 DEF serverVars
    <2>2. QED
      BY <1>1, <1>6, <1>8, <2>1, ServerParts, CallGoesOn
  <1>10. Counted'
    <2>1. CASE status = "barred"
      BY <1>1, <1>5, <1>8, <1>9, <2>1, ServerParts, CountKept DEF serverVars
    <2>2. CASE status # "barred"
      BY <1>1, <2>2 DEF Counted, serverVars
    <2>3. QED
      BY <2>1, <2>2
  <1>11. RowsInv' /\ ServerOK' /\ mishaps' \subseteq Allow
    BY <1>1, ServerParts, RowsUnchanged DEF serverVars, ServerOK, CountsOK
  <1>12. QED
    BY <1>1, <1>9, <1>10, <1>11, ServerStepHolds

(* The revocation of a family begins: it sees the rows there are. *)
LEMMA RevocationBeginsHolds ==
  ASSUME ServerInv, NEW i \in 1..CallBound, RevocationBegins(i)
  PROVE  /\ ServerInv' /\ SameCallers
         /\ UNCHANGED <<rows, left, clock, status, calls, mem, disk, flow, req, mishaps>>
  <1> DEFINE f == rows[calls[i].row].family
             w == [family |-> f, seen |-> Len(rows)]
  <1>1. /\ calls[i] # None /\ calls[i].phase \in {"reuse", "barred"}
        /\ sweep' = [sweep EXCEPT ![i] = w]
        /\ UNCHANGED <<status, clock, stale, rows, grace, burnt, left, escaped, calls, mem, disk,
                       flow, req, signIns, mishaps>>
    BY DEF RevocationBegins, AtPhase
  <1>2. calls[i] \in Call /\ GoodCall(calls[i], Len(rows)) /\ calls[i].row \in 1..Len(rows)
    BY <1>1, ServerParts, CallTyped DEF GoodCall, Call
  <1>3. f \in 1..Len(rows) /\ Len(rows) \in 1..RowBound
    BY <1>2, ServerParts, RowTyped, Numbers DEF RowsOK
  <1>4. w \in Sweep /\ w.family = f /\ w.seen = Len(rows)
    BY <1>3, Numbers DEF Sweep
  <1> HIDE DEF f, w
  <1>5. /\ sweep' \in [1..CallBound -> Sweep \cup {None}] /\ sweep'[i] = w
        /\ \A j \in 1..CallBound : j # i => sweep'[j] = sweep[j]
    BY <1>1, <1>4, ServerParts DEF RowsOK
  <1>6. RowsOK' /\ OneLivePerFamily' /\ BurntStaysDead'
    BY <1>1, <1>5, ServerParts DEF RowsOK, RowsInv, OneLivePerFamily, BurntStaysDead
  <1>7. SweepsKnown'
    <2> SUFFICES ASSUME NEW j \in 1..CallBound, sweep'[j] # None
                 PROVE  Known(sweep'[j])
      BY <1>1 DEF SweepsKnown, Known
    <2>1. CASE j = i
      BY <1>3, <1>4, <1>5, <2>1, ServerParts DEF Known
    <2>2. CASE j # i
      BY <1>5, <2>2, ServerParts DEF RowsInv, SweepsKnown
    <2>3. QED
      BY <2>1, <2>2
  <1>8. CallsOK' /\ AnswersAwaited' /\ SameCallers /\ Going' \subseteq Going
    BY <1>1, ServerParts DEF CallsOK, GoodCall, AnswersAwaited, SameCallers, Going, AtPhase
  <1>9. Counted' /\ ServerOK' /\ mishaps' \subseteq Allow
    BY <1>1, <1>8, ServerParts, CountKept DEF ServerOK, CountsOK
  <1>10. QED
    BY <1>1, <1>6, <1>7, <1>8, <1>9, ServerStepHolds DEF RowsInv

LEMMA RefreshRevokesHolds ==
  ASSUME ServerInv, NEW i \in 1..CallBound, RefreshRevokes(i)
  PROVE  /\ ServerInv' /\ SameCallers /\ Revoked(rows') /\ Len(rows') = Len(rows)
  <1>1. /\ calls[i] # None /\ calls[i].phase \in {"reuse", "barred"}
        /\ sweep[i] # None /\ rows' = RevokeFamily(sweep[i])
        /\ burnt' \subseteq burnt \cup {sweep[i].family} /\ calls' = Answered(i, None)
        /\ sweep' = [sweep EXCEPT ![i] = None]
        /\ UNCHANGED <<grace, status, clock, stale, left, escaped, mem, disk, flow, req, signIns,
                       mishaps>>
    BY DEF RefreshRevokes, AtPhase
  <1>2. calls[i] \in Call /\ GoodCall(calls[i], Len(rows)) /\ calls[i].row \in 1..Len(rows)
    BY <1>1, ServerParts, CallTyped DEF GoodCall, Call
  <1> DEFINE f == sweep[i].family
             gone == {n \in DOMAIN rows : rows[n].family = f /\ n <= sweep[i].seen}
  <1>3. f \in 1..Len(rows) /\ Known(sweep[i]) /\ sweep[i].seen \in Nat
    BY <1>1, ServerParts DEF RowsInv, SweepsKnown, Known
  <1>4. rows' = [n \in DOMAIN rows |-> [rows[n] EXCEPT !.revoked = @ \/ n \in gone]]
    BY <1>1 DEF RevokeFamily
  <1>5. Revoked(rows') /\ \A n \in DOMAIN rows : n \in gone => ~Live(rows'[n])
    BY <1>4, ServerParts, RowsRevoked
  <1>6. /\ \A n \in 1..Len(rows) : rows[n].family \in (burnt' \ burnt) \ escaped => ~Live(rows'[n])
        /\ SweepsEnd
    <2>1. SweepsEnd
      BY <1>1, ServerParts DEF SweepsEnd, RowsOK
    <2>2. ASSUME NEW n \in 1..Len(rows), rows[n].family \in (burnt' \ burnt) \ escaped
          PROVE  ~Live(rows'[n])
      <3>1. rows[n].family = f /\ f \notin escaped /\ ~(n > sweep[i].seen)
        BY <1>1, <1>3, <2>2, ServerParts DEF Known
      <3>2. n \in gone
        BY <1>3, <3>1, ServerParts
      <3>3. QED
        BY <1>5, <3>2, ServerParts
    <2>3. QED
      BY <2>1, <2>2
  <1>7. burnt' \subseteq 1..Len(rows) /\ left' \subseteq 1..Len(rows)
    BY <1>1, <1>3, ServerParts DEF RowsOK
  <1>8. RowsInv' /\ Len(rows') = Len(rows)
    BY <1>1, <1>5, <1>6, <1>7, ServerParts, RevokedHolds DEF Revoked
  <1>9. CallsOK' /\ AnswersAwaited' /\ SameCallers /\ Going' \subseteq Going
    BY <1>1, <1>8, ServerParts, AnsweredKeeps DEF Held
  <1>10. Counted' /\ ServerOK' /\ mishaps' \subseteq Allow
    BY <1>1, <1>9, ServerParts, CountKept DEF ServerOK, CountsOK
  <1>11. QED
    BY <1>1, <1>5, <1>8, <1>9, <1>10, ServerStepHolds

LEMMA RefreshExpiredHolds ==
  ASSUME ServerInv, NEW i \in 1..CallBound, RefreshExpired(i)
  PROVE  /\ ServerInv' /\ SameCallers /\ Revoked(rows') /\ Len(rows') = Len(rows)
  <1>1. /\ calls[i] # None /\ calls[i].phase = "expired"
        /\ rows' = RevokeRow(calls[i].row) /\ calls' = Answered(i, None)
        /\ UNCHANGED <<grace, status, clock, stale, burnt, left, revocation, mem, disk, flow, req, signIns,
                       mishaps>>
    BY DEF RefreshExpired, AtPhase
  <1>2. calls[i] \in Call /\ GoodCall(calls[i], Len(rows)) /\ calls[i].row \in 1..Len(rows)
    BY <1>1, ServerParts, CallTyped DEF GoodCall, Call
  <1>3. Revoked(rows')
    BY <1>1, <1>2, ServerParts, OneRowRevoked
  <1>4. burnt' \subseteq 1..Len(rows) /\ left' \subseteq 1..Len(rows) /\ SweepsEnd
    BY <1>1, ServerParts, SweepsGoOn DEF RowsOK
  <1>5. RowsInv' /\ Len(rows') = Len(rows)
    BY <1>1, <1>3, <1>4, ServerParts, RevokedHolds DEF Revoked
  <1>6. CallsOK' /\ AnswersAwaited' /\ SameCallers /\ Going' \subseteq Going
    BY <1>1, <1>5, ServerParts, AnsweredKeeps DEF Held
  <1>7. Counted' /\ ServerOK' /\ mishaps' \subseteq Allow
    BY <1>1, <1>6, ServerParts, CountKept DEF ServerOK, CountsOK
  <1>8. QED
    BY <1>1, <1>3, <1>5, <1>6, <1>7, ServerStepHolds

(* The rotation: the row found is the live one of its family, and dies.    *)
LEMMA RefreshRotateHolds ==
  ASSUME ServerInv, NEW i \in 1..CallBound, NEW t \in Second, RefreshRotate(i, t)
  PROVE  /\ ServerInv' /\ SameCallers
         /\ calls[i].row \in 1..Len(rows)
         /\ Rotates(calls[i].row) =>
              /\ Len(rows') = Len(rows) + 1
              /\ \A n \in 1..Len(rows) : rows'[n] = RevokeRow(calls[i].row)[n]
              /\ rows'[Len(rows) + 1] = NewRow(t, rows[calls[i].row].family)
         /\ ~Rotates(calls[i].row) => rows' = rows
  <1> DEFINE n == calls[i].row
             f == rows[n].family
             some == RevokeRow(n)
  <1>1. /\ calls[i] # None /\ i \in Going /\ calls[i].phase = "go" /\ calls[i].kind = "refresh"
        /\ Len(rows) < RowBound /\ Signs(t)
        /\ UNCHANGED <<grace, status, stale, burnt, left, sweep, mem, disk, flow, req, signIns>>
    BY DEF RefreshRotate, AtPhase, Going
  <1>2. calls[i] \in Call /\ GoodCall(calls[i], Len(rows)) /\ n \in 1..Len(rows)
    BY <1>1, ServerParts, CallTyped DEF GoodCall, Call
  <1>3. /\ clock' = t /\ clock' \in {clock, clock + 1} /\ t \in Second /\ t \in Held
        /\ mishaps' \subseteq Allow /\ t >= clock /\ None \in Held
    BY <1>1, Mishaps, ServerParts DEF Held
  <1>4. CASE Rotates(n)
    <2>1. /\ rows' = Append(some, NewRow(t, f)) /\ calls' = Answered(i, t)
          /\ escaped' = IF Swept(f) THEN escaped \cup {f} ELSE escaped
      BY <1>4 DEF RefreshRotate
    <2>2. /\ Revoked(some) /\ ~Live(some[n])
          /\ \A m \in DOMAIN rows : m # n => some[m] = rows[m]
      BY <1>2, ServerParts, OneRowRevoked
    <2>3. f \in 1..(Len(rows) + 1) /\ rows[n] \in Row
      BY <1>2, ServerParts, RowTyped
    <2>4. Live(rows[n]) /\ (f \in burnt => f \in escaped)
      BY <1>2, <1>4, <2>3, ServerParts DEF Rotates, Live, RowsInv, BurntStaysDead, Row
    <2>5. ASSUME NEW m \in 1..Len(rows), rows[m].family = f
          PROVE  ~Live(some[m])
      <3>1. Live(rows[m]) => m = n
        BY <1>2, <2>4, <2>5, ServerParts DEF RowsInv, OneLivePerFamily
      <3>2. QED
        BY <2>2, <3>1, ServerParts
    <2> HIDE DEF some, f
    <2>12. /\ escaped \subseteq escaped' /\ escaped' \subseteq 1..(Len(rows) + 1)
           /\ f \in burnt => f \in escaped'
           /\ \A j \in 1..CallBound : sweep[j] # None /\ sweep[j].family = f => f \in escaped'
      BY <2>1, <2>3, <2>4, ServerParts DEF RowsOK, Swept
    <2>6. /\ RowsInv' /\ Len(rows') = Len(rows) + 1
          /\ \A m \in 1..Len(rows) : rows'[m] = some[m]
          /\ rows'[Len(rows) + 1] = NewRow(t, f)
      BY <1>1, <1>3, <2>1, <2>2, <2>3, <2>5, <2>12, ServerParts, AppendedHolds
    <2>7. CallsOK' /\ AnswersAwaited' /\ SameCallers /\ Going' \subseteq Going \ {i}
      BY <1>1, <1>3, <2>1, <2>6, ServerParts, AnsweredKeeps
    <2>8. Counted'
      BY <1>1, <1>3, <2>7, ServerParts, CountMoved
    <2>9. ServerOK'
      BY <1>1, <1>3, ServerParts, Numbers DEF ServerOK, Second
    <2>10. ServerInv'
      BY <1>1, <1>3, <2>6, <2>7, <2>8, <2>9, ServerStepHolds
    <2>11. QED
      BY <1>2, <1>4, <2>6, <2>7, <2>10 DEF some, f
  <1>5. CASE ~Rotates(n)
    <2>1. rows' = rows /\ escaped' = escaped /\ calls' = Answered(i, None)
      BY <1>5 DEF RefreshRotate
    <2>2. Revoked(rows)
      BY ServerParts DEF Revoked, RowsOK
    <2>3. burnt' \subseteq 1..Len(rows) /\ left' \subseteq 1..Len(rows) /\ burnt' = burnt
          /\ SweepsEnd
      BY <1>1, <2>1, ServerParts DEF RowsOK, SweepsEnd
    <2>4. clock' \in Nat
      BY <1>3, ServerParts
    <2>5. RowsInv'
      BY <1>3, <2>1, <2>2, <2>3, <2>4, ServerParts, RevokedHolds
    <2>6. CallsOK' /\ AnswersAwaited' /\ SameCallers /\ Going' \subseteq Going \ {i}
      BY <1>1, <1>3, <2>1, ServerParts, AnsweredKeeps
    <2>7. Counted'
      BY <1>1, <1>3, <2>6, ServerParts, CountMoved
    <2>8. ServerOK'
      BY <1>1, <1>3, ServerParts, Numbers DEF ServerOK, Second
    <2>9. ServerInv'
      BY <1>1, <1>3, <2>5, <2>6, <2>7, <2>8, ServerStepHolds
    <2>10. QED
      BY <1>2, <1>5, <2>1, <2>6, <2>9
  <1>6. QED
    BY <1>4, <1>5


-----------------------------------------------------------------------------
(* The clients, their types first. *)
ClientTypes == mem' \in [Phone \cup {Browser} -> Pair] /\ disk' \in [Phone -> Pair]
                 /\ flow' \in [Phone -> Flow]

LEMMA PairTypes ==
  /\ NoPair \in Pair /\ NoFlow \in Flow /\ None \in Held
  /\ \A t \in Held : PairOf(t) \in Pair
  BY DEF NoPair, NoFlow, Pair, Flow, Held, PairOf

LEMMA AppHome ==
  ASSUME NEW a \in App
  PROVE  /\ Home(a) \in Phone \cup {Browser}
         /\ a \in Phone => Home(a) = a /\ a \notin Tab
         /\ a \in Tab => Home(a) = Browser /\ a \notin Phone
         /\ Browser \notin Phone
  BY AuthConstants DEF App, Home

LEMMA FinishLogoutTypes ==
  ASSUME ClientsOK, NEW a \in App, FinishLogout(a)
  PROVE  ClientTypes
  <1>1. CASE a \in Tab
    BY <1>1, PairTypes DEF FinishLogout, ClientsOK, ClientTypes
  <1>2. CASE a \notin Tab
    <2>1. a \in Phone
      BY <1>2 DEF App
    <2>2. /\ disk' = [disk EXCEPT ![a] = [disk[a] EXCEPT !.access = None]]
          /\ flow' = [flow EXCEPT ![a] = [flow[a] EXCEPT !.sign = "signOut"]] /\ mem' = mem
      BY <1>2, <2>1 DEF FinishLogout, ClientsOK
    <2>3. [disk[a] EXCEPT !.access = None] \in Pair
      BY <2>1, PairTypes DEF ClientsOK, Pair
    <2>4. [flow[a] EXCEPT !.sign = "signOut"] \in Flow
      BY <2>1 DEF ClientsOK, Flow
    <2>5. QED
      BY <2>2, <2>3, <2>4 DEF ClientsOK, ClientTypes
  <1>3. QED
    BY <1>1, <1>2

LEMMA FinishTypes ==
  ASSUME ClientsOK, NEW q \in Request, req[q] # None, Finish(q)
  PROVE  ClientsOK'
  <1>1. req[q].app \in App
    BY DEF ClientsOK, Sent
  <1>2. ClientTypes
    BY <1>1, FinishLogoutTypes DEF Finish, ClientTypes, ClientsOK
  <1>3. req' \in [Request -> Sent \cup {None}]
    BY DEF Finish, ClientsOK
  <1>4. QED
    BY <1>2, <1>3 DEF ClientsOK, ClientTypes

LEMMA FailRefreshTypes ==
  ASSUME ClientsOK, NEW a \in App, FailRefresh(a)
  PROVE  ClientsOK'
  <1>1. CASE a \in Tab
    BY <1>1, PairTypes DEF FailRefresh, ClientsOK
  <1>2. CASE a \notin Tab
    <2>1. a \in Phone
      BY <1>2 DEF App
    <2> DEFINE sign == IF Queue(a) \cap LogoutsOf(a) # {} THEN "signOut" ELSE flow[a].sign
    <2>2. /\ disk' = [disk EXCEPT ![a] = [disk[a] EXCEPT !.access = None]]
          /\ flow' = [flow EXCEPT ![a] = [flow[a] EXCEPT !.refresh = "clear", !.sign = sign]]
          /\ mem' = [mem EXCEPT ![a] = NoPair]
          /\ req' = [q \in Request |-> IF q \in Queue(a) THEN None ELSE req[q]]
      BY <1>2, <2>1 DEF FailRefresh, ClientsOK
    <2>3. [disk[a] EXCEPT !.access = None] \in Pair
      BY <2>1, PairTypes DEF ClientsOK, Pair
    <2>4. flow[a] \in Flow /\ sign \in {"none", "signIn", "signOut"}
      BY <2>1 DEF ClientsOK, Flow
    <2> HIDE DEF sign
    <2>5. [flow[a] EXCEPT !.refresh = "clear", !.sign = sign] \in Flow
      BY <2>4 DEF Flow
    <2>6. QED
      BY <2>1, <2>2, <2>3, <2>5, PairTypes DEF ClientsOK
  <1>3. QED
    BY <1>1, <1>2

(* A request that a client sends carries a token. *)
LEMMA AttachTypes ==
  ASSUME ClientsOK, NEW a \in App, mem[Home(a)].access # None, NEW body \in Held
  PROVE  Attach(a, body, FALSE) \in Sent
  <1>1. mem[Home(a)].access \in Second
    BY AppHome DEF ClientsOK, Pair, Held
  <1>2. QED
    BY <1>1 DEF Attach, Sent

LEMMA RetriesTypes ==
  ASSUME ClientsOK, NEW a \in App, NEW t \in Second
  PROVE  Retries(a, t) \in [Request -> Sent \cup {None}]
  <1>1. ASSUME NEW q \in Request, q \in RequestsOf(a)
        PROVE  [req[q] EXCEPT !.state = "sent", !.access = t, !.retried = @ \/ a \in Phone] \in Sent
    <2>1. req[q] \in Sent
      BY <1>1 DEF RequestsOf, ClientsOK
    <2>2. (req[q].retried \/ a \in Phone) \in BOOLEAN
      BY <2>1 DEF Sent
    <2>3. QED
      BY <2>1, <2>2 DEF Sent
  <1>2. QED
    BY <1>1 DEF Retries, ClientsOK

-----------------------------------------------------------------------------
(* The calls when a client starts one, is answered, gives up or dies. *)
LEMMA CallsDropped ==
  ASSUME ServerInv, rows' = rows, calls' \in [1..CallBound -> Call \cup {None}],
         \A j \in 1..CallBound : calls'[j] # None =>
           /\ calls[j] # None /\ calls'[j].kind = calls[j].kind
           /\ calls'[j].phase = calls[j].phase /\ calls'[j].row = calls[j].row
           /\ calls'[j].app = calls[j].app \/ calls[j].phase # "done"
  PROVE  CallsOK' /\ AnswersAwaited' /\ Going' \subseteq Going
  <1>1. CallsOK'
    BY ServerParts DEF CallsOK, GoodCall
  <1>2. AnswersAwaited'
    BY ServerParts DEF AnswersAwaited, AtPhase
  <1>3. Going' \subseteq Going
    BY DEF Going, AtPhase
  <1>4. QED
    BY <1>1, <1>2, <1>3

LEMMA PlaceFree ==
  ASSUME CanCall
  PROVE  Place \in 1..CallBound /\ calls[Place] = None
  BY DEF CanCall, Place

LEMMA CallStarts ==
  ASSUME ServerInv, rows' = rows, CanCall, NEW a \in App,
         NEW kind \in {"register", "login", "refresh"}, NEW tok \in Held,
         calls' = WithCall(a, kind, tok)
  PROVE  /\ CallsOK' /\ AnswersAwaited' /\ Going' \subseteq Going
         /\ calls'[Place] # None /\ calls'[Place].app = a /\ calls'[Place].kind = kind
         /\ calls'[Place].tok = tok /\ calls'[Place].phase = "sent"
         /\ \A j \in 1..CallBound : j # Place => calls'[j] = calls[j]
  <1> DEFINE c == [app |-> a, kind |-> kind, tok |-> tok,
                   phase |-> "sent", row |-> 0, answer |-> None]
             i == Place
  <1>1. i \in 1..CallBound /\ calls[i] = None
    BY PlaceFree
  <1>2. 0 \in 0..RowBound /\ None \in Held
    BY Numbers, PairTypes
  <1>3. c \in Call
    BY <1>2 DEF Call
  <1>4. calls' = [calls EXCEPT ![i] = c]
    BY DEF WithCall
  <1>5. /\ c.app = a /\ c.kind = kind /\ c.tok = tok /\ c.phase = "sent" /\ c.row = 0
        /\ c # None
    BY <1>3, Bounds
  <1> HIDE DEF c, i
  <1>6. /\ c \in Call \cup {None} /\ c.row \in 0..Len(rows)
        /\ ~(c.kind = "refresh" /\ c.phase \notin {"sent", "done"})
        /\ ~(c.kind # "refresh" /\ c.phase \in {"reuse", "barred", "expired"})
        /\ Len(rows') \in Nat /\ Len(rows') >= Len(rows)
    BY <1>3, <1>5, ServerParts
  <1>7. /\ CallsOK' /\ calls'[i] = c
        /\ \A j \in 1..CallBound : j # i => calls'[j] = calls[j]
    BY <1>1, <1>4, <1>6, ServerParts, CallChanged
  <1>8. AnswersAwaited' /\ Going' \subseteq Going
    BY <1>5, <1>7, ServerParts DEF AnswersAwaited, Going, AtPhase
  <1>9. QED
    BY <1>5, <1>7, <1>8 DEF i

LEMMA CallEnds ==
  ASSUME ServerInv, rows' = rows, NEW i \in 1..CallBound, calls' = [calls EXCEPT ![i] = None]
  PROVE  /\ CallsOK' /\ AnswersAwaited' /\ Going' \subseteq Going
         /\ calls'[i] = None /\ \A j \in 1..CallBound : j # i => calls'[j] = calls[j]
  <1>1. /\ calls' \in [1..CallBound -> Call \cup {None}] /\ calls'[i] = None
        /\ \A j \in 1..CallBound : j # i => calls'[j] = calls[j]
    BY ServerParts DEF CallsOK
  <1>2. QED
    BY <1>1, CallsDropped

(* A step of a client leaves the server alone. *)
LEMMA ClientStepHolds ==
  ASSUME ServerInv, UNCHANGED serverVars, ClientsOK', CountsOK',
         \/ UNCHANGED calls
         \/ CallsOK' /\ AnswersAwaited' /\ Going' \subseteq Going
  PROVE  ServerInv'
  <1>1. CallsOK' /\ AnswersAwaited' /\ Going' \subseteq Going
    BY ServerParts DEF serverVars, CallsOK, GoodCall, AnswersAwaited, Going, AtPhase
  <1>2. RowsInv' /\ Counted' /\ ServerOK'
    BY <1>1, ServerParts, CountKept, RowsUnchanged DEF serverVars, ServerOK
  <1>3. QED
    BY <1>1, <1>2, TypePartsNext DEF ServerInv, RowsInv


-----------------------------------------------------------------------------
(* The steps of the clients, one at a time. *)
LEMMA Notes ==
  ASSUME ServerInv
  PROVE  /\ \A case, m : Note(case, m) =>
              mishaps' \subseteq Allow /\ mishaps \subseteq mishaps' /\ (case => m \in mishaps')
         /\ \A M : NoteAll(M) =>
              mishaps' \subseteq Allow /\ mishaps \subseteq mishaps' /\ M \subseteq mishaps'
         /\ \A m : Mishappens(m) =>
              mishaps' \subseteq Allow /\ mishaps \subseteq mishaps' /\ m \in mishaps'
  BY ServerParts DEF CountsOK, Note, NoteAll, Mishappens

LEMMA SignInSubmitHolds ==
  ASSUME ServerInv, NEW a \in App, SignInSubmit(a)
  PROVE  ServerInv'
  <1>1. PICK kind \in {"register", "login"} : calls' = WithCall(a, kind, None)
    BY DEF SignInSubmit
  <1>2. /\ CanCall /\ UNCHANGED <<serverVars, mem, disk, flow, req, mishaps>>
        /\ signIns < SignInBound /\ signIns' = signIns + 1
    BY DEF SignInSubmit
  <1>3. CallsOK' /\ AnswersAwaited' /\ Going' \subseteq Going
    BY <1>1, <1>2, CallStarts, PairTypes DEF serverVars
  <1>4. ClientsOK' /\ CountsOK'
    BY <1>2, ServerParts, Numbers DEF ClientsOK, CountsOK
  <1>5. QED
    BY <1>2, <1>3, <1>4, ClientStepHolds

LEMMA SignInAnswerHolds ==
  ASSUME ServerInv, NEW i \in 1..CallBound, SignInAnswer(i)
  PROVE  ServerInv'
  <1> DEFINE a == calls[i].app
             t == calls[i].answer
  <1>1. /\ calls[i] # None /\ calls[i].phase = "done" /\ calls' = [calls EXCEPT ![i] = None]
        /\ UNCHANGED <<serverVars, req, signIns, mishaps>>
    BY DEF SignInAnswer, AtPhase
  <1>2. a \in App /\ t \in Held
    BY <1>1, ServerParts, CallTyped DEF AnswersAwaited, AtPhase, Call
  <1>3. CallsOK' /\ AnswersAwaited' /\ Going' \subseteq Going
    BY <1>1, CallEnds DEF serverVars
  <1>4. ClientsOK'
    <2>1. CASE t = None
      BY <1>1, <2>1, ServerParts DEF SignInAnswer, ClientsOK
    <2>2. CASE t # None /\ a \in Tab
      BY <1>1, <1>2, <2>2, ServerParts, PairTypes DEF SignInAnswer, ClientsOK
    <2>3. CASE t # None /\ a \notin Tab
      <3>1. a \in Phone /\ t \in Held
        BY <1>2, <2>3 DEF App
      <3>2. /\ disk' = [disk EXCEPT ![a] = [disk[a] EXCEPT !.access = t]]
            /\ flow' = [flow EXCEPT ![a] = [flow[a] EXCEPT !.sign = "signIn", !.signed = t]]
            /\ mem' = mem
        BY <2>3, <3>1, ServerParts DEF SignInAnswer, ClientsOK
      <3>3. [disk[a] EXCEPT !.access = t] \in Pair
        BY <3>1, ServerParts DEF ClientsOK, Pair
      <3>4. [flow[a] EXCEPT !.sign = "signIn", !.signed = t] \in Flow
        BY <3>1, ServerParts DEF ClientsOK, Flow
      <3>5. QED
        BY <1>1, <3>2, <3>3, <3>4, ServerParts DEF ClientsOK
    <2>4. QED
      BY <2>1, <2>2, <2>3
  <1>5. CountsOK'
    BY <1>1, ServerParts DEF CountsOK
  <1>6. QED
    BY <1>1, <1>3, <1>4, <1>5, ClientStepHolds

LEMMA SignedInHolds ==
  ASSUME ServerInv, NEW p \in Phone, SignedIn(p)
  PROVE  ServerInv'
  <1> DEFINE t == flow[p].signed
  <1>1. /\ disk' = [disk EXCEPT ![p] = [disk[p] EXCEPT !.refresh = t]]
        /\ mem' = [mem EXCEPT ![p] = PairOf(t)]
        /\ flow' = [flow EXCEPT ![p] = [flow[p] EXCEPT !.sign = "none", !.signed = None]]
        /\ UNCHANGED <<serverVars, calls, req, signIns, mishaps>>
    BY ServerParts DEF SignedIn, ClientsOK
  <1>2. t \in Held /\ disk[p] \in Pair /\ flow[p] \in Flow
    BY ServerParts DEF ClientsOK, Flow
  <1>3. /\ [disk[p] EXCEPT !.refresh = t] \in Pair /\ PairOf(t) \in Pair
        /\ [flow[p] EXCEPT !.sign = "none", !.signed = None] \in Flow
    BY <1>2, PairTypes DEF Pair, Flow
  <1>4. ClientsOK' /\ CountsOK'
    BY <1>1, <1>3, ServerParts DEF ClientsOK, CountsOK
  <1>5. QED
    BY <1>1, <1>4, ClientStepHolds

LEMMA SignedOutHolds ==
  ASSUME ServerInv, NEW p \in Phone, SignedOut(p)
  PROVE  ServerInv'
  <1>1. /\ disk' = [disk EXCEPT ![p] = [disk[p] EXCEPT !.refresh = None]]
        /\ mem' = [mem EXCEPT ![p] = NoPair]
        /\ flow' = [flow EXCEPT ![p] = [flow[p] EXCEPT !.sign = "none"]]
        /\ UNCHANGED <<serverVars, calls, req, signIns, mishaps>>
    BY ServerParts DEF SignedOut, ClientsOK
  <1>2. disk[p] \in Pair /\ flow[p] \in Flow
    BY ServerParts DEF ClientsOK
  <1>3. /\ [disk[p] EXCEPT !.refresh = None] \in Pair
        /\ [flow[p] EXCEPT !.sign = "none"] \in Flow
    BY <1>2, PairTypes DEF Pair, Flow
  <1>4. ClientsOK' /\ CountsOK'
    BY <1>1, <1>3, ServerParts, PairTypes DEF ClientsOK, CountsOK
  <1>5. QED
    BY <1>1, <1>4, ClientStepHolds

LEMMA SendHolds ==
  ASSUME ServerInv, NEW a \in App, NEW q \in Request, SendRequest(a, q) \/ SendLogout(a, q)
  PROVE  ServerInv'
  <1>1. PICK body \in Held : req' = [req EXCEPT ![q] = Attach(a, body, FALSE)]
    <2>1. mem[Home(a)].refresh \in Held
      BY AppHome, ServerParts DEF ClientsOK, Pair
    <2>2. QED
      BY <2>1, PairTypes DEF SendRequest, SendLogout
  <1>2. /\ mem[Home(a)].access # None /\ mishaps' \subseteq Allow
        /\ UNCHANGED <<serverVars, calls, mem, disk, flow, signIns>>
    BY ServerParts, Notes DEF SendRequest, SendLogout, CountsOK
  <1>3. ClientsOK' /\ CountsOK'
    BY <1>1, <1>2, ServerParts, AttachTypes DEF ClientsOK, CountsOK
  <1>4. QED
    BY <1>2, <1>3, ClientStepHolds

LEMMA SignOutHolds ==
  ASSUME ServerInv, NEW p \in Phone, SignOut(p)
  PROVE  ServerInv'
  <1>1. /\ mishaps' \subseteq Allow /\ FinishLogout(p) /\ p \in App
        /\ UNCHANGED <<serverVars, calls, req, signIns>>
    BY Notes DEF SignOut, App
  <1>2. ClientsOK' /\ CountsOK'
    BY <1>1, ServerParts, FinishLogoutTypes DEF ClientsOK, ClientTypes, CountsOK
  <1>3. QED
    BY <1>1, <1>2, ClientStepHolds

LEMMA RejectHolds ==
  ASSUME ServerInv, NEW q \in Request, Reject(q)
  PROVE  ServerInv'
  <1>1. req[q] # None /\ Finish(q) /\ UNCHANGED <<serverVars, calls, signIns, mishaps>>
    BY DEF Reject, Unauthorized
  <1>2. ClientsOK' /\ CountsOK'
    BY <1>1, ServerParts, FinishTypes DEF CountsOK
  <1>3. QED
    BY <1>1, <1>2, ClientStepHolds

LEMMA JoinQueueHolds ==
  ASSUME ServerInv, NEW q \in Request, JoinQueue(q)
  PROVE  ServerInv'
  <1>1. /\ req[q] # None /\ req' = [req EXCEPT ![q] = [req[q] EXCEPT !.state = "queued"]]
        /\ mishaps' \subseteq Allow
        /\ UNCHANGED <<serverVars, calls, mem, disk, flow, signIns>>
    BY ServerParts, Notes DEF JoinQueue, Unauthorized, ClientsOK
  <1>2. [req[q] EXCEPT !.state = "queued"] \in Sent
    BY <1>1, ServerParts DEF ClientsOK, Sent
  <1>3. ClientsOK' /\ CountsOK'
    BY <1>1, <1>2, ServerParts DEF ClientsOK, CountsOK
  <1>4. QED
    BY <1>1, <1>3, ClientStepHolds

LEMMA StartRefreshHolds ==
  ASSUME ServerInv, NEW q \in Request, StartRefresh(q)
  PROVE  ServerInv'
  <1> DEFINE a == req[q].app
             r == [req[q] EXCEPT !.state = "refreshing", !.retried = TRUE]
  <1>1. /\ req[q] # None /\ CanCall /\ calls' = WithCall(a, "refresh", mem[Home(a)].refresh)
        /\ req' = [req EXCEPT ![q] = r] /\ mishaps' \subseteq Allow
        /\ UNCHANGED <<serverVars, mem, disk, flow, signIns>>
    BY ServerParts, Notes DEF StartRefresh, Unauthorized, ClientsOK
  <1>2. r \in Sent /\ a \in App
    BY <1>1, ServerParts DEF ClientsOK, Sent
  <1>3. mem[Home(a)].refresh \in Held
    BY <1>2, AppHome, ServerParts DEF ClientsOK, Pair
  <1>4. CallsOK' /\ AnswersAwaited' /\ Going' \subseteq Going
    BY <1>1, <1>2, <1>3, CallStarts DEF serverVars
  <1>5. ClientsOK' /\ CountsOK'
    BY <1>1, <1>2, ServerParts DEF ClientsOK, CountsOK
  <1>6. QED
    BY <1>1, <1>4, <1>5, ClientStepHolds

LEMMA NoTokenToRefreshHolds ==
  ASSUME ServerInv, NEW q \in Request, NoTokenToRefresh(q)
  PROVE  ServerInv'
  <1> DEFINE a == req[q].app
             r == [req[q] EXCEPT !.state = "refreshing", !.retried = TRUE]
  <1>1. /\ req[q] # None /\ mishaps' \subseteq Allow /\ UNCHANGED <<serverVars, calls, signIns>>
    BY Notes DEF NoTokenToRefresh, Unauthorized
  <1>2. r \in Sent /\ a \in App
    BY <1>1, ServerParts DEF ClientsOK, Sent
  <1>3. CASE a \in Tab
    <2>1. FailRefresh(a)
      BY <1>3 DEF NoTokenToRefresh
    <2>2. ClientsOK' /\ CountsOK'
      BY <1>1, <1>2, <2>1, ServerParts, FailRefreshTypes DEF CountsOK
    <2>3. QED
      BY <1>1, <2>2, ClientStepHolds
  <1>4. CASE a \notin Tab
    <2>1. a \in Phone
      BY <1>2, <1>4 DEF App
    <2>2. /\ disk' = [disk EXCEPT ![a] = [disk[a] EXCEPT !.access = None]]
          /\ flow' = [flow EXCEPT ![a] = [flow[a] EXCEPT !.refresh = "clear"]]
          /\ req' = [req EXCEPT ![q] = r] /\ mem' = [mem EXCEPT ![a] = NoPair]
      BY <1>4, <2>1, ServerParts DEF NoTokenToRefresh, ClientsOK
    <2>3. disk[a] \in Pair /\ flow[a] \in Flow
      BY <2>1, ServerParts DEF ClientsOK
    <2>4. /\ [disk[a] EXCEPT !.access = None] \in Pair
          /\ [flow[a] EXCEPT !.refresh = "clear"] \in Flow
      BY <2>3, PairTypes DEF Pair, Flow
    <2>5. ClientsOK' /\ CountsOK'
      BY <1>1, <1>2, <2>2, <2>4, ServerParts, PairTypes DEF ClientsOK, CountsOK
    <2>6. QED
      BY <1>1, <2>5, ClientStepHolds
  <1>5. QED
    BY <1>3, <1>4

LEMMA RefreshRefusedHolds ==
  ASSUME ServerInv, NEW i \in 1..CallBound, RefreshRefused(i)
  PROVE  ServerInv'
  <1>1. /\ calls[i] # None /\ AtPhase(i, "done") /\ FailRefresh(calls[i].app)
        /\ calls' = [calls EXCEPT ![i] = None] /\ UNCHANGED <<serverVars, signIns, mishaps>>
    BY DEF RefreshRefused, AtPhase
  <1>2. calls[i].app \in App
    BY <1>1, ServerParts, CallTyped DEF AnswersAwaited, Call
  <1>3. CallsOK' /\ AnswersAwaited' /\ Going' \subseteq Going
    BY <1>1, CallEnds DEF serverVars
  <1>4. ClientsOK' /\ CountsOK'
    BY <1>1, <1>2, ServerParts, FailRefreshTypes DEF CountsOK
  <1>5. QED
    BY <1>1, <1>3, <1>4, ClientStepHolds

LEMMA ClearedHolds ==
  ASSUME ServerInv, NEW p \in Phone, Cleared(p)
  PROVE  ServerInv'
  <1> DEFINE mine == {q \in RequestsOf(p) : req[q].state = "refreshing"}
             sign == IF mine \cap LogoutsOf(p) # {} THEN "signOut" ELSE flow[p].sign
  <1>1. /\ disk' = [disk EXCEPT ![p] = [disk[p] EXCEPT !.refresh = None]]
        /\ flow' = [flow EXCEPT ![p] = [flow[p] EXCEPT !.refresh = "none", !.sign = sign]]
        /\ req' = [q \in Request |-> IF q \in mine THEN None ELSE req[q]]
        /\ UNCHANGED <<serverVars, calls, mem, signIns, mishaps>>
    BY ServerParts DEF Cleared, ClientsOK
  <1>2. disk[p] \in Pair /\ flow[p] \in Flow /\ sign \in {"none", "signIn", "signOut"}
    BY ServerParts DEF ClientsOK, Flow
  <1> HIDE DEF sign
  <1>3. /\ [disk[p] EXCEPT !.refresh = None] \in Pair
        /\ [flow[p] EXCEPT !.refresh = "none", !.sign = sign] \in Flow
    BY <1>2, PairTypes DEF Pair, Flow
  <1>4. ClientsOK' /\ CountsOK'
    BY <1>1, <1>3, ServerParts DEF ClientsOK, CountsOK
  <1>5. QED
    BY <1>1, <1>4, ClientStepHolds

LEMMA RefreshAnswerHolds ==
  ASSUME ServerInv, NEW i \in 1..CallBound, RefreshAnswer(i)
  PROVE  ServerInv'
  <1> DEFINE a == calls[i].app
             t == calls[i].answer
  <1>1. /\ calls[i] # None /\ AtPhase(i, "done") /\ t # None
        /\ calls' = [calls EXCEPT ![i] = None] /\ UNCHANGED <<serverVars, signIns, mishaps>>
    BY DEF RefreshAnswer, AtPhase
  <1>2. a \in App /\ t \in Held /\ t \in Second
    BY <1>1, ServerParts, CallTyped DEF AnswersAwaited, Call, Held
  <1>3. CallsOK' /\ AnswersAwaited' /\ Going' \subseteq Going
    BY <1>1, CallEnds DEF serverVars
  <1>4. CASE a \in Tab
    <2>1. mem' = [mem EXCEPT ![Browser] = PairOf(t)] /\ req' = Retries(a, t)
          /\ UNCHANGED <<disk, flow>>
      BY <1>4 DEF RefreshAnswer
    <2>2. ClientsOK' /\ CountsOK'
      BY <1>1, <1>2, <2>1, ServerParts, PairTypes, RetriesTypes DEF ClientsOK, CountsOK
    <2>3. QED
      BY <1>1, <1>3, <2>2, ClientStepHolds
  <1>5. CASE a \notin Tab
    <2>1. a \in Phone
      BY <1>2, <1>5 DEF App
    <2>2. /\ disk' = [disk EXCEPT ![a] = [disk[a] EXCEPT !.access = t]]
          /\ flow' = [flow EXCEPT ![a] = [flow[a] EXCEPT !.refresh = "persist", !.new = t]]
          /\ UNCHANGED <<mem, req>>
      BY <1>5, <2>1, ServerParts DEF RefreshAnswer, ClientsOK
    <2>3. disk[a] \in Pair /\ flow[a] \in Flow
      BY <2>1, ServerParts DEF ClientsOK
    <2>4. /\ [disk[a] EXCEPT !.access = t] \in Pair
          /\ [flow[a] EXCEPT !.refresh = "persist", !.new = t] \in Flow
      BY <1>2, <2>3 DEF Pair, Flow
    <2>5. ClientsOK' /\ CountsOK'
      BY <1>1, <2>2, <2>4, ServerParts DEF ClientsOK, CountsOK
    <2>6. QED
      BY <1>1, <1>3, <2>5, ClientStepHolds
  <1>6. QED
    BY <1>4, <1>5


(* A phone that persists a pair has one. *)
Persisting == \A p \in Phone : flow[p].refresh = "persist" => flow[p].new # None

LEMMA PersistedHolds ==
  ASSUME ServerInv, Persisting, NEW p \in Phone, Persisted(p)
  PROVE  ServerInv'
  <1> DEFINE t == flow[p].new
  <1>1. /\ disk' = [disk EXCEPT ![p] = [disk[p] EXCEPT !.refresh = t]]
        /\ mem' = [mem EXCEPT ![p] = PairOf(t)] /\ req' = Retries(p, t)
        /\ flow' = [flow EXCEPT ![p] = [flow[p] EXCEPT !.refresh = "none", !.new = None]]
        /\ UNCHANGED <<serverVars, calls, signIns, mishaps>> /\ flow[p].refresh = "persist"
    BY ServerParts DEF Persisted, ClientsOK
  <1>2. /\ t \in Held /\ t # None /\ t \in Second /\ disk[p] \in Pair /\ flow[p] \in Flow
        /\ p \in App
    BY <1>1, ServerParts DEF ClientsOK, Flow, Persisting, Held, App
  <1>3. /\ [disk[p] EXCEPT !.refresh = t] \in Pair /\ PairOf(t) \in Pair
        /\ [flow[p] EXCEPT !.refresh = "none", !.new = None] \in Flow
    BY <1>2, PairTypes DEF Pair, Flow
  <1>4. Retries(p, t) \in [Request -> Sent \cup {None}]
    BY <1>2, ServerParts, RetriesTypes
  <1>5. ClientsOK' /\ CountsOK'
    BY <1>1, <1>3, <1>4, ServerParts DEF ClientsOK, CountsOK
  <1>6. QED
    BY <1>1, <1>5, ClientStepHolds

(* A call that nobody waits for any more, unless it was over. *)
LEMMA CallForgotten ==
  ASSUME ServerInv, NEW i \in 1..CallBound, calls[i] # None, calls[i].phase # "done"
  PROVE  /\ [calls[i] EXCEPT !.app = None] \in Call /\ [calls[i] EXCEPT !.app = None] # None
         /\ [calls[i] EXCEPT !.app = None].app = None
         /\ [calls[i] EXCEPT !.app = None].kind = calls[i].kind
         /\ [calls[i] EXCEPT !.app = None].phase = calls[i].phase
         /\ [calls[i] EXCEPT !.app = None].row = calls[i].row
         /\ [calls[i] EXCEPT !.app = None].tok = calls[i].tok
         /\ [calls[i] EXCEPT !.app = None].answer = calls[i].answer
  <1>1. calls[i] \in Call
    BY ServerParts, CallTyped
  <1>2. [calls[i] EXCEPT !.app = None] \in Call
    BY <1>1 DEF Call
  <1>3. QED
    BY <1>1, <1>2, Bounds DEF Call

LEMMA LostHolds ==
  ASSUME ServerInv, NEW i \in 1..CallBound, Lost(i)
  PROVE  ServerInv'
  <1>1. /\ calls[i] # None /\ calls[i].app # None /\ mishaps' \subseteq Allow
        /\ UNCHANGED <<serverVars, signIns>>
    BY Notes DEF Lost
  <1>2. calls[i] \in Call /\ calls[i].app \in App
    BY <1>1, ServerParts, CallTyped DEF Call
  <1>3. CallsOK' /\ AnswersAwaited' /\ Going' \subseteq Going
    <2>1. CASE calls[i].phase = "done"
      <3>1. calls' = [calls EXCEPT ![i] = None]
        BY <1>1, <2>1 DEF Lost, AtPhase
      <3>2. QED
        BY <1>1, <3>1, CallEnds DEF serverVars
    <2>2. CASE calls[i].phase # "done"
      <3> DEFINE c == [calls[i] EXCEPT !.app = None]
      <3>1. calls' = [calls EXCEPT ![i] = c]
        BY <1>1, <2>2, ServerParts DEF Lost, AtPhase, CallsOK
      <3>2. /\ c \in Call /\ c.kind = calls[i].kind /\ c.phase = calls[i].phase
            /\ c.row = calls[i].row
        BY <1>1, <2>2, CallForgotten
      <3> HIDE DEF c
      <3>3. /\ calls' \in [1..CallBound -> Call \cup {None}] /\ calls'[i] = c
            /\ \A j \in 1..CallBound : j # i => calls'[j] = calls[j]
        BY <3>1, <3>2, ServerParts DEF CallsOK
      <3>4. \A j \in 1..CallBound : calls'[j] # None =>
              /\ calls[j] # None /\ calls'[j].kind = calls[j].kind
              /\ calls'[j].phase = calls[j].phase /\ calls'[j].row = calls[j].row
              /\ calls'[j].app = calls[j].app \/ calls[j].phase # "done"
        BY <1>1, <2>2, <3>2, <3>3
      <3>5. QED
        BY <1>1, <3>3, <3>4, CallsDropped DEF serverVars
    <2>3. QED
      BY <2>1, <2>2
  <1>4. ClientsOK'
    <2>1. CASE calls[i].kind = "refresh"
      BY <1>2, <2>1, ServerParts, FailRefreshTypes DEF Lost
    <2>2. CASE calls[i].kind # "refresh"
      BY <2>2, ServerParts DEF Lost, ClientsOK
    <2>3. QED
      BY <2>1, <2>2
  <1>5. CountsOK'
    BY <1>1, ServerParts DEF CountsOK
  <1>6. QED
    BY <1>1, <1>3, <1>4, <1>5, ClientStepHolds

LEMMA KillHolds ==
  ASSUME ServerInv, NEW p \in Phone, Kill(p)
  PROVE  ServerInv'
  <1>1. /\ mishaps' \subseteq Allow /\ UNCHANGED <<serverVars, disk, signIns>>
        /\ mem' = [mem EXCEPT ![p] = IF None \in {disk[p].access, disk[p].refresh} THEN NoPair
                               ELSE disk[p]]
        /\ flow' = [flow EXCEPT ![p] = NoFlow]
        /\ req' = [q \in Request |-> IF q \in RequestsOf(p) THEN None ELSE req[q]]
        /\ calls' = [i \in 1..CallBound |->
                 IF i \notin CallsOf(p) THEN calls[i]
                 ELSE IF AtPhase(i, "done") THEN None ELSE [calls[i] EXCEPT !.app = None]]
    BY Notes DEF Kill
  <1>2. ClientsOK' /\ CountsOK'
    BY <1>1, ServerParts, PairTypes DEF ClientsOK, CountsOK
  <1>3. ASSUME NEW i \in 1..CallBound
        PROVE  /\ calls'[i] \in Call \cup {None}
               /\ calls'[i] # None =>
                    /\ calls[i] # None /\ calls'[i].kind = calls[i].kind
                    /\ calls'[i].phase = calls[i].phase /\ calls'[i].row = calls[i].row
                    /\ calls'[i].app = calls[i].app \/ calls[i].phase # "done"
    <2>1. CASE i \notin CallsOf(p)
      BY <1>1, <2>1, ServerParts DEF CallsOK
    <2>2. CASE i \in CallsOf(p) /\ calls[i].phase = "done"
      BY <1>1, <2>2 DEF CallsOf, AtPhase
    <2>3. CASE i \in CallsOf(p) /\ calls[i].phase # "done"
      <3>1. calls[i] # None /\ calls'[i] = [calls[i] EXCEPT !.app = None]
        BY <1>1, <2>3 DEF CallsOf, AtPhase
      <3>2. QED
        BY <2>3, <3>1, CallForgotten
    <2>4. QED
      BY <2>1, <2>2, <2>3
  <1>4. CallsOK' /\ AnswersAwaited' /\ Going' \subseteq Going
    <2>1. calls' \in [1..CallBound -> Call \cup {None}]
      BY <1>1, <1>3
    <2>2. QED
      BY <1>1, <1>3, <2>1, CallsDropped DEF serverVars
  <1>5. QED
    BY <1>1, <1>2, <1>4, ClientStepHolds

(* A logout revokes the rows of its token. *)
LEMMA ServedHolds ==
  ASSUME ServerInv, NEW q \in Request, Served(q)
  PROVE  /\ ServerInv' /\ Revoked(rows') /\ Len(rows') = Len(rows)
         /\ \A n \in DOMAIN rows : /\ n \in LogoutRows(q) => ~Live(rows'[n])
                                   /\ rows'[n].expired = rows[n].expired
                                   /\ n \notin LogoutRows(q) /\ Live(rows[n]) => Live(rows'[n])
  <1>1. /\ req[q] # None /\ Finish(q)
        /\ rows' = [n \in DOMAIN rows |-> [rows[n] EXCEPT !.revoked = @ \/ n \in LogoutRows(q)]]
        /\ left' = left \cup {rows[n].family : n \in {m \in DOMAIN rows : rows[m].tok = req[q].body}}
        /\ UNCHANGED <<grace, status, clock, stale, calls, burnt, revocation, signIns, mishaps>>
    BY DEF Served
  <1>2. LogoutRows(q) \in SUBSET DOMAIN rows
    BY DEF LogoutRows
  <1>3. /\ Revoked(rows')
        /\ \A n \in DOMAIN rows : /\ n \in LogoutRows(q) => ~Live(rows'[n])
                                  /\ rows'[n].expired = rows[n].expired
                                  /\ n \notin LogoutRows(q) /\ Live(rows[n]) => Live(rows'[n])
    BY <1>1, <1>2, ServerParts, RowsRevoked
  <1>4. burnt' \subseteq 1..Len(rows) /\ left' \subseteq 1..Len(rows)
    BY <1>1, ServerParts, RowTyped DEF RowsOK
  <1>5. RowsInv' /\ Len(rows') = Len(rows)
    <2> DEFINE some == rows'
    <2>1. Revoked(some) /\ rows' = some /\ Len(some) = Len(rows)
      BY <1>3 DEF Revoked
    <2>2. clock' \in Nat /\ clock' >= clock /\ burnt' = burnt /\ SweepsEnd
      BY <1>1, ServerParts, SweepsGoOn
    <2> HIDE DEF some
    <2>3. RowsInv'
      BY <1>4, <2>1, <2>2, ServerParts, RevokedHolds
    <2>4. QED
      BY <2>1, <2>3
  <1>6. CallsOK' /\ AnswersAwaited' /\ Going' \subseteq Going
    BY <1>1, <1>5, ServerParts DEF CallsOK, GoodCall, AnswersAwaited, Going, AtPhase
  <1>7. ClientsOK' /\ CountsOK'
    BY <1>1, ServerParts, FinishTypes DEF CountsOK
  <1>8. Counted' /\ ServerOK'
    BY <1>1, <1>6, ServerParts, CountKept DEF ServerOK
  <1>9. QED
    BY <1>3, <1>5, <1>6, <1>7, <1>8, TypePartsNext DEF ServerInv, RowsInv

LEMMA ExpiryHolds ==
  ASSUME ServerInv, AccessTokensExpire \/ RefreshTokensExpire
  PROVE  /\ ServerInv' /\ Revoked(rows') /\ Len(rows') = Len(rows)
         /\ UNCHANGED <<calls, mem, disk, flow, req, left, status>>
         /\ \A n \in DOMAIN rows : rows'[n].revoked = rows[n].revoked
         /\ mishaps \subseteq mishaps' /\ (rows' = rows \/ "idle" \in mishaps')
  <1>1. /\ mishaps' \subseteq Allow /\ mishaps \subseteq mishaps'
        /\ UNCHANGED <<grace, status, clock, calls, mem, disk, flow, req, burnt, left, revocation, signIns>>
        /\ stale' = clock
    BY Notes, ServerParts DEF AccessTokensExpire, RefreshTokensExpire, CountsOK
  <1>2. /\ Revoked(rows') /\ \A n \in DOMAIN rows : rows'[n].revoked = rows[n].revoked
        /\ rows' = rows \/ "idle" \in mishaps'
    <2>1. CASE AccessTokensExpire
      BY <2>1, ServerParts DEF AccessTokensExpire, Revoked, RowsOK
    <2>2. CASE RefreshTokensExpire
      <3>1. rows' = [n \in DOMAIN rows |-> [rows[n] EXCEPT !.expired = TRUE]]
        BY <2>2 DEF RefreshTokensExpire
      <3>2. /\ rows \in Seq(Row) /\ Len(rows) \in Nat /\ DOMAIN rows = 1..Len(rows)
        BY ServerParts DEF RowsOK
      <3>3. ASSUME NEW n \in 1..Len(rows)
            PROVE  /\ rows'[n] \in Row
                   /\ rows'[n].tok = rows[n].tok /\ rows'[n].family = rows[n].family
                   /\ rows'[n].revoked = rows[n].revoked
        <4>1. rows[n] \in Row /\ rows'[n] = [rows[n] EXCEPT !.expired = TRUE]
          BY <3>1, <3>2
        <4>2. QED
          BY <4>1 DEF Row
      <3>4. rows' \in [1..Len(rows) -> Row]
        BY <3>1, <3>2, <3>3
      <3>5. rows' \in Seq(Row) /\ Len(rows') = Len(rows)
        BY <3>2, <3>4
      <3>6. "idle" \in mishaps'
        BY <2>2, Notes DEF RefreshTokensExpire
      <3>7. QED
        BY <3>2, <3>3, <3>5, <3>6 DEF Revoked, Live
    <2>3. QED
      BY <2>1, <2>2
  <1>3. /\ burnt' \subseteq 1..Len(rows) /\ left' \subseteq 1..Len(rows)
        /\ \A n \in 1..Len(rows) : rows[n].family \notin burnt' \ burnt
        /\ clock' \in Nat /\ clock' >= clock /\ SweepsEnd
    BY <1>1, ServerParts, SweepsGoOn DEF RowsOK
  <1>4. RowsInv' /\ Len(rows') = Len(rows)
    BY <1>1, <1>2, <1>3, ServerParts, RevokedHolds DEF Revoked
  <1>5. CallsOK' /\ AnswersAwaited' /\ Going' \subseteq Going
    BY <1>1, <1>4, ServerParts DEF CallsOK, GoodCall, AnswersAwaited, Going, AtPhase
  <1>6. ClientsOK' /\ CountsOK'
    BY <1>1, ServerParts DEF ClientsOK, CountsOK
  <1>7. ServerOK'
    BY <1>1, ServerParts DEF ServerOK
  <1>8. Counted'
    BY <1>1, <1>5, ServerParts, CountKept
  <1>9. QED
    BY <1>1, <1>2, <1>4, <1>5, <1>6, <1>7, <1>8, TypePartsNext DEF ServerInv, RowsInv

LEMMA BarHolds ==
  ASSUME ServerInv, Bar
  PROVE  ServerInv'
  <1>1. /\ mishaps' \subseteq Allow /\ status' = "barred"
        /\ grace' = clock + Cardinality(Going)
        /\ UNCHANGED <<clock, stale, rows, calls, mem, disk, flow, req, burnt, left, revocation, signIns>>
    BY Notes DEF Bar, Going
  <1>2. Cardinality(Going) \in Nat /\ Cardinality(Going) <= CallBound
    BY GoingFinite DEF Going
  <1>3. ServerOK'
    BY <1>1, <1>2, ServerParts, Numbers DEF ServerOK
  <1>4. Counted'
    <2>1. Going' = Going
      BY <1>1 DEF Going, AtPhase
    <2>2. clock' + Cardinality(Going) <= grace'
      BY <1>1, <1>2, ServerParts
    <2>3. QED
      BY <2>1, <2>2 DEF Counted
  <1>5. RowsInv' /\ CallsOK' /\ AnswersAwaited' /\ ClientsOK' /\ CountsOK'
    BY <1>1, ServerParts, RowsUnchanged DEF CallsOK, GoodCall, AnswersAwaited, AtPhase, ClientsOK,
       CountsOK
  <1>6. QED
    BY <1>3, <1>4, <1>5, TypePartsNext DEF ServerInv, RowsInv


-----------------------------------------------------------------------------
(* What the clients' steps do to the fields of their state. *)
LEMMA FinishLogoutFacts ==
  ASSUME ClientsOK, NEW a \in App, FinishLogout(a)
  PROVE  /\ a \in Tab => /\ mem'[Browser] = NoPair /\ UNCHANGED <<disk, flow>>
                         /\ \A p \in Phone : mem'[p] = mem[p]
         /\ a \in Phone => /\ UNCHANGED mem
                           /\ flow'[a].sign = "signOut" /\ flow'[a].refresh = flow[a].refresh
                           /\ flow'[a].new = flow[a].new /\ flow'[a].signed = flow[a].signed
                           /\ disk'[a].access = None /\ disk'[a].refresh = disk[a].refresh
                           /\ \A p \in Phone \ {a} : flow'[p] = flow[p] /\ disk'[p] = disk[p]
  <1>1. CASE a \in Tab
    BY <1>1, AppHome DEF FinishLogout, ClientsOK
  <1>2. CASE a \notin Tab
    <2>1. a \in Phone
      BY <1>2 DEF App
    <2>2. /\ disk' = [disk EXCEPT ![a] = [disk[a] EXCEPT !.access = None]]
          /\ flow' = [flow EXCEPT ![a] = [flow[a] EXCEPT !.sign = "signOut"]] /\ mem' = mem
      BY <1>2, <2>1 DEF FinishLogout, ClientsOK
    <2>3. /\ disk'[a] = [disk[a] EXCEPT !.access = None]
          /\ flow'[a] = [flow[a] EXCEPT !.sign = "signOut"]
          /\ \A p \in Phone \ {a} : flow'[p] = flow[p] /\ disk'[p] = disk[p]
          /\ disk[a] \in Pair /\ flow[a] \in Flow
      BY <2>1, <2>2 DEF ClientsOK
    <2>4. QED
      BY <1>2, <2>1, <2>2, <2>3 DEF Pair, Flow
  <1>3. QED
    BY <1>1, <1>2

LEMMA FinishFacts ==
  ASSUME ClientsOK, NEW q \in Request, req[q] # None, Finish(q)
  PROVE  /\ req'[q] = None /\ \A r \in Request \ {q} : req'[r] = req[r]
         /\ req[q].app \in App
         /\ req[q].body = None => UNCHANGED <<mem, disk, flow>>
         /\ req[q].body # None => FinishLogout(req[q].app)
         /\ \A p \in Phone : /\ flow'[p].refresh = flow[p].refresh /\ flow'[p].new = flow[p].new
                             /\ flow'[p].signed = flow[p].signed
         /\ req[q].body # None /\ req[q].app \in Phone => flow'[req[q].app].sign = "signOut"
  <1>1. /\ req'[q] = None /\ \A r \in Request \ {q} : req'[r] = req[r]
        /\ req[q].app \in App
    BY DEF ClientsOK, Finish, Sent
  <1>2. /\ req[q].body = None => UNCHANGED <<mem, disk, flow>>
        /\ req[q].body # None => FinishLogout(req[q].app)
    BY DEF Finish
  <1>3. CASE req[q].body = None
    BY <1>1, <1>2, <1>3
  <1>4. CASE req[q].body # None
    BY <1>1, <1>2, <1>4, FinishLogoutFacts DEF App
  <1>5. QED
    BY <1>1, <1>2, <1>3, <1>4

LEMMA FailRefreshFacts ==
  ASSUME ClientsOK, NEW a \in App, FailRefresh(a)
  PROVE  /\ a \in Tab =>
              /\ mem'[Browser] = NoPair /\ UNCHANGED <<disk, flow>>
              /\ \A p \in Phone : mem'[p] = mem[p]
              /\ \A q \in RequestsOf(a) : req'[q] = None
              /\ \A q \in Request \ RequestsOf(a) : req'[q] = req[q]
         /\ a \in Phone =>
              /\ mem'[a] = NoPair /\ \A h \in (Phone \cup {Browser}) \ {a} : mem'[h] = mem[h]
              /\ flow'[a].refresh = "clear" /\ flow'[a].new = flow[a].new
              /\ flow'[a].signed = flow[a].signed
              /\ flow'[a].sign = IF Queue(a) \cap LogoutsOf(a) # {} THEN "signOut" ELSE flow[a].sign
              /\ disk'[a].access = None /\ disk'[a].refresh = disk[a].refresh
              /\ \A p \in Phone \ {a} : flow'[p] = flow[p] /\ disk'[p] = disk[p]
              /\ \A q \in Queue(a) : req'[q] = None
              /\ \A q \in Request \ Queue(a) : req'[q] = req[q]
         /\ \A q \in Queue(a) : req'[q] = None
         /\ \A q \in Request : req'[q] = None \/ req'[q] = req[q]
         /\ \A q \in Request \ RequestsOf(a) : req'[q] = req[q]
         /\ mem'[Home(a)] = NoPair /\ \A h \in (Phone \cup {Browser}) \ {Home(a)} : mem'[h] = mem[h]
         /\ \A p \in Phone \ {a} : flow'[p] = flow[p] /\ disk'[p] = disk[p]
  <1>1. CASE a \in Tab
    BY <1>1, AppHome DEF FailRefresh, ClientsOK, Queue, RequestsOf
  <1>2. CASE a \notin Tab
    <2>1. a \in Phone /\ Home(a) = a
      BY <1>2 DEF App, Home
    <2> DEFINE sign == IF Queue(a) \cap LogoutsOf(a) # {} THEN "signOut" ELSE flow[a].sign
    <2>2. /\ disk' = [disk EXCEPT ![a] = [disk[a] EXCEPT !.access = None]]
          /\ flow' = [flow EXCEPT ![a] = [flow[a] EXCEPT !.refresh = "clear", !.sign = sign]]
          /\ mem' = [mem EXCEPT ![a] = NoPair]
          /\ req' = [q \in Request |-> IF q \in Queue(a) THEN None ELSE req[q]]
      BY <1>2, <2>1 DEF FailRefresh, ClientsOK
    <2> HIDE DEF sign
    <2>3. /\ disk'[a] = [disk[a] EXCEPT !.access = None]
          /\ flow'[a] = [flow[a] EXCEPT !.refresh = "clear", !.sign = sign]
          /\ \A p \in Phone \ {a} : flow'[p] = flow[p] /\ disk'[p] = disk[p]
          /\ mem'[a] = NoPair /\ \A h \in (Phone \cup {Browser}) \ {a} : mem'[h] = mem[h]
          /\ disk[a] \in Pair /\ flow[a] \in Flow
      BY <2>1, <2>2 DEF ClientsOK
    <2>4. /\ flow'[a].refresh = "clear" /\ flow'[a].new = flow[a].new
          /\ flow'[a].signed = flow[a].signed /\ flow'[a].sign = sign
          /\ disk'[a].access = None /\ disk'[a].refresh = disk[a].refresh
      BY <2>3 DEF Pair, Flow
    <2>5. /\ \A q \in Queue(a) : req'[q] = None
          /\ \A q \in Request \ Queue(a) : req'[q] = req[q]
          /\ Queue(a) \subseteq RequestsOf(a) /\ Queue(a) \subseteq Request
      BY <2>2 DEF Queue, RequestsOf
    <2>6. QED
      BY <1>2, <2>1, <2>3, <2>4, <2>5 DEF sign
  <1>3. QED
    BY <1>1, <1>2

LEMMA RetriesFacts ==
  ASSUME ClientsOK, NEW a \in App, NEW t \in Second, req' = Retries(a, t), NEW q \in Request
  PROVE  /\ req[q] = None => req'[q] = None
         /\ req[q] # None => /\ req'[q] # None /\ req'[q].app = req[q].app
                             /\ req'[q].body = req[q].body
                             /\ req[q].app = a => req'[q].state = "sent"
                             /\ req[q].app # a => req'[q] = req[q]
  <1>1. CASE q \in RequestsOf(a) /\ req[q].state # "sent"
    <2> DEFINE again == req[q].retried \/ a \in Phone
    <2>1. req[q] # None /\ req[q].app = a /\ req[q] \in Sent
      BY <1>1 DEF RequestsOf, ClientsOK
    <2>2. req'[q] = [req[q] EXCEPT !.state = "sent", !.access = t, !.retried = again]
      BY <1>1 DEF Retries
    <2>3. again \in BOOLEAN
      BY <2>1 DEF Sent
    <2> HIDE DEF again
    <2>4. /\ req'[q].app = req[q].app /\ req'[q].body = req[q].body /\ req'[q].state = "sent"
          /\ req'[q] \in Sent
      BY <2>1, <2>2, <2>3 DEF Sent
    <2>5. QED
      BY <2>1, <2>4, Bounds
  <1>2. CASE ~(q \in RequestsOf(a) /\ req[q].state # "sent")
    BY <1>2 DEF Retries, RequestsOf
  <1>3. QED
    BY <1>1, <1>2

-----------------------------------------------------------------------------
(* The pair that a phone persists. *)
LEMMA PersistingHolds ==
  ASSUME ServerInv, Persisting, TokensNext
  PROVE  Persisting'
  <1> SUFFICES ASSUME NEW p \in Phone, flow'[p].refresh = "persist"
               PROVE  flow'[p].new # None
    BY DEF Persisting
  <1>0. p \in App /\ ClientsOK /\ flow[p] \in Flow
    BY ServerParts DEF App, ClientsOK
  <1>1. CASE flow'[p] = flow[p]
    BY <1>1 DEF Persisting
  <1>2. ASSUME NEW i \in 1..CallBound, SignInAnswer(i), flow'[p] # flow[p]
        PROVE  flow'[p].new # None
    <2>1. flow' = [flow EXCEPT ![calls[i].app] =
                     [flow[calls[i].app] EXCEPT !.sign = "signIn", !.signed = calls[i].answer]]
      BY <1>0, <1>2 DEF SignInAnswer, ClientsOK
    <2>2. flow'[p] = [flow[p] EXCEPT !.sign = "signIn", !.signed = calls[i].answer]
      BY <1>0, <1>2, <2>1 DEF ClientsOK
    <2>3. flow'[p].refresh = flow[p].refresh /\ flow'[p].new = flow[p].new
      BY <1>0, <2>2 DEF Flow
    <2>4. QED
      BY <2>3 DEF Persisting
  <1>3. ASSUME NEW i \in 1..CallBound, RefreshAnswer(i), flow'[p] # flow[p]
        PROVE  flow'[p].new # None
    <2> DEFINE t == calls[i].answer
    <2>1. flow' = [flow EXCEPT ![calls[i].app] =
                     [flow[calls[i].app] EXCEPT !.refresh = "persist", !.new = t]]
          /\ t # None
      BY <1>0, <1>3 DEF RefreshAnswer, ClientsOK
    <2>2. flow'[p] = [flow[p] EXCEPT !.refresh = "persist", !.new = t]
      BY <1>0, <1>3, <2>1 DEF ClientsOK
    <2>3. flow'[p].new = t
      BY <1>0, <2>2 DEF Flow
    <2>4. QED
      BY <2>1, <2>3
  <1>4. ASSUME NEW a \in App, FailRefresh(a), flow'[p] # flow[p]
        PROVE  FALSE
    BY <1>0, <1>4, FailRefreshFacts DEF App
  <1>5. ASSUME FinishLogout(p) \/ (\E a \in App : FinishLogout(a))
        PROVE  flow'[p].new # None
    <2>1. PICK a \in App : FinishLogout(a)
      BY <1>0, <1>5
    <2>2. flow'[p].refresh = flow[p].refresh /\ flow'[p].new = flow[p].new
      BY <1>0, <2>1, FinishLogoutFacts DEF App
    <2>3. QED
      BY <2>2 DEF Persisting
  <1>6. ASSUME NEW q \in Request, req[q] # None, Finish(q)
        PROVE  flow'[p].new # None
    <2>1. flow'[p].refresh = flow[p].refresh /\ flow'[p].new = flow[p].new
      BY <1>0, <1>6, FinishFacts
    <2>2. QED
      BY <2>1 DEF Persisting
  <1>7. ASSUME NEW r \in Phone, SignedIn(r) \/ SignedOut(r), flow'[p] # flow[p]
        PROVE  flow'[p].new # None
    <2>1. \/ flow' = [flow EXCEPT ![r] = [flow[r] EXCEPT !.sign = "none", !.signed = None]]
          \/ flow' = [flow EXCEPT ![r] = [flow[r] EXCEPT !.sign = "none"]]
      BY <1>0, <1>7 DEF SignedIn, SignedOut, ClientsOK
    <2>2. \/ flow'[p] = [flow[p] EXCEPT !.sign = "none", !.signed = None]
          \/ flow'[p] = [flow[p] EXCEPT !.sign = "none"]
      BY <1>0, <1>7, <2>1 DEF ClientsOK
    <2>3. flow'[p].refresh = flow[p].refresh /\ flow'[p].new = flow[p].new
      BY <1>0, <2>2 DEF Flow
    <2>4. QED
      BY <2>3 DEF Persisting
  <1>8. ASSUME NEW r \in Phone, Cleared(r) \/ Persisted(r) \/ Kill(r), flow'[p] # flow[p]
        PROVE  FALSE
    <2>1. flow'[r].refresh = "none" /\ \A s \in Phone \ {r} : flow'[s] = flow[s]
      <3>0. flow[r] \in Flow
        BY <1>0 DEF ClientsOK
      <3>1. CASE Cleared(r)
        <4> DEFINE sign == IF {q \in RequestsOf(r) : req[q].state = "refreshing"} \cap LogoutsOf(r)
                                # {} THEN "signOut" ELSE flow[r].sign
        <4>1. flow' = [flow EXCEPT ![r] = [flow[r] EXCEPT !.refresh = "none", !.sign = sign]]
          BY <1>0, <3>1 DEF Cleared, ClientsOK
        <4> HIDE DEF sign
        <4>2. QED
          BY <1>0, <3>0, <4>1 DEF ClientsOK, Flow
      <3>2. CASE Persisted(r)
        <4>1. flow' = [flow EXCEPT ![r] = [flow[r] EXCEPT !.refresh = "none", !.new = None]]
          BY <1>0, <3>2 DEF Persisted, ClientsOK
        <4>2. QED
          BY <1>0, <3>0, <4>1 DEF ClientsOK, Flow
      <3>3. CASE Kill(r)
        BY <1>0, <3>3 DEF Kill, ClientsOK, NoFlow
      <3>4. QED
        BY <1>8, <3>1, <3>2, <3>3
    <2>2. QED
      BY <1>8, <2>1
  <1>9. ASSUME NEW q \in Request, NoTokenToRefresh(q), flow'[p] # flow[p]
        PROVE  FALSE
    <2>0. req[q] # None /\ req[q].app \in App
      BY <1>0, <1>9 DEF NoTokenToRefresh, Unauthorized, ClientsOK, Sent
    <2>1. req[q].app \notin Tab
      BY <1>4, <1>9, <2>0 DEF NoTokenToRefresh
    <2>2. flow' = [flow EXCEPT ![req[q].app] = [flow[req[q].app] EXCEPT !.refresh = "clear"]]
      BY <1>0, <1>9, <2>0, <2>1 DEF NoTokenToRefresh, ClientsOK, App
    <2>3. flow'[p] = [flow[p] EXCEPT !.refresh = "clear"]
      BY <1>0, <1>9, <2>2 DEF ClientsOK
    <2>4. QED
      BY <1>0, <2>3 DEF Flow
  <1>10. ASSUME NEW i \in 1..CallBound, ServerStep(i)
         PROVE  flow' = flow
    BY <1>10 DEF ServerStep, RegisterFind, RegisterCreate, LoginCheck, RefreshFind,
       RevocationBegins, RefreshRevokes,
       RefreshExpired, StoreRefreshToken, RefreshRotate
  <1>11. ASSUME NEW i \in 1..CallBound, RefreshRefused(i) \/ Lost(i)
         PROVE  flow' = flow \/ \E a \in App : FailRefresh(a)
    <2>1. CASE RefreshRefused(i)
      <3>1. calls[i].app \in App
        BY <2>1, ServerParts, CallTyped DEF RefreshRefused, AtPhase, AnswersAwaited, Call
      <3>2. QED
        BY <2>1, <3>1 DEF RefreshRefused
    <2>2. CASE Lost(i)
      <3>1. calls[i].app \in App
        BY <2>2, ServerParts, CallTyped DEF Lost, Call
      <3>2. QED
        BY <2>2, <3>1 DEF Lost
    <2>3. QED
      BY <1>11, <2>1, <2>2
  <1>12. ASSUME \/ \E a \in App : SignInSubmit(a) \/ \E q \in Request : SendRequest(a, q) \/ SendLogout(a, q)
                \/ \E q \in Request : JoinQueue(q) \/ StartRefresh(q)
                \/ AccessTokensExpire \/ RefreshTokensExpire \/ Bar
         PROVE  flow' = flow
    BY <1>12 DEF SignInSubmit, SendRequest, SendLogout, JoinQueue, StartRefresh, AccessTokensExpire,
       RefreshTokensExpire, Bar
  <1>13. ASSUME NEW q \in Request, Served(q) \/ Reject(q)
         PROVE  req[q] # None /\ Finish(q)
    BY <1>13 DEF Served, Reject, Unauthorized
  <1>14. ASSUME NEW r \in Phone, SignOut(r)
         PROVE  \E a \in App : FinishLogout(a)
    BY <1>14 DEF SignOut, App
  <1>15. QED
    BY <1>1, <1>2, <1>3, <1>4, <1>5, <1>6, <1>7, <1>8, <1>9, <1>10, <1>11, <1>12, <1>13, <1>14
       DEF TokensNext


-----------------------------------------------------------------------------
(* The invariant of the whole, and the two theorems it gives. *)
TokensInv == ServerInv /\ Persisting

LEMMA TokensStart ==
  ASSUME TokensInit
  PROVE  TokensInv
  <1>1. /\ 0 \in 0..ClockBound /\ 0 \in 0..clock /\ 0 \in 0..(ClockBound + CallBound)
        /\ 0 \in 0..SignInBound
    BY Numbers DEF TokensInit
  <1>2. << >> \in Seq(Row) /\ Len(<< >>) = 0 /\ DOMAIN << >> = {} /\ 0 <= RowBound
    BY Numbers
  <1>3. ServerOK /\ CountsOK
    BY <1>1 DEF TokensInit, ServerOK, CountsOK
  <1>4. RowsOK
    BY <1>2 DEF TokensInit, RowsOK
  <1>5. CallsOK
    BY DEF TokensInit, CallsOK
  <1>6. ClientsOK
    BY PairTypes DEF TokensInit, ClientsOK
  <1>7. OneLivePerFamily /\ BurntStaysDead /\ SweepsKnown
    BY <1>2 DEF TokensInit, OneLivePerFamily, BurntStaysDead, SweepsKnown
  <1>8. Counted /\ AnswersAwaited /\ Persisting
    BY DEF TokensInit, Counted, AnswersAwaited, AtPhase, Persisting, NoFlow
  <1>9. QED
    BY <1>3, <1>4, <1>5, <1>6, <1>7, <1>8, TypeParts DEF TokensInv, ServerInv, RowsInv

LEMMA TokensStep ==
  ASSUME TokensInv, [TokensNext]_tokenVars
  PROVE  TokensInv'
  <1> USE DEF TokensInv
  <1>1. CASE TokensNext
    <2>1. Persisting'
      BY <1>1, PersistingHolds
    <2>2. ASSUME NEW i \in 1..CallBound, ServerStep(i)
          PROVE  ServerInv'
      BY <2>2, RegisterFindHolds, RegisterCreateHolds, LoginCheckHolds, StoreRefreshTokenHolds,
         RefreshFindHolds, RevocationBeginsHolds, RefreshRevokesHolds, RefreshExpiredHolds, RefreshRotateHolds
         DEF ServerStep
    <2>3. ASSUME NEW i \in 1..CallBound,
                 SignInAnswer(i) \/ RefreshRefused(i) \/ RefreshAnswer(i) \/ Lost(i)
          PROVE  ServerInv'
      BY <2>3, SignInAnswerHolds, RefreshRefusedHolds, RefreshAnswerHolds, LostHolds
    <2>4. ASSUME NEW a \in App,
                 SignInSubmit(a) \/ \E q \in Request : SendRequest(a, q) \/ SendLogout(a, q)
          PROVE  ServerInv'
      BY <2>4, SignInSubmitHolds, SendHolds
    <2>5. ASSUME NEW q \in Request,
                 Served(q) \/ Reject(q) \/ JoinQueue(q) \/ StartRefresh(q) \/ NoTokenToRefresh(q)
          PROVE  ServerInv'
      BY <2>5, ServedHolds, RejectHolds, JoinQueueHolds, StartRefreshHolds, NoTokenToRefreshHolds
    <2>6. ASSUME NEW p \in Phone,
                 SignedIn(p) \/ SignedOut(p) \/ SignOut(p) \/ Cleared(p) \/ Persisted(p) \/ Kill(p)
          PROVE  ServerInv'
      BY <2>6, SignedInHolds, SignedOutHolds, SignOutHolds, ClearedHolds, PersistedHolds, KillHolds
    <2>7. ASSUME AccessTokensExpire \/ RefreshTokensExpire \/ Bar
          PROVE  ServerInv'
      BY <2>7, ExpiryHolds, BarHolds
    <2>8. QED
      BY <1>1, <2>1, <2>2, <2>3, <2>4, <2>5, <2>6, <2>7 DEF TokensNext
  <1>2. CASE UNCHANGED tokenVars
    <2>1. ServerOK' /\ RowsOK' /\ CallsOK' /\ ClientsOK' /\ CountsOK'
      BY <1>2, ServerParts DEF tokenVars, revocation, ServerOK, RowsOK, CallsOK, ClientsOK, CountsOK
    <2>2. RowsInv' /\ AnswersAwaited' /\ Persisting'
      BY <1>2, <2>1, ServerParts DEF tokenVars, revocation, RowsInv, OneLivePerFamily,
         BurntStaysDead, SweepsKnown, Known,
         AnswersAwaited, AtPhase, Persisting
    <2>3. Counted'
      BY <1>2, ServerParts DEF tokenVars, Counted, Going, AtPhase
    <2>4. QED
      BY <2>1, <2>2, <2>3, TypePartsNext DEF ServerInv
  <1>3. QED
    BY <1>1, <1>2

LEMMA TokensAlways == TokensSpec => []TokensInv
  BY TokensStart, TokensStep, PTL DEF TokensSpec

(* The types of the model's variables: AuthService's and the clients' state. *)
THEOREM TokensTyped == TokensSpec => []TokensTypeOK
  <1>1. TokensInv => TokensTypeOK
    BY DEF TokensInv, ServerInv
  <1>2. QED
    BY <1>1, TokensAlways, PTL

(* refresh_token is sound, whatever the clients do: two refreshes that     *)
(* race do not both leave a live row in one family, a family in which a    *)
(* reused token was seen has none, and after a suspension or a ban only    *)
(* the calls that had passed the check of the account's status sign.       *)
THEOREM RowsStaySound == TokensSpec => []RowsAreSound
  <1>1. ASSUME TokensInv
        PROVE  BarredGetsNothing
    <2>1. Counted /\ Cardinality(Going) \in Nat /\ clock \in Nat /\ grace \in Nat
      BY <1>1, ServerParts, GoingFinite, Numbers DEF TokensInv, Going, ServerOK
    <2>2. QED
      BY <2>1 DEF Counted, BarredGetsNothing
  <1>2. TokensInv => RowsAreSound
    BY <1>1 DEF TokensInv, ServerInv, RowsInv, RowsAreSound
  <1>3. QED
    BY <1>2, TokensAlways, PTL


-----------------------------------------------------------------------------
(* Whom a refresh keeps waiting.  A client has one refresh under way at    *)
(* most; while it clears its tokens, and while it does not refresh, nobody *)
(* is queued.                                                              *)
Waits(a) ==
  /\ \A i, j \in RefreshCallsOf(a) : i = j
  /\ a \in Phone /\ RefreshCallsOf(a) # {} => flow[a].refresh = "none"
  /\ "late_401" \notin mishaps =>
       /\ a \in Phone /\ flow[a].refresh = "clear" => Queue(a) = {}
       /\ Queue(a) # {} => Refreshing(a)

AllWait == \A a \in App : Waits(a)

LEMMA MishapsGrow ==
  ASSUME TokensInv, TokensNext
  PROVE  mishaps \subseteq mishaps'
  <1>1. ServerInv
    BY DEF TokensInv
  <1>2. ASSUME NEW i \in 1..CallBound, ServerStep(i)
        PROVE  mishaps \subseteq mishaps'
    <2>1. ASSUME NEW t \in Second, StoreRefreshToken(i, t) \/ RefreshRotate(i, t)
          PROVE  mishaps \subseteq mishaps'
      BY <1>1, <2>1, Mishaps DEF StoreRefreshToken, RefreshRotate
    <2>2. QED
      BY <1>2, <2>1 DEF ServerStep, RegisterFind, RegisterCreate, LoginCheck, RefreshFind,
         RevocationBegins, RefreshRevokes, RefreshExpired
  <1>3. ASSUME NEW i \in 1..CallBound,
               SignInAnswer(i) \/ RefreshRefused(i) \/ RefreshAnswer(i) \/ Lost(i)
        PROVE  mishaps \subseteq mishaps'
    BY <1>1, <1>3, Notes DEF SignInAnswer, RefreshRefused, RefreshAnswer, Lost
  <1>4. ASSUME NEW a \in App,
               SignInSubmit(a) \/ \E q \in Request : SendRequest(a, q) \/ SendLogout(a, q)
        PROVE  mishaps \subseteq mishaps'
    BY <1>1, <1>4, Notes DEF SignInSubmit, SendRequest, SendLogout
  <1>5. ASSUME NEW q \in Request,
               Served(q) \/ Reject(q) \/ JoinQueue(q) \/ StartRefresh(q) \/ NoTokenToRefresh(q)
        PROVE  mishaps \subseteq mishaps'
    BY <1>1, <1>5, Notes DEF Served, Reject, JoinQueue, StartRefresh, NoTokenToRefresh
  <1>6. ASSUME NEW p \in Phone,
               SignedIn(p) \/ SignedOut(p) \/ SignOut(p) \/ Cleared(p) \/ Persisted(p) \/ Kill(p)
        PROVE  mishaps \subseteq mishaps'
    BY <1>1, <1>6, Notes DEF SignedIn, SignedOut, SignOut, Cleared, Persisted, Kill
  <1>7. ASSUME AccessTokensExpire \/ RefreshTokensExpire \/ Bar
        PROVE  mishaps \subseteq mishaps'
    BY <1>1, <1>7, Notes DEF AccessTokensExpire, RefreshTokensExpire, Bar
  <1>8. QED
    BY <1>2, <1>3, <1>4, <1>5, <1>6, <1>7 DEF TokensNext

(* Who does not refresh, and loses at most requests, waits as before. *)
LEMMA StillWaits ==
  ASSUME NEW a \in App, Waits(a), mishaps \subseteq mishaps',
         RefreshCallsOf(a)' = RefreshCallsOf(a), Queue(a)' \subseteq Queue(a),
         a \in Phone => flow'[a].refresh = flow[a].refresh
  PROVE  Waits(a)'
  <1>1. Refreshing(a) => Refreshing(a)'
    BY DEF Refreshing
  <1>2. QED
    BY <1>1 DEF Waits

LEMMA NobodyWaits ==
  ASSUME NEW a \in App, RefreshCallsOf(a)' = {}, Queue(a)' = {}
  PROVE  Waits(a)'
  BY DEF Waits

(* What a step does to the calls, in terms of who refreshes. *)
LEMMA CallersKept ==
  ASSUME SameCallers, NEW a \in App
  PROVE  RefreshCallsOf(a)' = RefreshCallsOf(a)
  <1>1. a # None
    BY Bounds
  <1>2. QED
    BY <1>1 DEF SameCallers, RefreshCallsOf, CallsOf

LEMMA CallersLeft ==
  ASSUME NEW i \in 1..CallBound, calls'[i] = None \/ calls'[i].app = None,
         \A j \in 1..CallBound : j # i => calls'[j] = calls[j], NEW a \in App
  PROVE  RefreshCallsOf(a)' = RefreshCallsOf(a) \ {i}
  <1>1. a # None
    BY Bounds
  <1>2. QED
    BY <1>1 DEF RefreshCallsOf, CallsOf

LEMMA CallersJoined ==
  ASSUME ServerInv, rows' = rows, CanCall, NEW b \in App,
         NEW kind \in {"register", "login", "refresh"}, NEW tok \in Held,
         calls' = WithCall(b, kind, tok), NEW a \in App
  PROVE  RefreshCallsOf(a)' = IF a = b /\ kind = "refresh" THEN RefreshCallsOf(a) \cup {Place}
                              ELSE RefreshCallsOf(a)
  <1>1. /\ Place \in 1..CallBound /\ calls[Place] = None
        /\ calls'[Place] # None /\ calls'[Place].app = b /\ calls'[Place].kind = kind
        /\ \A j \in 1..CallBound : j # Place => calls'[j] = calls[j]
    BY CallStarts, PlaceFree
  <1> DEFINE place == Place
  <1> HIDE DEF place
  <1>2. /\ place \in 1..CallBound /\ calls[place] = None
        /\ calls'[place] # None /\ calls'[place].app = b /\ calls'[place].kind = kind
        /\ \A j \in 1..CallBound : j # place => calls'[j] = calls[j]
    BY <1>1 DEF place
  <1>3. RefreshCallsOf(a)' = IF a = b /\ kind = "refresh" THEN RefreshCallsOf(a) \cup {place}
                             ELSE RefreshCallsOf(a)
    BY <1>2 DEF RefreshCallsOf, CallsOf
  <1>4. QED
    BY <1>3 DEF place

(* A request that a step leaves alone or ends stays or leaves the queue. *)
LEMMA QueueShrinks ==
  ASSUME NEW a \in App, \A q \in Request : req'[q] = None \/ req'[q] = req[q]
  PROVE  Queue(a)' \subseteq Queue(a)
  BY DEF Queue, RequestsOf

LEMMA QueueOf ==
  ASSUME NEW a \in App,
         \A q \in Request : req'[q] # None /\ req'[q].app = a /\ req'[q].state = "queued" =>
           req[q] # None /\ req[q].app = a /\ req[q].state = "queued"
  PROVE  Queue(a)' \subseteq Queue(a)
  BY DEF Queue, RequestsOf


LEMMA FailRefreshWaits ==
  ASSUME ServerInv, AllWait, mishaps \subseteq mishaps', NEW i \in 1..CallBound,
         calls[i] # None, calls[i].app \in App, calls[i].kind = "refresh",
         FailRefresh(calls[i].app),
         calls'[i] = None \/ calls'[i].app = None,
         \A j \in 1..CallBound : j # i => calls'[j] = calls[j]
  PROVE  AllWait'
  <1> SUFFICES ASSUME NEW a \in App
               PROVE  Waits(a)'
    BY DEF AllWait
  <1>1. RefreshCallsOf(a)' = RefreshCallsOf(a) \ {i} /\ Waits(a) /\ ClientsOK
    BY CallersLeft, ServerParts DEF AllWait
  <1>2. CASE a = calls[i].app
    <2>1. i \in RefreshCallsOf(a)
      BY <1>2 DEF RefreshCallsOf, CallsOf
    <2>2. RefreshCallsOf(a)' = {}
      BY <1>1, <2>1 DEF Waits
    <2>3. /\ \A q \in Queue(a) : req'[q] = None
          /\ \A q \in Request : req'[q] = None \/ req'[q] = req[q]
      BY <1>1, <1>2, FailRefreshFacts
    <2>4. Queue(a)' = {}
      BY <2>3 DEF Queue, RequestsOf
    <2>5. QED
      BY <2>2, <2>4, NobodyWaits
  <1>3. CASE a # calls[i].app
    <2>1. i \notin RefreshCallsOf(a)
      BY <1>3 DEF RefreshCallsOf, CallsOf
    <2>2. /\ \A q \in Request : req'[q] = None \/ req'[q] = req[q]
          /\ a \in Phone => flow'[a] = flow[a]
      BY <1>1, <1>3, FailRefreshFacts
    <2>3. Queue(a)' \subseteq Queue(a)
      BY <2>2, QueueShrinks
    <2>4. QED
      BY <1>1, <2>1, <2>2, <2>3, StillWaits
  <1>4. QED
    BY <1>2, <1>3

LEMMA RefreshRefusedWaits ==
  ASSUME ServerInv, AllWait, NEW i \in 1..CallBound, RefreshRefused(i)
  PROVE  AllWait'
  <1>1. /\ calls[i] # None /\ calls[i].app \in App /\ calls[i].kind = "refresh"
        /\ FailRefresh(calls[i].app) /\ mishaps' = mishaps /\ rows' = rows
        /\ calls' = [calls EXCEPT ![i] = None]
    BY ServerParts, CallTyped DEF RefreshRefused, AtPhase, AnswersAwaited, Call, serverVars
  <1>2. calls'[i] = None /\ \A j \in 1..CallBound : j # i => calls'[j] = calls[j]
    BY <1>1, CallEnds
  <1>3. QED
    BY <1>1, <1>2, FailRefreshWaits

LEMMA LostWaits ==
  ASSUME ServerInv, AllWait, NEW i \in 1..CallBound, Lost(i)
  PROVE  AllWait'
  <1>1. /\ calls[i] # None /\ calls[i].app \in App /\ mishaps \subseteq mishaps' /\ rows' = rows
        /\ CallsOK
    BY ServerParts, CallTyped, Notes DEF Lost, Call, serverVars
  <1>2. /\ calls'[i] = None \/ calls'[i].app = None
        /\ \A j \in 1..CallBound : j # i => calls'[j] = calls[j]
    <2>1. CASE AtPhase(i, "done")
      BY <1>1, <2>1 DEF Lost, CallsOK
    <2>2. CASE ~AtPhase(i, "done")
      <3>1. calls' = [calls EXCEPT ![i] = [calls[i] EXCEPT !.app = None]]
        BY <2>2, <1>1 DEF Lost, CallsOK
      <3>2. [calls[i] EXCEPT !.app = None].app = None
        BY <1>1, <2>2, CallForgotten DEF AtPhase
      <3>3. QED
        BY <1>1, <3>1, <3>2 DEF CallsOK
    <2>3. QED
      BY <2>1, <2>2
  <1>3. CASE calls[i].kind = "refresh"
    BY <1>1, <1>2, <1>3, FailRefreshWaits DEF Lost
  <1>4. CASE calls[i].kind # "refresh"
    <2> SUFFICES ASSUME NEW a \in App
                 PROVE  Waits(a)'
      BY DEF AllWait
    <2>1. RefreshCallsOf(a)' = RefreshCallsOf(a) /\ Waits(a)
      BY <1>2, <1>4, CallersLeft DEF AllWait, RefreshCallsOf, CallsOf
    <2>2. req' = req /\ flow' = flow
      BY <1>4 DEF Lost
    <2>3. Queue(a)' \subseteq Queue(a)
      BY <2>2, QueueShrinks
    <2>4. QED
      BY <1>1, <2>1, <2>2, <2>3, StillWaits
  <1>5. QED
    BY <1>3, <1>4

LEMMA ServerWaits ==
  ASSUME ServerInv, AllWait, NEW i \in 1..CallBound, ServerStep(i), mishaps \subseteq mishaps'
  PROVE  AllWait'
  <1>1. SameCallers
    BY RegisterFindHolds, RegisterCreateHolds, LoginCheckHolds, StoreRefreshTokenHolds,
       RefreshFindHolds, RevocationBeginsHolds, RefreshRevokesHolds, RefreshExpiredHolds, RefreshRotateHolds
       DEF ServerStep
  <1>2. req' = req /\ flow' = flow
    BY DEF ServerStep, RegisterFind, RegisterCreate, LoginCheck, StoreRefreshToken, RefreshFind,
       RevocationBegins, RefreshRevokes, RefreshExpired, RefreshRotate
  <1>3. ASSUME NEW a \in App
        PROVE  Waits(a)'
    <2>1. RefreshCallsOf(a)' = RefreshCallsOf(a) /\ Queue(a)' \subseteq Queue(a) /\ Waits(a)
      BY <1>1, <1>2, CallersKept, QueueShrinks DEF AllWait
    <2>2. QED
      BY <1>2, <2>1, StillWaits
  <1>4. QED
    BY <1>3 DEF AllWait

LEMMA SignInWaits ==
  ASSUME ServerInv, AllWait, mishaps \subseteq mishaps',
         \/ \E i \in 1..CallBound : SignInAnswer(i)
         \/ \E b \in App : SignInSubmit(b)
         \/ \E p \in Phone : SignedIn(p) \/ SignedOut(p)
         \/ \E p \in Phone : SignOut(p)
         \/ AccessTokensExpire \/ RefreshTokensExpire \/ Bar
  PROVE  AllWait'
  <1> SUFFICES ASSUME NEW a \in App
               PROVE  Waits(a)'
    BY DEF AllWait
  <1>1. ClientsOK /\ Waits(a)
    BY ServerParts DEF AllWait
  <1>2. RefreshCallsOf(a)' = RefreshCallsOf(a)
    <2>1. ASSUME NEW i \in 1..CallBound, SignInAnswer(i)
          PROVE  RefreshCallsOf(a)' = RefreshCallsOf(a)
      <3>1. /\ calls' = [calls EXCEPT ![i] = None] /\ calls[i].kind # "refresh" /\ rows' = rows
        BY <2>1 DEF SignInAnswer, serverVars
      <3>2. RefreshCallsOf(a)' = RefreshCallsOf(a) \ {i}
        BY <3>1, CallEnds, CallersLeft
      <3>3. QED
        BY <3>1, <3>2 DEF RefreshCallsOf
    <2>2. ASSUME NEW b \in App, SignInSubmit(b)
          PROVE  RefreshCallsOf(a)' = RefreshCallsOf(a)
      <3>1. PICK kind \in {"register", "login"} : calls' = WithCall(b, kind, None)
        BY <2>2 DEF SignInSubmit
      <3>2. rows' = rows /\ CanCall /\ None \in Held /\ kind # "refresh"
            /\ kind \in {"register", "login", "refresh"}
        BY <2>2 DEF SignInSubmit, serverVars, Held
      <3>3. QED
        BY <3>1, <3>2, CallersJoined
    <2>3. CASE calls' = calls
      BY <2>3 DEF RefreshCallsOf, CallsOf
    <2>4. QED
      BY <2>1, <2>2, <2>3 DEF SignedIn, SignedOut, SignOut, AccessTokensExpire,
         RefreshTokensExpire, Bar
  <1>3. req' = req
    BY DEF SignInAnswer, SignInSubmit, SignedIn, SignedOut, SignOut, AccessTokensExpire,
       RefreshTokensExpire, Bar
  <1>4. a \in Phone => flow'[a].refresh = flow[a].refresh
    <2>1. ASSUME NEW p \in Phone, SignedIn(p) \/ SignedOut(p), a \in Phone
          PROVE  flow'[a].refresh = flow[a].refresh
      BY <1>1, <2>1 DEF SignedIn, SignedOut, ClientsOK, Flow
    <2>2. ASSUME NEW p \in Phone, SignOut(p), a \in Phone
          PROVE  flow'[a].refresh = flow[a].refresh
      <3>1. FinishLogout(p) /\ p \in App /\ p \in Phone
        BY <2>2 DEF SignOut, App
      <3>2. QED
        BY <1>1, <2>2, <3>1, FinishLogoutFacts
    <2>3. ASSUME NEW i \in 1..CallBound, SignInAnswer(i), a \in Phone
          PROVE  flow'[a].refresh = flow[a].refresh
      BY <1>1, <2>3 DEF SignInAnswer, ClientsOK, Flow
    <2>4. QED
      BY <2>1, <2>2, <2>3 DEF SignInSubmit, AccessTokensExpire, RefreshTokensExpire, Bar
  <1>5. QED
    BY <1>1, <1>2, <1>3, <1>4, QueueShrinks, StillWaits

LEMMA RequestWaits ==
  ASSUME ServerInv, AllWait, mishaps \subseteq mishaps', NEW q \in Request,
         \/ Served(q) \/ Reject(q)
         \/ \E b \in App : SendRequest(b, q) \/ SendLogout(b, q)
  PROVE  AllWait'
  <1> SUFFICES ASSUME NEW a \in App
               PROVE  Waits(a)'
    BY DEF AllWait
  <1>1. ClientsOK /\ Waits(a)
    BY ServerParts DEF AllWait
  <1>2. calls' = calls
    BY DEF Served, Reject, SendRequest, SendLogout
  <1>3. RefreshCallsOf(a)' = RefreshCallsOf(a)
    BY <1>2 DEF RefreshCallsOf, CallsOf
  <1>4. /\ \A r \in Request \ {q} : req'[r] = req[r]
        /\ req'[q] = None \/ req'[q].state = "sent"
        /\ a \in Phone => flow'[a].refresh = flow[a].refresh
    <2>1. CASE Served(q) \/ Reject(q)
      <3>1. req[q] # None /\ Finish(q)
        BY <2>1 DEF Served, Reject, Unauthorized
      <3>2. QED
        BY <1>1, <3>1, FinishFacts
    <2>2. ASSUME NEW b \in App, SendRequest(b, q) \/ SendLogout(b, q)
          PROVE  /\ \A r \in Request \ {q} : req'[r] = req[r]
                 /\ req'[q].state = "sent" /\ flow' = flow
      BY <1>1, <2>2 DEF SendRequest, SendLogout, Attach, ClientsOK
    <2>3. QED
      BY <2>1, <2>2
  <1>5. Queue(a)' \subseteq Queue(a)
    BY <1>4, QueueOf
  <1>6. QED
    BY <1>1, <1>3, <1>4, <1>5, StillWaits


LEMMA JoinQueueWaits ==
  ASSUME ServerInv, AllWait, mishaps \subseteq mishaps', NEW q \in Request, JoinQueue(q)
  PROVE  AllWait'
  <1> SUFFICES ASSUME NEW a \in App
               PROVE  Waits(a)'
    BY DEF AllWait
  <1>1. ClientsOK /\ Waits(a)
    BY ServerParts DEF AllWait
  <1>2. calls' = calls /\ flow' = flow
    BY DEF JoinQueue
  <1>3. RefreshCallsOf(a)' = RefreshCallsOf(a) /\ Refreshing(a)' = Refreshing(a)
    BY <1>2 DEF RefreshCallsOf, CallsOf, Refreshing
  <1>4. /\ req[q] # None /\ req[q] \in Sent /\ Refreshing(req[q].app)
        /\ req' = [req EXCEPT ![q] = [req[q] EXCEPT !.state = "queued"]]
    BY <1>1 DEF JoinQueue, Unauthorized, Queues, ClientsOK
  <1>5. /\ \A r \in Request \ {q} : req'[r] = req[r]
        /\ req'[q].app = req[q].app
    BY <1>1, <1>4 DEF ClientsOK, Sent
  <1>6. CASE a = req[q].app
    <2>1. (a \in Phone /\ RefreshCallsOf(a) = {} /\ flow[a].refresh = "clear")
             => "late_401" \in mishaps'
      BY <1>6, Notes DEF JoinQueue
    <2>2. "late_401" \notin mishaps' => ~(a \in Phone /\ flow[a].refresh = "clear")
      BY <1>1, <2>1 DEF Waits
    <2>3. QED
      BY <1>1, <1>2, <1>3, <1>4, <1>6, <2>2 DEF Waits
  <1>7. CASE a # req[q].app
    <2>1. Queue(a)' \subseteq Queue(a)
      BY <1>5, <1>7, QueueOf
    <2>2. QED
      BY <1>1, <1>2, <1>3, <2>1, StillWaits
  <1>8. QED
    BY <1>6, <1>7

LEMMA StartRefreshWaits ==
  ASSUME ServerInv, AllWait, mishaps \subseteq mishaps', NEW q \in Request, StartRefresh(q)
  PROVE  AllWait'
  <1> SUFFICES ASSUME NEW a \in App
               PROVE  Waits(a)'
    BY DEF AllWait
  <1> DEFINE b == req[q].app
  <1>1. ClientsOK /\ Waits(a) /\ Waits(b)
    BY ServerParts DEF AllWait, StartRefresh, Unauthorized, ClientsOK, Sent
  <1>2. /\ req[q] # None /\ req[q] \in Sent /\ ~Refreshing(b) /\ b \in App
        /\ CanCall /\ calls' = WithCall(b, "refresh", mem[Home(b)].refresh)
        /\ flow' = flow /\ rows' = rows
        /\ req' = [req EXCEPT ![q] = [req[q] EXCEPT !.state = "refreshing", !.retried = TRUE]]
    BY <1>1 DEF StartRefresh, Unauthorized, Queues, ClientsOK, Sent, serverVars
  <1>3. mem[Home(b)].refresh \in Held
    BY <1>1, <1>2, AppHome DEF ClientsOK, Pair
  <1>4. RefreshCallsOf(a)' = IF a = b THEN RefreshCallsOf(a) \cup {Place} ELSE RefreshCallsOf(a)
    BY <1>2, <1>3, CallersJoined
  <1>5. /\ \A r \in Request \ {q} : req'[r] = req[r]
        /\ req'[q].state = "refreshing"
    BY <1>1, <1>2 DEF ClientsOK, Sent
  <1>6. Queue(a)' \subseteq Queue(a)
    BY <1>5, QueueOf
  <1>7. CASE a = b
    <2>1. RefreshCallsOf(a) = {} /\ (a \in Phone => flow[a].refresh = "none")
      BY <1>2, <1>7 DEF Refreshing
    <2>2. RefreshCallsOf(a)' = {Place}
      BY <1>4, <1>7, <2>1
    <2>3. Refreshing(a)'
      BY <2>2 DEF Refreshing
    <2>4. QED
      BY <1>2, <2>1, <2>2, <2>3 DEF Waits
  <1>8. CASE a # b
    BY <1>1, <1>2, <1>4, <1>6, <1>8, StillWaits
  <1>9. QED
    BY <1>7, <1>8

LEMMA NoTokenToRefreshWaits ==
  ASSUME ServerInv, AllWait, mishaps \subseteq mishaps', NEW q \in Request, NoTokenToRefresh(q)
  PROVE  AllWait'
  <1> SUFFICES ASSUME NEW a \in App
               PROVE  Waits(a)'
    BY DEF AllWait
  <1> DEFINE b == req[q].app
  <1>1. ClientsOK /\ Waits(a) /\ Waits(b)
    BY ServerParts DEF AllWait, NoTokenToRefresh, Unauthorized, ClientsOK, Sent
  <1>2. /\ req[q] # None /\ req[q] \in Sent /\ ~Refreshing(b) /\ b \in App /\ calls' = calls
    BY <1>1 DEF NoTokenToRefresh, Unauthorized, Queues, ClientsOK, Sent
  <1>3. RefreshCallsOf(a)' = RefreshCallsOf(a)
    BY <1>2 DEF RefreshCallsOf, CallsOf
  <1>4. CASE b \in Tab
    <2>1. FailRefresh(b)
      BY <1>4 DEF NoTokenToRefresh
    <2>2. /\ \A r \in Request : req'[r] = None \/ req'[r] = req[r]
          /\ a \in Phone => flow'[a] = flow[a]
      BY <1>1, <1>2, <1>4, <2>1, AppHome, FailRefreshFacts
    <2>3. Queue(a)' \subseteq Queue(a)
      BY <2>2, QueueShrinks
    <2>4. QED
      BY <1>1, <1>3, <2>2, <2>3, StillWaits
  <1>5. CASE b \notin Tab
    <2>1. /\ b \in Phone
          /\ flow' = [flow EXCEPT ![b].refresh = "clear"]
          /\ req' = [req EXCEPT ![q] = [req[q] EXCEPT !.state = "refreshing", !.retried = TRUE]]
      BY <1>1, <1>2, <1>5 DEF NoTokenToRefresh, App, ClientsOK
    <2>2. /\ \A r \in Request \ {q} : req'[r] = req[r]
          /\ req'[q].state = "refreshing"
      BY <1>1, <1>2, <2>1 DEF ClientsOK, Sent
    <2>3. Queue(a)' \subseteq Queue(a)
      BY <2>2, QueueOf
    <2>4. CASE a = b
      <3>1. RefreshCallsOf(a)' = {} /\ ("late_401" \notin mishaps => Queue(a) = {})
        BY <1>1, <1>2, <1>3, <2>4 DEF Refreshing, Waits
      <3>2. "late_401" \notin mishaps' => Queue(a)' = {}
        BY <2>3, <3>1
      <3>3. QED
        BY <3>1, <3>2 DEF Waits
    <2>5. CASE a # b
      <3>1. a \in Phone => flow'[a].refresh = flow[a].refresh
        BY <1>1, <2>1, <2>5 DEF ClientsOK
      <3>2. QED
        BY <1>1, <1>3, <2>3, <3>1, StillWaits
    <2>6. QED
      BY <2>4, <2>5
  <1>6. QED
    BY <1>4, <1>5

LEMMA ClearedWaits ==
  ASSUME ServerInv, AllWait, NEW p \in Phone, Cleared(p)
  PROVE  AllWait'
  <1> SUFFICES ASSUME NEW a \in App
               PROVE  Waits(a)'
    BY DEF AllWait
  <1>1. ClientsOK /\ Waits(a) /\ p \in App
    BY ServerParts DEF AllWait, App
  <1>2. calls' = calls /\ mishaps' = mishaps
    BY DEF Cleared
  <1>3. RefreshCallsOf(a)' = RefreshCallsOf(a)
    BY <1>2 DEF RefreshCallsOf, CallsOf
  <1>4. Queue(a)' \subseteq Queue(a)
    BY QueueShrinks DEF Cleared
  <1>5. CASE a = p
    <2>1. flow[a].refresh = "clear" /\ flow'[a].refresh = "none"
      BY <1>1, <1>5 DEF Cleared, ClientsOK, Flow
    <2>2. RefreshCallsOf(a)' = {} /\ ("late_401" \notin mishaps => Queue(a) = {})
      BY <1>1, <1>3, <1>5, <2>1 DEF Waits
    <2>3. "late_401" \notin mishaps' => Queue(a)' = {}
      BY <1>2, <1>4, <2>2
    <2>4. QED
      BY <2>1, <2>2, <2>3 DEF Waits
  <1>6. CASE a # p
    <2>1. a \in Phone => flow'[a].refresh = flow[a].refresh
      BY <1>1, <1>6 DEF Cleared, ClientsOK
    <2>2. QED
      BY <1>1, <1>2, <1>3, <1>4, <2>1, StillWaits
  <1>7. QED
    BY <1>5, <1>6

(* What reaches the requests when a client's retries begin. *)
LEMMA RetriesQueue ==
  ASSUME ClientsOK, NEW b \in App, NEW t \in Second, req' = Retries(b, t), NEW a \in App
  PROVE  /\ a = b => Queue(a)' = {}
         /\ a # b => Queue(a)' \subseteq Queue(a)
  <1>1. CASE a = b
    <2>1. ASSUME NEW q \in Request, req'[q] # None, req'[q].app = a
          PROVE  req'[q].state = "sent"
      BY <1>1, <2>1, RetriesFacts
    <2>2. QED
      BY <1>1, <2>1 DEF Queue, RequestsOf
  <1>2. CASE a # b
    <2>1. ASSUME NEW q \in Request, req'[q] # None, req'[q].app = a
          PROVE  req'[q] = req[q]
      BY <1>2, <2>1, RetriesFacts
    <2>2. QED
      BY <1>2, <2>1, QueueOf
  <1>3. QED
    BY <1>1, <1>2

LEMMA PersistedWaits ==
  ASSUME ServerInv, AllWait, Persisting, NEW p \in Phone, Persisted(p)
  PROVE  AllWait'
  <1> SUFFICES ASSUME NEW a \in App
               PROVE  Waits(a)'
    BY DEF AllWait
  <1>1. ClientsOK /\ Waits(a) /\ p \in App
    BY ServerParts DEF AllWait, App
  <1>2. calls' = calls /\ mishaps' = mishaps /\ req' = Retries(p, flow[p].new)
        /\ flow[p].refresh = "persist"
    BY DEF Persisted
  <1>3. RefreshCallsOf(a)' = RefreshCallsOf(a)
    BY <1>2 DEF RefreshCallsOf, CallsOf
  <1>4. flow[p].new \in Second
    BY <1>1, <1>2 DEF Persisting, ClientsOK, Flow, Held
  <1>5. CASE a = p
    <2>1. flow'[a].refresh = "none"
      BY <1>1, <1>5 DEF Persisted, ClientsOK, Flow
    <2>2. RefreshCallsOf(a)' = {} /\ Queue(a)' = {}
      BY <1>1, <1>2, <1>3, <1>4, <1>5, RetriesQueue DEF Waits
    <2>3. QED
      BY <2>2, NobodyWaits
  <1>6. CASE a # p
    <2>1. a \in Phone => flow'[a].refresh = flow[a].refresh
      BY <1>1, <1>6 DEF Persisted, ClientsOK
    <2>2. Queue(a)' \subseteq Queue(a)
      BY <1>1, <1>2, <1>4, <1>6, RetriesQueue
    <2>3. QED
      BY <1>1, <1>2, <1>3, <2>1, <2>2, StillWaits
  <1>7. QED
    BY <1>5, <1>6

LEMMA RefreshAnswerWaits ==
  ASSUME ServerInv, AllWait, NEW i \in 1..CallBound, RefreshAnswer(i)
  PROVE  AllWait'
  <1> SUFFICES ASSUME NEW a \in App
               PROVE  Waits(a)'
    BY DEF AllWait
  <1> DEFINE b == calls[i].app
             t == calls[i].answer
  <1>1. ClientsOK /\ Waits(a)
    BY ServerParts DEF AllWait
  <1>2. /\ calls[i] # None /\ b \in App /\ calls[i].kind = "refresh" /\ t \in Second
        /\ calls' = [calls EXCEPT ![i] = None] /\ rows' = rows /\ mishaps' = mishaps
    BY ServerParts, CallTyped DEF RefreshAnswer, AtPhase, AnswersAwaited, Call, Held, serverVars
  <1>3. RefreshCallsOf(a)' = RefreshCallsOf(a) \ {i}
    BY <1>2, CallEnds, CallersLeft
  <1>4. a # b => RefreshCallsOf(a)' = RefreshCallsOf(a)
    BY <1>3 DEF RefreshCallsOf, CallsOf
  <1>5. a = b => RefreshCallsOf(a)' = {}
    <2>1. a = b => i \in RefreshCallsOf(a)
      BY <1>2 DEF RefreshCallsOf, CallsOf
    <2>2. QED
      BY <1>1, <1>3, <2>1 DEF Waits
  <1>6. CASE b \in Tab
    <2>1. req' = Retries(b, t) /\ flow' = flow
      BY <1>6 DEF RefreshAnswer
    <2>2. /\ a = b => Queue(a)' = {}
          /\ a # b => Queue(a)' \subseteq Queue(a)
      BY <1>1, <1>2, <2>1, RetriesQueue
    <2>3. QED
      BY <1>1, <1>2, <1>4, <1>5, <2>1, <2>2, NobodyWaits, StillWaits
  <1>7. CASE b \notin Tab
    <2>1. /\ req' = req /\ b \in Phone
          /\ flow' = [flow EXCEPT ![b] = [flow[b] EXCEPT !.refresh = "persist", !.new = t]]
      BY <1>1, <1>2, <1>7 DEF RefreshAnswer, ClientsOK, App
    <2>2. Queue(a)' \subseteq Queue(a)
      BY <2>1, QueueShrinks
    <2>3. CASE a = b
      <3>1. flow'[a].refresh = "persist"
        BY <1>1, <2>1, <2>3 DEF ClientsOK, Flow
      <3>2. Refreshing(a)'
        BY <2>1, <2>3, <3>1 DEF Refreshing
      <3>3. QED
        BY <1>5, <2>3, <3>1, <3>2 DEF Waits
    <2>4. CASE a # b
      <3>1. a \in Phone => flow'[a].refresh = flow[a].refresh
        BY <1>1, <2>1, <2>4 DEF ClientsOK
      <3>2. QED
        BY <1>1, <1>2, <1>4, <2>2, <2>4, <3>1, StillWaits
    <2>5. QED
      BY <2>3, <2>4
  <1>8. QED
    BY <1>6, <1>7

LEMMA KillWaits ==
  ASSUME ServerInv, AllWait, mishaps \subseteq mishaps', NEW p \in Phone, Kill(p)
  PROVE  AllWait'
  <1> SUFFICES ASSUME NEW a \in App
               PROVE  Waits(a)'
    BY DEF AllWait
  <1>1. ClientsOK /\ Waits(a) /\ p \in App /\ CallsOK /\ None \notin App
    BY ServerParts, Bounds DEF AllWait, App
  <1>2. /\ \A q \in Request : req'[q] = None \/ req'[q] = req[q]
        /\ \A q \in RequestsOf(p) : req'[q] = None
        /\ \A r \in Phone \ {p} : flow'[r] = flow[r]
    BY <1>1 DEF Kill, ClientsOK, RequestsOf
  <1>3. Queue(a)' \subseteq Queue(a)
    BY <1>2, QueueShrinks
  <1>4. ASSUME NEW i \in CallsOf(p)
        PROVE  calls'[i] = None \/ calls'[i].app = None
    <2>1. i \in 1..CallBound /\ calls[i] # None
      BY <1>4 DEF CallsOf
    <2>2. CASE AtPhase(i, "done")
      BY <1>4, <2>1, <2>2 DEF Kill
    <2>3. CASE ~AtPhase(i, "done")
      <3>1. calls'[i] = [calls[i] EXCEPT !.app = None]
        BY <1>4, <2>1, <2>3 DEF Kill
      <3>2. QED
        BY <2>1, <2>3, <3>1, CallForgotten DEF AtPhase
    <2>4. QED
      BY <2>2, <2>3
  <1>5. \A i \in (1..CallBound) \ CallsOf(p) : calls'[i] = calls[i]
    BY DEF Kill
  <1>6. CASE a = p
    <2>1. Queue(a)' = {}
      BY <1>2, <1>6 DEF Queue, RequestsOf
    <2>2. RefreshCallsOf(a)' = {}
      BY <1>1, <1>4, <1>5, <1>6 DEF RefreshCallsOf, CallsOf
    <2>3. QED
      BY <2>1, <2>2, NobodyWaits
  <1>7. CASE a # p
    <2>1. RefreshCallsOf(a)' = RefreshCallsOf(a)
      BY <1>1, <1>4, <1>5, <1>7 DEF RefreshCallsOf, CallsOf
    <2>2. QED
      BY <1>1, <1>2, <1>3, <1>7, <2>1, StillWaits
  <1>8. QED
    BY <1>6, <1>7

LEMMA AllWaitStep ==
  ASSUME TokensInv, AllWait, [TokensNext]_tokenVars
  PROVE  AllWait'
  <1>1. CASE TokensNext
    <2>1. ServerInv /\ Persisting /\ mishaps \subseteq mishaps'
      BY <1>1, MishapsGrow DEF TokensInv
    <2>2. ASSUME NEW i \in 1..CallBound,
                 ServerStep(i) \/ RefreshRefused(i) \/ RefreshAnswer(i) \/ Lost(i)
          PROVE  AllWait'
      BY <2>1, <2>2, ServerWaits, RefreshRefusedWaits, RefreshAnswerWaits, LostWaits
    <2>3. ASSUME NEW q \in Request, JoinQueue(q) \/ StartRefresh(q) \/ NoTokenToRefresh(q)
          PROVE  AllWait'
      BY <2>1, <2>3, JoinQueueWaits, StartRefreshWaits, NoTokenToRefreshWaits
    <2>4. ASSUME NEW p \in Phone, Cleared(p) \/ Persisted(p) \/ Kill(p)
          PROVE  AllWait'
      BY <2>1, <2>4, ClearedWaits, PersistedWaits, KillWaits
    <2>5. ASSUME NEW q \in Request,
                 Served(q) \/ Reject(q) \/ \E b \in App : SendRequest(b, q) \/ SendLogout(b, q)
          PROVE  AllWait'
      BY <2>1, <2>5, RequestWaits
    <2>6. QED
      BY <1>1, <2>1, <2>2, <2>3, <2>4, <2>5, SignInWaits DEF TokensNext
  <1>2. CASE UNCHANGED tokenVars
    BY <1>2 DEF tokenVars, AllWait, Waits, Queue, RequestsOf, Refreshing, RefreshCallsOf, CallsOf
  <1>3. QED
    BY <1>1, <1>2

LEMMA AllWaitAlways == TokensSpec => []AllWait
  <1>1. TokensInit => AllWait
    BY DEF TokensInit, AllWait, Waits, RefreshCallsOf, CallsOf, Queue, RequestsOf
  <1>2. QED
    BY <1>1, AllWaitStep, TokensAlways, PTL DEF TokensSpec

(* failedQueue is emptied: a request waits in it only while a refresh of   *)
(* its client is under way, unless its 401 came while a phone whose        *)
(* refresh had failed was still deleting its tokens.                       *)
THEOREM QueueIsServed == TokensSpec => []NoRequestHangs
  <1>1. AllWait => NoRequestHangs
    BY DEF AllWait, Waits, NoRequestHangs
  <1>2. QED
    BY <1>1, AllWaitAlways, PTL


-----------------------------------------------------------------------------
(* What a phone that clears its tokens, or signs in, holds: nothing.  It   *)
(* signs in once at a time.                                                *)
SignCallsOf(a) == {i \in CallsOf(a) : calls[i].kind # "refresh"}
SigningIn(p) == SignCallsOf(p) # {} \/ flow[p].sign = "signIn"

Clears(p) ==
  /\ flow[p].refresh = "clear" => mem[p] = NoPair
  /\ SigningIn(p) => /\ flow[p].refresh = "none" /\ mem[p] = NoPair
                     /\ RefreshCallsOf(p) = {}
  /\ \A i, j \in SignCallsOf(p) : i = j
  /\ flow[p].sign = "signIn" => SignCallsOf(p) = {}

Clearing == "leftover_401" \notin mishaps => \A p \in Phone : Clears(p)

LEMMA PhoneSignsIn ==
  ASSUME ServerInv, NEW p \in Phone, SigningIn(p)
  PROVE  HomeSignsIn(p)
  <1>1. p \in App /\ Home(p) = p /\ p # None
    BY AppHome, Bounds DEF App
  <1>2. QED
    BY <1>1 DEF SigningIn, SignCallsOf, CallsOf, HomeSignsIn

LEMMA StillClears ==
  ASSUME NEW p \in Phone, Clears(p), mem'[p] = mem[p], flow'[p].refresh = flow[p].refresh,
         RefreshCallsOf(p)' \subseteq RefreshCallsOf(p),
         SignCallsOf(p)' \subseteq SignCallsOf(p),
         flow'[p].sign = "signIn" => flow[p].sign = "signIn"
  PROVE  Clears(p)'
  BY DEF Clears, SigningIn

LEMMA SignersKept ==
  ASSUME SameCallers, NEW a \in App
  PROVE  SignCallsOf(a)' = SignCallsOf(a)
  <1>1. a # None
    BY Bounds
  <1>2. QED
    BY <1>1 DEF SameCallers, SignCallsOf, CallsOf

LEMMA SignersLeft ==
  ASSUME NEW i \in 1..CallBound, calls'[i] = None \/ calls'[i].app = None,
         \A j \in 1..CallBound : j # i => calls'[j] = calls[j], NEW a \in App
  PROVE  SignCallsOf(a)' = SignCallsOf(a) \ {i}
  <1>1. a # None
    BY Bounds
  <1>2. QED
    BY <1>1 DEF SignCallsOf, CallsOf

LEMMA RefresherStarts ==
  ASSUME ServerInv, rows' = rows, CanCall, NEW b \in App, NEW tok \in Held,
         calls' = WithCall(b, "refresh", tok), NEW a \in App
  PROVE  SignCallsOf(a)' = SignCallsOf(a)
  <1>1. /\ Place \in 1..CallBound /\ calls[Place] = None
        /\ calls'[Place] # None /\ calls'[Place].app = b /\ calls'[Place].kind = "refresh"
        /\ \A j \in 1..CallBound : j # Place => calls'[j] = calls[j]
    BY CallStarts, PlaceFree
  <1> DEFINE place == Place
  <1> HIDE DEF place
  <1>2. /\ place \in 1..CallBound /\ calls[place] = None
        /\ calls'[place] # None /\ calls'[place].app = b /\ calls'[place].kind = "refresh"
        /\ \A j \in 1..CallBound : j # place => calls'[j] = calls[j]
    BY <1>1 DEF place
  <1>3. QED
    BY <1>2 DEF SignCallsOf, CallsOf

LEMMA SignerStarts ==
  ASSUME ServerInv, rows' = rows, CanCall, NEW b \in App, NEW kind \in {"register", "login"},
         calls' = WithCall(b, kind, None), NEW a \in App
  PROVE  SignCallsOf(a)' = IF a = b THEN SignCallsOf(a) \cup {Place} ELSE SignCallsOf(a)
  <1>1. None \in Held /\ kind \in {"register", "login", "refresh"} /\ kind # "refresh"
    BY DEF Held
  <1>2. /\ Place \in 1..CallBound /\ calls[Place] = None
        /\ calls'[Place] # None /\ calls'[Place].app = b /\ calls'[Place].kind = kind
        /\ \A j \in 1..CallBound : j # Place => calls'[j] = calls[j]
    BY <1>1, CallStarts, PlaceFree
  <1> DEFINE place == Place
  <1> HIDE DEF place
  <1>3. /\ place \in 1..CallBound /\ calls[place] = None
        /\ calls'[place] # None /\ calls'[place].app = b /\ calls'[place].kind = kind
        /\ \A j \in 1..CallBound : j # place => calls'[j] = calls[j]
    BY <1>2 DEF place
  <1>4. SignCallsOf(a)' = IF a = b THEN SignCallsOf(a) \cup {place} ELSE SignCallsOf(a)
    BY <1>1, <1>3 DEF SignCallsOf, CallsOf
  <1>5. QED
    BY <1>4 DEF place

LEMMA RefreshEndsClears ==
  ASSUME ServerInv, NEW i \in 1..CallBound, calls[i] # None, calls[i].app \in App,
         calls[i].kind = "refresh",
         FailRefresh(calls[i].app),
         calls'[i] = None \/ calls'[i].app = None,
         \A j \in 1..CallBound : j # i => calls'[j] = calls[j],
         NEW p \in Phone, Clears(p)
  PROVE  Clears(p)'
  <1>1. ClientsOK /\ p \in App
    BY ServerParts DEF App
  <1>2. RefreshCallsOf(p)' = RefreshCallsOf(p) \ {i} /\ SignCallsOf(p)' = SignCallsOf(p) \ {i}
    BY <1>1, CallersLeft, SignersLeft
  <1>3. CASE p = calls[i].app
    <2>1. i \in RefreshCallsOf(p)
      BY <1>3 DEF RefreshCallsOf, CallsOf
    <2>2. SignCallsOf(p) = {} /\ flow[p].sign # "signIn"
      BY <2>1 DEF Clears, SigningIn
    <2>3. /\ mem'[p] = NoPair /\ flow'[p].refresh = "clear"
          /\ flow'[p].sign = "signOut" \/ flow'[p].sign = flow[p].sign
      BY <1>1, <1>3, FailRefreshFacts
    <2>4. SignCallsOf(p)' = {} /\ flow'[p].sign # "signIn"
      BY <1>2, <2>2, <2>3
    <2>5. QED
      BY <2>3, <2>4 DEF Clears, SigningIn
  <1>4. CASE p # calls[i].app
    <2>1. p # Home(calls[i].app)
      BY <1>4, AppHome DEF App
    <2>2. mem'[p] = mem[p] /\ flow'[p] = flow[p]
      BY <1>1, <1>4, <2>1, FailRefreshFacts
    <2>3. /\ SignCallsOf(p)' \subseteq SignCallsOf(p)
          /\ flow'[p].sign = "signIn" => flow[p].sign = "signIn"
      BY <1>2, <2>2
    <2>4. QED
      BY <1>2, <2>2, <2>3, StillClears
  <1>5. QED
    BY <1>3, <1>4

LEMMA CallsClear ==
  ASSUME ServerInv, NEW i \in 1..CallBound, NEW p \in Phone, Clears(p),
         ServerStep(i) \/ RefreshRefused(i) \/ RefreshAnswer(i) \/ Lost(i) \/ SignInAnswer(i)
  PROVE  Clears(p)'
  <1>1. ClientsOK /\ CallsOK /\ p \in App /\ AnswersAwaited /\ p \notin Tab
    BY ServerParts, AppHome DEF App
  <1>2. CASE ServerStep(i)
    <2>1. SameCallers
      BY <1>2, RegisterFindHolds, RegisterCreateHolds, LoginCheckHolds, StoreRefreshTokenHolds,
         RefreshFindHolds, RevocationBeginsHolds, RefreshRevokesHolds, RefreshExpiredHolds, RefreshRotateHolds
         DEF ServerStep
    <2>2. mem' = mem /\ flow' = flow
      BY <1>2 DEF ServerStep, RegisterFind, RegisterCreate, LoginCheck, StoreRefreshToken,
         RefreshFind, RevocationBegins, RefreshRevokes, RefreshExpired, RefreshRotate
    <2>3. RefreshCallsOf(p)' = RefreshCallsOf(p) /\ SignCallsOf(p)' = SignCallsOf(p)
      BY <1>1, <2>1, CallersKept, SignersKept
    <2>4. /\ SignCallsOf(p)' \subseteq SignCallsOf(p)
          /\ flow'[p].sign = "signIn" => flow[p].sign = "signIn"
      BY <2>2, <2>3
    <2>5. QED
      BY <2>2, <2>3, <2>4, StillClears
  <1>3. CASE RefreshRefused(i)
    <2>1. /\ calls[i] # None /\ calls[i].app \in App /\ calls[i].kind = "refresh"
          /\ FailRefresh(calls[i].app) /\ rows' = rows
          /\ calls' = [calls EXCEPT ![i] = None]
      BY <1>1, <1>3, CallTyped DEF RefreshRefused, AtPhase, AnswersAwaited, Call, serverVars
    <2>2. calls'[i] = None /\ \A j \in 1..CallBound : j # i => calls'[j] = calls[j]
      BY <2>1, CallEnds
    <2>3. QED
      BY <2>1, <2>2, RefreshEndsClears
  <1>4. CASE Lost(i)
    <2>1. /\ calls[i] # None /\ calls[i].app \in App
      BY <1>1, <1>4, CallTyped DEF Lost, Call
    <2>2. /\ calls'[i] = None \/ calls'[i].app = None
          /\ \A j \in 1..CallBound : j # i => calls'[j] = calls[j]
      <3>1. CASE AtPhase(i, "done")
        BY <1>1, <1>4, <3>1 DEF Lost, CallsOK
      <3>2. CASE ~AtPhase(i, "done")
        <4>1. calls' = [calls EXCEPT ![i] = [calls[i] EXCEPT !.app = None]]
          BY <1>1, <1>4, <3>2 DEF Lost, CallsOK
        <4>2. [calls[i] EXCEPT !.app = None].app = None
          BY <2>1, <3>2, CallForgotten DEF AtPhase
        <4>3. QED
          BY <1>1, <4>1, <4>2 DEF CallsOK
      <3>3. QED
        BY <3>1, <3>2
    <2>3. CASE calls[i].kind = "refresh"
      BY <1>4, <2>1, <2>2, <2>3, RefreshEndsClears DEF Lost
    <2>4. CASE calls[i].kind # "refresh"
      <3>1. RefreshCallsOf(p)' = RefreshCallsOf(p) \ {i} /\ SignCallsOf(p)' = SignCallsOf(p) \ {i}
        BY <1>1, <2>2, CallersLeft, SignersLeft
      <3>2. mem' = mem /\ flow' = flow
        BY <1>4, <2>4 DEF Lost
      <3>3. /\ SignCallsOf(p)' \subseteq SignCallsOf(p)
            /\ flow'[p].sign = "signIn" => flow[p].sign = "signIn"
        BY <3>1, <3>2
      <3>4. QED
        BY <3>1, <3>2, <3>3, StillClears
    <2>5. QED
      BY <2>3, <2>4
  <1>5. CASE RefreshAnswer(i) \/ SignInAnswer(i)
    <2> DEFINE b == calls[i].app
               t == calls[i].answer
    <2>1. /\ calls[i] # None /\ b \in App /\ rows' = rows
          /\ calls' = [calls EXCEPT ![i] = None]
      BY <1>1, <1>5, CallTyped DEF RefreshAnswer, SignInAnswer, AtPhase, AnswersAwaited, Call,
         serverVars
    <2>2. calls'[i] = None /\ \A j \in 1..CallBound : j # i => calls'[j] = calls[j]
      BY <2>1, CallEnds
    <2>3. RefreshCallsOf(p)' = RefreshCallsOf(p) \ {i} /\ SignCallsOf(p)' = SignCallsOf(p) \ {i}
      BY <1>1, <2>2, CallersLeft, SignersLeft
    <2>4. mem'[p] = mem[p]
      BY <1>1, <1>5, AppHome DEF RefreshAnswer, SignInAnswer, ClientsOK
    <2>5. CASE p # b \/ flow' = flow
      <3>1. flow'[p] = flow[p]
        BY <1>1, <1>5, <2>5 DEF RefreshAnswer, SignInAnswer, ClientsOK
      <3>2. /\ SignCallsOf(p)' \subseteq SignCallsOf(p)
            /\ flow'[p].sign = "signIn" => flow[p].sign = "signIn"
        BY <2>3, <3>1
      <3>3. QED
        BY <2>3, <2>4, <3>1, <3>2, StillClears
    <2>6. CASE p = b /\ RefreshAnswer(i)
      <3>1. i \in RefreshCallsOf(p)
        BY <2>1, <2>6 DEF RefreshCallsOf, CallsOf, RefreshAnswer
      <3>2. SignCallsOf(p) = {} /\ flow[p].sign # "signIn"
        BY <3>1 DEF Clears, SigningIn
      <3>3. flow' = [flow EXCEPT ![p] = [flow[p] EXCEPT !.refresh = "persist", !.new = t]]
        BY <1>1, <2>6 DEF RefreshAnswer, ClientsOK
      <3>4. flow'[p].refresh = "persist" /\ flow'[p].sign = flow[p].sign
        BY <1>1, <3>3 DEF ClientsOK, Flow
      <3>5. QED
        BY <2>3, <3>2, <3>4 DEF Clears, SigningIn
    <2>7. CASE p = b /\ SignInAnswer(i) /\ flow' # flow
      <3>1. i \in SignCallsOf(p)
        BY <2>1, <2>7 DEF SignCallsOf, CallsOf, SignInAnswer
      <3>2. flow[p].refresh = "none" /\ mem[p] = NoPair /\ RefreshCallsOf(p) = {}
        BY <3>1 DEF Clears, SigningIn
      <3>3. flow' = [flow EXCEPT ![p] = [flow[p] EXCEPT !.sign = "signIn", !.signed = t]]
        BY <1>1, <2>7 DEF SignInAnswer, ClientsOK
      <3>4. flow'[p].refresh = flow[p].refresh
        BY <1>1, <3>3 DEF ClientsOK, Flow
      <3>5. SignCallsOf(p)' = {}
        BY <2>3, <3>1 DEF Clears
      <3>6. QED
        BY <2>3, <2>4, <3>2, <3>4, <3>5 DEF Clears
    <2>8. QED
      BY <1>5, <2>5, <2>6, <2>7
  <1>6. QED
    BY <1>2, <1>3, <1>4, <1>5


LEMMA SameCallsClear ==
  ASSUME NEW p \in Phone, Clears(p), calls' = calls, mem'[p] = mem[p],
         flow'[p].refresh = flow[p].refresh, flow'[p].sign = "signIn" => flow[p].sign = "signIn"
  PROVE  Clears(p)'
  <1>1. RefreshCallsOf(p)' = RefreshCallsOf(p) /\ SignCallsOf(p)' = SignCallsOf(p)
    BY DEF RefreshCallsOf, SignCallsOf, CallsOf
  <1>2. /\ SignCallsOf(p)' \subseteq SignCallsOf(p)
        /\ flow'[p].sign = "signIn" => flow[p].sign = "signIn"
    BY <1>1
  <1>3. QED
    BY <1>1, <1>2, StillClears

LEMMA RequestsClear ==
  ASSUME ServerInv, NEW p \in Phone, Clears(p), NEW q \in Request,
         \/ Served(q) \/ Reject(q) \/ JoinQueue(q)
         \/ \E b \in App : SendRequest(b, q) \/ SendLogout(b, q)
  PROVE  Clears(p)'
  <1>1. ClientsOK /\ p \in App /\ p \notin Tab /\ p # Browser
    BY ServerParts, AppHome DEF App
  <1>2. calls' = calls
    BY DEF Served, Reject, JoinQueue, SendRequest, SendLogout
  <1>3. CASE Served(q) \/ Reject(q)
    <2>1. req[q] # None /\ Finish(q)
      BY <1>3 DEF Served, Reject, Unauthorized
    <2>2. /\ flow'[p].refresh = flow[p].refresh /\ req[q].app \in App
          /\ req[q].body = None => UNCHANGED <<mem, flow>>
          /\ req[q].body # None => FinishLogout(req[q].app)
      BY <1>1, <2>1, FinishFacts
    <2>3. CASE req[q].body = None
      BY <1>2, <2>2, <2>3, SameCallsClear
    <2>4. CASE req[q].body # None
      <3>1. mem'[p] = mem[p]
        BY <1>1, <2>2, <2>4, FinishLogoutFacts DEF App
      <3>2. flow'[p].sign = "signOut" \/ flow'[p].sign = flow[p].sign
        BY <1>1, <2>2, <2>4, FinishLogoutFacts DEF App
      <3>3. QED
        BY <1>2, <2>2, <3>1, <3>2, SameCallsClear
    <2>5. QED
      BY <2>3, <2>4
  <1>4. CASE JoinQueue(q) \/ \E b \in App : SendRequest(b, q) \/ SendLogout(b, q)
    <2>1. mem' = mem /\ flow' = flow
      BY <1>4 DEF JoinQueue, SendRequest, SendLogout
    <2>2. QED
      BY <1>2, <2>1, SameCallsClear
  <1>5. QED
    BY <1>3, <1>4

LEMMA StartRefreshClears ==
  ASSUME ServerInv, NEW p \in Phone, Clears(p), NEW q \in Request, StartRefresh(q)
  PROVE  Clears(p)'
  <1> DEFINE b == req[q].app
  <1>1. ClientsOK /\ p \in App /\ p \notin Tab /\ Home(p) = p
    BY ServerParts, AppHome DEF App
  <1>2. /\ req[q] # None /\ ~Refreshing(b) /\ b \in App /\ mem[Home(b)].refresh # None
        /\ CanCall /\ calls' = WithCall(b, "refresh", mem[Home(b)].refresh)
        /\ flow' = flow /\ mem' = mem /\ rows' = rows
    BY <1>1 DEF StartRefresh, Unauthorized, Queues, ClientsOK, Sent, serverVars
  <1>3. mem[Home(b)].refresh \in Held
    BY <1>1, <1>2, AppHome DEF ClientsOK, Pair
  <1>4. /\ RefreshCallsOf(p)' = IF p = b THEN RefreshCallsOf(p) \cup {Place} ELSE RefreshCallsOf(p)
        /\ SignCallsOf(p)' = SignCallsOf(p)
    BY <1>1, <1>2, <1>3, CallersJoined, RefresherStarts
  <1>5. /\ SignCallsOf(p)' \subseteq SignCallsOf(p)
        /\ flow'[p].sign = "signIn" => flow[p].sign = "signIn"
    BY <1>2, <1>4
  <1>6. CASE p = b
    <2>1. ~SigningIn(p)
      BY <1>1, <1>2, <1>6 DEF Clears, NoPair
    <2>2. QED
      BY <1>2, <1>5, <2>1 DEF Clears, SigningIn
  <1>7. CASE p # b
    BY <1>2, <1>4, <1>5, <1>7, StillClears
  <1>8. QED
    BY <1>6, <1>7

LEMMA NoTokenClears ==
  ASSUME ServerInv, NEW p \in Phone, Clears(p), NEW q \in Request, NoTokenToRefresh(q),
         "leftover_401" \notin mishaps'
  PROVE  Clears(p)'
  <1> DEFINE b == req[q].app
  <1>1. ClientsOK /\ p \in App /\ p \notin Tab /\ p # Browser /\ Home(p) = p
    BY ServerParts, AppHome DEF App
  <1>2. /\ req[q] # None /\ ~Refreshing(b) /\ b \in App /\ calls' = calls
        /\ ~HomeSignsIn(Home(b))
    BY <1>1, Notes DEF NoTokenToRefresh, Unauthorized, Queues, ClientsOK, Sent
  <1>3. CASE b \in Tab
    <2>1. mem'[p] = mem[p] /\ flow' = flow
      BY <1>1, <1>2, <1>3, FailRefreshFacts DEF NoTokenToRefresh
    <2>2. QED
      BY <1>2, <2>1, SameCallsClear
  <1>4. CASE b \notin Tab
    <2>1. /\ b \in Phone
          /\ flow' = [flow EXCEPT ![b].refresh = "clear"]
          /\ mem' = [mem EXCEPT ![b] = NoPair]
      BY <1>2, <1>4 DEF NoTokenToRefresh, App
    <2>2. CASE p = b
      <3>1. mem'[p] = NoPair /\ flow'[p].sign = flow[p].sign
        BY <1>1, <2>1, <2>2 DEF ClientsOK, Flow
      <3>2. ~SigningIn(p)
        BY <1>1, <1>2, <2>2, PhoneSignsIn
      <3>3. SignCallsOf(p)' = {} /\ flow'[p].sign # "signIn"
        BY <1>2, <3>1, <3>2 DEF SigningIn, SignCallsOf, CallsOf
      <3>4. QED
        BY <3>1, <3>3 DEF Clears, SigningIn
    <2>3. CASE p # b
      <3>1. mem'[p] = mem[p] /\ flow'[p] = flow[p]
        BY <1>1, <2>1, <2>3 DEF ClientsOK
      <3>2. QED
        BY <1>2, <3>1, SameCallsClear
    <2>4. QED
      BY <2>2, <2>3
  <1>5. QED
    BY <1>3, <1>4

LEMMA SubmitClears ==
  ASSUME ServerInv, NEW p \in Phone, Clears(p), NEW b \in App, SignInSubmit(b)
  PROVE  Clears(p)'
  <1>1. p \in App /\ Home(p) = p /\ p \notin Tab /\ None \in Held
    BY AppHome DEF App, Held
  <1>2. PICK kind \in {"register", "login"} : calls' = WithCall(b, kind, None)
    BY DEF SignInSubmit
  <1>3. rows' = rows /\ CanCall /\ mem' = mem /\ flow' = flow
        /\ kind \in {"register", "login", "refresh"} /\ kind # "refresh"
    BY DEF SignInSubmit, serverVars
  <1>4. RefreshCallsOf(p)' = RefreshCallsOf(p)
    BY <1>1, <1>2, <1>3, CallersJoined
  <1>5. CASE p = b
    <2>1. /\ mem[p] = NoPair /\ flow[p].refresh = "none" /\ flow[p].sign = "none"
          /\ RefreshCallsOf(p) = {} /\ SignCallsOf(p) = {}
      BY <1>1, <1>5 DEF SignInSubmit, Idle, NoFlow, RefreshCallsOf, SignCallsOf
    <2>2. SignCallsOf(p)' = {Place}
      BY <1>1, <1>2, <1>3, <1>5, <2>1, SignerStarts
    <2>3. QED
      BY <1>3, <1>4, <2>1, <2>2 DEF Clears
  <1>6. CASE p # b
    <2>1. SignCallsOf(p)' = SignCallsOf(p)
      BY <1>1, <1>2, <1>3, <1>6, SignerStarts
    <2>2. /\ SignCallsOf(p)' \subseteq SignCallsOf(p)
          /\ flow'[p].sign = "signIn" => flow[p].sign = "signIn"
      BY <1>3, <2>1
    <2>3. QED
      BY <1>3, <1>4, <2>2, StillClears
  <1>7. QED
    BY <1>5, <1>6

LEMMA PhonesClear ==
  ASSUME ServerInv, NEW p \in Phone, Clears(p), NEW r \in Phone,
         SignedIn(r) \/ SignedOut(r) \/ SignOut(r) \/ Cleared(r) \/ Persisted(r)
  PROVE  Clears(p)'
  <1>1. ClientsOK /\ p \notin Tab /\ r \in App
    BY ServerParts, AppHome DEF App
  <1>2. calls' = calls
    BY DEF SignedIn, SignedOut, SignOut, Cleared, Persisted
  <1>3. RefreshCallsOf(p)' = RefreshCallsOf(p) /\ SignCallsOf(p)' = SignCallsOf(p)
    BY <1>2 DEF RefreshCallsOf, SignCallsOf, CallsOf
  <1>4. CASE p # r
    <2>1. CASE SignOut(r)
      <3>1. FinishLogout(r)
        BY <2>1 DEF SignOut
      <3>2. mem'[p] = mem[p] /\ flow'[p] = flow[p]
        BY <1>1, <1>4, <3>1, FinishLogoutFacts
      <3>3. QED
        BY <1>2, <3>2, SameCallsClear
    <2>2. CASE ~SignOut(r)
      <3>1. mem'[p] = mem[p] /\ flow'[p] = flow[p]
        BY <1>1, <1>4, <2>2 DEF SignedIn, SignedOut, Cleared, Persisted, ClientsOK
      <3>2. QED
        BY <1>2, <3>1, SameCallsClear
    <2>3. QED
      BY <2>1, <2>2
  <1>5. CASE p = r /\ SignedIn(r)
    <2>1. /\ flow[p].refresh = "none" /\ RefreshCallsOf(p) = {} /\ SignCallsOf(p)' = SignCallsOf(p)
          /\ flow'[p].refresh = "none" /\ flow'[p].sign = "none"
      BY <1>1, <1>3, <1>5 DEF SignedIn, Clears, SigningIn, ClientsOK, Flow
    <2>2. SignCallsOf(p) = {}
      BY <1>5 DEF SignedIn, Clears
    <2>3. QED
      BY <1>3, <2>1, <2>2 DEF Clears, SigningIn
  <1>6. CASE p = r /\ SignedOut(r)
    <2>1. mem'[p] = NoPair /\ flow'[p].refresh = flow[p].refresh /\ flow'[p].sign = "none"
      BY <1>1, <1>6 DEF SignedOut, ClientsOK, Flow
    <2>2. SigningIn(p)' => SigningIn(p)
      BY <1>3, <2>1 DEF SigningIn
    <2>3. QED
      BY <1>3, <2>1, <2>2 DEF Clears
  <1>7. CASE p = r /\ SignOut(r)
    <2>1. /\ mem' = mem /\ flow'[p].refresh = flow[p].refresh
          /\ flow'[p].sign = "signOut"
      BY <1>1, <1>7, FinishLogoutFacts DEF SignOut
    <2>2. QED
      BY <1>2, <2>1, SameCallsClear
  <1>8. CASE p = r /\ Cleared(r)
    <2>1. /\ mem' = mem /\ flow[p].refresh = "clear" /\ flow'[p].refresh = "none"
          /\ flow'[p].sign = "signIn" => flow[p].sign = "signIn"
      BY <1>1, <1>8 DEF Cleared, ClientsOK, Flow
    <2>2. QED
      BY <1>3, <2>1 DEF Clears, SigningIn
  <1>9. CASE p = r /\ Persisted(r)
    <2>1. /\ flow[p].refresh = "persist" /\ flow'[p].refresh = "none"
          /\ flow'[p].sign = flow[p].sign
      BY <1>1, <1>9 DEF Persisted, ClientsOK, Flow
    <2>2. QED
      BY <1>3, <2>1 DEF Clears, SigningIn
  <1>10. QED
    BY <1>4, <1>5, <1>6, <1>7, <1>8, <1>9


LEMMA KilledCalls ==
  ASSUME ServerInv, NEW p \in Phone, Kill(p)
  PROVE  /\ \A i \in CallsOf(p) : calls'[i] = None \/ calls'[i].app = None
         /\ \A i \in (1..CallBound) \ CallsOf(p) : calls'[i] = calls[i]
         /\ CallsOf(p)' = {} /\ \A a \in App \ {p} : CallsOf(a)' = CallsOf(a)
         /\ \A a \in App \ {p} : RefreshCallsOf(a)' = RefreshCallsOf(a)
         /\ \A a \in App \ {p} : SignCallsOf(a)' = SignCallsOf(a)
  <1>1. p # None /\ None \notin App
    BY Bounds DEF App
  <1>2. ASSUME NEW i \in CallsOf(p)
        PROVE  calls'[i] = None \/ calls'[i].app = None
    <2>1. i \in 1..CallBound /\ calls[i] # None
      BY <1>2 DEF CallsOf
    <2>2. CASE AtPhase(i, "done")
      BY <1>2, <2>1, <2>2 DEF Kill
    <2>3. CASE ~AtPhase(i, "done")
      <3>1. calls'[i] = [calls[i] EXCEPT !.app = None]
        BY <1>2, <2>1, <2>3 DEF Kill
      <3>2. QED
        BY <2>1, <2>3, <3>1, CallForgotten DEF AtPhase
    <2>4. QED
      BY <2>2, <2>3
  <1>3. \A i \in (1..CallBound) \ CallsOf(p) : calls'[i] = calls[i]
    BY DEF Kill
  <1>4. CallsOf(p)' = {}
    BY <1>1, <1>2, <1>3 DEF CallsOf
  <1>5. ASSUME NEW a \in App \ {p}
        PROVE  /\ CallsOf(a)' = CallsOf(a) /\ RefreshCallsOf(a)' = RefreshCallsOf(a)
               /\ SignCallsOf(a)' = SignCallsOf(a)
    <2>1. ASSUME NEW i \in 1..CallBound
          PROVE  /\ i \in CallsOf(a)' <=> i \in CallsOf(a)
                 /\ i \in CallsOf(a) => calls'[i] = calls[i]
      BY <1>1, <1>2, <1>3 DEF CallsOf
    <2>2. CallsOf(a)' = CallsOf(a)
      BY <2>1 DEF CallsOf
    <2>3. QED
      BY <2>1, <2>2 DEF RefreshCallsOf, SignCallsOf, CallsOf
  <1>6. QED
    BY <1>2, <1>3, <1>4, <1>5

LEMMA KillClears ==
  ASSUME ServerInv, NEW p \in Phone, Clears(p), NEW r \in Phone, Kill(r)
  PROVE  Clears(p)'
  <1>1. ClientsOK /\ p \in App
    BY ServerParts DEF App
  <1>2. CASE p = r
    <2>1. flow'[p] = NoFlow
      BY <1>1, <1>2 DEF Kill, ClientsOK
    <2>2. SignCallsOf(p)' = {}
      BY <1>2, KilledCalls DEF SignCallsOf
    <2>3. QED
      BY <2>1, <2>2 DEF Clears, SigningIn, NoFlow
  <1>3. CASE p # r
    <2>1. flow'[p] = flow[p] /\ mem'[p] = mem[p]
      BY <1>1, <1>3 DEF Kill, ClientsOK
    <2>2. RefreshCallsOf(p)' = RefreshCallsOf(p) /\ SignCallsOf(p)' = SignCallsOf(p)
      BY <1>1, <1>3, KilledCalls
    <2>3. QED
      BY <2>1, <2>2, StillClears
  <1>4. QED
    BY <1>2, <1>3

LEMMA ClearingStep ==
  ASSUME TokensInv, Clearing, [TokensNext]_tokenVars
  PROVE  Clearing'
  <1>1. CASE TokensNext
    <2> SUFFICES ASSUME "leftover_401" \notin mishaps', NEW p \in Phone
                 PROVE  Clears(p)'
      BY DEF Clearing
    <2>1. ServerInv /\ Clears(p)
      BY <1>1, MishapsGrow DEF TokensInv, Clearing
    <2>2. ASSUME NEW i \in 1..CallBound,
                 \/ ServerStep(i) \/ RefreshRefused(i) \/ RefreshAnswer(i) \/ Lost(i)
                 \/ SignInAnswer(i)
          PROVE  Clears(p)'
      BY <2>1, <2>2, CallsClear
    <2>3. ASSUME NEW q \in Request,
                 \/ Served(q) \/ Reject(q) \/ JoinQueue(q)
                 \/ \E b \in App : SendRequest(b, q) \/ SendLogout(b, q)
          PROVE  Clears(p)'
      BY <2>1, <2>3, RequestsClear
    <2>4. ASSUME NEW q \in Request, StartRefresh(q) \/ NoTokenToRefresh(q)
          PROVE  Clears(p)'
      BY <2>1, <2>4, StartRefreshClears, NoTokenClears
    <2>5. ASSUME NEW b \in App, SignInSubmit(b)
          PROVE  Clears(p)'
      BY <2>1, <2>5, SubmitClears
    <2>6. ASSUME NEW r \in Phone,
                 SignedIn(r) \/ SignedOut(r) \/ SignOut(r) \/ Cleared(r) \/ Persisted(r) \/ Kill(r)
          PROVE  Clears(p)'
      BY <2>1, <2>6, PhonesClear, KillClears
    <2>7. ASSUME AccessTokensExpire \/ RefreshTokensExpire \/ Bar
          PROVE  Clears(p)'
      <3>1. calls' = calls /\ mem' = mem /\ flow' = flow
        BY <2>7 DEF AccessTokensExpire, RefreshTokensExpire, Bar
      <3>2. QED
        BY <2>1, <3>1, SameCallsClear
    <2>8. QED
      BY <1>1, <2>2, <2>3, <2>4, <2>5, <2>6, <2>7 DEF TokensNext
  <1>2. CASE UNCHANGED tokenVars
    <2> SUFFICES ASSUME "leftover_401" \notin mishaps', NEW p \in Phone
                 PROVE  Clears(p)'
      BY DEF Clearing
    <2>1. Clears(p) /\ calls' = calls /\ mem' = mem /\ flow' = flow
      BY <1>2 DEF tokenVars, Clearing
    <2>2. QED
      BY <2>1, SameCallsClear
  <1>3. QED
    BY <1>1, <1>2

LEMMA ClearingAlways == TokensSpec => []Clearing
  <1>1. TokensInit => Clearing
    BY DEF TokensInit, Clearing, Clears, SigningIn, SignCallsOf, CallsOf, NoFlow
  <1>2. QED
    BY <1>1, ClearingStep, TokensAlways, PTL DEF TokensSpec

-----------------------------------------------------------------------------
(* Where a refresh token is: in an answer on its way, in the pair a phone  *)
(* is writing to its store, or at home, in memory and in the logouts sent. *)
Homes == Phone \cup {Browser}
Slot == ({"call"} \X (1..CallBound)) \cup ({"new", "signed"} \X Phone) \cup ({"home"} \X Homes)

CallTokens(i) == {x \in Second : AtPhase(i, "done") /\ calls[i].answer = x}
NewTokens(p) == {x \in Second : flow[p].new = x}
SignedTokens(p) == {x \in Second : flow[p].signed = x}
HomeTokens(h) ==
  {x \in Second : mem[h].refresh = x \/ \E q \in LogoutsOf(h) : req[q].body = x}

TokensIn(s) ==
  CASE s[1] = "call"   -> CallTokens(s[2])
    [] s[1] = "new"    -> NewTokens(s[2])
    [] s[1] = "signed" -> SignedTokens(s[2])
    [] OTHER           -> HomeTokens(s[2])

(* A refresh under way asks for the token it was sent, or has found. *)
Asks(i) == calls[i] # None /\ calls[i].kind = "refresh" /\ calls[i].phase # "done"
Asked(i) == IF AtPhase(i, "sent") THEN calls[i].tok ELSE rows[calls[i].row].tok

Bounded ==
  /\ \A s \in Slot : \A x \in TokensIn(s) : x <= clock
  /\ \A i \in 1..CallBound : Asks(i) => Asked(i) \in 1..clock

(* No token is in two places. *)
Apart == \A s, u \in Slot : \A x \in TokensIn(s) \cap TokensIn(u) : s = u

(* A token that its client may still use is the last of its family, and    *)
(* nobody is exchanging it.                                                *)
Latest(x) ==
  \A m, n \in DOMAIN rows :
    rows[m].tok = x /\ rows[n].family = rows[m].family /\ Live(rows[n]) => n = m
Fresh(x) == Latest(x) /\ \A i \in 1..CallBound : Asks(i) => Asked(i) # x

InUse(x) ==
  \/ \E i \in 1..CallBound : x \in CallTokens(i)
  \/ \E p \in Phone : x \in NewTokens(p) \cup SignedTokens(p)
  \/ \E q \in Request : req[q] # None /\ req[q].body = x
  \/ \E h \in Homes : mem[h].refresh = x /\ ~HomeRefreshes(h)

AllFresh == \A x \in Second : InUse(x) => Fresh(x)
LeftIsDead == \A n \in DOMAIN rows : rows[n].family \in left => rows[n].revoked

Mild == mishaps \subseteq {"lost", "late_401", "idle", "bar"}
TokensKept == Mild => Bounded /\ Apart /\ AllFresh /\ LeftIsDead

(* Places, and what a step may do to what they hold. *)
LEMMA SlotIs ==
  ASSUME NEW s
  PROVE  s \in Slot <=> \/ \E i \in 1..CallBound : s = <<"call", i>>
                        \/ \E p \in Phone : s = <<"new", p>> \/ s = <<"signed", p>>
                        \/ \E h \in Homes : s = <<"home", h>>
  BY DEF Slot

LEMMA SlotHolds ==
  /\ \A i \in 1..CallBound : <<"call", i>> \in Slot /\ TokensIn(<<"call", i>>) = CallTokens(i)
  /\ \A p \in Phone : /\ <<"new", p>> \in Slot /\ TokensIn(<<"new", p>>) = NewTokens(p)
                      /\ <<"signed", p>> \in Slot /\ TokensIn(<<"signed", p>>) = SignedTokens(p)
  /\ \A h \in Homes : <<"home", h>> \in Slot /\ TokensIn(<<"home", h>>) = HomeTokens(h)
  BY DEF Slot, TokensIn

LEMMA SlotHoldsNext ==
  /\ \A i \in 1..CallBound : TokensIn(<<"call", i>>)' = CallTokens(i)'
  /\ \A p \in Phone : /\ TokensIn(<<"new", p>>)' = NewTokens(p)'
                      /\ TokensIn(<<"signed", p>>)' = SignedTokens(p)'
  /\ \A h \in Homes : TokensIn(<<"home", h>>)' = HomeTokens(h)'
  BY DEF TokensIn

LEMMA SlotTokens ==
  ASSUME NEW s \in Slot
  PROVE  TokensIn(s) \subseteq Second /\ TokensIn(s)' \subseteq Second
  <1>1. /\ \A i \in 1..CallBound : CallTokens(i) \subseteq Second /\ CallTokens(i)' \subseteq Second
        /\ \A p \in Phone : /\ NewTokens(p) \subseteq Second /\ NewTokens(p)' \subseteq Second
                            /\ SignedTokens(p) \subseteq Second /\ SignedTokens(p)' \subseteq Second
        /\ \A h \in Homes : HomeTokens(h) \subseteq Second /\ HomeTokens(h)' \subseteq Second
    BY DEF CallTokens, NewTokens, SignedTokens, HomeTokens
  <1>2. CASE \E i \in 1..CallBound : s = <<"call", i>>
    BY <1>1, <1>2, SlotHolds, SlotHoldsNext
  <1>3. CASE \E p \in Phone : s = <<"new", p>>
    BY <1>1, <1>3, SlotHolds, SlotHoldsNext
  <1>4. CASE \E p \in Phone : s = <<"signed", p>>
    BY <1>1, <1>4, SlotHolds, SlotHoldsNext
  <1>5. CASE \E h \in Homes : s = <<"home", h>>
    BY <1>1, <1>5, SlotHolds, SlotHoldsNext
  <1>6. QED
    BY <1>2, <1>3, <1>4, <1>5, SlotIs

LEMMA SlotsDiffer ==
  /\ \A i, j : <<"call", i>> = <<"call", j>> => i = j
  /\ \A i, j : <<"home", i>> = <<"home", j>> => i = j
  /\ \A i, j : <<"new", i>> = <<"new", j>> => i = j
  /\ \A i, j : <<"signed", i>> = <<"signed", j>> => i = j
  /\ \A i, j : <<"call", i>> # <<"home", j>> /\ <<"call", i>> # <<"new", j>>
  /\ \A i, j : <<"call", i>> # <<"signed", j>> /\ <<"new", i>> # <<"signed", j>>
  /\ \A i, j : <<"new", i>> # <<"home", j>> /\ <<"signed", i>> # <<"home", j>>
  OBVIOUS

(* Nothing moves, a token moves, or one is signed. *)
LEMMA TokensStay ==
  ASSUME Apart, \A s \in Slot : TokensIn(s)' \subseteq TokensIn(s)
  PROVE  Apart'
  BY DEF Apart

LEMMA TokenMoves ==
  ASSUME Apart, NEW u \in Slot, NEW v \in Slot, TokensIn(u)' = {},
         TokensIn(v)' \subseteq TokensIn(u) \cup TokensIn(v),
         \A s \in Slot \ {u, v} : TokensIn(s)' \subseteq TokensIn(s)
  PROVE  Apart'
  BY DEF Apart

LEMMA TokenSigned ==
  ASSUME Apart, NEW v \in Slot, NEW t \in Second,
         \A s \in Slot : \A x \in TokensIn(s) : x # t,
         TokensIn(v)' \subseteq {t},
         \A s \in Slot \ {v} : TokensIn(s)' \subseteq TokensIn(s)
  PROVE  Apart'
  BY DEF Apart


(* What holds of the tokens while only mild mishaps happen. *)
Safe == Bounded /\ Apart /\ AllFresh /\ LeftIsDead

LEMMA SlotsShrink ==
  ASSUME NEW u, NEW v,
         \A i \in 1..CallBound : <<"call", i>> \notin {u, v} => CallTokens(i)' \subseteq CallTokens(i),
         \A p \in Phone : <<"new", p>> \notin {u, v} => NewTokens(p)' \subseteq NewTokens(p),
         \A p \in Phone : <<"signed", p>> \notin {u, v} => SignedTokens(p)' \subseteq SignedTokens(p),
         \A h \in Homes : <<"home", h>> \notin {u, v} => HomeTokens(h)' \subseteq HomeTokens(h)
  PROVE  \A s \in Slot \ {u, v} : TokensIn(s)' \subseteq TokensIn(s)
  <1> SUFFICES ASSUME NEW s \in Slot, s \notin {u, v}
               PROVE  TokensIn(s)' \subseteq TokensIn(s)
    OBVIOUS
  <1>1. CASE \E i \in 1..CallBound : s = <<"call", i>>
    BY <1>1, SlotHolds, SlotHoldsNext
  <1>2. CASE \E p \in Phone : s = <<"new", p>>
    BY <1>2, SlotHolds, SlotHoldsNext
  <1>3. CASE \E p \in Phone : s = <<"signed", p>>
    BY <1>3, SlotHolds, SlotHoldsNext
  <1>4. CASE \E h \in Homes : s = <<"home", h>>
    BY <1>4, SlotHolds, SlotHoldsNext
  <1>5. QED
    BY <1>1, <1>2, <1>3, <1>4, SlotIs

(* A step in which no token is signed, and one may move from u to v. *)
LEMMA TokensSafe ==
  ASSUME Safe, clock \in Nat, clock' \in Nat, clock' >= clock, NEW u \in Slot, NEW v \in Slot,
         u # v => TokensIn(u)' = {},
         TokensIn(v)' \subseteq TokensIn(u) \cup TokensIn(v),
         \A s \in Slot \ {u, v} : TokensIn(s)' \subseteq TokensIn(s),
         \A x \in Second : InUse(x)' => InUse(x),
         \A x \in Second : InUse(x)' => Fresh(x)',
         \A i \in 1..CallBound : Asks(i)' => Asked(i)' \in 1..clock,
         LeftIsDead'
  PROVE  Safe'
  <1>1. Apart'
    <2>1. CASE u = v
      BY <2>1, TokensStay DEF Safe
    <2>2. CASE u # v
      BY <2>2, TokenMoves DEF Safe
    <2>3. QED
      BY <2>1, <2>2
  <1>2. ASSUME NEW s \in Slot, NEW x \in TokensIn(s)'
        PROVE  x <= clock'
    <2>1. \E w \in Slot : x \in TokensIn(w)
      BY <1>2
    <2>2. x \in Second
      BY <2>1, SlotTokens
    <2>3. x <= clock /\ x \in Nat
      BY <2>1, <2>2, Numbers DEF Safe, Bounded, Second
    <2>4. QED
      BY <2>3
  <1>3. Bounded'
    BY <1>2 DEF Bounded
  <1>4. AllFresh'
    BY DEF AllFresh
  <1>5. QED
    BY <1>1, <1>3, <1>4 DEF Safe

AsksKept == \A i \in 1..CallBound : Asks(i)' => Asks(i) /\ Asked(i)' = Asked(i)

(* Rows that are at most revoked: a fresh token stays fresh. *)
LEMMA RevokedStaysFresh ==
  ASSUME RowsOK, Revoked(rows'), AsksKept, NEW x \in Second, Fresh(x)
  PROVE  Fresh(x)'
  <1>1. /\ Len(rows') = Len(rows) /\ DOMAIN rows' = 1..Len(rows) /\ DOMAIN rows = 1..Len(rows)
        /\ \A n \in 1..Len(rows) : /\ rows'[n].tok = rows[n].tok
                                   /\ rows'[n].family = rows[n].family
                                   /\ Live(rows'[n]) => Live(rows[n])
    BY DEF Revoked, RowsOK
  <1>2. Latest(x)'
    BY <1>1 DEF Fresh, Latest
  <1>3. QED
    BY <1>2 DEF Fresh, AsksKept

LEMMA RevokedStaysDead ==
  ASSUME RowsOK, Revoked(rows'), left' = left, LeftIsDead
  PROVE  LeftIsDead'
  <1>1. /\ DOMAIN rows' = 1..Len(rows) /\ DOMAIN rows = 1..Len(rows)
        /\ \A n \in 1..Len(rows) : /\ rows'[n].family = rows[n].family
                                   /\ Live(rows'[n]) => Live(rows[n])
    BY DEF Revoked, RowsOK
  <1>2. QED
    BY <1>1 DEF LeftIsDead, Live

LEMMA SameRows ==
  ASSUME RowsOK, rows' = rows
  PROVE  Revoked(rows')
  BY DEF RowsOK, Revoked

(* Calls that ask for a token, or answer with one, go on as they were. *)
CallsQuiet ==
  \A j \in 1..CallBound :
    /\ calls'[j] # None
    /\ IF calls'[j].phase = "done" THEN calls'[j].answer # None ELSE calls'[j].kind = "refresh"
    =>
      /\ calls[j] # None /\ calls'[j].kind = calls[j].kind /\ calls'[j].phase = calls[j].phase
      /\ calls'[j].tok = calls[j].tok /\ calls'[j].row = calls[j].row
      /\ calls'[j].answer = calls[j].answer

LEMMA QuietCalls ==
  ASSUME ServerInv, CallsQuiet, Revoked(rows')
  PROVE  AsksKept /\ \A i \in 1..CallBound : CallTokens(i)' \subseteq CallTokens(i)
  <1>1. ASSUME NEW i \in 1..CallBound, Asks(i)'
        PROVE  Asks(i) /\ Asked(i)' = Asked(i)
    <2>1. /\ calls[i] # None /\ calls'[i] # None /\ calls'[i].kind = calls[i].kind
          /\ calls'[i].phase = calls[i].phase
          /\ calls'[i].tok = calls[i].tok /\ calls'[i].row = calls[i].row
          /\ calls'[i].kind = "refresh" /\ calls'[i].phase # "done"
      BY <1>1 DEF Asks, CallsQuiet
    <2>2. calls[i] \in Call /\ GoodCall(calls[i], Len(rows)) /\ Len(rows) \in Nat
      BY <2>1, ServerParts, CallTyped
    <2>3. CASE calls[i].phase = "sent"
      BY <2>1, <2>3 DEF Asks, Asked, AtPhase
    <2>4. CASE calls[i].phase # "sent"
      <3>1. calls[i].row \in 1..Len(rows)
        BY <2>1, <2>2, <2>4, Numbers DEF GoodCall, Call
      <3>2. rows'[calls[i].row].tok = rows[calls[i].row].tok
        BY <3>1 DEF Revoked
      <3>3. QED
        BY <2>1, <2>4, <3>2 DEF Asks, Asked, AtPhase
    <2>5. QED
      BY <2>3, <2>4
  <1>2. ASSUME NEW i \in 1..CallBound, NEW x \in CallTokens(i)'
        PROVE  x \in CallTokens(i)
    <2>1. x # None
      BY <1>2, Bounds, Numbers DEF CallTokens, Second
    <2>2. QED
      BY <1>2, <2>1 DEF CallTokens, AtPhase, CallsQuiet
  <1>3. QED
    BY <1>1, <1>2 DEF AsksKept

LEMMA AskedBound ==
  ASSUME Safe, AsksKept
  PROVE  \A i \in 1..CallBound : Asks(i)' => Asked(i)' \in 1..clock
  BY DEF Safe, Bounded, AsksKept

(* Requests that carry a token carry the one they carried. *)
LogoutsQuiet ==
  \A q \in Request : req'[q] # None /\ req'[q].body # None =>
    req[q] # None /\ req'[q].body = req[q].body /\ req'[q].app = req[q].app

LEMMA LogoutsTokens ==
  ASSUME LogoutsQuiet, NEW h, NEW x \in Second, \E q \in LogoutsOf(h)' : req'[q].body = x
  PROVE  \E q \in LogoutsOf(h) : req[q].body = x
  BY DEF LogoutsQuiet, LogoutsOf

(* A step in which tokens are at most forgotten. *)
LEMMA QuietTokens ==
  ASSUME LogoutsQuiet, \A i \in 1..CallBound : CallTokens(i)' \subseteq CallTokens(i),
         \A p \in Phone : flow'[p].new \in {flow[p].new, None},
         \A p \in Phone : flow'[p].signed \in {flow[p].signed, None},
         \A h \in Homes : mem'[h].refresh \in {mem[h].refresh, None},
         \A h \in Homes : mem'[h].refresh # None /\ HomeRefreshes(h) => HomeRefreshes(h)'
  PROVE  /\ \A s \in Slot : TokensIn(s)' \subseteq TokensIn(s)
         /\ \A x \in Second : InUse(x)' => InUse(x)
  <1>1. \A x \in Second : x # None
    BY Bounds, Numbers DEF Second
  <1>2. \A p \in Phone : NewTokens(p)' \subseteq NewTokens(p) /\ SignedTokens(p)' \subseteq SignedTokens(p)
    BY <1>1 DEF NewTokens, SignedTokens
  <1>3. \A h \in Homes : HomeTokens(h)' \subseteq HomeTokens(h)
    <2> SUFFICES ASSUME NEW h \in Homes, NEW x \in HomeTokens(h)'
                 PROVE  x \in HomeTokens(h)
      OBVIOUS
    <2>1. x \in Second /\ (mem'[h].refresh = x \/ \E q \in LogoutsOf(h)' : req'[q].body = x)
      BY DEF HomeTokens
    <2>2. mem[h].refresh = x \/ \E q \in LogoutsOf(h) : req[q].body = x
      BY <1>1, <2>1, LogoutsTokens
    <2>3. QED
      BY <2>1, <2>2 DEF HomeTokens
  <1>4. \A s \in Slot : TokensIn(s)' \subseteq TokensIn(s)
    <2> SUFFICES ASSUME NEW s \in Slot
                 PROVE  TokensIn(s)' \subseteq TokensIn(s)
      OBVIOUS
    <2>1. CASE \E i \in 1..CallBound : s = <<"call", i>>
      BY <2>1, SlotHolds, SlotHoldsNext
    <2>2. CASE \E p \in Phone : s = <<"new", p>>
      BY <1>2, <2>2, SlotHolds, SlotHoldsNext
    <2>3. CASE \E p \in Phone : s = <<"signed", p>>
      BY <1>2, <2>3, SlotHolds, SlotHoldsNext
    <2>4. CASE \E h \in Homes : s = <<"home", h>>
      BY <1>3, <2>4, SlotHolds, SlotHoldsNext
    <2>5. QED
      BY <2>1, <2>2, <2>3, <2>4, SlotIs
  <1>5. ASSUME NEW x \in Second, InUse(x)'
        PROVE  InUse(x)
    <2>1. CASE \E i \in 1..CallBound : x \in CallTokens(i)'
      BY <2>1 DEF InUse
    <2>2. CASE \E p \in Phone : x \in NewTokens(p)' \cup SignedTokens(p)'
      BY <1>2, <2>2 DEF InUse
    <2>3. CASE \E q \in Request : req'[q] # None /\ req'[q].body = x
      BY <1>1, <2>3 DEF InUse, LogoutsQuiet
    <2>4. CASE \E h \in Homes : mem'[h].refresh = x /\ ~HomeRefreshes(h)'
      BY <1>1, <2>4 DEF InUse
    <2>5. QED
      BY <1>5, <2>1, <2>2, <2>3, <2>4 DEF InUse
  <1>6. QED
    BY <1>4, <1>5

LEMMA QuietStep ==
  ASSUME ServerInv, Safe, AsksKept, LogoutsQuiet, Revoked(rows'),
         \A i \in 1..CallBound : CallTokens(i)' \subseteq CallTokens(i),
         LeftIsDead', clock' \in Nat, clock' >= clock,
         \A p \in Phone : flow'[p].new \in {flow[p].new, None},
         \A p \in Phone : flow'[p].signed \in {flow[p].signed, None},
         \A h \in Homes : mem'[h].refresh \in {mem[h].refresh, None},
         \A h \in Homes : mem'[h].refresh # None /\ HomeRefreshes(h) => HomeRefreshes(h)'
  PROVE  Safe'
  <1>1. /\ \A s \in Slot : TokensIn(s)' \subseteq TokensIn(s)
        /\ \A x \in Second : InUse(x)' => InUse(x)
    BY QuietTokens
  <1>2. RowsOK /\ clock \in Nat
    BY ServerParts
  <1>3. \A x \in Second : InUse(x)' => Fresh(x)'
    BY <1>1, <1>2, RevokedStaysFresh DEF Safe, AllFresh
  <1>4. PICK h \in Homes : TRUE
    BY DEF Homes
  <1>5. <<"home", h>> \in Slot
    BY SlotHolds
  <1>6. \A i \in 1..CallBound : Asks(i)' => Asked(i)' \in 1..clock
    BY AskedBound
  <1> DEFINE u == <<"home", h>>
  <1> HIDE DEF u
  <1>7. u \in Slot /\ TokensIn(u)' \subseteq TokensIn(u) \cup TokensIn(u)
    BY <1>1, <1>5 DEF u
  <1>8. QED
    BY <1>1, <1>2, <1>3, <1>6, <1>7, TokensSafe


LEMMA RefreshingKept ==
  ASSUME NEW a \in App, RefreshCallsOf(a) \subseteq RefreshCallsOf(a)',
         a \in Phone => flow'[a].refresh = flow[a].refresh, Refreshing(a)
  PROVE  Refreshing(a)'
  BY DEF Refreshing

LEMMA HomeStillRefreshes ==
  ASSUME NEW h, \A a \in App : Home(a) = h /\ Refreshing(a) => Refreshing(a)', HomeRefreshes(h)
  PROVE  HomeRefreshes(h)'
  BY DEF HomeRefreshes

LEMMA FlowSame ==
  ASSUME ServerInv, calls' = calls, \A p \in Phone : flow'[p].refresh = flow[p].refresh
  PROVE  \A h : HomeRefreshes(h) => HomeRefreshes(h)'
  <1>1. \A a \in App : RefreshCallsOf(a)' = RefreshCallsOf(a)
    BY DEF RefreshCallsOf, CallsOf
  <1>2. \A a \in App : Refreshing(a) => Refreshing(a)'
    BY <1>1, RefreshingKept
  <1>3. QED
    BY <1>2, HomeStillRefreshes

LEMMA SameCallsQuiet ==
  ASSUME calls' = calls
  PROVE  CallsQuiet
  BY DEF CallsQuiet

LEMMA FinishQuiet ==
  ASSUME ServerInv, NEW q \in Request, req[q] # None, Finish(q), calls' = calls
  PROVE  /\ CallsQuiet /\ LogoutsQuiet
         /\ \A p \in Phone : flow'[p].new \in {flow[p].new, None}
         /\ \A p \in Phone : flow'[p].signed \in {flow[p].signed, None}
         /\ \A h \in Homes : mem'[h].refresh \in {mem[h].refresh, None}
         /\ \A h \in Homes : mem'[h].refresh # None /\ HomeRefreshes(h) => HomeRefreshes(h)'
  <1>1. ClientsOK
    BY ServerParts
  <1>2. /\ req'[q] = None /\ \A r \in Request \ {q} : req'[r] = req[r]
        /\ req[q].app \in App
        /\ req[q].body = None => UNCHANGED mem
        /\ req[q].body # None => FinishLogout(req[q].app)
        /\ \A p \in Phone : /\ flow'[p].refresh = flow[p].refresh /\ flow'[p].new = flow[p].new
                            /\ flow'[p].signed = flow[p].signed
    BY <1>1, FinishFacts
  <1>3. LogoutsQuiet
    BY <1>2 DEF LogoutsQuiet
  <1>4. \A h \in Homes : mem'[h].refresh \in {mem[h].refresh, None}
    <2>1. CASE req[q].body = None
      BY <1>2, <2>1
    <2>2. CASE req[q].body # None
      BY <1>1, <1>2, <2>2, FinishLogoutFacts DEF Homes, App, NoPair
    <2>3. QED
      BY <2>1, <2>2
  <1>5. QED
    BY <1>2, <1>3, <1>4, FlowSame, SameCallsQuiet

LEMMA FailQuiet ==
  ASSUME ServerInv, NEW a \in App, FailRefresh(a),
         \A b \in App \ {a} : RefreshCallsOf(b)' = RefreshCallsOf(b)
  PROVE  /\ LogoutsQuiet
         /\ \A p \in Phone : flow'[p].new \in {flow[p].new, None}
         /\ \A p \in Phone : flow'[p].signed \in {flow[p].signed, None}
         /\ \A h \in Homes : mem'[h].refresh \in {mem[h].refresh, None}
         /\ \A h \in Homes : mem'[h].refresh # None /\ HomeRefreshes(h) => HomeRefreshes(h)'
  <1>1. ClientsOK /\ Home(a) \in Homes
    BY ServerParts, AppHome DEF Homes
  <1>2. /\ \A q \in Request : req'[q] = None \/ req'[q] = req[q]
        /\ mem'[Home(a)] = NoPair /\ \A h \in Homes \ {Home(a)} : mem'[h] = mem[h]
        /\ \A p \in Phone \ {a} : flow'[p] = flow[p]
    BY <1>1, FailRefreshFacts DEF Homes
  <1>3. \A p \in Phone : flow'[p].new = flow[p].new /\ flow'[p].signed = flow[p].signed
    <2>1. CASE a \in Tab
      BY <1>1, <2>1, FailRefreshFacts
    <2>2. CASE a \in Phone
      BY <1>1, <1>2, <2>2, FailRefreshFacts
    <2>3. QED
      BY <2>1, <2>2 DEF App
  <1>4. LogoutsQuiet
    BY <1>2 DEF LogoutsQuiet
  <1>5. ASSUME NEW h \in Homes, mem'[h].refresh # None, HomeRefreshes(h)
        PROVE  HomeRefreshes(h)'
    <2>1. h # Home(a)
      BY <1>2, <1>5 DEF NoPair
    <2>2. ASSUME NEW b \in App, Home(b) = h, Refreshing(b)
          PROVE  Refreshing(b)'
      <3>1. b # a
        BY <2>1, <2>2
      <3>2. RefreshCallsOf(b)' = RefreshCallsOf(b) /\ (b \in Phone => flow'[b] = flow[b])
        BY <1>2, <3>1
      <3>3. QED
        BY <2>2, <3>2, RefreshingKept
    <2>3. QED
      BY <1>5, <2>2, HomeStillRefreshes
  <1>6. QED
    BY <1>2, <1>3, <1>4, <1>5 DEF NoPair

(* Steps that touch no row, and forget tokens at most. *)
Forgets ==
  /\ CallsQuiet /\ LogoutsQuiet /\ UNCHANGED <<rows, left, clock>>
  /\ \A p \in Phone : flow'[p].new \in {flow[p].new, None}
  /\ \A p \in Phone : flow'[p].signed \in {flow[p].signed, None}
  /\ \A h \in Homes : mem'[h].refresh \in {mem[h].refresh, None}
  /\ \A h \in Homes : mem'[h].refresh # None /\ HomeRefreshes(h) => HomeRefreshes(h)'

LEMMA ForgetsAtMost ==
  ASSUME ServerInv, Safe, Forgets
  PROVE  Safe'
  <1> USE DEF Forgets
  <1>1. Revoked(rows') /\ RowsOK /\ clock' \in Nat /\ clock' >= clock
    BY SameRows, ServerParts
  <1>2. AsksKept /\ \A i \in 1..CallBound : CallTokens(i)' \subseteq CallTokens(i)
    BY <1>1, QuietCalls
  <1>3. LeftIsDead'
    BY DEF Safe, LeftIsDead
  <1>4. QED
    BY <1>1, <1>2, <1>3, QuietStep

LEMMA SubmitForgets ==
  ASSUME ServerInv, NEW b \in App, SignInSubmit(b)
  PROVE  Forgets
  <1>1. PICK kind \in {"register", "login"} : calls' = WithCall(b, kind, None)
    BY DEF SignInSubmit
  <1>2. UNCHANGED <<rows, left, clock, mem, flow, req>> /\ CanCall
        /\ kind \in {"register", "login", "refresh"} /\ kind # "refresh" /\ None \in Held
    BY DEF SignInSubmit, serverVars, Held
  <1>3. CallsQuiet
    <2>1. /\ Place \in 1..CallBound
          /\ calls'[Place].kind = kind /\ calls'[Place].phase = "sent"
          /\ \A j \in 1..CallBound : j # Place => calls'[j] = calls[j]
      BY <1>1, <1>2, CallStarts, PlaceFree
    <2>2. QED
      BY <1>2, <2>1 DEF CallsQuiet
  <1>4. \A a \in App : RefreshCallsOf(a)' = RefreshCallsOf(a)
    BY <1>1, <1>2, CallersJoined
  <1>5. \A h \in Homes : HomeRefreshes(h) => HomeRefreshes(h)'
    <2>1. \A a \in App : Refreshing(a) => Refreshing(a)'
      BY <1>2, <1>4, RefreshingKept
    <2>2. QED
      BY <2>1, HomeStillRefreshes
  <1>6. LogoutsQuiet
    BY <1>2 DEF LogoutsQuiet
  <1>7. QED
    BY <1>2, <1>3, <1>5, <1>6 DEF Forgets

LEMMA RequestForgets ==
  ASSUME ServerInv, NEW q \in Request,
         Reject(q) \/ JoinQueue(q) \/ \E b \in App : SendRequest(b, q)
  PROVE  Forgets
  <1>1. ClientsOK /\ calls' = calls /\ UNCHANGED <<rows, left, clock>>
    BY ServerParts DEF Reject, JoinQueue, SendRequest, serverVars
  <1>2. CASE Reject(q)
    <2>1. req[q] # None /\ Finish(q)
      BY <1>2 DEF Reject, Unauthorized
    <2>2. QED
      BY <1>1, <2>1, FinishQuiet DEF Forgets
  <1>3. CASE JoinQueue(q) \/ \E b \in App : SendRequest(b, q)
    <2>1. flow' = flow /\ mem' = mem
      BY <1>3 DEF JoinQueue, SendRequest
    <2>2. LogoutsQuiet
      <3>1. CASE JoinQueue(q)
        <4>1. /\ req[q] # None /\ req[q] \in Sent
              /\ req' = [req EXCEPT ![q] = [req[q] EXCEPT !.state = "queued"]]
          BY <1>1, <3>1 DEF JoinQueue, Unauthorized, ClientsOK
        <4>2. /\ \A r \in Request \ {q} : req'[r] = req[r]
              /\ req'[q].app = req[q].app /\ req'[q].body = req[q].body
          BY <1>1, <4>1 DEF ClientsOK, Sent
        <4>3. QED
          BY <4>1, <4>2 DEF LogoutsQuiet
      <3>2. CASE \E b \in App : SendRequest(b, q)
        <4>1. /\ \A r \in Request \ {q} : req'[r] = req[r]
              /\ req'[q].body = None
          BY <1>1, <3>2 DEF SendRequest, Attach, ClientsOK
        <4>2. QED
          BY <4>1 DEF LogoutsQuiet
      <3>3. QED
        BY <1>3, <3>1, <3>2
    <2>3. QED
      BY <1>1, <2>1, <2>2, FlowSame, SameCallsQuiet DEF Forgets
  <1>4. QED
    BY <1>2, <1>3

LEMMA SignOutForgets ==
  ASSUME ServerInv, NEW p \in Phone, SignedOut(p) \/ SignOut(p)
  PROVE  Forgets
  <1>1. ClientsOK /\ p \in App /\ calls' = calls /\ req' = req /\ UNCHANGED <<rows, left, clock>>
    BY ServerParts DEF SignedOut, SignOut, serverVars, App
  <1>2. /\ \A r \in Phone : /\ flow'[r].refresh = flow[r].refresh
                            /\ flow'[r].new = flow[r].new /\ flow'[r].signed = flow[r].signed
        /\ \A h \in Homes : mem'[h].refresh \in {mem[h].refresh, None}
    <2>1. CASE SignedOut(p)
      BY <1>1, <2>1 DEF SignedOut, ClientsOK, Flow, Homes, NoPair
    <2>2. CASE SignOut(p)
      BY <1>1, <2>2, FinishLogoutFacts DEF SignOut
    <2>3. QED
      BY <2>1, <2>2
  <1>3. LogoutsQuiet
    BY <1>1 DEF LogoutsQuiet
  <1>4. QED
    BY <1>1, <1>2, <1>3, FlowSame, SameCallsQuiet DEF Forgets

LEMMA ExpireSafe ==
  ASSUME ServerInv, Safe, AccessTokensExpire \/ RefreshTokensExpire \/ Bar
  PROVE  Safe'
  <1>1. /\ UNCHANGED <<calls, mem, flow, req, left, clock>> /\ RowsOK
        /\ clock' \in Nat /\ clock' >= clock
        /\ Bar => rows' = rows
    BY ServerParts DEF AccessTokensExpire, RefreshTokensExpire, Bar
  <1>2. Revoked(rows')
    BY <1>1, ExpiryHolds, SameRows
  <1>3. LogoutsQuiet /\ CallsQuiet
    BY <1>1, SameCallsQuiet DEF LogoutsQuiet
  <1>4. AsksKept /\ \A i \in 1..CallBound : CallTokens(i)' \subseteq CallTokens(i)
    BY <1>2, <1>3, QuietCalls
  <1>5. LeftIsDead'
    BY <1>1, <1>2, RevokedStaysDead DEF Safe
  <1>6. \A h \in Homes : HomeRefreshes(h) => HomeRefreshes(h)'
    BY <1>1, FlowSame
  <1>7. QED
    BY <1>1, <1>2, <1>3, <1>4, <1>5, <1>6, QuietStep


LEMMA EndsQuietly ==
  ASSUME ServerInv, rows' = rows, NEW i \in 1..CallBound, calls' = [calls EXCEPT ![i] = None]
  PROVE  CallsQuiet
  <1>1. calls'[i] = None /\ \A j \in 1..CallBound : j # i => calls'[j] = calls[j]
    BY CallEnds
  <1>2. QED
    BY <1>1 DEF CallsQuiet

LEMMA RefusedForgets ==
  ASSUME ServerInv, NEW i \in 1..CallBound, RefreshRefused(i)
  PROVE  Forgets
  <1> DEFINE a == calls[i].app
  <1>1. /\ calls[i] # None /\ a \in App /\ FailRefresh(a)
        /\ UNCHANGED <<rows, left, clock>> /\ calls' = [calls EXCEPT ![i] = None]
    BY ServerParts, CallTyped DEF RefreshRefused, AtPhase, AnswersAwaited, Call, serverVars
  <1>2. calls'[i] = None /\ \A j \in 1..CallBound : j # i => calls'[j] = calls[j]
    BY <1>1, CallEnds
  <1>3. \A b \in App \ {a} : RefreshCallsOf(b)' = RefreshCallsOf(b)
    BY <1>1, <1>2, CallersLeft DEF RefreshCallsOf, CallsOf
  <1>4. CallsQuiet
    BY <1>1, EndsQuietly
  <1> HIDE DEF a
  <1>5. QED
    BY <1>1, <1>3, <1>4, FailQuiet DEF Forgets

LEMMA LostForgets ==
  ASSUME ServerInv, NEW i \in 1..CallBound, Lost(i)
  PROVE  Forgets
  <1> DEFINE a == calls[i].app
  <1>1. /\ calls[i] # None /\ a \in App /\ CallsOK
        /\ UNCHANGED <<rows, left, clock>>
    BY ServerParts, CallTyped DEF Lost, Call, serverVars
  <1>2. /\ calls'[i] = None \/ calls'[i].app = None
        /\ \A j \in 1..CallBound : j # i => calls'[j] = calls[j]
        /\ calls'[i] # None =>
             /\ calls'[i].kind = calls[i].kind /\ calls'[i].phase = calls[i].phase
             /\ calls'[i].tok = calls[i].tok /\ calls'[i].row = calls[i].row
             /\ calls'[i].answer = calls[i].answer
    <2>1. CASE AtPhase(i, "done")
      BY <1>1, <2>1 DEF Lost, CallsOK
    <2>2. CASE ~AtPhase(i, "done")
      <3>1. calls' = [calls EXCEPT ![i] = [calls[i] EXCEPT !.app = None]]
        BY <1>1, <2>2 DEF Lost, CallsOK
      <3>2. calls'[i] = [calls[i] EXCEPT !.app = None]
            /\ \A j \in 1..CallBound : j # i => calls'[j] = calls[j]
        BY <1>1, <3>1 DEF CallsOK
      <3>3. calls[i].phase # "done"
        BY <1>1, <2>2 DEF AtPhase
      <3>4. QED
        BY <1>1, <3>2, <3>3, CallForgotten
    <2>3. QED
      BY <2>1, <2>2
  <1>3. CallsQuiet
    BY <1>1, <1>2 DEF CallsQuiet
  <1>4. CASE calls[i].kind = "refresh"
    <2>1. \A b \in App \ {a} : RefreshCallsOf(b)' = RefreshCallsOf(b)
      BY <1>1, <1>2, CallersLeft DEF RefreshCallsOf, CallsOf
    <2>2. FailRefresh(a)
      BY <1>4 DEF Lost
    <2> HIDE DEF a
    <2>3. QED
      BY <1>1, <1>3, <2>1, <2>2, FailQuiet DEF Forgets
  <1>5. CASE calls[i].kind # "refresh"
    <2>1. mem' = mem /\ flow' = flow /\ req' = req
      BY <1>5 DEF Lost
    <2>2. \A b \in App : RefreshCallsOf(b)' = RefreshCallsOf(b)
      BY <1>2, <1>5, CallersLeft DEF RefreshCallsOf
    <2>3. \A h \in Homes : HomeRefreshes(h) => HomeRefreshes(h)'
      <3>1. \A b \in App : Refreshing(b) => Refreshing(b)'
        BY <2>1, <2>2, RefreshingKept
      <3>2. QED
        BY <3>1, HomeStillRefreshes
    <2>4. LogoutsQuiet
      BY <2>1 DEF LogoutsQuiet
    <2>5. QED
      BY <1>1, <1>3, <2>1, <2>3, <2>4 DEF Forgets
  <1>6. QED
    BY <1>4, <1>5

LEMMA NoTokenForgets ==
  ASSUME ServerInv, NEW q \in Request, NoTokenToRefresh(q)
  PROVE  Forgets
  <1> DEFINE a == req[q].app
  <1>1. /\ ClientsOK /\ req[q] # None /\ req[q] \in Sent /\ a \in App /\ ~Refreshing(a)
        /\ calls' = calls /\ UNCHANGED <<rows, left, clock>>
    BY ServerParts DEF NoTokenToRefresh, Unauthorized, Queues, ClientsOK, Sent, serverVars
  <1>2. CallsQuiet /\ \A b \in App : RefreshCallsOf(b)' = RefreshCallsOf(b)
    BY <1>1, SameCallsQuiet DEF RefreshCallsOf, CallsOf
  <1>3. CASE a \in Tab
    <2>1. FailRefresh(a)
      BY <1>3 DEF NoTokenToRefresh
    <2> HIDE DEF a
    <2>2. QED
      BY <1>1, <1>2, <2>1, FailQuiet DEF Forgets
  <1>4. CASE a \notin Tab
    <2>1. /\ a \in Phone
          /\ flow' = [flow EXCEPT ![a] = [flow[a] EXCEPT !.refresh = "clear"]]
          /\ mem' = [mem EXCEPT ![a] = NoPair]
          /\ req' = [req EXCEPT ![q] = [req[q] EXCEPT !.state = "refreshing", !.retried = TRUE]]
      BY <1>1, <1>4 DEF NoTokenToRefresh, App, ClientsOK
    <2>2. /\ \A r \in Request \ {q} : req'[r] = req[r]
          /\ req'[q].app = req[q].app /\ req'[q].body = req[q].body
      BY <1>1, <2>1 DEF ClientsOK, Sent
    <2>3. LogoutsQuiet
      BY <1>1, <2>2 DEF LogoutsQuiet
    <2>4. \A p \in Phone : flow'[p].new = flow[p].new /\ flow'[p].signed = flow[p].signed
      BY <1>1, <2>1 DEF ClientsOK, Flow
    <2>5. \A h \in Homes : mem'[h].refresh \in {mem[h].refresh, None}
      BY <1>1, <2>1 DEF ClientsOK, Homes, NoPair
    <2>6. ASSUME NEW b \in App, Refreshing(b)
          PROVE  Refreshing(b)'
      <3>1. b # a
        BY <1>1, <2>6
      <3>2. b \in Phone => flow'[b] = flow[b]
        BY <1>1, <2>1, <3>1 DEF ClientsOK
      <3>3. QED
        BY <1>2, <2>6, <3>2, RefreshingKept
    <2>7. \A h \in Homes : HomeRefreshes(h) => HomeRefreshes(h)'
      BY <2>6, HomeStillRefreshes
    <2>8. QED
      BY <1>1, <1>2, <2>3, <2>4, <2>5, <2>7 DEF Forgets
  <1>5. QED
    BY <1>3, <1>4

LEMMA ClearedForgets ==
  ASSUME ServerInv, NEW p \in Phone, Clears(p), Cleared(p)
  PROVE  Forgets
  <1>1. /\ ClientsOK /\ p \in App /\ calls' = calls /\ UNCHANGED <<rows, left, clock, mem>>
        /\ mem[p].refresh = None
    BY ServerParts DEF Cleared, serverVars, App, Clears, NoPair
  <1>2. CallsQuiet /\ \A b \in App : RefreshCallsOf(b)' = RefreshCallsOf(b)
    BY <1>1, SameCallsQuiet DEF RefreshCallsOf, CallsOf
  <1>3. LogoutsQuiet
    BY DEF Cleared, LogoutsQuiet
  <1>4. /\ \A r \in Phone : flow'[r].new = flow[r].new /\ flow'[r].signed = flow[r].signed
        /\ \A r \in Phone \ {p} : flow'[r] = flow[r]
    BY <1>1 DEF Cleared, ClientsOK, Flow
  <1>5. ASSUME NEW h \in Homes, mem'[h].refresh # None, HomeRefreshes(h)
        PROVE  HomeRefreshes(h)'
    <2>1. ASSUME NEW b \in App, Home(b) = h, Refreshing(b)
          PROVE  Refreshing(b)'
      <3>1. b # p
        BY <1>1, <1>5, <2>1, AppHome
      <3>2. QED
        BY <1>2, <1>4, <2>1, <3>1, RefreshingKept
    <2>2. QED
      BY <1>5, <2>1, HomeStillRefreshes
  <1>6. QED
    BY <1>1, <1>2, <1>3, <1>4, <1>5 DEF Forgets

LEMMA ServedSafe ==
  ASSUME ServerInv, Safe, NEW q \in Request, Served(q)
  PROVE  Safe'
  <1>1. /\ req[q] # None /\ Finish(q) /\ calls' = calls
        /\ clock' \in Nat /\ clock' >= clock
        /\ left' = left \cup {rows[n].family : n \in {m \in DOMAIN rows : rows[m].tok = req[q].body}}
        /\ RowsOK /\ ClientsOK
    BY ServerParts DEF Served
  <1>2. /\ Revoked(rows') /\ DOMAIN rows = 1..Len(rows) /\ DOMAIN rows' = 1..Len(rows)
        /\ \A n \in DOMAIN rows : n \in LogoutRows(q) => ~Live(rows'[n])
    BY <1>1, ServedHolds DEF Revoked, RowsOK
  <1>3. /\ CallsQuiet /\ LogoutsQuiet
        /\ \A p \in Phone : flow'[p].new \in {flow[p].new, None}
        /\ \A p \in Phone : flow'[p].signed \in {flow[p].signed, None}
        /\ \A h \in Homes : mem'[h].refresh \in {mem[h].refresh, None}
        /\ \A h \in Homes : mem'[h].refresh # None /\ HomeRefreshes(h) => HomeRefreshes(h)'
    BY <1>1, FinishQuiet
  <1>4. AsksKept /\ \A i \in 1..CallBound : CallTokens(i)' \subseteq CallTokens(i)
    BY <1>2, <1>3, QuietCalls
  <1>5. ASSUME NEW n \in DOMAIN rows', rows'[n].family \in left'
        PROVE  rows'[n].revoked
    <2>1. /\ n \in DOMAIN rows /\ rows'[n].family = rows[n].family
          /\ Live(rows'[n]) => Live(rows[n])
      BY <1>2, <1>5 DEF Revoked
    <2>2. CASE rows[n].family \in left
      BY <2>1, <2>2 DEF Safe, LeftIsDead, Live
    <2>3. CASE rows[n].family \notin left
      <3>1. PICK m \in DOMAIN rows : rows[m].tok = req[q].body /\ rows[n].family = rows[m].family
        BY <1>1, <1>5, <2>1, <2>3
      <3>2. rows[m].tok \in Second /\ rows[m].tok # None
        BY <1>1, <3>1, RowTyped, Bounds DEF RowsOK, Row
      <3>3. Latest(rows[m].tok)
        <4>1. InUse(rows[m].tok)
          BY <1>1, <3>1 DEF InUse
        <4>2. QED
          BY <3>2, <4>1 DEF Safe, AllFresh, Fresh
      <3>4. Live(rows[n]) => n = m
        BY <2>1, <3>1, <3>3 DEF Latest
      <3>5. m \in LogoutRows(q)
        BY <3>1, <3>2 DEF LogoutRows
      <3>6. QED
        BY <1>2, <2>1, <3>4, <3>5 DEF Live
    <2>4. QED
      BY <2>2, <2>3
  <1>6. LeftIsDead'
    BY <1>5 DEF LeftIsDead
  <1>7. QED
    BY <1>1, <1>2, <1>3, <1>4, <1>6, QuietStep


LEMMA SendLogoutSafe ==
  ASSUME ServerInv, Safe, Mild', NEW a \in App, NEW q \in Request, SendLogout(a, q)
  PROVE  Safe'
  <1> DEFINE h == Home(a)
             y == mem[h].refresh
  <1>1. /\ ClientsOK /\ h \in Homes /\ req[q] = None /\ calls' = calls /\ clock \in Nat
        /\ UNCHANGED <<rows, left, clock, mem, flow>> /\ RowsOK
        /\ req' = [req EXCEPT ![q] = Attach(a, y, FALSE)]
    BY ServerParts, AppHome DEF SendLogout, serverVars, Homes
  <1>2. y \in Second
    BY <1>1 DEF SendLogout, ClientsOK, Pair, Held, Homes
  <1>3. ~HomeRefreshes(h)
    <2>1. HomeRefreshes(h) => "logout_in_refresh" \in mishaps'
      BY Notes DEF SendLogout
    <2>2. QED
      BY <2>1 DEF Mild
  <1>4. /\ \A r \in Request \ {q} : req'[r] = req[r]
        /\ req'[q] # None /\ req'[q].app = a /\ req'[q].body = y
    <2>1. Attach(a, y, FALSE) \in Sent
      BY <1>1, <1>2, AttachTypes DEF SendLogout, Held
    <2>2. Attach(a, y, FALSE) # None /\ Attach(a, y, FALSE).app = a /\ Attach(a, y, FALSE).body = y
      BY <2>1, Bounds DEF Attach
    <2>3. QED
      BY <1>1, <2>2 DEF ClientsOK
  <1> HIDE DEF h, y
  <1>5. AsksKept /\ \A i \in 1..CallBound : CallTokens(i)' \subseteq CallTokens(i)
    BY <1>1, SameCallsQuiet, SameRows, QuietCalls
  <1>6. \A p \in Phone : NewTokens(p)' \subseteq NewTokens(p) /\ SignedTokens(p)' \subseteq SignedTokens(p)
    BY <1>1 DEF NewTokens, SignedTokens
  <1>7. \A k \in Homes : HomeTokens(k)' \subseteq HomeTokens(k)
    <2> SUFFICES ASSUME NEW k \in Homes, NEW x \in Second,
                        mem'[k].refresh = x \/ \E r \in LogoutsOf(k)' : req'[r].body = x
                 PROVE  x \in HomeTokens(k)
      BY DEF HomeTokens
    <2>1. CASE mem'[k].refresh = x
      BY <1>1, <2>1 DEF HomeTokens
    <2>2. CASE \E r \in LogoutsOf(k)' : req'[r].body = x
      <3>1. PICK r \in Request : /\ req'[r] # None /\ Home(req'[r].app) = k
                                 /\ req'[r].body # None /\ req'[r].body = x
        BY <2>2 DEF LogoutsOf
      <3>2. CASE r = q
        BY <1>4, <3>1, <3>2 DEF h, y, HomeTokens
      <3>3. CASE r # q
        BY <1>4, <3>1, <3>3 DEF HomeTokens, LogoutsOf
      <3>4. QED
        BY <3>2, <3>3
    <2>3. QED
      BY <2>1, <2>2
  <1>8. \A k \in Homes : HomeRefreshes(k) => HomeRefreshes(k)'
    BY <1>1, FlowSame
  <1>9. ASSUME NEW x \in Second, InUse(x)'
        PROVE  InUse(x)
    <2>1. CASE \E i \in 1..CallBound : x \in CallTokens(i)'
      BY <1>5, <2>1 DEF InUse
    <2>2. CASE \E p \in Phone : x \in NewTokens(p)' \cup SignedTokens(p)'
      BY <1>6, <2>2 DEF InUse
    <2>3. CASE \E r \in Request : req'[r] # None /\ req'[r].body = x
      <3>1. PICK r \in Request : req'[r] # None /\ req'[r].body = x
        BY <2>3
      <3>2. CASE r = q
        BY <1>1, <1>3, <1>4, <3>1, <3>2 DEF InUse, y
      <3>3. CASE r # q
        BY <1>4, <3>1, <3>3 DEF InUse
      <3>4. QED
        BY <3>2, <3>3
    <2>4. CASE \E k \in Homes : mem'[k].refresh = x /\ ~HomeRefreshes(k)'
      BY <1>1, <1>8, <2>4 DEF InUse
    <2>5. QED
      BY <1>9, <2>1, <2>2, <2>3, <2>4 DEF InUse
  <1> DEFINE u == <<"home", h>>
  <1>10. u \in Slot
    BY <1>1, SlotHolds
  <1>11. \A s \in Slot \ {u, u} : TokensIn(s)' \subseteq TokensIn(s)
    BY <1>5, <1>6, <1>7, SlotsShrink
  <1>12. TokensIn(u)' \subseteq TokensIn(u)
    BY <1>1, <1>7, SlotHolds, SlotHoldsNext
  <1>13. \A x \in Second : InUse(x)' => Fresh(x)'
    BY <1>1, <1>5, <1>9, SameRows, RevokedStaysFresh DEF Safe, AllFresh
  <1>14. \A i \in 1..CallBound : Asks(i)' => Asked(i)' \in 1..clock
    BY <1>5, AskedBound
  <1>15. LeftIsDead'
    BY <1>1 DEF Safe, LeftIsDead
  <1> HIDE DEF u
  <1>16. QED
    BY <1>1, <1>9, <1>10, <1>11, <1>12, <1>13, <1>14, <1>15, TokensSafe

(* The refresh a request starts: its client neither refreshes nor logs out. *)
LEMMA RefreshStarts ==
  ASSUME ServerInv, "logout_expired" \notin mishaps', "logout_in_refresh" \notin mishaps',
         "two_tabs" \notin mishaps', NEW q \in Request, StartRefresh(q)
  PROVE  \E a \in App : \E y \in Second : \E place \in 1..CallBound :
           /\ ClientsOK /\ RowsOK /\ clock \in Nat /\ Home(a) \in Homes
           /\ y = mem[Home(a)].refresh /\ ~HomeRefreshes(Home(a)) /\ ~HomeLogsOut(Home(a))
           /\ UNCHANGED <<rows, left, clock, status, mem, flow>>
           /\ req[q] # None /\ req[q].app = a /\ req[q].body = None
           /\ \A r \in Request \ {q} : req'[r] = req[r]
           /\ req'[q].app = a /\ req'[q].body = None
           /\ calls[place] = None
           /\ calls'[place] # None /\ calls'[place].app = a /\ calls'[place].kind = "refresh"
           /\ calls'[place].tok = y /\ calls'[place].phase = "sent"
           /\ \A j \in 1..CallBound : j # place => calls'[j] = calls[j]
  <1>1. ClientsOK /\ req[q].app \in App
    BY ServerParts DEF StartRefresh, Unauthorized, ClientsOK, Sent
  <1>2. PICK a \in App : a = req[q].app
    BY <1>1
  <1> DEFINE h == Home(a)
  <1>3. mem[h].refresh \in Second
    BY <1>1, <1>2, AppHome DEF StartRefresh, ClientsOK, Pair, Held
  <1>4. PICK y \in Second : y = mem[h].refresh
    BY <1>3
  <1>5. /\ ClientsOK /\ RowsOK /\ clock \in Nat
        /\ req[q] # None /\ req[q] \in Sent /\ a \in App /\ ~Refreshing(a)
        /\ UNCHANGED <<rows, left, clock, status, mem, flow>>
        /\ CanCall /\ calls' = WithCall(a, "refresh", y)
        /\ req' = [req EXCEPT ![q] = [req[q] EXCEPT !.state = "refreshing", !.retried = TRUE]]
        /\ RefreshMishaps(q) \subseteq mishaps'
    BY <1>2, <1>4, ServerParts, Notes DEF StartRefresh, Unauthorized, Queues, ClientsOK, Sent,
       serverVars
  <1>6. h \in Homes /\ y \in Second
    BY <1>5, AppHome DEF Homes
  <1>7. /\ req[q].body = None /\ ~HomeLogsOut(h)
        /\ ~\E b \in Tab \ {a} : a \in Tab /\ Refreshing(b)
    <2>1. RefreshMishaps(q) \cap {"logout_expired", "logout_in_refresh", "two_tabs"} = {}
      BY <1>5
    <2>2. QED
      BY <1>2, <2>1 DEF RefreshMishaps
  <1>8. ~HomeRefreshes(h)
    <2> SUFFICES ASSUME NEW b \in App, Home(b) = h, Refreshing(b)
                 PROVE  FALSE
      BY DEF HomeRefreshes
    <2>1. b # a
      BY <1>5
    <2>2. CASE a \in Phone
      BY <1>5, <2>1, <2>2, AppHome DEF App
    <2>3. CASE a \in Tab
      BY <1>5, <1>7, <2>1, <2>3, AppHome DEF App
    <2>4. QED
      BY <1>5, <2>2, <2>3 DEF App
  <1>9. /\ \A r \in Request \ {q} : req'[r] = req[r]
        /\ req'[q].app = a /\ req'[q].body = None
    BY <1>5, <1>7, <1>2 DEF ClientsOK, Sent
  <1>10. /\ Place \in 1..CallBound
        /\ calls'[Place] # None /\ calls'[Place].app = a /\ calls'[Place].kind = "refresh"
        /\ calls'[Place].tok = y /\ calls'[Place].phase = "sent"
        /\ \A j \in 1..CallBound : j # Place => calls'[j] = calls[j]
    <2>1. y \in Held /\ "refresh" \in {"register", "login", "refresh"}
      BY <1>6 DEF Held
    <2>2. QED
      BY <1>5, <2>1, CallStarts, PlaceFree
  <1>11. PICK place \in 1..CallBound : place = Place
    BY <1>10
  <1>12. /\ place \in 1..CallBound
        /\ calls'[place] # None /\ calls'[place].app = a /\ calls'[place].kind = "refresh"
        /\ calls'[place].tok = y /\ calls'[place].phase = "sent"
        /\ \A j \in 1..CallBound : j # place => calls'[j] = calls[j]
    BY <1>10, <1>11
  <1>13. calls[place] = None /\ req[q].app = a
    BY <1>2, <1>5, <1>11, PlaceFree
  <1> HIDE DEF h
  <1>14. QED
    BY <1>2, <1>4, <1>5, <1>6, <1>7, <1>8, <1>9, <1>12, <1>13 DEF h

LEMMA StartRefreshSafe ==
  ASSUME ServerInv, Safe, Mild', NEW q \in Request, StartRefresh(q)
  PROVE  Safe'
  <1>1. /\ "logout_expired" \notin mishaps' /\ "logout_in_refresh" \notin mishaps'
        /\ "two_tabs" \notin mishaps'
    BY DEF Mild
  <1>2. PICK a \in App, y \in Second, place \in 1..CallBound :
          /\ ClientsOK /\ RowsOK /\ clock \in Nat /\ Home(a) \in Homes
          /\ y = mem[Home(a)].refresh /\ ~HomeRefreshes(Home(a)) /\ ~HomeLogsOut(Home(a))
          /\ UNCHANGED <<rows, left, clock, status, mem, flow>>
          /\ req[q] # None /\ req[q].app = a /\ req[q].body = None
          /\ \A r \in Request \ {q} : req'[r] = req[r]
          /\ req'[q].app = a /\ req'[q].body = None
          /\ calls[place] = None
          /\ calls'[place] # None /\ calls'[place].app = a /\ calls'[place].kind = "refresh"
          /\ calls'[place].tok = y /\ calls'[place].phase = "sent"
          /\ \A j \in 1..CallBound : j # place => calls'[j] = calls[j]
    BY <1>1, RefreshStarts
  <1> DEFINE h == Home(a)
  <1>3. /\ h \in Homes /\ y = mem[h].refresh /\ ~HomeRefreshes(h) /\ ~HomeLogsOut(h)
    BY <1>2
  <1> HIDE DEF h
  <1>4. \A i \in 1..CallBound : CallTokens(i)' \subseteq CallTokens(i)
    BY <1>2 DEF CallTokens, AtPhase
  <1>5. \A i \in 1..CallBound : Asks(i)' =>
          IF i = place THEN Asked(i)' = y ELSE Asks(i) /\ Asked(i)' = Asked(i)
    BY <1>2 DEF Asks, Asked, AtPhase
  <1>6. \A p \in Phone : NewTokens(p)' \subseteq NewTokens(p) /\ SignedTokens(p)' \subseteq SignedTokens(p)
    BY <1>2 DEF NewTokens, SignedTokens
  <1>7. LogoutsQuiet
    BY <1>2 DEF LogoutsQuiet
  <1>8. \A k \in Homes : HomeTokens(k)' \subseteq HomeTokens(k)
    <2> SUFFICES ASSUME NEW k \in Homes, NEW x \in Second,
                        mem'[k].refresh = x \/ \E r \in LogoutsOf(k)' : req'[r].body = x
                 PROVE  mem[k].refresh = x \/ \E r \in LogoutsOf(k) : req[r].body = x
      BY DEF HomeTokens
    <2>1. QED
      BY <1>2, <1>7, LogoutsTokens
  <1>9. /\ HomeRefreshes(h)'
         /\ \A k \in Homes : HomeRefreshes(k) => HomeRefreshes(k)'
    <2>1. \A b \in App : RefreshCallsOf(b) \subseteq RefreshCallsOf(b)'
      BY <1>2 DEF RefreshCallsOf, CallsOf
    <2>2. \A b \in App : Refreshing(b) => Refreshing(b)'
      BY <1>2, <2>1, RefreshingKept
    <2>3. place \in RefreshCallsOf(a)'
      BY <1>2 DEF RefreshCallsOf, CallsOf
    <2>4. Refreshing(a)'
      BY <2>3 DEF Refreshing
    <2>5. HomeRefreshes(h)'
      BY <1>2, <2>4 DEF HomeRefreshes, h
    <2>6. QED
      BY <2>2, <2>5, HomeStillRefreshes
  <1>10. y \in HomeTokens(h)
    BY <1>3 DEF HomeTokens
  <1>11. \A s \in Slot : y \in TokensIn(s) => s = <<"home", h>>
    BY <1>3, <1>10, SlotHolds DEF Safe, Apart
  <1>12. ASSUME NEW x \in Second, InUse(x)'
         PROVE  InUse(x) /\ x # y
    <2>1. CASE \E i \in 1..CallBound : x \in CallTokens(i)'
      <3>1. PICK i \in 1..CallBound : x \in CallTokens(i)
        BY <1>4, <2>1
      <3>2. x # y
        BY <1>11, <3>1, SlotHolds, SlotsDiffer
      <3>3. QED
        BY <3>1, <3>2 DEF InUse
    <2>2. CASE \E p \in Phone : x \in NewTokens(p)' \cup SignedTokens(p)'
      <3>1. PICK p \in Phone : x \in NewTokens(p) \cup SignedTokens(p)
        BY <1>6, <2>2
      <3>2. x # y
        BY <1>11, <3>1, SlotHolds, SlotsDiffer
      <3>3. QED
        BY <3>1, <3>2 DEF InUse
    <2>3. CASE \E r \in Request : req'[r] # None /\ req'[r].body = x
      <3>1. PICK r \in Request : req'[r] # None /\ req'[r].body = x
        BY <2>3
      <3>2. x # None
        BY Bounds, Numbers DEF Second
      <3>3. req[r] # None /\ req[r].body = x
        BY <1>7, <3>1, <3>2 DEF LogoutsQuiet
      <3>4. Home(req[r].app) \in Homes /\ r \in LogoutsOf(Home(req[r].app))
        BY <1>2, <3>2, <3>3, AppHome DEF LogoutsOf, ClientsOK, Sent, Homes
      <3>5. x \in TokensIn(<<"home", Home(req[r].app)>>)
        BY <3>3, <3>4, SlotHolds DEF HomeTokens
      <3>6. Home(req[r].app) # h
        BY <1>3, <3>4 DEF HomeLogsOut
      <3>7. x # y
        BY <1>11, <3>4, <3>5, <3>6, SlotHolds, SlotsDiffer
      <3>8. QED
        BY <3>3, <3>7 DEF InUse
    <2>4. CASE \E k \in Homes : mem'[k].refresh = x /\ ~HomeRefreshes(k)'
      <3>1. PICK k \in Homes : mem[k].refresh = x /\ ~HomeRefreshes(k) /\ k # h
        BY <1>2, <1>9, <2>4
      <3>2. x \in TokensIn(<<"home", k>>)
        BY <3>1, SlotHolds DEF HomeTokens
      <3>3. x # y
        BY <1>11, <3>1, <3>2, SlotHolds, SlotsDiffer
      <3>4. QED
        BY <3>1, <3>3 DEF InUse
    <2>5. QED
      BY <1>12, <2>1, <2>2, <2>3, <2>4 DEF InUse
  <1>13. \A x \in Second : InUse(x)' => Fresh(x)'
    <2> SUFFICES ASSUME NEW x \in Second, InUse(x)'
                 PROVE  Fresh(x)'
      OBVIOUS
    <2>1. Fresh(x) /\ x # y
      BY <1>12 DEF Safe, AllFresh
    <2>2. Latest(x)'
      BY <1>2, <2>1 DEF Fresh, Latest
    <2>3. QED
      BY <1>5, <2>1, <2>2 DEF Fresh
  <1>14. \A i \in 1..CallBound : Asks(i)' => Asked(i)' \in 1..clock
    <2>1. y \in 1..clock
      <3>1. <<"home", h>> \in Slot /\ y \in TokensIn(<<"home", h>>)
        BY <1>3, <1>10, SlotHolds
      <3>2. y <= clock
        BY <3>1 DEF Safe, Bounded
      <3>3. QED
        BY <1>2, <3>2, Numbers DEF Second
    <2>2. QED
      BY <1>5, <2>1 DEF Safe, Bounded
  <1>15. LeftIsDead'
    BY <1>2 DEF Safe, LeftIsDead
  <1> DEFINE u == <<"home", h>>
  <1>16. u \in Slot
    BY <1>3, SlotHolds
  <1>17. \A s \in Slot \ {u, u} : TokensIn(s)' \subseteq TokensIn(s)
    BY <1>4, <1>6, <1>8, SlotsShrink
  <1>18. TokensIn(u)' \subseteq TokensIn(u)
    BY <1>3, <1>8, SlotHolds, SlotHoldsNext
  <1> HIDE DEF u
  <1>19. QED
    BY <1>2, <1>12, <1>13, <1>14, <1>15, <1>16, <1>17, <1>18, TokensSafe


(* What a client carries: a token in an answer, or in a pair it is writing. *)
Carried(x) ==
  \/ \E i \in 1..CallBound : x \in CallTokens(i)
  \/ \E p \in Phone : x \in NewTokens(p) \cup SignedTokens(p)

(* A step in which nobody takes up a token, and what comes home was        *)
(* carried there.                                                          *)
Keeps ==
  /\ \A x \in Second : Carried(x)' => Carried(x)
  /\ \A h \in Homes : \A x \in Second : mem'[h].refresh = x =>
       \/ Carried(x)
       \/ mem[h].refresh = x /\ (HomeRefreshes(h) => HomeRefreshes(h)')

LEMMA KeepsInUse ==
  ASSUME Keeps, LogoutsQuiet
  PROVE  \A x \in Second : InUse(x)' => InUse(x)
  <1> SUFFICES ASSUME NEW x \in Second, InUse(x)'
               PROVE  InUse(x)
    OBVIOUS
  <1>1. Carried(x) => InUse(x)
    BY DEF Carried, InUse
  <1>2. CASE Carried(x)'
    BY <1>1, <1>2 DEF Keeps
  <1>3. CASE \E q \in Request : req'[q] # None /\ req'[q].body = x
    <2>1. x # None
      BY Bounds, Numbers DEF Second
    <2>2. QED
      BY <1>3, <2>1 DEF InUse, LogoutsQuiet
  <1>4. CASE \E h \in Homes : mem'[h].refresh = x /\ ~HomeRefreshes(h)'
    BY <1>1, <1>4 DEF Keeps, InUse
  <1>5. QED
    BY <1>2, <1>3, <1>4 DEF InUse, Carried

(* A token moves from u to v, and is in use before and after. *)
LEMMA MovedSafe ==
  ASSUME ServerInv, Safe, UNCHANGED <<rows, left, clock>>, AsksKept,
         NEW u \in Slot, NEW v \in Slot, TokensIn(u)' = {}, u # v,
         TokensIn(v)' \subseteq TokensIn(u) \cup TokensIn(v),
         \A s \in Slot \ {u, v} : TokensIn(s)' \subseteq TokensIn(s),
         \A x \in Second : InUse(x)' => InUse(x)
  PROVE  Safe'
  <1>1. RowsOK /\ clock \in Nat /\ Revoked(rows')
    BY ServerParts, SameRows
  <1>2. \A x \in Second : InUse(x)' => Fresh(x)'
    BY <1>1, RevokedStaysFresh DEF Safe, AllFresh
  <1>3. LeftIsDead'
    BY DEF Safe, LeftIsDead
  <1>4. \A i \in 1..CallBound : Asks(i)' => Asked(i)' \in 1..clock
    BY AskedBound
  <1>5. QED
    BY <1>1, <1>2, <1>3, <1>4, TokensSafe

LEMMA HomeTokensMove ==
  ASSUME LogoutsQuiet, NEW h \in Homes
  PROVE  /\ \A x \in HomeTokens(h)' : x \in HomeTokens(h) \/ mem'[h].refresh = x
         /\ mem'[h] = mem[h] => HomeTokens(h)' \subseteq HomeTokens(h)
  <1>1. ASSUME NEW x \in HomeTokens(h)'
        PROVE  x \in HomeTokens(h) \/ mem'[h].refresh = x
    <2>1. x \in Second /\ (mem'[h].refresh = x \/ \E q \in LogoutsOf(h)' : req'[q].body = x)
      BY <1>1 DEF HomeTokens
    <2>2. mem'[h].refresh = x \/ \E q \in LogoutsOf(h) : req[q].body = x
      BY <2>1, LogoutsTokens
    <2>3. QED
      BY <2>1, <2>2 DEF HomeTokens
  <1>2. mem'[h] = mem[h] => \A x \in HomeTokens(h)' : mem'[h].refresh = x => x \in HomeTokens(h)
    BY DEF HomeTokens
  <1>3. QED
    BY <1>1, <1>2

(* The answer of call i, with a token, leaves its place. *)
LEMMA AnswerTaken ==
  ASSUME ServerInv, rows' = rows, NEW i \in 1..CallBound, AtPhase(i, "done"),
         calls' = [calls EXCEPT ![i] = None]
  PROVE  /\ calls[i].app \in App /\ calls[i].answer \in Held
         /\ CallTokens(i)' = {}
         /\ \A j \in 1..CallBound : CallTokens(j)' \subseteq CallTokens(j)
         /\ AsksKept
         /\ calls[i].answer # None => calls[i].answer \in CallTokens(i)
         /\ \A b \in App : b # calls[i].app \/ calls[i].kind # "refresh" =>
              RefreshCallsOf(b)' = RefreshCallsOf(b)
  <1>1. calls'[i] = None /\ \A j \in 1..CallBound : j # i => calls'[j] = calls[j]
    BY CallEnds
  <1>2. /\ calls[i] # None /\ calls[i].app \in App /\ calls[i].answer \in Held
    BY ServerParts, CallTyped DEF AtPhase, AnswersAwaited, Call
  <1>3. CallTokens(i)' = {}
    BY <1>1 DEF CallTokens, AtPhase
  <1>4. AsksKept /\ \A j \in 1..CallBound : CallTokens(j)' \subseteq CallTokens(j)
    BY EndsQuietly, QuietCalls, SameRows, ServerParts
  <1>5. calls[i].answer # None => calls[i].answer \in CallTokens(i)
    BY <1>2 DEF CallTokens, Held
  <1>6. \A b \in App : b # calls[i].app \/ calls[i].kind # "refresh" =>
          RefreshCallsOf(b)' = RefreshCallsOf(b)
    BY <1>1, CallersLeft DEF RefreshCallsOf, CallsOf
  <1>7. QED
    BY <1>2, <1>3, <1>4, <1>5, <1>6

LEMMA TabAnswerKeeps ==
  ASSUME ServerInv, rows' = rows, NEW i \in 1..CallBound, AtPhase(i, "done"),
         calls[i].answer # None, calls' = [calls EXCEPT ![i] = None], calls[i].app \in Tab,
         mem' = [mem EXCEPT ![Browser] = PairOf(calls[i].answer)], flow' = flow
  PROVE  Keeps
  <1>1. ClientsOK /\ Browser \in Homes
    BY ServerParts DEF Homes
  <1>2. PICK t \in Second : t = calls[i].answer
    BY AnswerTaken DEF Held
  <1>3. /\ mem'[Browser].refresh = t
        /\ \A h \in Homes \ {Browser} : mem'[h] = mem[h]
    BY <1>1, <1>2 DEF ClientsOK, Homes, PairOf
  <1>4. /\ t \in CallTokens(i)
        /\ \A j \in 1..CallBound : CallTokens(j)' \subseteq CallTokens(j)
        /\ \A b \in Phone : RefreshCallsOf(b)' = RefreshCallsOf(b)
    <2>1. \A b \in Phone : b \in App /\ b # calls[i].app
      BY AppHome DEF App
    <2>2. QED
      BY <1>2, <2>1, AnswerTaken
  <1>5. \A x \in Second : Carried(x)' => Carried(x)
    BY <1>4 DEF Carried, NewTokens, SignedTokens
  <1>6. Carried(t)
    BY <1>4 DEF Carried
  <1>7. \A h \in Homes \ {Browser} : HomeRefreshes(h) => HomeRefreshes(h)'
    <2> SUFFICES ASSUME NEW h \in Homes \ {Browser}, HomeRefreshes(h)
                 PROVE  HomeRefreshes(h)'
      OBVIOUS
    <2>1. \A b \in App : Home(b) = h => b \in Phone
      BY AppHome DEF App
    <2>2. \A b \in App : Home(b) = h /\ Refreshing(b) => Refreshing(b)'
      BY <1>4, <2>1, RefreshingKept
    <2>3. QED
      BY <2>2, HomeStillRefreshes
  <1>8. QED
    BY <1>3, <1>5, <1>6, <1>7 DEF Keeps

(* It reaches the cookies, or a phone's hands. *)
LEMMA TabAnswerSafe ==
  ASSUME ServerInv, Safe, UNCHANGED <<rows, left, clock>>,
         NEW i \in 1..CallBound, AtPhase(i, "done"), calls[i].answer # None,
         calls' = [calls EXCEPT ![i] = None], calls[i].app \in Tab,
         mem' = [mem EXCEPT ![Browser] = PairOf(calls[i].answer)], flow' = flow, LogoutsQuiet
  PROVE  Safe'
  <1>1. ClientsOK /\ Browser \in Homes /\ \A p \in Phone : p # Browser
    BY ServerParts, AuthConstants DEF Homes
  <1>2. PICK t \in Second : t = calls[i].answer
    BY AnswerTaken DEF Held
  <1>3. /\ mem'[Browser].refresh = t
        /\ \A h \in Homes \ {Browser} : mem'[h] = mem[h]
    BY <1>1, <1>2 DEF ClientsOK, Homes, PairOf
  <1>4. /\ CallTokens(i)' = {} /\ AsksKept /\ t \in CallTokens(i)
        /\ \A j \in 1..CallBound : CallTokens(j)' \subseteq CallTokens(j)
    BY <1>2, AnswerTaken
  <1>5. \A p \in Phone : NewTokens(p)' \subseteq NewTokens(p) /\ SignedTokens(p)' \subseteq SignedTokens(p)
    BY DEF NewTokens, SignedTokens
  <1>6. Keeps
    BY TabAnswerKeeps
  <1>7. \A x \in Second : InUse(x)' => InUse(x)
    BY <1>6, KeepsInUse
  <1> DEFINE u == <<"call", i>>
             v == <<"home", Browser>>
  <1>8. u \in Slot /\ v \in Slot /\ u # v /\ TokensIn(u)' = {}
    BY <1>1, <1>4, SlotHolds, SlotHoldsNext, SlotsDiffer
  <1>9. TokensIn(v)' \subseteq TokensIn(u) \cup TokensIn(v)
    <2>1. \A x \in HomeTokens(Browser)' : x \in HomeTokens(Browser) \/ x \in CallTokens(i)
      BY <1>1, <1>3, <1>4, HomeTokensMove
    <2>2. QED
      BY <1>1, <2>1, SlotHolds, SlotHoldsNext
  <1>10. \A s \in Slot \ {u, v} : TokensIn(s)' \subseteq TokensIn(s)
    <2>1. \A h \in Homes : <<"home", h>> \notin {u, v} => HomeTokens(h)' \subseteq HomeTokens(h)
      BY <1>3, HomeTokensMove
    <2>2. QED
      BY <1>4, <1>5, <2>1, SlotsShrink
  <1> HIDE DEF u, v
  <1>11. QED
    BY <1>4, <1>7, <1>8, <1>9, <1>10, MovedSafe

LEMMA PhoneAnswerKeeps ==
  ASSUME ServerInv, UNCHANGED <<rows, mem>>,
         NEW i \in 1..CallBound, AtPhase(i, "done"), calls[i].answer # None,
         calls' = [calls EXCEPT ![i] = None], NEW a \in Phone, a = calls[i].app,
         \/ /\ calls[i].kind # "refresh"
            /\ flow' = [flow EXCEPT ![a] = [flow[a] EXCEPT !.sign = "signIn",
                                                          !.signed = calls[i].answer]]
         \/ flow' = [flow EXCEPT ![a] = [flow[a] EXCEPT !.refresh = "persist",
                                                        !.new = calls[i].answer]]
  PROVE  Keeps
  <1>1. ClientsOK /\ a \in App
    BY ServerParts DEF App
  <1>2. PICK t \in Second : t = calls[i].answer
    BY AnswerTaken DEF Held
  <1>3. /\ t \in CallTokens(i)
        /\ \A j \in 1..CallBound : CallTokens(j)' \subseteq CallTokens(j)
        /\ \A b \in App \ {a} : RefreshCallsOf(b)' = RefreshCallsOf(b)
        /\ calls[i].kind # "refresh" => RefreshCallsOf(a)' = RefreshCallsOf(a)
    BY <1>1, <1>2, AnswerTaken
  <1>4. /\ \A p \in Phone \ {a} : flow'[p] = flow[p]
        /\ flow'[a].new \in {flow[a].new, t} /\ flow'[a].signed \in {flow[a].signed, t}
        /\ \/ calls[i].kind # "refresh" /\ flow'[a].refresh = flow[a].refresh
           \/ flow'[a].refresh = "persist"
    <2>1. flow \in [Phone -> Flow] /\ flow[a] \in Flow
      BY <1>1 DEF ClientsOK
    <2>2. CASE /\ calls[i].kind # "refresh"
               /\ flow' = [flow EXCEPT ![a] = [flow[a] EXCEPT !.sign = "signIn", !.signed = t]]
      <3>1. flow'[a] = [flow[a] EXCEPT !.sign = "signIn", !.signed = t]
        BY <2>1, <2>2
      <3>2. QED
        BY <2>1, <2>2, <3>1 DEF Flow
    <2>3. CASE flow' = [flow EXCEPT ![a] = [flow[a] EXCEPT !.refresh = "persist", !.new = t]]
      <3>1. flow'[a] = [flow[a] EXCEPT !.refresh = "persist", !.new = t]
        BY <2>1, <2>3
      <3>2. QED
        BY <2>1, <2>3, <3>1 DEF Flow
    <2>4. QED
      BY <1>2, <2>2, <2>3
  <1>5. \A x \in Second : Carried(x)' => Carried(x)
    <2>1. \A p \in Phone : /\ NewTokens(p)' \subseteq NewTokens(p) \cup CallTokens(i)
                           /\ SignedTokens(p)' \subseteq SignedTokens(p) \cup CallTokens(i)
      BY <1>3, <1>4 DEF NewTokens, SignedTokens
    <2>2. QED
      BY <1>3, <2>1 DEF Carried
  <1>6. ASSUME NEW b \in App, Refreshing(b)
        PROVE  Refreshing(b)'
    <2>1. CASE b # a
      BY <1>3, <1>4, <1>6, <2>1, RefreshingKept
    <2>2. CASE b = a /\ flow'[a].refresh = "persist"
      BY <2>2 DEF Refreshing
    <2>3. CASE b = a /\ flow'[a].refresh # "persist"
      BY <1>1, <1>3, <1>4, <1>6, <2>3, RefreshingKept
    <2>4. QED
      BY <2>1, <2>2, <2>3
  <1>7. \A h \in Homes : HomeRefreshes(h) => HomeRefreshes(h)'
    BY <1>6, HomeStillRefreshes
  <1>8. QED
    BY <1>5, <1>7 DEF Keeps

LEMMA PhoneAnswerSafe ==
  ASSUME ServerInv, Safe, UNCHANGED <<rows, left, clock, mem, req>>,
         NEW i \in 1..CallBound, AtPhase(i, "done"), calls[i].answer # None,
         calls' = [calls EXCEPT ![i] = None], NEW a \in Phone, a = calls[i].app,
         \/ /\ calls[i].kind # "refresh"
            /\ flow' = [flow EXCEPT ![a] = [flow[a] EXCEPT !.sign = "signIn",
                                                          !.signed = calls[i].answer]]
         \/ flow' = [flow EXCEPT ![a] = [flow[a] EXCEPT !.refresh = "persist",
                                                        !.new = calls[i].answer]]
  PROVE  Safe'
  <1>1. ClientsOK /\ LogoutsQuiet
    BY ServerParts DEF LogoutsQuiet
  <1>2. PICK t \in Second : t = calls[i].answer
    BY AnswerTaken DEF Held
  <1>3. /\ CallTokens(i)' = {} /\ AsksKept /\ t \in CallTokens(i)
        /\ \A j \in 1..CallBound : CallTokens(j)' \subseteq CallTokens(j)
    BY <1>2, AnswerTaken
  <1>4. PICK v \in {<<"new", a>>, <<"signed", a>>} :
          /\ \A p \in Phone : <<"new", p>> # v => flow'[p].new = flow[p].new
          /\ \A p \in Phone : <<"signed", p>> # v => flow'[p].signed = flow[p].signed
          /\ v = <<"new", a>> => flow'[a].new = t
          /\ v = <<"signed", a>> => flow'[a].signed = t
          /\ \A p \in Phone \ {a} : flow'[p] = flow[p]
    <2>1. CASE /\ calls[i].kind # "refresh"
               /\ flow' = [flow EXCEPT ![a] = [flow[a] EXCEPT !.sign = "signIn",
                                                             !.signed = calls[i].answer]]
      <3>1. /\ \A p \in Phone \ {a} : flow'[p] = flow[p]
            /\ flow'[a].new = flow[a].new /\ flow'[a].signed = t
        BY <1>1, <1>2, <2>1 DEF ClientsOK, Flow
      <3>2. WITNESS <<"signed", a>> \in {<<"new", a>>, <<"signed", a>>}
      <3>3. QED
        BY <2>1, <3>1, SlotsDiffer
    <2>2. CASE flow' = [flow EXCEPT ![a] = [flow[a] EXCEPT !.refresh = "persist",
                                                           !.new = calls[i].answer]]
      <3>1. /\ \A p \in Phone \ {a} : flow'[p] = flow[p]
            /\ flow'[a].signed = flow[a].signed /\ flow'[a].new = t
        BY <1>1, <1>2, <2>2 DEF ClientsOK, Flow
      <3>2. WITNESS <<"new", a>> \in {<<"new", a>>, <<"signed", a>>}
      <3>3. QED
        BY <3>1, SlotsDiffer
    <2>3. QED
      BY <2>1, <2>2
  <1>5. /\ \A p \in Phone : <<"new", p>> # v => NewTokens(p)' \subseteq NewTokens(p)
        /\ \A p \in Phone : <<"signed", p>> # v => SignedTokens(p)' \subseteq SignedTokens(p)
        /\ v = <<"new", a>> => NewTokens(a)' \subseteq CallTokens(i)
        /\ v = <<"signed", a>> => SignedTokens(a)' \subseteq CallTokens(i)
    BY <1>3, <1>4 DEF NewTokens, SignedTokens
  <1>6. Keeps
    BY PhoneAnswerKeeps
  <1>7. \A x \in Second : InUse(x)' => InUse(x)
    BY <1>1, <1>6, KeepsInUse
  <1> DEFINE u == <<"call", i>>
  <1>8. u \in Slot /\ v \in Slot /\ u # v /\ TokensIn(u)' = {}
    <2>1. u \in Slot /\ TokensIn(u)' = {}
      BY <1>3, SlotHolds, SlotHoldsNext
    <2>2. <<"new", a>> \in Slot /\ <<"signed", a>> \in Slot
      BY SlotHolds
    <2>3. <<"new", a>> # u /\ <<"signed", a>> # u
      BY SlotsDiffer
    <2> HIDE DEF u
    <2>4. QED
      BY <2>1, <2>2, <2>3
  <1>9. TokensIn(v)' \subseteq TokensIn(u) \cup TokensIn(v)
    <2>1. TokensIn(u) = CallTokens(i)
      BY SlotHolds
    <2>2. CASE v = <<"new", a>>
      <3>1. TokensIn(<<"new", a>>)' \subseteq CallTokens(i)
        BY <1>5, <2>2, SlotHoldsNext
      <3>2. QED
        BY <2>1, <2>2, <3>1
    <2>3. CASE v = <<"signed", a>>
      <3>1. TokensIn(<<"signed", a>>)' \subseteq CallTokens(i)
        BY <1>5, <2>3, SlotHoldsNext
      <3>2. QED
        BY <2>1, <2>3, <3>1
    <2>4. QED
      BY <2>2, <2>3
  <1>10. \A s \in Slot \ {u, v} : TokensIn(s)' \subseteq TokensIn(s)
    <2>1. \A h \in Homes : HomeTokens(h)' \subseteq HomeTokens(h)
      BY <1>1, HomeTokensMove
    <2>2. QED
      BY <1>3, <1>5, <2>1, SlotsShrink
  <1> HIDE DEF u
  <1>11. QED
    BY <1>3, <1>7, <1>8, <1>9, <1>10, MovedSafe


LEMMA SignInAnswerSafe ==
  ASSUME ServerInv, Safe, NEW i \in 1..CallBound, SignInAnswer(i)
  PROVE  Safe'
  <1>1. /\ ClientsOK /\ AtPhase(i, "done") /\ calls[i].kind # "refresh"
        /\ UNCHANGED <<rows, left, clock, req>> /\ calls' = [calls EXCEPT ![i] = None]
    BY ServerParts DEF SignInAnswer, serverVars
  <1>2. LogoutsQuiet /\ calls[i].app \in App
    BY <1>1, AnswerTaken DEF LogoutsQuiet
  <1>3. CASE calls[i].answer = None
    <2>1. mem' = mem /\ flow' = flow
      BY <1>3 DEF SignInAnswer
    <2>2. \A b \in App : RefreshCallsOf(b)' = RefreshCallsOf(b)
      BY <1>1, AnswerTaken
    <2>3. \A h \in Homes : HomeRefreshes(h) => HomeRefreshes(h)'
      <3>1. \A b \in App : Refreshing(b) => Refreshing(b)'
        BY <2>1, <2>2, RefreshingKept
      <3>2. QED
        BY <3>1, HomeStillRefreshes
    <2>4. CallsQuiet
      BY <1>1, EndsQuietly
    <2>5. QED
      BY <1>1, <1>2, <2>1, <2>3, <2>4, ForgetsAtMost DEF Forgets
  <1>4. CASE calls[i].answer # None /\ calls[i].app \in Tab
    <2>1. mem' = [mem EXCEPT ![Browser] = PairOf(calls[i].answer)] /\ flow' = flow
      BY <1>4 DEF SignInAnswer
    <2>2. QED
      BY <1>1, <1>2, <1>4, <2>1, TabAnswerSafe
  <1>5. CASE calls[i].answer # None /\ calls[i].app \notin Tab
    <2>1. PICK a \in Phone : a = calls[i].app
      BY <1>2, <1>5 DEF App
    <2>2. /\ mem' = mem
          /\ flow' = [flow EXCEPT ![a] = [flow[a] EXCEPT !.sign = "signIn",
                                                        !.signed = calls[i].answer]]
      BY <1>1, <1>5, <2>1 DEF SignInAnswer, ClientsOK
    <2>3. QED
      BY <1>1, <1>5, <2>1, <2>2, PhoneAnswerSafe
  <1>6. QED
    BY <1>3, <1>4, <1>5

LEMMA RefreshAnswerSafe ==
  ASSUME ServerInv, Safe, NEW i \in 1..CallBound, RefreshAnswer(i)
  PROVE  Safe'
  <1>1. /\ ClientsOK /\ AtPhase(i, "done") /\ calls[i].answer # None
        /\ UNCHANGED <<rows, left, clock>> /\ calls' = [calls EXCEPT ![i] = None]
    BY ServerParts DEF RefreshAnswer, serverVars
  <1>2. calls[i].app \in App /\ calls[i].answer \in Second
    BY <1>1, AnswerTaken DEF Held
  <1>3. CASE calls[i].app \in Tab
    <2>1. /\ mem' = [mem EXCEPT ![Browser] = PairOf(calls[i].answer)] /\ flow' = flow
          /\ req' = Retries(calls[i].app, calls[i].answer)
      BY <1>3 DEF RefreshAnswer
    <2>2. LogoutsQuiet
      BY <1>1, <1>2, <2>1, RetriesFacts DEF LogoutsQuiet
    <2>3. QED
      BY <1>1, <1>3, <2>1, <2>2, TabAnswerSafe
  <1>4. CASE calls[i].app \notin Tab
    <2>1. PICK a \in Phone : a = calls[i].app
      BY <1>2, <1>4 DEF App
    <2>2. /\ mem' = mem /\ req' = req
          /\ flow' = [flow EXCEPT ![a] = [flow[a] EXCEPT !.refresh = "persist",
                                                         !.new = calls[i].answer]]
      BY <1>1, <1>4, <2>1 DEF RefreshAnswer, ClientsOK
    <2>3. QED
      BY <1>1, <2>1, <2>2, PhoneAnswerSafe
  <1>5. QED
    BY <1>3, <1>4

LEMMA WrittenKeeps ==
  ASSUME ServerInv, calls' = calls, NEW p \in Phone, NEW x \in Held,
         x \in {flow[p].new, flow[p].signed}, mem' = [mem EXCEPT ![p] = PairOf(x)],
         flow'[p].new \in {flow[p].new, None}, flow'[p].signed \in {flow[p].signed, None},
         \A r \in Phone \ {p} : flow'[r] = flow[r]
  PROVE  Keeps
  <1>1. ClientsOK /\ p \in Homes /\ \A b \in App : Home(b) = p => b = p
    BY ServerParts, AppHome DEF Homes, App
  <1>2. mem'[p].refresh = x /\ \A h \in Homes \ {p} : mem'[h] = mem[h]
    BY <1>1 DEF ClientsOK, Homes, PairOf
  <1>3. \A y \in Second : Carried(y)' => Carried(y)
    <2>1. \A y \in Second : y # None
      BY Bounds, Numbers DEF Second
    <2>2. /\ \A r \in Phone : /\ NewTokens(r)' \subseteq NewTokens(r)
                              /\ SignedTokens(r)' \subseteq SignedTokens(r)
          /\ \A j \in 1..CallBound : CallTokens(j)' = CallTokens(j)
      BY <2>1 DEF NewTokens, SignedTokens, CallTokens, AtPhase
    <2>3. QED
      BY <2>2 DEF Carried
  <1>4. x \in Second => Carried(x)
    BY DEF Carried, NewTokens, SignedTokens
  <1>5. \A b \in App \ {p} : RefreshCallsOf(b)' = RefreshCallsOf(b)
    BY DEF RefreshCallsOf, CallsOf
  <1>6. \A h \in Homes \ {p} : HomeRefreshes(h) => HomeRefreshes(h)'
    <2> SUFFICES ASSUME NEW h \in Homes \ {p}, HomeRefreshes(h)
                 PROVE  HomeRefreshes(h)'
      OBVIOUS
    <2>1. ASSUME NEW b \in App, Home(b) = h, Refreshing(b)
          PROVE  Refreshing(b)'
      <3>1. b # p
        BY <1>1, <2>1, AppHome
      <3>2. RefreshCallsOf(b)' = RefreshCallsOf(b) /\ (b \in Phone => flow'[b] = flow[b])
        BY <1>5, <3>1
      <3>3. QED
        BY <2>1, <3>2, RefreshingKept
    <2>2. QED
      BY <2>1, HomeStillRefreshes
  <1>7. QED
    BY <1>2, <1>3, <1>4, <1>6 DEF Keeps

(* The second key is written: a phone's pair comes home. *)
LEMMA WrittenSafe ==
  ASSUME ServerInv, Safe, UNCHANGED <<rows, left, clock, calls>>, LogoutsQuiet, NEW p \in Phone,
         NEW x \in Held, mem' = [mem EXCEPT ![p] = PairOf(x)],
         NEW u \in Slot, u \in {<<"new", p>>, <<"signed", p>>},
         u = <<"new", p>> => x = flow[p].new /\ flow'[p].new = None,
         u = <<"new", p>> => flow'[p].signed = flow[p].signed,
         u = <<"signed", p>> => x = flow[p].signed /\ flow'[p].signed = None,
         u = <<"signed", p>> => flow'[p].new = flow[p].new,
         \A r \in Phone \ {p} : flow'[r] = flow[r]
  PROVE  Safe'
  <1>1. ClientsOK /\ p \in Homes /\ p \in App /\ \A b \in App : Home(b) = p => b = p
    BY ServerParts, AppHome DEF Homes, App
  <1>2. AsksKept /\ \A i \in 1..CallBound : CallTokens(i)' \subseteq CallTokens(i)
    BY SameCallsQuiet, SameRows, QuietCalls, ServerParts
  <1>3. mem'[p].refresh = x /\ \A h \in Homes \ {p} : mem'[h] = mem[h]
    BY <1>1 DEF ClientsOK, Homes, PairOf
  <1>4. \A y \in Second : y # None
    BY Bounds, Numbers DEF Second
  <1>5. /\ \A r \in Phone : <<"new", r>> # u => NewTokens(r)' \subseteq NewTokens(r)
        /\ \A r \in Phone : <<"signed", r>> # u => SignedTokens(r)' \subseteq SignedTokens(r)
        /\ u = <<"new", p>> => NewTokens(p)' = {} /\ (x \in Second => x \in NewTokens(p))
        /\ u = <<"signed", p>> => SignedTokens(p)' = {} /\ (x \in Second => x \in SignedTokens(p))
    <2>1. CASE u = <<"new", p>>
      BY <1>4, <2>1, SlotsDiffer DEF NewTokens, SignedTokens
    <2>2. CASE u = <<"signed", p>>
      BY <1>4, <2>2, SlotsDiffer DEF NewTokens, SignedTokens
    <2>3. QED
      BY <2>1, <2>2, SlotsDiffer
  <1>6. Keeps
    <2>1. /\ x \in {flow[p].new, flow[p].signed}
          /\ flow'[p].new \in {flow[p].new, None} /\ flow'[p].signed \in {flow[p].signed, None}
      OBVIOUS
    <2>2. QED
      BY <2>1, WrittenKeeps
  <1>7. \A y \in Second : InUse(y)' => InUse(y)
    BY <1>6, KeepsInUse
  <1> DEFINE v == <<"home", p>>
  <1>8. v \in Slot /\ u # v /\ TokensIn(u)' = {} /\ (x \in Second => x \in TokensIn(u))
    <2>1. v \in Slot /\ <<"new", p>> # v /\ <<"signed", p>> # v
      BY <1>1, SlotHolds, SlotsDiffer
    <2>2. CASE u = <<"new", p>>
      <3>1. TokensIn(<<"new", p>>)' = {} /\ (x \in Second => x \in TokensIn(<<"new", p>>))
        BY <1>5, <2>2, SlotHolds, SlotHoldsNext
      <3> HIDE DEF v
      <3>2. QED
        BY <2>1, <2>2, <3>1
    <2>3. CASE u = <<"signed", p>>
      <3>1. TokensIn(<<"signed", p>>)' = {} /\ (x \in Second => x \in TokensIn(<<"signed", p>>))
        BY <1>5, <2>3, SlotHolds, SlotHoldsNext
      <3> HIDE DEF v
      <3>2. QED
        BY <2>1, <2>3, <3>1
    <2>4. QED
      BY <2>2, <2>3
  <1>9. TokensIn(v)' \subseteq TokensIn(u) \cup TokensIn(v)
    <2>1. \A y \in HomeTokens(p)' : y \in Second /\ (y \in HomeTokens(p) \/ y = x)
      BY <1>1, <1>3, HomeTokensMove DEF HomeTokens
    <2>2. TokensIn(v)' = HomeTokens(p)' /\ TokensIn(v) = HomeTokens(p)
      BY <1>1, SlotHolds, SlotHoldsNext
    <2>3. QED
      BY <1>8, <2>1, <2>2
  <1>10. \A s \in Slot \ {u, v} : TokensIn(s)' \subseteq TokensIn(s)
    <2>1. \A h \in Homes : <<"home", h>> \notin {u, v} => HomeTokens(h)' \subseteq HomeTokens(h)
      BY <1>3, HomeTokensMove
    <2>2. QED
      BY <1>2, <1>5, <2>1, SlotsShrink
  <1> HIDE DEF v
  <1>11. QED
    BY <1>2, <1>7, <1>8, <1>9, <1>10, MovedSafe

LEMMA PhoneWritesSafe ==
  ASSUME ServerInv, Safe, Persisting, NEW p \in Phone, SignedIn(p) \/ Persisted(p)
  PROVE  Safe'
  <1>1. /\ ClientsOK /\ p \in App /\ UNCHANGED <<rows, left, clock, calls>>
        /\ <<"new", p>> \in Slot /\ <<"signed", p>> \in Slot
    BY ServerParts, SlotHolds DEF SignedIn, Persisted, serverVars, App
  <1>2. flow[p].new \in Held /\ flow[p].signed \in Held
    BY <1>1 DEF ClientsOK, Flow
  <1>3. CASE SignedIn(p)
    <2>1. /\ mem' = [mem EXCEPT ![p] = PairOf(flow[p].signed)] /\ req' = req
          /\ flow'[p].signed = None /\ flow'[p].new = flow[p].new
          /\ \A r \in Phone \ {p} : flow'[r] = flow[r]
      BY <1>1, <1>3 DEF SignedIn, ClientsOK, Flow
    <2>2. LogoutsQuiet
      BY <2>1 DEF LogoutsQuiet
    <2>3. PICK u \in Slot : u = <<"signed", p>>
      BY <1>1
    <2>4. u # <<"new", p>>
      BY <2>3, SlotsDiffer
    <2>5. PICK x \in Held : x = flow[p].signed
      BY <1>2
    <2>6. QED
      BY <1>1, <2>1, <2>2, <2>3, <2>4, <2>5, WrittenSafe
  <1>4. CASE Persisted(p)
    <2>1. /\ mem' = [mem EXCEPT ![p] = PairOf(flow[p].new)] /\ req' = Retries(p, flow[p].new)
          /\ flow'[p].new = None /\ flow'[p].signed = flow[p].signed
          /\ \A r \in Phone \ {p} : flow'[r] = flow[r]
      BY <1>1, <1>4 DEF Persisted, ClientsOK, Flow
    <2>2. flow[p].new \in Second
      BY <1>2, <1>4 DEF Persisting, Persisted, Held
    <2>3. LogoutsQuiet
      BY <1>1, <2>1, <2>2, RetriesFacts DEF LogoutsQuiet
    <2>4. PICK u \in Slot : u = <<"new", p>>
      BY <1>1
    <2>5. u # <<"signed", p>>
      BY <2>4, SlotsDiffer
    <2>6. PICK x \in Held : x = flow[p].new
      BY <1>2
    <2>7. QED
      BY <1>1, <2>1, <2>3, <2>4, <2>5, <2>6, WrittenSafe
  <1>5. QED
    BY <1>3, <1>4


-----------------------------------------------------------------------------
(* The server's steps. *)
LEMMA RefusalQuiet ==
  ASSUME ServerInv, NEW i \in 1..CallBound, calls[i] # None, calls' = Answered(i, None),
         Len(rows') \in Nat, Len(rows') >= Len(rows)
  PROVE  CallsQuiet /\ SameCallers
  <1>1. CallsOK /\ RowsOK /\ AnswersAwaited /\ None \in Held
    BY ServerParts DEF Held
  <1>2. /\ SameCallers
        /\ \A j \in 1..CallBound : j # i => calls'[j] = calls[j]
        /\ calls'[i] # None => calls'[i].phase = "done" /\ calls'[i].answer = None
    BY <1>1, AnsweredCall, AnsweredKeeps
  <1>3. QED
    BY <1>2 DEF CallsQuiet

LEMMA ServerQuietSafe ==
  ASSUME ServerInv, Safe, AsksKept, SameCallers, UNCHANGED <<mem, flow, req>>,
         \A i \in 1..CallBound : CallTokens(i)' \subseteq CallTokens(i),
         Revoked(rows'), left' = left, clock' \in Nat, clock' >= clock
  PROVE  Safe'
  <1>1. LogoutsQuiet
    BY DEF LogoutsQuiet
  <1>2. \A h \in Homes : HomeRefreshes(h) => HomeRefreshes(h)'
    <2>1. \A b \in App : Refreshing(b) => Refreshing(b)'
      BY CallersKept, RefreshingKept
    <2>2. QED
      BY <2>1, HomeStillRefreshes
  <1>3. LeftIsDead'
    BY ServerParts, RevokedStaysDead DEF Safe
  <1>4. QED
    BY <1>1, <1>2, <1>3, QuietStep

LEMMA ChecksSafe ==
  ASSUME ServerInv, Safe, NEW i \in 1..CallBound,
         \/ RegisterFind(i) \/ RegisterCreate(i) \/ LoginCheck(i)
         \/ RefreshRevokes(i) \/ RefreshExpired(i)
         \/ \E t \in Second : RefreshRotate(i, t) /\ ~Rotates(calls[i].row)
  PROVE  Safe'
  <1>1. CallsOK /\ RowsOK /\ Len(rows) \in Nat /\ clock \in Nat
    BY ServerParts
  <1>2. calls[i] # None /\ UNCHANGED <<mem, flow, req, left>>
    BY DEF serverVars, RegisterFind, RegisterCreate, LoginCheck, RefreshRevokes, RefreshExpired,
       RefreshRotate, AtPhase
  <1>3. /\ CallsOK /\ RowsOK /\ calls[i] # None /\ Len(rows) \in Nat /\ clock \in Nat
        /\ UNCHANGED <<mem, flow, req, left>>
    BY <1>1, <1>2
  <1>4. SameCallers
    BY RegisterFindHolds, RegisterCreateHolds, LoginCheckHolds, RefreshRevokesHolds,
       RefreshExpiredHolds, RefreshRotateHolds
  <1>5. Revoked(rows') /\ Len(rows') = Len(rows)
    <2>1. CASE RefreshRevokes(i) \/ RefreshExpired(i)
      BY <2>1, RefreshRevokesHolds, RefreshExpiredHolds
    <2>2. CASE \/ RegisterFind(i) \/ RegisterCreate(i) \/ LoginCheck(i)
               \/ \E t \in Second : RefreshRotate(i, t) /\ ~Rotates(calls[i].row)
      <3>1. rows' = rows
        BY <2>2 DEF RegisterFind, RegisterCreate, LoginCheck, RefreshRotate, serverVars
      <3>2. QED
        BY <1>3, <3>1, SameRows
    <2>3. QED
      BY <2>1, <2>2
  <1>6. clock' \in Nat /\ clock' >= clock
    <2>1. ASSUME NEW t \in Second, RefreshRotate(i, t)
          PROVE  clock' \in Nat /\ clock' >= clock
      BY <1>3, <2>1 DEF RefreshRotate, Signs
    <2>2. QED
      BY <1>3, <2>1 DEF RegisterFind, RegisterCreate, LoginCheck, RefreshRevokes, RefreshExpired,
         serverVars
  <1>7. CASE calls' = Answered(i, None)
    <2>1. AsksKept /\ \A j \in 1..CallBound : CallTokens(j)' \subseteq CallTokens(j)
      BY <1>3, <1>5, <1>7, RefusalQuiet, QuietCalls
    <2>2. QED
      BY <1>3, <1>4, <1>5, <1>6, <2>1, ServerQuietSafe
  <1>8. CASE calls' # Answered(i, None)
    <2>1. \/ RegisterFind(i) \/ LoginCheck(i)
          \/ RegisterCreate(i)
      BY <1>8 DEF RefreshRevokes, RefreshExpired, RefreshRotate
    <2>2. /\ calls[i].kind # "refresh" \/ calls[i].phase # "sent"
          /\ calls[i].phase # "done" /\ rows' = rows
          /\ \E phase \in {"creating", "go"} :
               calls' = [calls EXCEPT ![i] = [calls[i] EXCEPT !.phase = phase]]
      <3>1. CASE RegisterFind(i)
        BY <1>3, <1>8, <3>1 DEF RegisterFind, CallsOK, AtPhase, serverVars
      <3>2. CASE LoginCheck(i)
        BY <1>3, <1>8, <3>2 DEF LoginCheck, CallsOK, AtPhase, serverVars
      <3>3. CASE RegisterCreate(i)
        BY <1>3, <1>8, <3>3 DEF RegisterCreate, CallsOK, AtPhase
      <3>4. QED
        BY <2>1, <3>1, <3>2, <3>3
    <2>3. PICK phase \in {"creating", "go"} :
            calls' = [calls EXCEPT ![i] = [calls[i] EXCEPT !.phase = phase]]
      BY <2>2
    <2>4. /\ calls'[i].kind = calls[i].kind /\ calls'[i].phase = phase
          /\ calls'[i].row = calls[i].row
          /\ \A j \in 1..CallBound : j # i => calls'[j] = calls[j]
      <3>1. calls[i] \in Call
        BY <1>3, CallTyped
      <3>2. QED
        BY <1>3, <2>3, <3>1 DEF CallsOK, Call
    <2>5. AsksKept
      <3>1. ASSUME NEW j \in 1..CallBound, j # i
            PROVE  Asks(j)' => Asks(j) /\ Asked(j)' = Asked(j)
        BY <2>2, <2>4, <3>1 DEF Asks, Asked, AtPhase
      <3>2. Asks(i)' => Asks(i) /\ Asked(i)' = Asked(i)
        <4>1. phase # "sent" /\ phase # "done"
          OBVIOUS
        <4>2. QED
          BY <1>3, <2>2, <2>4, <4>1 DEF Asks, Asked, AtPhase
      <3>3. QED
        BY <3>1, <3>2 DEF AsksKept
    <2>6. \A j \in 1..CallBound : CallTokens(j)' \subseteq CallTokens(j)
      BY <2>4 DEF CallTokens, AtPhase
    <2>7. QED
      BY <1>3, <1>4, <1>5, <1>6, <2>5, <2>6, ServerQuietSafe
  <1>9. QED
    BY <1>7, <1>8

(* A revocation that begins changes nothing a client sees. *)
LEMMA BeginsSafe ==
  ASSUME ServerInv, Safe, NEW i \in 1..CallBound, RevocationBegins(i)
  PROVE  Safe'
  <1>1. /\ UNCHANGED <<rows, left, clock, calls>> /\ mem' = mem /\ flow' = flow /\ req' = req
    BY RevocationBeginsHolds
  <1>2. LogoutsQuiet
    BY <1>1 DEF LogoutsQuiet
  <1>3. QED
    BY <1>1, <1>2, FlowSame, SameCallsQuiet, ForgetsAtMost DEF Forgets

(* A refresh finds the row of the token it asks for. *)
LEMMA FindQuiet ==
  ASSUME ServerInv, NEW i \in 1..CallBound, RefreshFind(i)
  PROVE  /\ AsksKept /\ SameCallers /\ UNCHANGED <<rows, left, clock, status, mem, flow, req>>
         /\ \A j \in 1..CallBound : CallTokens(j)' \subseteq CallTokens(j)
         /\ \A j \in 1..CallBound : j # i => calls'[j] = calls[j]
         /\ Asks(i)
         /\ \E n \in DOMAIN rows : rows[n].tok = Asked(i) /\ calls'[i].phase = Verdict(rows[n])
  <1>1. /\ CallsOK /\ RowsOK /\ calls[i] # None /\ calls[i] \in Call
        /\ calls[i].kind = "refresh" /\ calls[i].phase = "sent"
        /\ UNCHANGED <<mem, flow, req, left, rows, clock, status>>
    BY ServerParts, CallTyped DEF RefreshFind, AtPhase, serverVars
  <1>2. PICK n \in DOMAIN rows :
          /\ rows[n].tok = calls[i].tok
          /\ calls' = [calls EXCEPT ![i].phase = Verdict(rows[n]), ![i].row = n, ![i].tok = None]
    BY DEF RefreshFind
  <1>3. Verdict(rows[n]) \in {"reuse", "barred", "expired", "go"}
    BY DEF Verdict
  <1>4. /\ calls'[i].kind = "refresh" /\ calls'[i].phase = Verdict(rows[n]) /\ calls'[i].row = n
        /\ \A j \in 1..CallBound : j # i => calls'[j] = calls[j]
    <2>1. calls' = [calls EXCEPT ![i] = [calls[i] EXCEPT !.phase = Verdict(rows[n]), !.row = n,
                                                         !.tok = None]]
      BY <1>1, <1>2 DEF CallsOK
    <2>2. QED
      BY <1>1, <1>3, <2>1 DEF CallsOK, Call
  <1>5. Asks(i) /\ Asked(i) = rows[n].tok /\ Asked(i)' = rows[n].tok
    BY <1>1, <1>2, <1>3, <1>4 DEF Asks, Asked, AtPhase
  <1>6. AsksKept
    <2>1. ASSUME NEW j \in 1..CallBound, j # i
          PROVE  Asks(j)' => Asks(j) /\ Asked(j)' = Asked(j)
      BY <1>1, <1>4, <2>1 DEF Asks, Asked, AtPhase
    <2>2. QED
      BY <1>5, <2>1 DEF AsksKept
  <1>7. \A j \in 1..CallBound : CallTokens(j)' \subseteq CallTokens(j)
    BY <1>3, <1>4 DEF CallTokens, AtPhase
  <1>8. SameCallers
    BY RefreshFindHolds
  <1>9. QED
    BY <1>1, <1>4, <1>5, <1>6, <1>7, <1>8

LEMMA FindSafe ==
  ASSUME ServerInv, Safe, NEW i \in 1..CallBound, RefreshFind(i)
  PROVE  Safe'
  <1>1. RowsOK /\ clock \in Nat
    BY ServerParts
  <1>2. /\ AsksKept /\ SameCallers /\ UNCHANGED <<rows, left, clock, mem, flow, req>>
        /\ \A j \in 1..CallBound : CallTokens(j)' \subseteq CallTokens(j)
    BY FindQuiet
  <1>3. QED
    BY <1>1, <1>2, SameRows, ServerQuietSafe

(* A pair is signed. *)
LEMMA InUseOld ==
  ASSUME ServerInv, Bounded, NEW x \in Second, InUse(x)
  PROVE  x <= clock
  <1>1. ClientsOK
    BY ServerParts
  <1>2. CASE \E i \in 1..CallBound : x \in CallTokens(i)
    BY <1>2, SlotHolds DEF Bounded
  <1>3. CASE \E p \in Phone : x \in NewTokens(p) \cup SignedTokens(p)
    BY <1>3, SlotHolds DEF Bounded
  <1>4. CASE \E q \in Request : req[q] # None /\ req[q].body = x
    <2>1. PICK q \in Request : req[q] # None /\ req[q].body = x
      BY <1>4
    <2>2. req[q].app \in App /\ x # None
      BY <1>1, <2>1, Bounds, Numbers DEF ClientsOK, Sent, Second
    <2>3. Home(req[q].app) \in Homes
      BY <2>2, AppHome DEF Homes
    <2>4. x \in HomeTokens(Home(req[q].app))
      BY <2>1, <2>2 DEF HomeTokens, LogoutsOf
    <2>5. QED
      BY <2>3, <2>4, SlotHolds DEF Bounded
  <1>5. CASE \E h \in Homes : mem[h].refresh = x
    <2>1. PICK h \in Homes : x \in HomeTokens(h)
      BY <1>5 DEF HomeTokens
    <2>2. QED
      BY <2>1, SlotHolds DEF Bounded
  <1>6. QED
    BY <1>2, <1>3, <1>4, <1>5 DEF InUse

LEMMA AnsweredAsks ==
  ASSUME ServerInv, NEW i \in 1..CallBound, calls[i] # None, NEW t \in Held,
         calls' = Answered(i, t), RowsInv', Len(rows') >= Len(rows),
         \A n \in 1..Len(rows) : rows'[n].tok = rows[n].tok
  PROVE  /\ ~Asks(i)' /\ CallTokens(i)' \subseteq {t}
         /\ \A j \in 1..CallBound : j # i =>
              /\ CallTokens(j)' = CallTokens(j)
              /\ Asks(j)' => Asks(j) /\ Asked(j)' = Asked(j)
  <1>1. /\ CallsOK /\ RowsOK /\ Len(rows') \in Nat
    BY ServerParts DEF RowsInv, RowsOK
  <1>2. /\ \A j \in 1..CallBound : j # i => calls'[j] = calls[j]
        /\ calls'[i] # None => calls'[i].phase = "done" /\ calls'[i].answer = t
    BY <1>1, AnsweredCall
  <1>3. ~Asks(i)' /\ CallTokens(i)' \subseteq {t}
    BY <1>2 DEF Asks, CallTokens, AtPhase
  <1>4. ASSUME NEW j \in 1..CallBound, j # i
        PROVE  /\ CallTokens(j)' = CallTokens(j)
               /\ Asks(j)' => Asks(j) /\ Asked(j)' = Asked(j)
    <2>1. calls'[j] = calls[j]
      BY <1>2, <1>4
    <2>2. CallTokens(j)' = CallTokens(j) /\ (Asks(j)' => Asks(j))
      BY <2>1 DEF CallTokens, AtPhase, Asks
    <2>3. ASSUME Asks(j)
          PROVE  Asked(j)' = Asked(j)
      <3>1. CASE calls[j].phase = "sent"
        BY <2>1, <2>3, <3>1 DEF Asks, Asked, AtPhase
      <3>2. CASE calls[j].phase # "sent"
        <4>1. calls[j] \in Call /\ GoodCall(calls[j], Len(rows)) /\ Len(rows) \in Nat
          BY <2>3, ServerParts, CallTyped DEF Asks
        <4>2. calls[j].row \in 1..Len(rows)
          BY <2>3, <3>2, <4>1, Numbers DEF GoodCall, Call, Asks
        <4>3. QED
          BY <2>1, <2>3, <3>2, <4>2 DEF Asks, Asked, AtPhase
      <3>3. QED
        BY <3>1, <3>2
    <2>4. QED
      BY <2>2, <2>3
  <1>5. QED
    BY <1>3, <1>4

LEMMA SignedSafe ==
  ASSUME ServerInv, Safe, NEW i \in 1..CallBound, calls[i] # None, NEW t \in Second,
         t = clock + 1, clock' = t, UNCHANGED <<mem, flow, req, left>>,
         calls' = Answered(i, t), SameCallers, RowsInv', Len(rows') = Len(rows) + 1,
         \A n \in 1..Len(rows) : /\ rows'[n].tok = rows[n].tok /\ rows'[n].family = rows[n].family
                                 /\ Live(rows'[n]) => Live(rows[n]),
         NEW f \in 1..(Len(rows) + 1), rows'[Len(rows) + 1] = NewRow(t, f), f \notin left,
         \A x \in Second : Fresh(x) =>
           \A m \in 1..Len(rows) : rows[m].tok = x => rows[m].family # f
  PROVE  Safe'
  <1>1. /\ RowsOK /\ CallsOK /\ clock \in Nat /\ t \in Held
        /\ Len(rows) \in Nat /\ Len(rows') = Len(rows) + 1 /\ DOMAIN rows = 1..Len(rows)
        /\ DOMAIN rows' = 1..(Len(rows) + 1) /\ OneLivePerFamily'
    BY ServerParts DEF RowsInv, RowsOK, Held
  <1>2. /\ rows'[Len(rows) + 1].tok = t /\ rows'[Len(rows) + 1].family = f
        /\ Live(rows'[Len(rows) + 1])
    BY DEF NewRow, Live
  <1>3. /\ ~Asks(i)' /\ CallTokens(i)' \subseteq {t}
        /\ \A j \in 1..CallBound : j # i =>
             /\ CallTokens(j)' = CallTokens(j)
             /\ Asks(j)' => Asks(j) /\ Asked(j)' = Asked(j)
    BY <1>1, AnsweredAsks
  <1>4. /\ \A p \in Phone : NewTokens(p)' = NewTokens(p) /\ SignedTokens(p)' = SignedTokens(p)
        /\ \A h \in Homes : HomeTokens(h)' = HomeTokens(h)
    BY DEF NewTokens, SignedTokens, HomeTokens, LogoutsOf
  <1> DEFINE v == <<"call", i>>
  <1>5. /\ v \in Slot /\ TokensIn(v)' \subseteq {t}
        /\ \A s \in Slot \ {v} : TokensIn(s)' \subseteq TokensIn(s)
    <2>1. v \in Slot /\ TokensIn(v)' \subseteq {t}
      BY <1>3, SlotHolds, SlotHoldsNext
    <2>2. \A j \in 1..CallBound : <<"call", j>> \notin {v, v} => CallTokens(j)' \subseteq CallTokens(j)
      BY <1>3
    <2> HIDE DEF v
    <2>3. \A s \in Slot \ {v, v} : TokensIn(s)' \subseteq TokensIn(s)
      BY <1>4, <2>2, SlotsShrink
    <2>4. QED
      BY <2>1, <2>3
  <1> HIDE DEF v
  <1>6. \A s \in Slot : \A x \in TokensIn(s) : x # t /\ x <= clock /\ x \in Nat
    <2> SUFFICES ASSUME NEW s \in Slot, NEW x \in TokensIn(s)
                 PROVE  x # t /\ x <= clock /\ x \in Nat
      OBVIOUS
    <2>1. x \in Nat
      BY SlotTokens, Numbers DEF Second
    <2>2. x <= clock
      BY DEF Safe, Bounded
    <2>3. QED
      BY <1>1, <2>1, <2>2
  <1>7. Apart'
    BY <1>5, <1>6, TokenSigned DEF Safe
  <1>8. Bounded'
    <2>1. ASSUME NEW s \in Slot, NEW x \in TokensIn(s)'
          PROVE  x <= clock'
      <3>1. x = t \/ x \in TokensIn(s)
        BY <1>5, <2>1
      <3>2. QED
        BY <1>1, <1>6, <3>1
    <2>2. ASSUME NEW j \in 1..CallBound, Asks(j)'
          PROVE  Asked(j)' \in 1..clock'
      <3>1. Asked(j)' \in 1..clock
        BY <1>3, <2>2 DEF Safe, Bounded
      <3>2. QED
        BY <1>1, <3>1
    <2>3. QED
      BY <2>1, <2>2 DEF Bounded
  <1>9. ASSUME NEW x \in Second, InUse(x)', x # t
        PROVE  InUse(x)
    <2>1. CASE \E j \in 1..CallBound : x \in CallTokens(j)'
      BY <1>3, <1>9, <2>1 DEF InUse
    <2>2. CASE \E p \in Phone : x \in NewTokens(p)' \cup SignedTokens(p)'
      BY <1>4, <2>2 DEF InUse
    <2>3. CASE \E q \in Request : req'[q] # None /\ req'[q].body = x
      BY <2>3 DEF InUse
    <2>4. CASE \E h \in Homes : mem'[h].refresh = x /\ ~HomeRefreshes(h)'
      <3>1. \A b \in App : Refreshing(b) => Refreshing(b)'
        BY CallersKept, RefreshingKept
      <3>2. \A h \in Homes : HomeRefreshes(h) => HomeRefreshes(h)'
        BY <3>1, HomeStillRefreshes
      <3>3. QED
        BY <2>4, <3>2 DEF InUse
    <2>5. QED
      BY <1>9, <2>1, <2>2, <2>3, <2>4 DEF InUse
  <1>10. ASSUME NEW x \in Second, InUse(x)', x # t
         PROVE  Fresh(x)'
    <2>1. Fresh(x)
      BY <1>9, <1>10 DEF Safe, AllFresh
    <2>2. ASSUME NEW m \in DOMAIN rows', NEW n \in DOMAIN rows',
                 rows'[m].tok = x, rows'[n].family = rows'[m].family, Live(rows'[n])
          PROVE  n = m
      <3>1. m \in 1..Len(rows) /\ rows[m].tok = x
        BY <1>1, <1>2, <1>10, <2>2
      <3>2. rows[m].family # f /\ rows'[m].family = rows[m].family
        BY <2>1, <3>1
      <3>3. n \in 1..Len(rows)
        BY <1>1, <1>2, <2>2, <3>2
      <3>4. rows[n].family = rows[m].family /\ Live(rows[n])
        BY <2>2, <3>2, <3>3
      <3>5. QED
        BY <1>1, <2>1, <3>1, <3>3, <3>4 DEF Fresh, Latest
    <2>3. Latest(x)'
      BY <2>2 DEF Latest
    <2>4. QED
      BY <1>3, <2>1, <2>3 DEF Fresh
  <1>11. Fresh(t)'
    <2>1. ASSUME NEW m \in DOMAIN rows', NEW n \in DOMAIN rows',
                 rows'[m].tok = t, rows'[n].family = rows'[m].family, Live(rows'[n])
          PROVE  n = m
      <3>1. ASSUME m \in 1..Len(rows)
            PROVE  FALSE
        <4>1. rows[m].tok = t /\ rows[m].tok \in 1..clock
          BY <1>1, <2>1, <3>1, RowTyped
        <4>2. QED
          BY <1>1, <4>1
      <3>2. m = Len(rows) + 1
        BY <1>1, <2>1, <3>1
      <3>3. QED
        BY <1>1, <1>2, <2>1, <3>2 DEF OneLivePerFamily
    <2>2. Latest(t)'
      BY <2>1 DEF Latest
    <2>3. ASSUME NEW j \in 1..CallBound, Asks(j)'
          PROVE  Asked(j)' # t
      <3>1. Asked(j)' \in 1..clock
        BY <1>3, <2>3 DEF Safe, Bounded
      <3>2. QED
        BY <1>1, <3>1
    <2>4. QED
      BY <2>2, <2>3 DEF Fresh
  <1>12. AllFresh'
    BY <1>10, <1>11 DEF AllFresh
  <1>13. LeftIsDead'
    <2> SUFFICES ASSUME NEW n \in DOMAIN rows', rows'[n].family \in left'
                 PROVE  rows'[n].revoked
      BY DEF LeftIsDead
    <2>1. n \in 1..Len(rows)
      BY <1>1, <1>2
    <2>2. rows[n].family \in left
      BY <2>1
    <2>3. ~Live(rows[n])
      BY <1>1, <2>1, <2>2 DEF Safe, LeftIsDead, Live
    <2>4. QED
      BY <2>1, <2>3 DEF Live
  <1>14. QED
    BY <1>7, <1>8, <1>12, <1>13 DEF Safe

LEMMA StoreSafe ==
  ASSUME ServerInv, Safe, "same_second" \notin mishaps', NEW i \in 1..CallBound,
         NEW t \in Second, StoreRefreshToken(i, t)
  PROVE  Safe'
  <1>1. /\ calls[i] # None /\ Signs(t) /\ calls' = Answered(i, t)
        /\ UNCHANGED <<mem, flow, req, left>>
    BY DEF StoreRefreshToken, AtPhase
  <1>2. t = clock + 1 /\ clock' = t
    BY <1>1, Mishaps
  <1>3. RowsOK /\ Len(rows) \in Nat /\ DOMAIN rows = 1..Len(rows)
    BY ServerParts
  <1>4. /\ ServerInv' /\ SameCallers /\ Len(rows') = Len(rows) + 1
        /\ \A n \in 1..Len(rows) : rows'[n] = rows[n]
        /\ rows'[Len(rows) + 1] = NewRow(t, Len(rows) + 1)
    BY StoreRefreshTokenHolds
  <1>5. RowsInv'
    BY <1>4 DEF ServerInv
  <1>6. PICK f \in 1..(Len(rows) + 1) : f = Len(rows) + 1
    BY <1>3
  <1>7. f \notin left
    BY <1>3, <1>6 DEF RowsOK
  <1>8. \A m \in 1..Len(rows) : rows[m].family # f
    BY <1>3, <1>6, RowTyped
  <1>9. QED
    BY <1>1, <1>2, <1>4, <1>5, <1>6, <1>7, <1>8, SignedSafe

(* The family a rotation goes on with is not left, as its row was live, and *)
(* none of its tokens is in use, as this refresh has its last.              *)
LEMMA RotateSafe ==
  ASSUME ServerInv, Safe, "same_second" \notin mishaps', NEW i \in 1..CallBound,
         NEW t \in Second, RefreshRotate(i, t), Rotates(calls[i].row)
  PROVE  Safe'
  <1>1. /\ calls[i] # None /\ calls[i].kind = "refresh" /\ calls[i].phase = "go"
        /\ Signs(t) /\ calls' = Answered(i, t)
        /\ UNCHANGED <<mem, flow, req, left>>
    BY DEF RefreshRotate, AtPhase
  <1>2. t = clock + 1 /\ clock' = t
    BY <1>1, Mishaps
  <1>3. RowsOK /\ Len(rows) \in Nat /\ DOMAIN rows = 1..Len(rows)
    BY ServerParts
  <1>4. PICK n \in 1..Len(rows) : n = calls[i].row
    BY RefreshRotateHolds
  <1>5. /\ ServerInv' /\ SameCallers /\ Len(rows') = Len(rows) + 1
        /\ \A m \in 1..Len(rows) : rows'[m] = RevokeRow(n)[m]
        /\ rows'[Len(rows) + 1] = NewRow(t, rows[n].family)
    BY <1>4, RefreshRotateHolds
  <1>6. RowsInv' /\ Revoked(RevokeRow(n))
    BY <1>3, <1>4, <1>5, OneRowRevoked DEF ServerInv
  <1>7. \A m \in 1..Len(rows) : /\ rows'[m].tok = rows[m].tok /\ rows'[m].family = rows[m].family
                                /\ Live(rows'[m]) => Live(rows[m])
    BY <1>5, <1>6 DEF Revoked
  <1>8. PICK f \in 1..(Len(rows) + 1) : f = rows[n].family
    BY <1>3, RowTyped
  <1>9. Live(rows[n])
    BY <1>4 DEF Rotates, Live
  <1>10. f \notin left
    BY <1>3, <1>8, <1>9 DEF Safe, LeftIsDead, Live
  <1>11. ASSUME NEW x \in Second, Fresh(x), NEW m \in 1..Len(rows), rows[m].tok = x
         PROVE  rows[m].family # f
    <2>1. Asks(i) /\ Asked(i) = rows[n].tok
      BY <1>1, <1>4 DEF Asks, Asked, AtPhase
    <2>2. n # m
      BY <1>11, <2>1 DEF Fresh
    <2>3. QED
      BY <1>3, <1>8, <1>9, <1>11, <2>2 DEF Fresh, Latest
  <1>12. QED
    BY <1>1, <1>2, <1>5, <1>6, <1>7, <1>8, <1>10, <1>11, SignedSafe

LEMMA ServerSafe ==
  ASSUME ServerInv, Safe, "same_second" \notin mishaps', NEW i \in 1..CallBound, ServerStep(i)
  PROVE  Safe'
  <1>1. CASE RefreshFind(i)
    BY <1>1, FindSafe
  <1>2. CASE \E t \in Second : StoreRefreshToken(i, t)
    BY <1>2, StoreSafe
  <1>3. CASE \E t \in Second : RefreshRotate(i, t)
    <2>1. CASE Rotates(calls[i].row)
      BY <1>3, <2>1, RotateSafe
    <2>2. CASE ~Rotates(calls[i].row)
      BY <1>3, <2>2, ChecksSafe
    <2>3. QED
      BY <2>1, <2>2
  <1>4. QED
    BY <1>1, <1>2, <1>3, BeginsSafe, ChecksSafe DEF ServerStep

LEMMA StuttersSafe ==
  ASSUME ServerInv, Safe, UNCHANGED tokenVars
  PROVE  Safe'
  <1>1. /\ UNCHANGED <<rows, left, clock, calls>> /\ mem' = mem /\ flow' = flow /\ req' = req
    BY DEF tokenVars
  <1>2. LogoutsQuiet
    BY <1>1 DEF LogoutsQuiet
  <1>3. QED
    BY <1>1, <1>2, FlowSame, SameCallsQuiet, ForgetsAtMost DEF Forgets

LEMMA TokensKeptStep ==
  ASSUME TokensInv, Clearing, TokensKept, [TokensNext]_tokenVars
  PROVE  TokensKept'
  <1> SUFFICES ASSUME Mild'
               PROVE  Safe'
    BY DEF TokensKept, Safe
  <1>1. ServerInv /\ Persisting
    BY DEF TokensInv
  <1>2. CASE TokensNext
    <2>1. mishaps \subseteq mishaps'
      BY <1>2, MishapsGrow
    <2>2. /\ Mild /\ "same_second" \notin mishaps' /\ "leftover_401" \notin mishaps
          /\ "kill" \notin mishaps'
      BY <2>1 DEF Mild
    <2>3. Safe
      BY <2>2 DEF TokensKept, Safe
    <2>4. ASSUME NEW i \in 1..CallBound,
                 ServerStep(i) \/ SignInAnswer(i) \/ RefreshRefused(i) \/ RefreshAnswer(i) \/ Lost(i)
          PROVE  Safe'
      BY <1>1, <2>2, <2>3, <2>4, ServerSafe, SignInAnswerSafe, RefusedForgets, RefreshAnswerSafe,
         LostForgets, ForgetsAtMost
    <2>5. ASSUME NEW a \in App,
                 SignInSubmit(a) \/ \E q \in Request : SendRequest(a, q) \/ SendLogout(a, q)
          PROVE  Safe'
      BY <1>1, <2>3, <2>5, SubmitForgets, RequestForgets, SendLogoutSafe, ForgetsAtMost
    <2>6. ASSUME NEW q \in Request,
                 Served(q) \/ Reject(q) \/ JoinQueue(q) \/ StartRefresh(q) \/ NoTokenToRefresh(q)
          PROVE  Safe'
      BY <1>1, <2>3, <2>6, ServedSafe, RequestForgets, StartRefreshSafe, NoTokenForgets,
         ForgetsAtMost
    <2>7. ASSUME NEW p \in Phone,
                 SignedIn(p) \/ SignedOut(p) \/ SignOut(p) \/ Cleared(p) \/ Persisted(p) \/ Kill(p)
          PROVE  Safe'
      <3>1. ~Kill(p)
        BY <1>1, <2>2, Mishaps DEF Kill
      <3>2. Clears(p)
        BY <2>2 DEF Clearing
      <3>3. QED
        BY <1>1, <2>3, <2>7, <3>1, <3>2, PhoneWritesSafe, SignOutForgets, ClearedForgets,
           ForgetsAtMost
    <2>8. ASSUME AccessTokensExpire \/ RefreshTokensExpire \/ Bar
          PROVE  Safe'
      BY <1>1, <2>3, <2>8, ExpireSafe
    <2>9. QED
      BY <1>2, <2>4, <2>5, <2>6, <2>7, <2>8 DEF TokensNext
  <1>3. CASE UNCHANGED tokenVars
    <2>1. Safe
      BY <1>3 DEF tokenVars, TokensKept, Safe, Mild
    <2>2. QED
      BY <1>1, <1>3, <2>1, StuttersSafe
  <1>4. QED
    BY <1>2, <1>3

LEMMA TokensKeptStart ==
  ASSUME TokensInit
  PROVE  TokensKept
  <1>1. \A i \in 1..CallBound : calls[i] = None
    BY DEF TokensInit
  <1>2. \A x \in Second : x # None
    BY Bounds, Numbers DEF Second
  <1>3. /\ \A i \in 1..CallBound : CallTokens(i) = {} /\ ~Asks(i)
        /\ \A p \in Phone : NewTokens(p) = {} /\ SignedTokens(p) = {}
        /\ \A h \in Homes : HomeTokens(h) = {}
    BY <1>1, <1>2 DEF TokensInit, CallTokens, AtPhase, Asks, NewTokens, SignedTokens, HomeTokens,
       LogoutsOf, NoFlow, NoPair, Homes
  <1>4. \A s \in Slot : TokensIn(s) = {}
    <2> SUFFICES ASSUME NEW s \in Slot
                 PROVE  TokensIn(s) = {}
      OBVIOUS
    <2>1. CASE \E i \in 1..CallBound : s = <<"call", i>>
      BY <1>3, <2>1, SlotHolds
    <2>2. CASE \E p \in Phone : s = <<"new", p>> \/ s = <<"signed", p>>
      BY <1>3, <2>2, SlotHolds
    <2>3. CASE \E h \in Homes : s = <<"home", h>>
      BY <1>3, <2>3, SlotHolds
    <2>4. QED
      BY <2>1, <2>2, <2>3, SlotIs
  <1>5. Bounded /\ Apart
    BY <1>3, <1>4 DEF Bounded, Apart
  <1>6. DOMAIN rows = {}
    BY DEF TokensInit
  <1>7. AllFresh /\ LeftIsDead
    BY <1>3, <1>6 DEF AllFresh, Fresh, Latest, LeftIsDead
  <1>8. QED
    BY <1>5, <1>7 DEF TokensKept

(* A logout is final: while nothing worse happens than that an answer is    *)
(* lost, tokens expire, the account is barred or a 401 comes late, no row   *)
(* of a family that a client has logged out of is live again, whatever      *)
(* refreshes of other clients are under way.                                *)
THEOREM LogoutIsFinal == TokensSpec => []LogoutSticks
  <1>1. TokensKept => LogoutSticks
    BY DEF TokensKept, Mild, LeftIsDead, LogoutSticks
  <1>2. QED
    BY <1>1, TokensKeptStart, TokensKeptStep, TokensAlways, ClearingAlways, PTL DEF TokensSpec

-----------------------------------------------------------------------------
(* What a phone's store holds while it signs in, refreshes, clears or      *)
(* signs out: the first key is written before the await, the second after. *)
Stores(p) ==
  /\ flow[p].refresh # "persist" => flow[p].new = None
  /\ flow[p].sign # "signIn" => flow[p].signed = None
  /\ flow[p].refresh = "persist" => disk[p].access = flow[p].new /\ flow[p].sign = "none"
  /\ flow[p].refresh = "clear" => disk[p].access = None
  /\ flow[p].sign = "signIn" => disk[p].access = flow[p].signed
  /\ flow[p].sign = "signOut" => disk[p].access = None /\ RefreshCallsOf(p) = {}
  /\ flow[p].sign = "none" /\ flow[p].refresh = "none" => disk[p] = mem[p]

(* A phone has one logout under way at most, between a sign-in and a       *)
(* sign-out; a logout answered 401 is the request that refreshes.          *)
LogsOut(p) ==
  /\ \A q, r \in LogoutsOf(p) : q = r
  /\ LogoutsOf(p) # {} => flow[p].sign = "none" /\ SignCallsOf(p) = {}
  /\ LogoutsOf(p) # {} /\ ~Refreshing(p) => mem[p].refresh # None
  /\ Refreshing(p) => \A q \in LogoutsOf(p) : req[q].state = "refreshing"

Tidy(p) == Stores(p) /\ LogsOut(p)

Orderly == mishaps \cap {"kill", "logout_in_refresh", "leftover_401"} = {}
AllTidy == Orderly => \A p \in Phone : Tidy(p)

LEMMA PhoneHome ==
  ASSUME NEW p \in Phone
  PROVE  /\ p \in App /\ Home(p) = p /\ p \notin Tab /\ p # None /\ p # Browser
         /\ \A a \in App : Home(a) = p <=> a = p
  BY AppHome, Bounds DEF App

(* The logouts of a phone after a step. *)
LEMMA LogoutsSame ==
  ASSUME NEW p \in Phone, ClientsOK, ClientsOK',
         \A q \in Request :
           /\ req'[q] # None /\ req'[q].body # None /\ req'[q].app = p =>
                req[q] # None /\ req[q].body = req'[q].body /\ req[q].app = p
                  /\ req'[q].state = req[q].state
  PROVE  /\ LogoutsOf(p)' \subseteq LogoutsOf(p)
         /\ \A q \in LogoutsOf(p)' : req'[q].state = req[q].state
  <1>1. \A q \in Request : /\ req[q] # None => req[q].app \in App
                           /\ req'[q] # None => req'[q].app \in App
    BY DEF ClientsOK, Sent
  <1>2. QED
    BY <1>1, PhoneHome DEF LogoutsOf

LEMMA TidySame ==
  ASSUME NEW p \in Phone, Tidy(p), mem'[p] = mem[p], disk'[p] = disk[p], flow'[p] = flow[p],
         RefreshCallsOf(p)' = RefreshCallsOf(p),
         LogoutsOf(p)' \subseteq LogoutsOf(p),
         \A q \in LogoutsOf(p)' : req'[q].state = req[q].state,
         LogoutsOf(p)' # {} => SignCallsOf(p)' \subseteq SignCallsOf(p)
  PROVE  Tidy(p)'
  <1>1. Refreshing(p)' = Refreshing(p)
    BY DEF Refreshing
  <1>2. Stores(p)'
    BY DEF Tidy, Stores
  <1>3. LogsOut(p)'
    BY <1>1 DEF Tidy, LogsOut
  <1>4. QED
    BY <1>2, <1>3 DEF Tidy

LEMMA TidyQuiet ==
  ASSUME ServerInv, ServerInv', NEW p \in Phone, Tidy(p), UNCHANGED <<mem, disk, flow, req>>,
         RefreshCallsOf(p)' = RefreshCallsOf(p),
         LogoutsOf(p) # {} => SignCallsOf(p)' \subseteq SignCallsOf(p)
  PROVE  Tidy(p)'
  <1>1. LogoutsOf(p)' = LogoutsOf(p)
    BY DEF LogoutsOf
  <1>2. QED
    BY <1>1, TidySame

LEMMA ServerTidy ==
  ASSUME ServerInv, ServerInv', NEW p \in Phone, Tidy(p), NEW i \in 1..CallBound, ServerStep(i)
  PROVE  Tidy(p)'
  <1>1. SameCallers
    BY RegisterFindHolds, RegisterCreateHolds, LoginCheckHolds, StoreRefreshTokenHolds,
       RefreshFindHolds, RevocationBeginsHolds, RefreshRevokesHolds, RefreshExpiredHolds, RefreshRotateHolds
       DEF ServerStep
  <1>2. UNCHANGED <<mem, disk, flow, req>>
    BY DEF ServerStep, RegisterFind, RegisterCreate, LoginCheck, StoreRefreshToken,
       RefreshFind, RevocationBegins, RefreshRevokes, RefreshExpired, RefreshRotate
  <1>3. RefreshCallsOf(p)' = RefreshCallsOf(p) /\ SignCallsOf(p)' \subseteq SignCallsOf(p)
    BY <1>1, PhoneHome, CallersKept, SignersKept
  <1>4. QED
    BY <1>2, <1>3, TidyQuiet

LEMMA SubmitTidy ==
  ASSUME ServerInv, ServerInv', NEW p \in Phone, Tidy(p), NEW b \in App, SignInSubmit(b)
  PROVE  Tidy(p)'
  <1>1. PICK kind \in {"register", "login"} : calls' = WithCall(b, kind, None)
    BY DEF SignInSubmit
  <1>2. /\ rows' = rows /\ CanCall /\ UNCHANGED <<mem, disk, flow, req>>
        /\ kind \in {"register", "login", "refresh"} /\ kind # "refresh" /\ None \in Held
        /\ LogoutsOf(Home(b)) = {}
    BY DEF SignInSubmit, serverVars, Held
  <1>3. RefreshCallsOf(p)' = RefreshCallsOf(p)
    BY <1>1, <1>2, PhoneHome, CallersJoined
  <1>4. ASSUME LogoutsOf(p) # {}
        PROVE  SignCallsOf(p)' \subseteq SignCallsOf(p)
    <2>1. b # p
      BY <1>2, <1>4, PhoneHome
    <2>2. QED
      BY <1>1, <1>2, <2>1, PhoneHome, SignerStarts
  <1>5. QED
    BY <1>2, <1>3, <1>4, TidyQuiet

LEMMA SendTidy ==
  ASSUME ServerInv, ServerInv', NEW p \in Phone, Tidy(p), Clears(p), NEW q \in Request,
         NEW b \in App,
         \/ SendRequest(b, q)
         \/ SendLogout(b, q) /\ "logout_in_refresh" \notin mishaps'
  PROVE  Tidy(p)'
  <1>1. ClientsOK /\ ClientsOK' /\ calls' = calls /\ UNCHANGED <<mem, disk, flow>> /\ req[q] = None
    BY ServerParts, ClientsNext DEF SendRequest, SendLogout
  <1>2. RefreshCallsOf(p)' = RefreshCallsOf(p) /\ SignCallsOf(p)' = SignCallsOf(p)
    BY <1>1 DEF RefreshCallsOf, SignCallsOf, CallsOf
  <1>3. /\ \A r \in Request \ {q} : req'[r] = req[r]
        /\ req'[q].app = b
    BY <1>1 DEF SendRequest, SendLogout, Attach, ClientsOK
  <1>4. CASE b # p \/ SendRequest(b, q)
    <2>1. req'[q].body = None \/ req'[q].app # p
      BY <1>1, <1>3, <1>4 DEF SendRequest, Attach, ClientsOK
    <2>2. /\ LogoutsOf(p)' \subseteq LogoutsOf(p)
          /\ \A r \in LogoutsOf(p)' : req'[r].state = req[r].state
      <3>1. \A r \in Request :
              req'[r] # None /\ req'[r].body # None /\ req'[r].app = p => r # q
        BY <2>1
      <3>2. QED
        BY <1>1, <1>3, <3>1, LogoutsSame
    <2>3. QED
      BY <1>1, <1>2, <2>2, TidySame
  <1>5. CASE b = p /\ ~SendRequest(b, q)
    <2>1. /\ mem[p].refresh # None /\ LogoutsOf(p) = {} /\ flow[p].sign = "none"
          /\ ~HomeRefreshes(p)
      <3>1. /\ SendLogout(b, q) /\ "logout_in_refresh" \notin mishaps' /\ Home(b) = p
        BY <1>5, PhoneHome
      <3>2. Note(HomeRefreshes(p), "logout_in_refresh")
        BY <3>1 DEF SendLogout
      <3>3. ~HomeRefreshes(p)
        BY <3>1, <3>2, Notes
      <3>4. QED
        BY <1>5, <3>1, <3>3 DEF SendLogout
    <2>2. ~Refreshing(p) /\ ~SigningIn(p)
      BY <2>1, PhoneHome DEF HomeRefreshes, Clears, NoPair
    <2>3. \A r \in LogoutsOf(p)' : r = q
      <3>1. \A r \in Request : req[r] # None => req[r].app \in App
        BY <1>1 DEF ClientsOK, Sent
      <3>2. QED
        BY <1>3, <2>1, PhoneHome DEF LogoutsOf
    <2>4. Refreshing(p)' = Refreshing(p)
      BY <1>1, <1>2 DEF Refreshing
    <2>5. LogsOut(p)'
      BY <1>1, <1>2, <2>1, <2>2, <2>3, <2>4 DEF LogsOut, SigningIn
    <2>6. Stores(p)'
      BY <1>1, <1>2 DEF Tidy, Stores
    <2>7. QED
      BY <2>5, <2>6 DEF Tidy
  <1>6. QED
    BY <1>4, <1>5

LEMMA JoinTidy ==
  ASSUME ServerInv, ServerInv', NEW p \in Phone, Tidy(p), NEW q \in Request, JoinQueue(q)
  PROVE  Tidy(p)'
  <1>1. /\ ClientsOK /\ ClientsOK' /\ calls' = calls /\ UNCHANGED <<mem, disk, flow>>
        /\ req[q] # None /\ req[q].state = "sent" /\ req[q] \in Sent /\ Refreshing(req[q].app)
        /\ req' = [req EXCEPT ![q] = [req[q] EXCEPT !.state = "queued"]]
    BY ServerParts, ClientsNext DEF JoinQueue, Unauthorized, Queues, ClientsOK
  <1>2. RefreshCallsOf(p)' = RefreshCallsOf(p) /\ SignCallsOf(p)' = SignCallsOf(p)
    BY <1>1 DEF RefreshCallsOf, SignCallsOf, CallsOf
  <1>3. /\ \A r \in Request \ {q} : req'[r] = req[r]
        /\ req'[q].app = req[q].app /\ req'[q].body = req[q].body
    BY <1>1 DEF ClientsOK, Sent
  <1>4. q \notin LogoutsOf(p)
    <2>1. q \in LogoutsOf(p) => req[q].app = p
      BY <1>1, PhoneHome DEF LogoutsOf, Sent
    <2>2. QED
      BY <1>1, <2>1 DEF Tidy, LogsOut
  <1>5. req[q].body = None \/ req[q].app # p
    BY <1>1, <1>4, PhoneHome DEF LogoutsOf
  <1>6. /\ LogoutsOf(p)' \subseteq LogoutsOf(p)
        /\ \A r \in LogoutsOf(p)' : req'[r].state = req[r].state
    <2>1. \A r \in Request :
            req'[r] # None /\ req'[r].body # None /\ req'[r].app = p => r # q
      BY <1>3, <1>5
    <2>2. QED
      BY <1>1, <1>3, <2>1, LogoutsSame
  <1>7. QED
    BY <1>1, <1>2, <1>6, TidySame

LEMMA FinishTidy ==
  ASSUME ServerInv, ServerInv', NEW p \in Phone, Tidy(p), NEW q \in Request,
         req[q] # None, req[q].state = "sent", Finish(q), calls' = calls
  PROVE  Tidy(p)'
  <1>1. ClientsOK /\ ClientsOK' /\ req[q].app \in App
    BY ServerParts, ClientsNext DEF ClientsOK, Sent
  <1>2. RefreshCallsOf(p)' = RefreshCallsOf(p) /\ SignCallsOf(p)' = SignCallsOf(p)
    BY DEF RefreshCallsOf, SignCallsOf, CallsOf
  <1>3. /\ req'[q] = None /\ \A r \in Request \ {q} : req'[r] = req[r]
        /\ req[q].body = None => UNCHANGED <<mem, disk, flow>>
        /\ req[q].body # None => FinishLogout(req[q].app)
    BY <1>1, FinishFacts
  <1>4. /\ LogoutsOf(p)' \subseteq LogoutsOf(p)
        /\ \A r \in LogoutsOf(p)' : req'[r].state = req[r].state
    BY <1>1, <1>3, LogoutsSame
  <1>5. CASE req[q].body = None \/ req[q].app # p
    <2>1. mem'[p] = mem[p] /\ disk'[p] = disk[p] /\ flow'[p] = flow[p]
      BY <1>1, <1>3, <1>5, FinishLogoutFacts, PhoneHome DEF App
    <2>2. QED
      BY <1>2, <1>4, <2>1, TidySame
  <1>6. CASE req[q].body # None /\ req[q].app = p
    <2>1. q \in LogoutsOf(p)
      BY <1>6, PhoneHome DEF LogoutsOf
    <2>2. /\ ~Refreshing(p) /\ flow[p].sign = "none" /\ flow[p].signed = None
          /\ flow[p].refresh = "none" /\ RefreshCallsOf(p) = {} /\ flow[p].new = None
      BY <2>1 DEF Tidy, LogsOut, Stores, Refreshing
    <2>3. LogoutsOf(p)' = {}
      BY <1>3, <1>4, <2>1 DEF Tidy, LogsOut, LogoutsOf
    <2>4. /\ mem' = mem /\ flow'[p].sign = "signOut" /\ flow'[p].refresh = "none"
          /\ flow'[p].new = None /\ flow'[p].signed = None /\ disk'[p].access = None
      BY <1>1, <1>3, <1>6, <2>2, FinishLogoutFacts, PhoneHome
    <2>5. Stores(p)'
      BY <1>2, <2>2, <2>4 DEF Stores
    <2>6. LogsOut(p)'
      BY <2>3 DEF LogsOut
    <2>7. QED
      BY <2>5, <2>6 DEF Tidy
  <1>7. QED
    BY <1>5, <1>6

LEMMA StartRefreshTidy ==
  ASSUME ServerInv, ServerInv', NEW p \in Phone, Tidy(p), Clears(p), NEW q \in Request,
         StartRefresh(q), "logout_in_refresh" \notin mishaps'
  PROVE  Tidy(p)'
  <1>1. ClientsOK /\ ClientsOK' /\ req[q].app \in App
    BY ServerParts, ClientsNext DEF StartRefresh, Unauthorized, ClientsOK, Sent
  <1>2. PICK b \in App : b = req[q].app
    BY <1>1
  <1>3. mem[Home(b)].refresh \in Held
    BY <1>1, AppHome DEF ClientsOK, Pair
  <1>4. PICK y \in Held : y = mem[Home(b)].refresh
    BY <1>3
  <1>5. /\ req[q] # None /\ req[q] \in Sent /\ ~Refreshing(b) /\ y # None
        /\ UNCHANGED <<mem, disk, flow, rows>> /\ CanCall /\ calls' = WithCall(b, "refresh", y)
        /\ req' = [req EXCEPT ![q] = [req[q] EXCEPT !.state = "refreshing", !.retried = TRUE]]
        /\ RefreshMishaps(q) \subseteq mishaps'
    BY <1>1, <1>2, <1>4, Notes DEF StartRefresh, Unauthorized, Queues, ClientsOK, serverVars
  <1>6. /\ \A r \in Request \ {q} : req'[r] = req[r]
        /\ req'[q].app = b /\ req'[q].body = req[q].body /\ req'[q].state = "refreshing"
        /\ req'[q] # None
    <2>1. req'[q] = [req[q] EXCEPT !.state = "refreshing", !.retried = TRUE]
      BY <1>1, <1>5 DEF ClientsOK
    <2>2. req'[q] \in Sent
      <3>1. req[q] \in Sent
        BY <1>5
      <3>2. \A s \in Sent : [s EXCEPT !.state = "refreshing", !.retried = TRUE] \in Sent
        BY DEF Sent
      <3>3. QED
        BY <2>1, <3>1, <3>2
    <2>3. QED
      BY <1>1, <1>2, <1>5, <2>1, <2>2, Bounds DEF ClientsOK, Sent
  <1>7. /\ \A a \in App : a # b => RefreshCallsOf(a)' = RefreshCallsOf(a)
        /\ SignCallsOf(p)' = SignCallsOf(p)
    BY <1>2, <1>5, PhoneHome, CallersJoined, RefresherStarts
  <1>8. \A r \in Request : req[r] # None => req[r].app \in App
    BY <1>1 DEF ClientsOK, Sent
  <1>9. CASE p # b
    <2>1. \A r \in Request : req'[r] # None /\ req'[r].body # None /\ req'[r].app = p => r # q
      BY <1>6, <1>9
    <2>2. /\ LogoutsOf(p)' \subseteq LogoutsOf(p)
          /\ \A r \in LogoutsOf(p)' : req'[r].state = req[r].state
      BY <1>1, <1>6, <2>1, LogoutsSame
    <2>3. QED
      BY <1>5, <1>7, <1>9, <2>2, PhoneHome, TidySame
  <1>10. CASE p = b
    <2>1. mem[p].refresh # None /\ mem[p] # NoPair /\ ~SigningIn(p)
      BY <1>4, <1>5, <1>10, PhoneHome DEF NoPair, Clears
    <2>2. LogoutsOf(p)' = LogoutsOf(p)
      <3>1. \A r \in Request : req'[r] # None <=> req[r] # None
        BY <1>5, <1>6
      <3>2. \A r \in Request : req[r] # None => req'[r].app = req[r].app /\ req'[r].body = req[r].body
        BY <1>2, <1>6
      <3>3. QED
        BY <3>1, <3>2 DEF LogoutsOf
    <2>3. /\ LogoutsOf(p) \subseteq {q} /\ flow[p].sign # "signOut"
      <3>1. CASE req[q].body # None
        <4>1. q \in LogoutsOf(p)
          BY <1>2, <1>5, <1>10, <3>1, PhoneHome DEF LogoutsOf
        <4>2. QED
          BY <4>1 DEF Tidy, LogsOut
      <3>2. CASE req[q].body = None
        <4>1. ~HomeLogsOut(p)
          BY <1>2, <1>5, <1>10, <3>2, PhoneHome DEF RefreshMishaps
        <4>2. QED
          BY <4>1 DEF HomeLogsOut
      <3>3. QED
        BY <3>1, <3>2
    <2>4. LogsOut(p)'
      BY <1>5, <1>6, <1>7, <2>1, <2>2, <2>3 DEF Tidy, LogsOut
    <2>5. Stores(p)'
      BY <1>5, <2>3 DEF Tidy, Stores
    <2>6. QED
      BY <2>4, <2>5 DEF Tidy
  <1>11. QED
    BY <1>9, <1>10

LEMMA NoTokenTidy ==
  ASSUME ServerInv, ServerInv', NEW p \in Phone, Tidy(p), NEW q \in Request,
         NoTokenToRefresh(q), "leftover_401" \notin mishaps'
  PROVE  Tidy(p)'
  <1>1. ClientsOK /\ ClientsOK' /\ req[q].app \in App /\ req[q] # None /\ calls' = calls
    BY ServerParts, ClientsNext DEF NoTokenToRefresh, Unauthorized, ClientsOK, Sent
  <1>2. PICK b \in App : b = req[q].app
    BY <1>1
  <1>3. /\ req[q] \in Sent /\ ~Refreshing(b) /\ mem[Home(b)].refresh = None
        /\ ~HomeSignsIn(Home(b))
        /\ b \in Tab => FailRefresh(b)
        /\ b \notin Tab =>
             /\ disk' = [disk EXCEPT ![b].access = None]
             /\ flow' = [flow EXCEPT ![b].refresh = "clear"]
             /\ req' = [req EXCEPT ![q].state = "refreshing", ![q].retried = TRUE]
             /\ mem' = [mem EXCEPT ![b] = NoPair]
    BY <1>1, <1>2, Notes DEF NoTokenToRefresh, Queues, ClientsOK
  <1>4. RefreshCallsOf(p)' = RefreshCallsOf(p) /\ SignCallsOf(p)' = SignCallsOf(p)
    BY <1>1 DEF RefreshCallsOf, SignCallsOf, CallsOf
  <1>5. CASE p # b
    <2>1. /\ mem'[p] = mem[p] /\ disk'[p] = disk[p] /\ flow'[p] = flow[p]
          /\ \A r \in Request : req'[r] # None /\ req'[r].app = p => req'[r] = req[r]
      <3>1. CASE b \in Tab
        BY <1>1, <1>3, <1>5, <3>1, PhoneHome, FailRefreshFacts
      <3>2. CASE b \notin Tab
        <4>1. req' = [req EXCEPT ![q] = [req[q] EXCEPT !.state = "refreshing", !.retried = TRUE]]
          BY <1>1, <1>3, <3>2 DEF ClientsOK
        <4>2. req'[q].app = b /\ \A r \in Request \ {q} : req'[r] = req[r]
          BY <1>1, <1>2, <1>3, <4>1 DEF ClientsOK, Sent
        <4>3. QED
          BY <1>1, <1>3, <1>5, <3>2, <4>2 DEF ClientsOK
      <3>3. QED
        BY <3>1, <3>2
    <2>2. /\ LogoutsOf(p)' \subseteq LogoutsOf(p)
          /\ \A r \in LogoutsOf(p)' : req'[r].state = req[r].state
      BY <1>1, <2>1, LogoutsSame
    <2>3. QED
      BY <1>4, <2>1, <2>2, TidySame
  <1>6. CASE p = b
    <2>1. LogoutsOf(p) = {} /\ flow[p].refresh = "none" /\ RefreshCallsOf(p) = {}
      BY <1>3, <1>6, PhoneHome DEF Tidy, LogsOut, Refreshing
    <2>2. ~SigningIn(p)
      BY <1>3, <1>6, PhoneHome, PhoneSignsIn
    <2>3. /\ disk' = [disk EXCEPT ![p] = [disk[p] EXCEPT !.access = None]]
          /\ flow' = [flow EXCEPT ![p] = [flow[p] EXCEPT !.refresh = "clear"]]
          /\ req' = [req EXCEPT ![q] = [req[q] EXCEPT !.state = "refreshing", !.retried = TRUE]]
      BY <1>1, <1>3, <1>6, PhoneHome DEF ClientsOK
    <2>4. /\ disk'[p].access = None /\ flow'[p].refresh = "clear" /\ flow'[p].sign = flow[p].sign
          /\ flow'[p].new = flow[p].new /\ flow'[p].signed = flow[p].signed
          /\ req'[q].body = req[q].body /\ \A r \in Request \ {q} : req'[r] = req[r]
      BY <1>1, <1>3, <2>3 DEF ClientsOK, Pair, Flow, Sent
    <2>5. req[q].body = None
      BY <1>1, <1>2, <1>6, <2>1, PhoneHome DEF LogoutsOf
    <2>6. LogoutsOf(p)' = {}
      BY <2>1, <2>4, <2>5 DEF LogoutsOf
    <2>7. Stores(p)'
      BY <1>4, <2>1, <2>2, <2>4 DEF Tidy, Stores, SigningIn
    <2>8. LogsOut(p)'
      BY <2>6 DEF LogsOut
    <2>9. QED
      BY <2>7, <2>8 DEF Tidy
  <1>7. QED
    BY <1>5, <1>6

LEMMA FailTidy ==
  ASSUME ServerInv, ServerInv', NEW p \in Phone, Tidy(p), Clears(p), Waits(p),
         NEW i \in 1..CallBound, calls[i] # None, calls[i].app \in App, calls[i].kind = "refresh",
         FailRefresh(calls[i].app), calls'[i] = None \/ calls'[i].app = None,
         \A j \in 1..CallBound : j # i => calls'[j] = calls[j]
  PROVE  Tidy(p)'
  <1>1. ClientsOK /\ ClientsOK' /\ p \in App /\ p # Browser
    BY ServerParts, ClientsNext, PhoneHome
  <1>2. RefreshCallsOf(p)' = RefreshCallsOf(p) \ {i} /\ SignCallsOf(p)' = SignCallsOf(p) \ {i}
    BY <1>1, CallersLeft, SignersLeft
  <1>3. \A q \in Request : req'[q] = None \/ req'[q] = req[q]
    BY <1>1, FailRefreshFacts
  <1>4. /\ LogoutsOf(p)' \subseteq LogoutsOf(p)
        /\ \A q \in LogoutsOf(p)' : req'[q].state = req[q].state
    BY <1>1, <1>3, LogoutsSame
  <1>5. CASE p # calls[i].app
    <2>1. i \notin RefreshCallsOf(p)
      BY <1>5 DEF RefreshCallsOf, CallsOf
    <2>2. Home(calls[i].app) # p
      BY <1>5, PhoneHome
    <2>3. mem'[p] = mem[p] /\ disk'[p] = disk[p] /\ flow'[p] = flow[p]
      BY <1>1, <1>5, <2>2, FailRefreshFacts
    <2>4. RefreshCallsOf(p)' = RefreshCallsOf(p) /\ SignCallsOf(p)' \subseteq SignCallsOf(p)
      BY <1>2, <2>1
    <2>5. QED
      BY <1>4, <2>3, <2>4, TidySame
  <1>6. CASE p = calls[i].app
    <2>1. i \in RefreshCallsOf(p)
      BY <1>6 DEF RefreshCallsOf, CallsOf
    <2>2. /\ Refreshing(p) /\ flow[p].refresh = "none" /\ flow[p].new = None
          /\ RefreshCallsOf(p)' = {}
      BY <1>1, <1>2, <2>1 DEF Waits, Tidy, Stores, Refreshing
    <2>3. flow[p].sign = "none" /\ SignCallsOf(p) = {} /\ flow[p].signed = None
      BY <1>1, <2>1 DEF Clears, SigningIn, Tidy, Stores, ClientsOK, Flow
    <2>4. Queue(p) \cap LogoutsOf(p) = {}
      BY <2>2 DEF Queue, Tidy, LogsOut
    <2>5. /\ flow'[p].refresh = "clear" /\ flow'[p].new = None /\ flow'[p].signed = None
          /\ flow'[p].sign = "none" /\ disk'[p].access = None
      BY <1>1, <1>6, <2>2, <2>3, <2>4, FailRefreshFacts
    <2>6. Stores(p)'
      BY <2>5 DEF Stores
    <2>7. Refreshing(p)'
      BY <2>5 DEF Refreshing
    <2>8. LogsOut(p)'
      BY <1>2, <1>4, <2>2, <2>3, <2>5, <2>7 DEF Tidy, LogsOut
    <2>9. QED
      BY <2>6, <2>8 DEF Tidy
  <1>7. QED
    BY <1>5, <1>6

LEMMA RefusedTidy ==
  ASSUME ServerInv, ServerInv', NEW p \in Phone, Tidy(p), Clears(p), Waits(p),
         NEW i \in 1..CallBound, RefreshRefused(i)
  PROVE  Tidy(p)'
  <1>1. CallsOK /\ AnswersAwaited
    BY ServerParts
  <1>2. /\ calls[i] # None /\ calls[i].app \in App /\ calls[i].kind = "refresh"
        /\ FailRefresh(calls[i].app) /\ rows' = rows
        /\ calls' = [calls EXCEPT ![i] = None]
    BY <1>1, CallTyped DEF RefreshRefused, AtPhase, AnswersAwaited, Call, serverVars
  <1>3. calls'[i] = None /\ \A j \in 1..CallBound : j # i => calls'[j] = calls[j]
    BY <1>2, CallEnds
  <1>4. QED
    BY <1>2, <1>3, FailTidy

LEMMA LostTidy ==
  ASSUME ServerInv, ServerInv', NEW p \in Phone, Tidy(p), Clears(p), Waits(p),
         NEW i \in 1..CallBound, Lost(i)
  PROVE  Tidy(p)'
  <1>1. CallsOK /\ p \in App
    BY ServerParts, PhoneHome
  <1>2. /\ calls[i] # None /\ calls[i].app \in App
    BY <1>1, CallTyped DEF Lost, Call
  <1>3. /\ calls'[i] = None \/ calls'[i].app = None
        /\ \A j \in 1..CallBound : j # i => calls'[j] = calls[j]
    <2>1. CASE AtPhase(i, "done")
      BY <1>1, <2>1 DEF Lost, CallsOK
    <2>2. CASE ~AtPhase(i, "done")
      <3>1. calls' = [calls EXCEPT ![i] = [calls[i] EXCEPT !.app = None]]
        BY <1>1, <2>2 DEF Lost, CallsOK
      <3>2. [calls[i] EXCEPT !.app = None].app = None
        BY <1>2, <2>2, CallForgotten DEF AtPhase
      <3>3. QED
        BY <1>1, <3>1, <3>2 DEF CallsOK
    <2>3. QED
      BY <2>1, <2>2
  <1>4. CASE calls[i].kind = "refresh"
    <2>1. FailRefresh(calls[i].app)
      BY <1>4 DEF Lost
    <2>2. QED
      BY <1>2, <1>3, <1>4, <2>1, FailTidy
  <1>5. CASE calls[i].kind # "refresh"
    <2>1. UNCHANGED <<mem, disk, flow, req>> /\ i \notin RefreshCallsOf(p)
      BY <1>5 DEF Lost, RefreshCallsOf
    <2>2. RefreshCallsOf(p)' = RefreshCallsOf(p) /\ SignCallsOf(p)' \subseteq SignCallsOf(p)
      BY <1>1, <1>3, <2>1, CallersLeft, SignersLeft
    <2>3. QED
      BY <2>1, <2>2, TidyQuiet
  <1>6. QED
    BY <1>4, <1>5

LEMMA RefreshAnswerTidy ==
  ASSUME ServerInv, ServerInv', NEW p \in Phone, Tidy(p), Clears(p), Waits(p),
         NEW i \in 1..CallBound, RefreshAnswer(i)
  PROVE  Tidy(p)'
  <1>1. ClientsOK /\ ClientsOK' /\ CallsOK /\ AnswersAwaited /\ p \in App /\ p # Browser /\ p \notin Tab
    BY ServerParts, ClientsNext, PhoneHome
  <1>2. /\ calls[i] # None /\ calls[i].app \in App /\ calls[i].kind = "refresh"
        /\ calls[i].answer \in Second /\ rows' = rows
        /\ calls' = [calls EXCEPT ![i] = None]
    BY <1>1, CallTyped DEF RefreshAnswer, AtPhase, AnswersAwaited, Call, serverVars, Held
  <1>3. PICK b \in App, t \in Second : b = calls[i].app /\ t = calls[i].answer
    BY <1>2
  <1>4. /\ b \in Tab => mem' = [mem EXCEPT ![Browser] = PairOf(t)] /\ req' = Retries(b, t)
                        /\ UNCHANGED <<disk, flow>>
        /\ b \notin Tab => disk' = [disk EXCEPT ![b].access = t] /\ UNCHANGED <<mem, req>>
                        /\ flow' = [flow EXCEPT ![b].refresh = "persist", ![b].new = t]
    BY <1>3 DEF RefreshAnswer
  <1>5. calls'[i] = None /\ \A j \in 1..CallBound : j # i => calls'[j] = calls[j]
    BY <1>2, CallEnds
  <1>6. RefreshCallsOf(p)' = RefreshCallsOf(p) \ {i} /\ SignCallsOf(p)' = SignCallsOf(p) \ {i}
    BY <1>1, <1>5, CallersLeft, SignersLeft
  <1>7. CASE p # b
    <2>1. mem'[p] = mem[p] /\ disk'[p] = disk[p] /\ flow'[p] = flow[p]
      BY <1>1, <1>4, <1>7 DEF ClientsOK
    <2>2. \A q \in Request : req'[q] # None /\ req'[q].app = p =>
                               req[q] # None /\ req'[q] = req[q]
      BY <1>1, <1>4, <1>7, RetriesFacts
    <2>3. /\ LogoutsOf(p)' \subseteq LogoutsOf(p)
          /\ \A q \in LogoutsOf(p)' : req'[q].state = req[q].state
      BY <1>1, <2>2, LogoutsSame
    <2>4. i \notin RefreshCallsOf(p)
      BY <1>3, <1>7 DEF RefreshCallsOf, CallsOf
    <2>5. RefreshCallsOf(p)' = RefreshCallsOf(p) /\ SignCallsOf(p)' \subseteq SignCallsOf(p)
      BY <1>6, <2>4
    <2>6. QED
      BY <2>1, <2>3, <2>5, TidySame
  <1>8. CASE p = b
    <2>1. i \in RefreshCallsOf(p)
      BY <1>2, <1>3, <1>8 DEF RefreshCallsOf, CallsOf
    <2>2. Refreshing(p) /\ RefreshCallsOf(p)' = {}
      BY <1>1, <1>6, <2>1 DEF Waits, Refreshing
    <2>3. flow[p].sign = "none" /\ SignCallsOf(p)' = SignCallsOf(p) /\ flow[p].signed = None
      BY <1>1, <1>6, <2>1 DEF Clears, SigningIn, Tidy, Stores, ClientsOK, Flow
    <2>4. /\ disk' = [disk EXCEPT ![p] = [disk[p] EXCEPT !.access = t]]
          /\ flow' = [flow EXCEPT ![p] = [flow[p] EXCEPT !.refresh = "persist", !.new = t]]
          /\ UNCHANGED <<mem, req>>
      BY <1>1, <1>4, <1>8 DEF ClientsOK
    <2>5. /\ disk'[p].access = t /\ flow'[p].refresh = "persist" /\ flow'[p].new = t
          /\ flow'[p].sign = "none" /\ flow'[p].signed = None
      BY <1>1, <2>3, <2>4 DEF ClientsOK, Pair, Flow
    <2>6. Stores(p)'
      BY <2>5 DEF Stores
    <2>7. LogoutsOf(p)' = LogoutsOf(p) /\ Refreshing(p)'
      BY <2>4, <2>5 DEF LogoutsOf, Refreshing
    <2>8. LogsOut(p)'
      BY <2>2, <2>3, <2>4, <2>5, <2>7 DEF Tidy, LogsOut
    <2>9. QED
      BY <2>6, <2>8 DEF Tidy
  <1>9. QED
    BY <1>7, <1>8

LEMMA SignInAnswerTidy ==
  ASSUME ServerInv, ServerInv', NEW p \in Phone, Tidy(p), Clears(p),
         NEW i \in 1..CallBound, SignInAnswer(i)
  PROVE  Tidy(p)'
  <1>1. ClientsOK /\ ClientsOK' /\ CallsOK /\ AnswersAwaited /\ p \in App /\ p # Browser /\ p \notin Tab
    BY ServerParts, ClientsNext, PhoneHome
  <1>2. /\ calls[i] # None /\ calls[i].app \in App /\ calls[i].kind # "refresh" /\ rows' = rows
        /\ calls[i].answer \in Held /\ calls' = [calls EXCEPT ![i] = None] /\ req' = req
    BY <1>1, CallTyped DEF SignInAnswer, AtPhase, AnswersAwaited, Call, serverVars
  <1>3. PICK b \in App, t \in Held : b = calls[i].app /\ t = calls[i].answer
    BY <1>2
  <1>4. \/ UNCHANGED <<mem, disk, flow>>
        \/ /\ b \in Tab /\ mem' = [mem EXCEPT ![Browser] = PairOf(t)] /\ UNCHANGED <<disk, flow>>
        \/ /\ b \notin Tab /\ disk' = [disk EXCEPT ![b].access = t]
           /\ flow' = [flow EXCEPT ![b].sign = "signIn", ![b].signed = t] /\ UNCHANGED mem
    BY <1>3 DEF SignInAnswer
  <1>5. calls'[i] = None /\ \A j \in 1..CallBound : j # i => calls'[j] = calls[j]
    BY <1>2, CallEnds
  <1>6. RefreshCallsOf(p)' = RefreshCallsOf(p) \ {i} /\ SignCallsOf(p)' = SignCallsOf(p) \ {i}
    BY <1>1, <1>5, CallersLeft, SignersLeft
  <1>7. RefreshCallsOf(p)' = RefreshCallsOf(p) /\ SignCallsOf(p)' \subseteq SignCallsOf(p)
    BY <1>2, <1>6 DEF RefreshCallsOf
  <1>8. LogoutsOf(p)' = LogoutsOf(p)
    BY <1>2 DEF LogoutsOf
  <1>9. CASE p # b \/ UNCHANGED <<mem, disk, flow>>
    <2>1. mem'[p] = mem[p] /\ disk'[p] = disk[p] /\ flow'[p] = flow[p]
      BY <1>1, <1>4, <1>9 DEF ClientsOK
    <2>2. /\ LogoutsOf(p)' \subseteq LogoutsOf(p)
          /\ \A q \in LogoutsOf(p)' : req'[q].state = req[q].state
      BY <1>2, <1>8
    <2>3. QED
      BY <1>7, <2>1, <2>2, TidySame
  <1>10. CASE p = b /\ ~UNCHANGED <<mem, disk, flow>>
    <2>1. i \in SignCallsOf(p)
      BY <1>2, <1>3, <1>10 DEF SignCallsOf, CallsOf
    <2>2. LogoutsOf(p) = {} /\ flow[p].refresh = "none" /\ RefreshCallsOf(p) = {}
      BY <2>1 DEF Tidy, LogsOut, Clears, SigningIn
    <2>3. /\ disk' = [disk EXCEPT ![p] = [disk[p] EXCEPT !.access = t]]
          /\ flow' = [flow EXCEPT ![p] = [flow[p] EXCEPT !.sign = "signIn", !.signed = t]]
      BY <1>1, <1>4, <1>10 DEF ClientsOK
    <2>4. /\ disk'[p].access = t /\ flow'[p].sign = "signIn" /\ flow'[p].signed = t
          /\ flow'[p].refresh = "none" /\ flow'[p].new = flow[p].new
      BY <1>1, <2>2, <2>3 DEF ClientsOK, Pair, Flow
    <2>5. Stores(p)'
      BY <2>2, <2>4 DEF Tidy, Stores
    <2>6. LogsOut(p)'
      BY <1>8, <2>2 DEF LogsOut
    <2>7. QED
      BY <2>5, <2>6 DEF Tidy
  <1>11. QED
    BY <1>9, <1>10

LEMMA SignedInTidy ==
  ASSUME ClientsOK, ClientsOK', NEW p \in Phone, Tidy(p), Clears(p), SignedIn(p)
  PROVE  Tidy(p)'
  <1>1. /\ flow[p].sign = "signIn" /\ calls' = calls /\ req' = req /\ flow[p].signed \in Held
        /\ disk' = [disk EXCEPT ![p] = [disk[p] EXCEPT !.refresh = flow[p].signed]]
        /\ mem' = [mem EXCEPT ![p] = PairOf(flow[p].signed)]
        /\ flow' = [flow EXCEPT ![p] = [flow[p] EXCEPT !.sign = "none", !.signed = None]]
    BY DEF SignedIn, ClientsOK, Flow
  <1>2. /\ LogoutsOf(p) = {} /\ flow[p].refresh = "none" /\ RefreshCallsOf(p) = {}
        /\ disk[p].access = flow[p].signed /\ flow[p].new = None
    BY <1>1 DEF Tidy, Stores, LogsOut, Clears, SigningIn
  <1>3. /\ disk'[p] = PairOf(flow[p].signed) /\ mem'[p] = PairOf(flow[p].signed)
    BY <1>1, <1>2 DEF ClientsOK, Pair, PairOf
  <1>4. /\ flow'[p].sign = "none" /\ flow'[p].signed = None /\ flow'[p].refresh = "none"
        /\ flow'[p].new = None
    BY <1>1, <1>2 DEF ClientsOK, Flow
  <1>5. Stores(p)'
    BY <1>3, <1>4 DEF Stores
  <1>6. LogoutsOf(p)' = {}
    BY <1>1, <1>2 DEF LogoutsOf
  <1>7. QED
    BY <1>5, <1>6 DEF Tidy, LogsOut

LEMMA SignedOutTidy ==
  ASSUME ClientsOK, ClientsOK', NEW p \in Phone, Tidy(p), SignedOut(p)
  PROVE  Tidy(p)'
  <1>1. /\ flow[p].sign = "signOut" /\ calls' = calls /\ req' = req
        /\ disk' = [disk EXCEPT ![p] = [disk[p] EXCEPT !.refresh = None]]
        /\ mem' = [mem EXCEPT ![p] = NoPair]
        /\ flow' = [flow EXCEPT ![p] = [flow[p] EXCEPT !.sign = "none"]]
    BY DEF SignedOut, ClientsOK
  <1>2. /\ LogoutsOf(p) = {} /\ flow[p].refresh # "persist" /\ flow[p].signed = None
        /\ disk[p].access = None /\ flow[p].new = None
    BY <1>1 DEF Tidy, Stores, LogsOut
  <1>3. disk'[p] = NoPair /\ mem'[p] = NoPair
    BY <1>1, <1>2 DEF ClientsOK, Pair, NoPair
  <1>4. /\ flow'[p].sign = "none" /\ flow'[p].signed = None /\ flow'[p].new = None
        /\ flow'[p].refresh = flow[p].refresh
    BY <1>1, <1>2 DEF ClientsOK, Flow
  <1>5. Stores(p)'
    BY <1>2, <1>3, <1>4 DEF Stores, NoPair
  <1>6. LogoutsOf(p)' = {}
    BY <1>1, <1>2 DEF LogoutsOf
  <1>7. QED
    BY <1>5, <1>6 DEF Tidy, LogsOut

LEMMA SignOutTidy ==
  ASSUME ServerInv, ServerInv', NEW p \in Phone, Tidy(p), SignOut(p), "logout_in_refresh" \notin mishaps'
  PROVE  Tidy(p)'
  <1>1. /\ LogoutsOf(p) = {} /\ flow[p].sign = "none" /\ ~Refreshing(p) /\ FinishLogout(p)
        /\ calls' = calls /\ req' = req /\ ClientsOK /\ p \in App
    BY ServerParts, Notes, PhoneHome DEF SignOut
  <1>2. flow[p].refresh = "none" /\ RefreshCallsOf(p) = {} /\ flow[p].new = None /\ flow[p].signed = None
    BY <1>1 DEF Refreshing, Tidy, Stores
  <1>3. /\ flow'[p].sign = "signOut" /\ flow'[p].refresh = "none" /\ flow'[p].new = None
        /\ flow'[p].signed = None /\ disk'[p].access = None
    BY <1>1, <1>2, FinishLogoutFacts
  <1>4. RefreshCallsOf(p)' = {} /\ LogoutsOf(p)' = {}
    BY <1>1, <1>2 DEF RefreshCallsOf, CallsOf, LogoutsOf
  <1>5. Stores(p)'
    BY <1>3, <1>4 DEF Stores
  <1>6. QED
    BY <1>4, <1>5 DEF Tidy, LogsOut

LEMMA ClearedTidy ==
  ASSUME ClientsOK, ClientsOK', NEW p \in Phone, Tidy(p), Clears(p), Waits(p), Cleared(p)
  PROVE  Tidy(p)'
  <1> DEFINE mine == {q \in RequestsOf(p) : req[q].state = "refreshing"}
             sign == IF mine \cap LogoutsOf(p) # {} THEN "signOut" ELSE flow[p].sign
  <1>1. /\ flow[p].refresh = "clear" /\ calls' = calls /\ mem' = mem
        /\ disk' = [disk EXCEPT ![p] = [disk[p] EXCEPT !.refresh = None]]
        /\ flow' = [flow EXCEPT ![p] = [flow[p] EXCEPT !.refresh = "none", !.sign = sign]]
        /\ req' = [q \in Request |-> IF q \in mine THEN None ELSE req[q]]
    BY DEF Cleared, ClientsOK
  <1>2. Refreshing(p)
    BY <1>1 DEF Refreshing
  <1>3. LogoutsOf(p) \subseteq mine
    <2>1. \A q \in Request : req[q] # None => req[q].app \in App
      BY DEF ClientsOK, Sent
    <2>2. QED
      BY <1>2, <2>1, PhoneHome DEF Tidy, LogsOut, LogoutsOf, RequestsOf
  <1>4. LogoutsOf(p)' = {}
    <2>1. \A q \in Request : req'[q] # None => q \notin mine /\ req'[q] = req[q]
      BY <1>1
    <2>2. QED
      BY <1>3, <2>1 DEF LogoutsOf
  <1> HIDE DEF mine
  <1>5. /\ RefreshCallsOf(p) = {} /\ mem[p] = NoPair /\ disk[p].access = None /\ flow[p].new = None
        /\ flow[p].sign # "signIn" /\ flow[p].signed = None
    BY <1>1, PhoneHome DEF Waits, Clears, Tidy, Stores, SigningIn
  <1>6. sign # "signIn" /\ sign \in {"none", "signIn", "signOut"}
    BY <1>5 DEF ClientsOK, Flow
  <1> HIDE DEF sign
  <1>7. /\ flow'[p].sign = sign /\ flow'[p].refresh = "none" /\ flow'[p].new = None
        /\ flow'[p].signed = None
    BY <1>1, <1>5, <1>6 DEF ClientsOK, Flow
  <1>8. disk'[p] = NoPair /\ mem'[p] = NoPair /\ RefreshCallsOf(p)' = {}
    BY <1>1, <1>5 DEF ClientsOK, Pair, NoPair, RefreshCallsOf, CallsOf
  <1>9. Stores(p)'
    BY <1>6, <1>7, <1>8 DEF Stores, NoPair
  <1>10. QED
    BY <1>4, <1>9 DEF Tidy, LogsOut

LEMMA PersistedTidy ==
  ASSUME ClientsOK, ClientsOK', NEW p \in Phone, Tidy(p), Waits(p), Persisting, Persisted(p)
  PROVE  Tidy(p)'
  <1>1. PICK t \in Second : t = flow[p].new
    BY DEF Persisted, Persisting, ClientsOK, Flow, Held
  <1>2. /\ flow[p].refresh = "persist" /\ calls' = calls /\ req' = Retries(p, t)
        /\ disk' = [disk EXCEPT ![p] = [disk[p] EXCEPT !.refresh = t]]
        /\ mem' = [mem EXCEPT ![p] = PairOf(t)]
        /\ flow' = [flow EXCEPT ![p] = [flow[p] EXCEPT !.refresh = "none", !.new = None]]
    BY <1>1 DEF Persisted, ClientsOK
  <1>3. /\ RefreshCallsOf(p) = {} /\ disk[p].access = t /\ flow[p].sign = "none"
        /\ flow[p].signed = None
    BY <1>1, <1>2, PhoneHome DEF Waits, Tidy, Stores
  <1>4. disk'[p] = PairOf(t) /\ mem'[p] = PairOf(t) /\ t # None
    <2>1. t # None
      BY Bounds, Numbers DEF Second
    <2>2. disk[p] \in Pair /\ disk'[p] = [disk[p] EXCEPT !.refresh = t]
      BY <1>2 DEF ClientsOK
    <2>3. disk'[p] = PairOf(t)
      BY <1>3, <2>2 DEF Pair, PairOf
    <2>4. QED
      BY <1>2, <2>1, <2>3 DEF ClientsOK
  <1>5. /\ flow'[p].sign = "none" /\ flow'[p].signed = None /\ flow'[p].refresh = "none"
        /\ flow'[p].new = None
    BY <1>2, <1>3 DEF ClientsOK, Flow
  <1>6. Stores(p)'
    BY <1>4, <1>5 DEF Stores
  <1>7. LogoutsOf(p)' \subseteq LogoutsOf(p)
    <2>1. \A q \in Request : req'[q] # None =>
            req[q] # None /\ req'[q].app = req[q].app /\ req'[q].body = req[q].body
      BY <1>2, PhoneHome, RetriesFacts
    <2>2. QED
      BY <2>1 DEF LogoutsOf
  <1>8. ~Refreshing(p)' /\ SignCallsOf(p)' = SignCallsOf(p)
    BY <1>2, <1>3, <1>5 DEF Refreshing, RefreshCallsOf, SignCallsOf, CallsOf
  <1>9. LogsOut(p)'
    BY <1>4, <1>5, <1>7, <1>8 DEF Tidy, LogsOut, PairOf
  <1>10. QED
    BY <1>6, <1>9 DEF Tidy

LEMMA PhonesTidy ==
  ASSUME ServerInv, ServerInv', NEW p \in Phone, Tidy(p), Clears(p), Waits(p), Persisting,
         NEW r \in Phone, "logout_in_refresh" \notin mishaps',
         SignedIn(r) \/ SignedOut(r) \/ SignOut(r) \/ Cleared(r) \/ Persisted(r)
  PROVE  Tidy(p)'
  <1>1. /\ ClientsOK /\ ClientsOK' /\ p \in App /\ r \in App /\ r \notin Tab
    BY ServerParts, ClientsNext, PhoneHome
  <1>2. calls' = calls
    BY DEF SignedIn, SignedOut, SignOut, Cleared, Persisted
  <1>3. RefreshCallsOf(p)' = RefreshCallsOf(p) /\ SignCallsOf(p)' = SignCallsOf(p)
    BY <1>2 DEF RefreshCallsOf, SignCallsOf, CallsOf
  <1>4. CASE p # r
    <2>1. mem'[p] = mem[p] /\ flow'[p] = flow[p] /\ disk'[p] = disk[p]
      <3>1. CASE SignOut(r)
        BY <1>1, <1>4, <3>1, FinishLogoutFacts DEF SignOut
      <3>2. CASE ~SignOut(r)
        BY <1>1, <1>4, <3>2 DEF SignedIn, SignedOut, Cleared, Persisted, ClientsOK
      <3>3. QED
        BY <3>1, <3>2
    <2>2. \A q \in Request : req'[q] # None /\ req'[q].app = p =>
                               req[q] # None /\ req'[q] = req[q]
      <3>1. CASE Persisted(r)
        <4>1. PICK t \in Second : t = flow[r].new
          BY <1>1, <3>1 DEF Persisted, Persisting, ClientsOK, Flow, Held
        <4>2. req' = Retries(r, t)
          BY <3>1, <4>1 DEF Persisted
        <4>3. QED
          BY <1>1, <1>4, <4>2, RetriesFacts
      <3>2. CASE Cleared(r)
        BY <3>2 DEF Cleared
      <3>3. CASE SignedIn(r) \/ SignedOut(r) \/ SignOut(r)
        BY <3>3 DEF SignedIn, SignedOut, SignOut
      <3>4. QED
        BY <3>1, <3>2, <3>3
    <2>3. /\ LogoutsOf(p)' \subseteq LogoutsOf(p)
          /\ \A q \in LogoutsOf(p)' : req'[q].state = req[q].state
      BY <1>1, <2>2, LogoutsSame
    <2>4. QED
      BY <1>3, <2>1, <2>3, TidySame
  <1>5. CASE p = r
    BY <1>1, <1>5, SignedInTidy, SignedOutTidy, SignOutTidy, ClearedTidy, PersistedTidy
  <1>6. QED
    BY <1>4, <1>5

LEMMA AllTidyStep ==
  ASSUME TokensInv, TokensInv', Clearing, AllWait, AllTidy, [TokensNext]_tokenVars
  PROVE  AllTidy'
  <1>1. CASE TokensNext
    <2> SUFFICES ASSUME Orderly', NEW p \in Phone
                 PROVE  Tidy(p)'
      BY DEF AllTidy
    <2>1. /\ ServerInv /\ ServerInv' /\ Persisting /\ Tidy(p) /\ Clears(p) /\ Waits(p)
          /\ "leftover_401" \notin mishaps' /\ "logout_in_refresh" \notin mishaps'
          /\ "kill" \notin mishaps'
      BY <1>1, MishapsGrow, PhoneHome DEF TokensInv, Clearing, AllWait, AllTidy, Orderly
    <2>2. ASSUME NEW i \in 1..CallBound,
                 \/ ServerStep(i) \/ RefreshRefused(i) \/ RefreshAnswer(i) \/ Lost(i)
                 \/ SignInAnswer(i)
          PROVE  Tidy(p)'
      BY <2>1, <2>2, ServerTidy, RefusedTidy, RefreshAnswerTidy, LostTidy, SignInAnswerTidy
    <2>3. ASSUME NEW q \in Request, Served(q) \/ Reject(q)
          PROVE  Tidy(p)'
      <3>1. /\ req[q] # None /\ req[q].state = "sent" /\ Finish(q) /\ calls' = calls
        BY <2>3 DEF Served, Reject, Unauthorized
      <3>2. QED
        BY <2>1, <3>1, FinishTidy
    <2>4. ASSUME NEW q \in Request, JoinQueue(q) \/ StartRefresh(q) \/ NoTokenToRefresh(q)
          PROVE  Tidy(p)'
      BY <2>1, <2>4, JoinTidy, StartRefreshTidy, NoTokenTidy
    <2>5. ASSUME NEW b \in App, SignInSubmit(b)
          PROVE  Tidy(p)'
      BY <2>1, <2>5, SubmitTidy
    <2>6. ASSUME NEW b \in App, NEW q \in Request, SendRequest(b, q) \/ SendLogout(b, q)
          PROVE  Tidy(p)'
      BY <2>1, <2>6, SendTidy
    <2>7. ASSUME NEW r \in Phone,
                 SignedIn(r) \/ SignedOut(r) \/ SignOut(r) \/ Cleared(r) \/ Persisted(r)
          PROVE  Tidy(p)'
      BY <2>1, <2>7, PhonesTidy
    <2>8. ASSUME NEW r \in Phone, Kill(r)
          PROVE  Tidy(p)'
      BY <2>1, <2>8 DEF Kill, Mishappens
    <2>9. ASSUME AccessTokensExpire \/ RefreshTokensExpire \/ Bar
          PROVE  Tidy(p)'
      <3>1. UNCHANGED <<mem, disk, flow, req, calls>>
        BY <2>9 DEF AccessTokensExpire, RefreshTokensExpire, Bar
      <3>2. RefreshCallsOf(p)' = RefreshCallsOf(p) /\ SignCallsOf(p)' = SignCallsOf(p)
        BY <3>1 DEF RefreshCallsOf, SignCallsOf, CallsOf
      <3>3. QED
        BY <2>1, <3>1, <3>2, TidyQuiet
    <2>10. QED
      BY <1>1, <2>2, <2>3, <2>4, <2>5, <2>6, <2>7, <2>8, <2>9 DEF TokensNext
  <1>2. CASE UNCHANGED tokenVars
    <2> SUFFICES ASSUME Orderly', NEW p \in Phone
                 PROVE  Tidy(p)'
      BY DEF AllTidy
    <2>1. ServerInv /\ ServerInv' /\ Tidy(p) /\ UNCHANGED <<mem, disk, flow, req, calls>>
      BY <1>2 DEF TokensInv, AllTidy, Orderly, tokenVars
    <2>2. RefreshCallsOf(p)' = RefreshCallsOf(p) /\ SignCallsOf(p)' = SignCallsOf(p)
      BY <2>1 DEF RefreshCallsOf, SignCallsOf, CallsOf
    <2>3. QED
      BY <2>1, <2>2, TidyQuiet
  <1>3. QED
    BY <1>1, <1>2

(* The store of a phone at rest holds what its memory holds.               *)
LEMMA StoresKept == TokensSpec => []StoreFollowsMemory
  <1>1. TokensInit => AllTidy
    BY DEF TokensInit, AllTidy, Tidy, Stores, LogsOut, RefreshCallsOf, CallsOf, LogoutsOf, NoFlow,
       NoPair
  <1>2. AllTidy => StoreFollowsMemory
    BY DEF AllTidy, Orderly, Tidy, Stores, StoreFollowsMemory, Idle, NoFlow
  <1>3. TokensSpec => []AllTidy
    BY <1>1, AllTidyStep, TokensAlways, ClearingAlways, AllWaitAlways, PTL DEF TokensSpec
  <1>4. QED
    BY <1>2, <1>3, PTL

-----------------------------------------------------------------------------
(* The tokens a client can refresh with: those on their way to it, and the *)
(* one it holds while it neither refreshes nor logs out.                   *)
Valid(x) == \E n \in DOMAIN rows : rows[n].tok = x /\ Live(rows[n])
AtHome(h, x) == mem[h].refresh = x /\ ~HomeRefreshes(h) /\ ~HomeLogsOut(h)
Usable(x) == Carried(x) \/ \E h \in Homes : AtHome(h, x)

Distinct == \A m, n \in DOMAIN rows : rows[m].tok = rows[n].tok => m = n

(* No refresh under way is refused, and no two exchange one token. *)
Exchanges ==
  /\ \A i \in 1..CallBound : Asks(i) => Valid(Asked(i)) /\ calls[i].phase \in {"sent", "go"}
  /\ \A i, j \in 1..CallBound : Asks(i) /\ Asks(j) /\ Asked(i) = Asked(j) => i = j

Sound ==
  /\ status # "barred" /\ \A n \in DOMAIN rows : ~rows[n].expired
  /\ Distinct /\ Exchanges
  /\ \A x \in Second : Usable(x) => Valid(x)

Clean == mishaps \subseteq {"late_401"}
AllValid == Clean => Sound

(* A client that logs out does so until it holds no token. *)
LogsOutKept == \A h \in Homes : mem'[h].refresh # None /\ HomeLogsOut(h) => HomeLogsOut(h)'

LEMMA KeepsUsable ==
  ASSUME Keeps, LogsOutKept
  PROVE  \A x \in Second : Usable(x)' => Usable(x)
  <1> SUFFICES ASSUME NEW x \in Second, Usable(x)'
               PROVE  Usable(x)
    OBVIOUS
  <1>1. CASE Carried(x)'
    BY <1>1 DEF Keeps, Usable
  <1>2. CASE \E h \in Homes : AtHome(h, x)'
    <2>1. PICK h \in Homes : mem'[h].refresh = x /\ ~HomeRefreshes(h)' /\ ~HomeLogsOut(h)'
      BY <1>2 DEF AtHome
    <2>2. x # None
      BY Bounds, Numbers DEF Second
    <2>3. ~HomeLogsOut(h)
      BY <2>1, <2>2 DEF LogsOutKept
    <2>4. Carried(x) \/ (mem[h].refresh = x /\ ~HomeRefreshes(h))
      BY <2>1 DEF Keeps
    <2>5. QED
      BY <2>3, <2>4 DEF Usable, AtHome
  <1>3. QED
    BY <1>1, <1>2 DEF Usable

LEMMA QuietKeeps ==
  ASSUME \A i \in 1..CallBound : CallTokens(i)' \subseteq CallTokens(i),
         \A p \in Phone : flow'[p].new \in {flow[p].new, None},
         \A p \in Phone : flow'[p].signed \in {flow[p].signed, None},
         \A h \in Homes : mem'[h].refresh \in {mem[h].refresh, None},
         \A h \in Homes : mem'[h].refresh # None /\ HomeRefreshes(h) => HomeRefreshes(h)'
  PROVE  Keeps
  <1>1. \A x \in Second : x # None
    BY Bounds, Numbers DEF Second
  <1>2. \A p \in Phone : NewTokens(p)' \subseteq NewTokens(p) /\ SignedTokens(p)' \subseteq SignedTokens(p)
    BY <1>1 DEF NewTokens, SignedTokens
  <1>3. \A x \in Second : Carried(x)' => Carried(x)
    BY <1>2 DEF Carried
  <1>4. \A h \in Homes : \A x \in Second : mem'[h].refresh = x =>
          mem[h].refresh = x /\ (HomeRefreshes(h) => HomeRefreshes(h)')
    BY <1>1
  <1>5. QED
    BY <1>3, <1>4 DEF Keeps

LEMMA ForgetsKeeps ==
  ASSUME ServerInv, Forgets
  PROVE  Keeps
  <1>1. \A i \in 1..CallBound : CallTokens(i)' \subseteq CallTokens(i)
    BY QuietCalls, SameRows, ServerParts DEF Forgets
  <1>2. QED
    BY <1>1, QuietKeeps DEF Forgets

(* Steps that touch no row, in which no refresh begins. *)
LEMMA SoundSame ==
  ASSUME Sound, rows' = rows, status' # "barred", AsksKept,
         \A i \in 1..CallBound : Asks(i)' => calls'[i].phase \in {calls[i].phase, "go"},
         \A x \in Second : Usable(x)' => Usable(x)
  PROVE  Sound'
  <1>1. \A x : Valid(x)' = Valid(x)
    BY DEF Valid
  <1>2. \A i \in 1..CallBound : Asks(i)' => Valid(Asked(i))' /\ calls'[i].phase \in {"sent", "go"}
    <2> SUFFICES ASSUME NEW i \in 1..CallBound, Asks(i)'
                 PROVE  Valid(Asked(i))' /\ calls'[i].phase \in {"sent", "go"}
      OBVIOUS
    <2>1. Asks(i) /\ Asked(i)' = Asked(i)
      BY DEF AsksKept
    <2>2. Valid(Asked(i)) /\ calls[i].phase \in {"sent", "go"}
      BY <2>1 DEF Sound, Exchanges
    <2>3. Valid(Asked(i))'
      BY <2>1, <2>2 DEF Valid
    <2>4. QED
      BY <2>2, <2>3
  <1>3. \A i, j \in 1..CallBound : Asks(i)' /\ Asks(j)' /\ Asked(i)' = Asked(j)' => i = j
    BY DEF AsksKept, Sound, Exchanges
  <1>4. Exchanges'
    BY <1>2, <1>3 DEF Exchanges
  <1>5. \A x \in Second : Usable(x)' => Valid(x)'
    BY <1>1 DEF Sound
  <1>6. Distinct'
    BY DEF Sound, Distinct
  <1>7. QED
    BY <1>4, <1>5, <1>6 DEF Sound

LEMMA QuietSound ==
  ASSUME ServerInv, Sound, rows' = rows, status' # "barred", CallsQuiet, Keeps, LogsOutKept
  PROVE  Sound'
  <1>1. AsksKept
    BY QuietCalls, SameRows, ServerParts
  <1>2. \A i \in 1..CallBound : Asks(i)' => calls'[i].phase \in {calls[i].phase, "go"}
    BY DEF CallsQuiet, Asks
  <1>3. \A x \in Second : Usable(x)' => Usable(x)
    BY KeepsUsable
  <1>4. QED
    BY <1>1, <1>2, <1>3, SoundSame

(* The steps of the clients: those that log out go on with it. *)
LEMMA LogsOutStays ==
  ASSUME ClientsOK, NEW h, HomeLogsOut(h),
         \A q \in Request : req[q] # None /\ Home(req[q].app) = h /\ req[q].body # None =>
           req'[q] # None /\ req'[q].app = req[q].app /\ req'[q].body = req[q].body,
         h \in Phone /\ flow[h].sign = "signOut" => flow'[h].sign = "signOut"
  PROVE  HomeLogsOut(h)'
  <1>1. LogoutsOf(h) \subseteq LogoutsOf(h)'
    BY DEF LogoutsOf
  <1>2. QED
    BY <1>1 DEF HomeLogsOut

LEMMA FlowLogsOut ==
  ASSUME ClientsOK, req' = req,
         \A h \in Homes : mem'[h].refresh # None /\ h \in Phone /\ flow[h].sign = "signOut" =>
           flow'[h].sign = "signOut"
  PROVE  LogsOutKept
  BY LogsOutStays DEF LogsOutKept

LEMMA RequestLogsOut ==
  ASSUME ClientsOK, NEW q \in Request, flow' = flow,
         \A r \in Request \ {q} : req'[r] = req[r],
         req[q] # None /\ req[q].body # None =>
           req'[q] # None /\ req'[q].app = req[q].app /\ req'[q].body = req[q].body
  PROVE  LogsOutKept
  BY LogsOutStays DEF LogsOutKept

LEMMA FinishLogsOut ==
  ASSUME ServerInv, NEW q \in Request, req[q] # None, Finish(q)
  PROVE  LogsOutKept
  <1>1. ClientsOK
    BY ServerParts
  <1>2. /\ req'[q] = None /\ \A r \in Request \ {q} : req'[r] = req[r]
        /\ req[q].app \in App
        /\ req[q].body = None => UNCHANGED <<mem, disk, flow>>
        /\ req[q].body # None => FinishLogout(req[q].app)
    BY <1>1, FinishFacts
  <1>3. CASE req[q].body = None
    BY <1>1, <1>2, <1>3, RequestLogsOut
  <1>4. CASE req[q].body # None
    <2> SUFFICES ASSUME NEW h \in Homes, mem'[h].refresh # None, HomeLogsOut(h)
                 PROVE  HomeLogsOut(h)'
      BY DEF LogsOutKept
    <2>1. CASE req[q].app \in Tab
      <3>1. mem'[Browser] = NoPair /\ flow' = flow /\ Home(req[q].app) = Browser
        BY <1>1, <1>2, <1>4, <2>1, FinishLogoutFacts, AppHome
      <3>2. h # Browser
        BY <3>1 DEF NoPair
      <3>3. QED
        BY <1>1, <1>2, <3>1, <3>2, LogsOutStays
    <2>2. CASE req[q].app \in Phone
      <3>1. /\ flow'[req[q].app].sign = "signOut" /\ Home(req[q].app) = req[q].app
            /\ \A p \in Phone \ {req[q].app} : flow'[p] = flow[p]
        BY <1>1, <1>2, <1>4, <2>2, FinishLogoutFacts, AppHome
      <3>2. CASE h = req[q].app
        BY <2>2, <3>1, <3>2 DEF HomeLogsOut
      <3>3. CASE h # req[q].app
        BY <1>1, <1>2, <3>1, <3>3, LogsOutStays
      <3>4. QED
        BY <3>2, <3>3
    <2>3. QED
      BY <1>2, <2>1, <2>2 DEF App
  <1>5. QED
    BY <1>3, <1>4

LEMMA FailLogsOut ==
  ASSUME ServerInv, NEW a \in App, FailRefresh(a)
  PROVE  LogsOutKept
  <1> SUFFICES ASSUME NEW h \in Homes, mem'[h].refresh # None, HomeLogsOut(h)
               PROVE  HomeLogsOut(h)'
    BY DEF LogsOutKept
  <1>1. ClientsOK
    BY ServerParts
  <1>2. /\ mem'[Home(a)] = NoPair /\ \A p \in Phone \ {a} : flow'[p] = flow[p]
        /\ \A q \in Request \ RequestsOf(a) : req'[q] = req[q]
    BY <1>1, FailRefreshFacts
  <1>3. h # Home(a)
    BY <1>2 DEF NoPair
  <1>4. \A q \in Request : req[q] # None /\ Home(req[q].app) = h => req'[q] = req[q]
    BY <1>2, <1>3 DEF RequestsOf
  <1>5. h \in Phone => flow'[h] = flow[h]
    BY <1>2, <1>3, AppHome
  <1>6. QED
    BY <1>1, <1>4, <1>5, LogsOutStays

LEMMA CallsLogOut ==
  ASSUME ServerInv, \A p \in Phone : Clears(p), NEW i \in 1..CallBound,
         SignInAnswer(i) \/ RefreshRefused(i) \/ RefreshAnswer(i)
  PROVE  LogsOutKept
  <1>1. ClientsOK /\ calls[i] # None /\ calls[i].app \in App
    BY ServerParts, CallTyped DEF SignInAnswer, RefreshRefused, RefreshAnswer, AtPhase,
       AnswersAwaited, Call
  <1>2. CASE RefreshRefused(i)
    BY <1>1, <1>2, FailLogsOut DEF RefreshRefused
  <1>3. PICK a \in App : a = calls[i].app
    BY <1>1
  <1>4. CASE SignInAnswer(i)
    <2>1. CASE flow' = flow
      BY <1>1, <1>4, <2>1, FlowLogsOut DEF SignInAnswer
    <2>2. CASE flow' # flow
      <3>1. /\ a \in Phone /\ a \notin Tab /\ mem' = mem /\ req' = req
            /\ flow' = [flow EXCEPT ![a].sign = "signIn", ![a].signed = calls[i].answer]
        BY <1>3, <1>4, <2>2, AppHome DEF SignInAnswer, App
      <3>2. \A p \in Phone \ {a} : flow'[p] = flow[p]
        BY <1>1, <3>1 DEF ClientsOK
      <3>3. i \in SignCallsOf(a)
        BY <1>1, <1>3, <1>4 DEF SignCallsOf, CallsOf, SignInAnswer
      <3>4. mem'[a].refresh = None
        BY <3>1, <3>3 DEF Clears, SigningIn, NoPair
      <3>5. QED
        BY <1>1, <3>1, <3>2, <3>4, FlowLogsOut
    <2>3. QED
      BY <2>1, <2>2
  <1>5. CASE RefreshAnswer(i)
    <2>1. CASE a \in Tab
      <3>1. flow' = flow /\ req' = Retries(a, calls[i].answer) /\ calls[i].answer \in Second
        BY <1>1, <1>3, <1>5, <2>1, ServerParts, CallTyped DEF RefreshAnswer, Call, Held
      <3>2. PICK t \in Second : req' = Retries(a, t)
        BY <3>1
      <3>3. \A q \in Request : req[q] # None =>
              req'[q] # None /\ req'[q].app = req[q].app /\ req'[q].body = req[q].body
        BY <1>1, <3>2, RetriesFacts
      <3>4. QED
        BY <1>1, <3>1, <3>3, LogsOutStays DEF LogsOutKept
    <2>2. CASE a \notin Tab
      <3>1. /\ a \in Phone /\ req' = req
            /\ flow' = [flow EXCEPT ![a] = [flow[a] EXCEPT !.refresh = "persist",
                                                           !.new = calls[i].answer]]
        BY <1>1, <1>3, <1>5, <2>2 DEF RefreshAnswer, App, ClientsOK
      <3>2. \A p \in Phone : flow'[p].sign = flow[p].sign
        BY <1>1, <3>1 DEF ClientsOK, Flow
      <3>3. QED
        BY <1>1, <3>1, <3>2, FlowLogsOut
    <2>3. QED
      BY <2>1, <2>2
  <1>6. QED
    BY <1>2, <1>4, <1>5

LEMMA RequestsLogOut ==
  ASSUME ServerInv, NEW q \in Request,
         \/ Served(q) \/ Reject(q) \/ JoinQueue(q) \/ StartRefresh(q)
         \/ \E b \in App : SendRequest(b, q) \/ SendLogout(b, q)
  PROVE  LogsOutKept
  <1>1. ClientsOK
    BY ServerParts
  <1>2. CASE Served(q) \/ Reject(q)
    BY <1>2, FinishLogsOut DEF Served, Reject, Unauthorized
  <1>3. CASE JoinQueue(q) \/ StartRefresh(q)
    <2>1. req[q] # None /\ req[q] \in Sent /\ flow' = flow
      BY <1>1, <1>3 DEF JoinQueue, StartRefresh, Unauthorized, ClientsOK
    <2>2. \/ req' = [req EXCEPT ![q] = [req[q] EXCEPT !.state = "queued"]]
          \/ req' = [req EXCEPT ![q] = [req[q] EXCEPT !.state = "refreshing", !.retried = TRUE]]
      BY <1>1, <1>3, <2>1 DEF JoinQueue, StartRefresh, ClientsOK
    <2>3. \A s \in Sent : /\ [s EXCEPT !.state = "queued"] \in Sent
                          /\ [s EXCEPT !.state = "refreshing", !.retried = TRUE] \in Sent
                          /\ [s EXCEPT !.state = "queued"].app = s.app
                          /\ [s EXCEPT !.state = "queued"].body = s.body
                          /\ [s EXCEPT !.state = "refreshing", !.retried = TRUE].app = s.app
                          /\ [s EXCEPT !.state = "refreshing", !.retried = TRUE].body = s.body
      BY DEF Sent
    <2>4. /\ \A r \in Request \ {q} : req'[r] = req[r]
          /\ \/ req'[q] = [req[q] EXCEPT !.state = "queued"]
             \/ req'[q] = [req[q] EXCEPT !.state = "refreshing", !.retried = TRUE]
      BY <1>1, <2>2 DEF ClientsOK
    <2>5. req'[q] # None /\ req'[q].app = req[q].app /\ req'[q].body = req[q].body
      BY <2>1, <2>3, <2>4, Bounds
    <2>6. QED
      BY <1>1, <2>1, <2>4, <2>5, RequestLogsOut
  <1>4. CASE \E b \in App : SendRequest(b, q) \/ SendLogout(b, q)
    <2>1. req[q] = None /\ flow' = flow /\ \A r \in Request \ {q} : req'[r] = req[r]
      BY <1>1, <1>4 DEF SendRequest, SendLogout, ClientsOK
    <2>2. QED
      BY <1>1, <2>1, RequestLogsOut
  <1>5. QED
    BY <1>2, <1>3, <1>4

LEMMA NoTokenLogsOut ==
  ASSUME ServerInv, NEW q \in Request, NoTokenToRefresh(q)
  PROVE  LogsOutKept
  <1>1. ClientsOK /\ req[q].app \in App
    BY ServerParts DEF NoTokenToRefresh, Unauthorized, ClientsOK, Sent
  <1>2. PICK a \in App : a = req[q].app
    BY <1>1
  <1>3. CASE a \in Tab
    <2>1. FailRefresh(a)
      BY <1>2, <1>3 DEF NoTokenToRefresh
    <2>2. QED
      BY <2>1, FailLogsOut
  <1>4. CASE a \notin Tab
    <2>1. /\ a \in Phone /\ Home(a) = a
          /\ flow' = [flow EXCEPT ![a].refresh = "clear"]
          /\ mem' = [mem EXCEPT ![a] = NoPair]
          /\ \A r \in Request \ {q} : req'[r] = req[r]
      BY <1>1, <1>2, <1>4, AppHome DEF NoTokenToRefresh, App, ClientsOK
    <2>2. mem'[a].refresh = None /\ \A p \in Phone \ {a} : flow'[p] = flow[p]
      BY <1>1, <2>1 DEF ClientsOK, NoPair
    <2>3. ASSUME NEW h \in Homes, mem'[h].refresh # None, HomeLogsOut(h)
          PROVE  HomeLogsOut(h)'
      <3>1. h # a
        BY <2>2, <2>3
      <3>2. \A r \in Request : req[r] # None /\ Home(req[r].app) = h => req'[r] = req[r]
        BY <1>2, <2>1, <3>1
      <3>3. QED
        BY <1>1, <2>2, <2>3, <3>1, <3>2, LogsOutStays
    <2>4. QED
      BY <2>3 DEF LogsOutKept
  <1>5. QED
    BY <1>3, <1>4

LEMMA PhonesLogOut ==
  ASSUME ServerInv, Persisting, NEW p \in Phone, Clears(p),
         SignedIn(p) \/ SignedOut(p) \/ SignOut(p) \/ Cleared(p) \/ Persisted(p)
  PROVE  LogsOutKept
  <1>1. ClientsOK /\ p \in App /\ Home(p) = p /\ p \notin Tab
    BY ServerParts, PhoneHome
  <1>2. CASE SignedIn(p) \/ SignedOut(p)
    <2>1. /\ req' = req /\ \A r \in Phone \ {p} : flow'[r] = flow[r]
          /\ SignedIn(p) => flow[p].sign = "signIn"
          /\ SignedOut(p) => mem'[p].refresh = None
      BY <1>1, <1>2 DEF SignedIn, SignedOut, ClientsOK, NoPair
    <2>2. QED
      BY <1>1, <1>2, <2>1, FlowLogsOut
  <1>3. CASE SignOut(p)
    <2>1. /\ req' = req /\ flow'[p].sign = "signOut" /\ \A r \in Phone \ {p} : flow'[r] = flow[r]
      BY <1>1, <1>3, FinishLogoutFacts DEF SignOut
    <2>2. QED
      BY <1>1, <2>1, FlowLogsOut
  <1>4. CASE Cleared(p)
    <2>1. /\ mem' = mem /\ mem[p].refresh = None /\ \A r \in Phone \ {p} : flow'[r] = flow[r]
          /\ \A q \in Request : req[q] # None /\ req[q].app # p => req'[q] = req[q]
      BY <1>1, <1>4 DEF Cleared, Clears, ClientsOK, NoPair, RequestsOf
    <2>2. ASSUME NEW h \in Homes, mem'[h].refresh # None, HomeLogsOut(h)
          PROVE  HomeLogsOut(h)'
      <3>1. h # p
        BY <2>1, <2>2
      <3>2. \A q \in Request : req[q] # None /\ Home(req[q].app) = h => req'[q] = req[q]
        BY <1>1, <2>1, <3>1
      <3>3. QED
        BY <1>1, <2>1, <2>2, <3>1, <3>2, LogsOutStays
    <2>3. QED
      BY <2>2 DEF LogsOutKept
  <1>5. CASE Persisted(p)
    <2>1. flow[p].new \in Second
      BY <1>1, <1>5 DEF Persisted, Persisting, ClientsOK, Flow, Held
    <2>2. PICK t \in Second : t = flow[p].new
      BY <2>1
    <2>3. /\ req' = Retries(p, t)
          /\ flow' = [flow EXCEPT ![p] = [flow[p] EXCEPT !.refresh = "none", !.new = None]]
      BY <1>1, <1>5, <2>2 DEF Persisted, ClientsOK
    <2>4. \A r \in Phone : flow'[r].sign = flow[r].sign
      BY <1>1, <2>3 DEF ClientsOK, Flow
    <2>5. \A q \in Request : req[q] # None =>
            req'[q] # None /\ req'[q].app = req[q].app /\ req'[q].body = req[q].body
      BY <1>1, <2>3, RetriesFacts
    <2>6. QED
      BY <1>1, <2>4, <2>5, LogsOutStays DEF LogsOutKept
  <1>6. QED
    BY <1>2, <1>3, <1>4, <1>5

(* The steps of the clients: nobody takes up a token. *)
LEMMA AnswersKeep ==
  ASSUME ServerInv, NEW i \in 1..CallBound, SignInAnswer(i) \/ RefreshAnswer(i)
  PROVE  Keeps /\ CallsQuiet /\ UNCHANGED <<rows, status>>
  <1>1. /\ ClientsOK /\ AtPhase(i, "done") /\ UNCHANGED <<rows, status>>
        /\ calls' = [calls EXCEPT ![i] = None]
    BY ServerParts DEF SignInAnswer, RefreshAnswer, serverVars
  <1>2. CallsQuiet /\ calls[i].app \in App
    BY <1>1, EndsQuietly, AnswerTaken
  <1>3. CASE calls[i].answer = None
    <2>1. /\ SignInAnswer(i) /\ calls[i].kind # "refresh" /\ mem' = mem /\ flow' = flow
      BY <1>3 DEF SignInAnswer, RefreshAnswer
    <2>2. /\ \A b \in App : RefreshCallsOf(b)' = RefreshCallsOf(b)
          /\ \A j \in 1..CallBound : CallTokens(j)' \subseteq CallTokens(j)
      BY <1>1, <2>1, AnswerTaken
    <2>3. \A b \in App : Refreshing(b) => Refreshing(b)'
      BY <2>1, <2>2, RefreshingKept
    <2>4. \A h \in Homes : HomeRefreshes(h) => HomeRefreshes(h)'
      BY <2>3, HomeStillRefreshes
    <2>5. QED
      BY <1>1, <1>2, <2>1, <2>2, <2>4, QuietKeeps
  <1>4. CASE calls[i].answer # None /\ calls[i].app \in Tab
    <2>1. mem' = [mem EXCEPT ![Browser] = PairOf(calls[i].answer)] /\ flow' = flow
      BY <1>4 DEF SignInAnswer, RefreshAnswer
    <2>2. QED
      BY <1>1, <1>2, <1>4, <2>1, TabAnswerKeeps
  <1>5. CASE calls[i].answer # None /\ calls[i].app \notin Tab
    <2>1. PICK a \in Phone : a = calls[i].app
      BY <1>2, <1>5 DEF App
    <2>2. mem' = mem
      BY <1>5 DEF SignInAnswer, RefreshAnswer
    <2>3. CASE SignInAnswer(i)
      <3>1. /\ calls[i].kind # "refresh"
            /\ flow' = [flow EXCEPT ![a] = [flow[a] EXCEPT !.sign = "signIn",
                                                          !.signed = calls[i].answer]]
        BY <1>1, <1>5, <2>1, <2>3 DEF SignInAnswer, ClientsOK
      <3>2. QED
        BY <1>1, <1>2, <1>5, <2>1, <2>2, <3>1, PhoneAnswerKeeps
    <2>4. CASE RefreshAnswer(i)
      <3>1. flow' = [flow EXCEPT ![a] = [flow[a] EXCEPT !.refresh = "persist",
                                                        !.new = calls[i].answer]]
        BY <1>1, <1>5, <2>1, <2>4 DEF RefreshAnswer, ClientsOK
      <3>2. QED
        BY <1>1, <1>2, <1>5, <2>1, <2>2, <3>1, PhoneAnswerKeeps
    <2>5. QED
      BY <2>3, <2>4
  <1>6. QED
    BY <1>3, <1>4, <1>5

LEMMA PhonesKeep ==
  ASSUME ServerInv, NEW p \in Phone, SignedIn(p) \/ Persisted(p)
  PROVE  Keeps /\ CallsQuiet /\ UNCHANGED <<rows, status>>
  <1>1. ClientsOK /\ calls' = calls /\ UNCHANGED <<rows, status>>
    BY ServerParts DEF SignedIn, Persisted, serverVars
  <1>2. CallsQuiet
    BY <1>1, SameCallsQuiet
  <1>3. PICK x \in Held : x = IF SignedIn(p) THEN flow[p].signed ELSE flow[p].new
    BY <1>1 DEF ClientsOK, Flow
  <1>4. /\ mem' = [mem EXCEPT ![p] = PairOf(x)] /\ x \in {flow[p].new, flow[p].signed}
        /\ flow'[p].new \in {flow[p].new, None} /\ flow'[p].signed \in {flow[p].signed, None}
        /\ \A r \in Phone \ {p} : flow'[r] = flow[r]
    <2>1. CASE SignedIn(p)
      BY <1>1, <1>3, <2>1 DEF SignedIn, ClientsOK, Flow
    <2>2. CASE ~SignedIn(p)
      BY <1>1, <1>3, <2>2 DEF Persisted, ClientsOK, Flow
    <2>3. QED
      BY <2>1, <2>2
  <1>5. QED
    BY <1>1, <1>2, <1>4, WrittenKeeps

LEMMA SendKeeps ==
  ASSUME ServerInv, NEW a \in App, NEW q \in Request, SendLogout(a, q)
  PROVE  Keeps /\ CallsQuiet /\ UNCHANGED <<rows, status>>
  <1>1. UNCHANGED <<rows, status, calls, mem, flow>>
    BY DEF SendLogout, serverVars
  <1>2. CallsQuiet
    BY <1>1, SameCallsQuiet
  <1>3. /\ \A i \in 1..CallBound : CallTokens(i)' \subseteq CallTokens(i)
        /\ \A h \in Homes : HomeRefreshes(h) => HomeRefreshes(h)'
    BY <1>1, <1>2, QuietCalls, SameRows, ServerParts, FlowSame
  <1>4. Keeps
    BY <1>1, <1>3, QuietKeeps
  <1>5. QED
    BY <1>1, <1>2, <1>4

(* The steps of the clients but a refresh, a served request and a mishap. *)
LEMMA ClientsSound ==
  ASSUME ServerInv, Sound, Persisting, \A p \in Phone : Clears(p),
         \/ \E i \in 1..CallBound : SignInAnswer(i) \/ RefreshRefused(i) \/ RefreshAnswer(i)
         \/ \E b \in App : SignInSubmit(b) \/ \E q \in Request : SendRequest(b, q) \/ SendLogout(b, q)
         \/ \E q \in Request : Reject(q) \/ JoinQueue(q) \/ NoTokenToRefresh(q)
         \/ \E p \in Phone : SignedIn(p) \/ SignedOut(p) \/ SignOut(p) \/ Cleared(p) \/ Persisted(p)
  PROVE  Sound'
  <1>1. CASE \E i \in 1..CallBound : SignInAnswer(i) \/ RefreshRefused(i) \/ RefreshAnswer(i)
    <2>1. PICK i \in 1..CallBound : SignInAnswer(i) \/ RefreshRefused(i) \/ RefreshAnswer(i)
      BY <1>1
    <2>2. LogsOutKept
      BY <2>1, CallsLogOut
    <2>3. CASE RefreshRefused(i)
      <3>1. Keeps /\ CallsQuiet /\ UNCHANGED <<rows, status>>
        BY <2>3, RefusedForgets, ForgetsKeeps DEF Forgets, RefreshRefused, serverVars
      <3>2. QED
        BY <2>2, <3>1, QuietSound DEF Sound
    <2>4. CASE SignInAnswer(i) \/ RefreshAnswer(i)
      BY <2>2, <2>4, AnswersKeep, QuietSound DEF Sound
    <2>5. QED
      BY <2>1, <2>3, <2>4
  <1>2. CASE \E b \in App : SignInSubmit(b)
    <2>1. PICK b \in App : SignInSubmit(b)
      BY <1>2
    <2>2. Keeps /\ CallsQuiet /\ UNCHANGED <<rows, status>>
      BY <2>1, SubmitForgets, ForgetsKeeps DEF Forgets, SignInSubmit, serverVars
    <2>3. LogsOutKept
      BY <2>1, FlowLogsOut, ServerParts DEF SignInSubmit
    <2>4. QED
      BY <2>2, <2>3, QuietSound DEF Sound
  <1>3. CASE \E q \in Request : \/ \E b \in App : SendRequest(b, q) \/ SendLogout(b, q)
                                \/ Reject(q) \/ JoinQueue(q) \/ NoTokenToRefresh(q)
    <2>1. PICK q \in Request : \/ \E b \in App : SendRequest(b, q) \/ SendLogout(b, q)
                               \/ Reject(q) \/ JoinQueue(q) \/ NoTokenToRefresh(q)
      BY <1>3
    <2>2. LogsOutKept
      BY <2>1, RequestsLogOut, NoTokenLogsOut
    <2>3. CASE \E b \in App : SendLogout(b, q)
      BY <2>2, <2>3, SendKeeps, QuietSound DEF Sound
    <2>4. CASE \/ \E b \in App : SendRequest(b, q)
               \/ Reject(q) \/ JoinQueue(q) \/ NoTokenToRefresh(q)
      <3>1. Forgets
        BY <2>4, RequestForgets, NoTokenForgets
      <3>2. status' = status
        BY <2>4 DEF SendRequest, Reject, JoinQueue, NoTokenToRefresh, serverVars
      <3>3. QED
        BY <2>2, <3>1, <3>2, ForgetsKeeps, QuietSound DEF Forgets, Sound
    <2>5. QED
      BY <2>1, <2>3, <2>4
  <1>4. CASE \E p \in Phone : SignedIn(p) \/ SignedOut(p) \/ SignOut(p) \/ Cleared(p) \/ Persisted(p)
    <2>1. PICK p \in Phone : SignedIn(p) \/ SignedOut(p) \/ SignOut(p) \/ Cleared(p) \/ Persisted(p)
      BY <1>4
    <2>2. LogsOutKept
      BY <2>1, PhonesLogOut
    <2>3. CASE SignedIn(p) \/ Persisted(p)
      BY <2>2, <2>3, PhonesKeep, QuietSound DEF Sound
    <2>4. CASE SignedOut(p) \/ SignOut(p) \/ Cleared(p)
      <3>1. Forgets
        BY <2>4, SignOutForgets, ClearedForgets
      <3>2. status' = status
        BY <2>4 DEF SignedOut, SignOut, Cleared, serverVars
      <3>3. QED
        BY <2>2, <3>1, <3>2, ForgetsKeeps, QuietSound DEF Forgets, Sound
    <2>5. QED
      BY <2>1, <2>3, <2>4
  <1>5. QED
    BY <1>1, <1>2, <1>3, <1>4

(* The steps of the server. *)
LEMMA ServerKeeps ==
  ASSUME ServerInv, SameCallers, UNCHANGED <<mem, flow, req>>,
         \A i \in 1..CallBound : CallTokens(i)' \subseteq CallTokens(i)
  PROVE  Keeps /\ LogsOutKept
  <1>1. \A h \in Homes : HomeRefreshes(h) => HomeRefreshes(h)'
    <2>1. \A b \in App : Refreshing(b) => Refreshing(b)'
      BY CallersKept, RefreshingKept
    <2>2. QED
      BY <2>1, HomeStillRefreshes
  <1>2. Keeps
    BY <1>1, QuietKeeps
  <1>3. LogsOutKept
    BY ServerParts, FlowLogsOut
  <1>4. QED
    BY <1>2, <1>3

(* The row of a token that is valid is the one that is live. *)
LEMMA ValidRow ==
  ASSUME Distinct, NEW n \in DOMAIN rows, Valid(rows[n].tok)
  PROVE  Live(rows[n])
  BY DEF Distinct, Valid

(* No refresh is refused. *)
LEMMA NoRefusal ==
  ASSUME ServerInv, Sound, NEW i \in 1..CallBound
  PROVE  /\ ~RevocationBegins(i) /\ ~RefreshRevokes(i) /\ ~RefreshExpired(i)
         /\ \A t \in Second : RefreshRotate(i, t) => Rotates(calls[i].row)
         /\ ~(AtPhase(i, "creating") /\ calls[i].kind = "refresh")
  <1>1. ASSUME calls[i] # None
        PROVE  GoodCall(calls[i], Len(rows))
    BY <1>1, ServerParts, CallTyped
  <1>2. ASSUME calls[i] # None, calls[i].phase \in {"reuse", "barred", "expired"}
        PROVE  FALSE
    <2>1. Asks(i)
      BY <1>1, <1>2 DEF GoodCall, Asks
    <2>2. QED
      BY <1>2, <2>1 DEF Sound, Exchanges
  <1>3. ~(AtPhase(i, "creating") /\ calls[i].kind = "refresh")
    <2> SUFFICES ASSUME AtPhase(i, "creating"), calls[i].kind = "refresh"
                 PROVE  FALSE
      OBVIOUS
    <2>1. Asks(i)
      BY DEF AtPhase, Asks
    <2>2. QED
      BY <2>1 DEF AtPhase, Sound, Exchanges
  <1>4. ASSUME NEW t \in Second, RefreshRotate(i, t)
        PROVE  Rotates(calls[i].row)
    <2>1. calls[i].row \in DOMAIN rows
      BY <1>4, RefreshRotateHolds, ServerParts
    <2>2. PICK n \in DOMAIN rows : n = calls[i].row
      BY <2>1
    <2>3. Asks(i) /\ Asked(i) = rows[n].tok
      BY <1>4, <2>2 DEF RefreshRotate, AtPhase, Asks, Asked
    <2>4. Distinct /\ Valid(Asked(i))
      BY <2>3 DEF Sound, Exchanges
    <2>5. Live(rows[n])
      BY <2>3, <2>4, ValidRow DEF Valid
    <2>6. QED
      BY <2>2, <2>5 DEF Rotates, Live
  <1>5. QED
    BY <1>2, <1>3, <1>4 DEF RevocationBegins, RefreshRevokes, RefreshExpired, AtPhase

LEMMA ChecksSound ==
  ASSUME ServerInv, Sound, NEW i \in 1..CallBound,
         RegisterFind(i) \/ RegisterCreate(i) \/ LoginCheck(i)
  PROVE  Sound'
  <1>1. /\ ClientsOK /\ CallsOK /\ RowsOK /\ Len(rows) \in Nat
        /\ calls[i] # None /\ UNCHANGED <<mem, flow, req, rows>>
    BY ServerParts DEF serverVars, RegisterFind, RegisterCreate, LoginCheck, AtPhase
  <1>2. SameCallers
    BY RegisterFindHolds, RegisterCreateHolds, LoginCheckHolds
  <1>3. status' # "barred"
    BY DEF RegisterFind, RegisterCreate, LoginCheck, serverVars, Sound
  <1>4. calls[i].kind # "refresh"
    BY NoRefusal DEF RegisterFind, RegisterCreate, LoginCheck
  <1>5. CallsQuiet
    <2>1. CASE calls' = Answered(i, None)
      BY <1>1, <2>1, RefusalQuiet
    <2>2. CASE calls' # Answered(i, None)
      <3>1. \E phase \in {"creating", "go"} :
              calls' = [calls EXCEPT ![i] = [calls[i] EXCEPT !.phase = phase]]
        BY <1>1, <2>2 DEF RegisterFind, RegisterCreate, LoginCheck, CallsOK
      <3>2. PICK phase \in {"creating", "go"} :
              calls' = [calls EXCEPT ![i] = [calls[i] EXCEPT !.phase = phase]]
        BY <3>1
      <3>3. calls[i] \in Call
        BY <1>1, CallTyped
      <3>4. /\ calls'[i].kind # "refresh" /\ calls'[i].phase # "done"
            /\ \A j \in 1..CallBound : j # i => calls'[j] = calls[j]
        BY <1>1, <1>4, <3>2, <3>3 DEF CallsOK, Call
      <3>5. QED
        BY <3>4 DEF CallsQuiet
    <2>3. QED
      BY <2>1, <2>2
  <1>6. \A j \in 1..CallBound : CallTokens(j)' \subseteq CallTokens(j)
    BY <1>1, <1>5, SameRows, QuietCalls
  <1>7. QED
    BY <1>1, <1>2, <1>3, <1>5, <1>6, ServerKeeps, QuietSound

LEMMA FindSound ==
  ASSUME ServerInv, Sound, NEW i \in 1..CallBound, RefreshFind(i)
  PROVE  Sound'
  <1>1. /\ AsksKept /\ SameCallers /\ UNCHANGED <<rows, left, clock, status, mem, flow, req>>
        /\ \A j \in 1..CallBound : CallTokens(j)' \subseteq CallTokens(j)
        /\ \A j \in 1..CallBound : j # i => calls'[j] = calls[j]
        /\ Asks(i)
        /\ \E n \in DOMAIN rows : rows[n].tok = Asked(i) /\ calls'[i].phase = Verdict(rows[n])
    BY FindQuiet
  <1>2. PICK n \in DOMAIN rows : rows[n].tok = Asked(i) /\ calls'[i].phase = Verdict(rows[n])
    BY <1>1
  <1>3. Distinct /\ Valid(Asked(i)) /\ ~rows[n].expired /\ status # "barred"
    BY <1>1 DEF Sound, Exchanges
  <1>4. Live(rows[n])
    BY <1>2, <1>3, ValidRow DEF Valid
  <1>5. calls'[i].phase = "go"
    BY <1>2, <1>3, <1>4 DEF Verdict, Live
  <1>6. \A x \in Second : Usable(x)' => Usable(x)
    BY <1>1, ServerKeeps, KeepsUsable
  <1>7. \A j \in 1..CallBound : Asks(j)' => calls'[j].phase \in {calls[j].phase, "go"}
    BY <1>1, <1>5
  <1>8. QED
    BY <1>1, <1>3, <1>6, <1>7, SoundSame

(* A pair is signed. *)
LEMMA SignedSound ==
  ASSUME ServerInv, Safe, Sound, NEW i \in 1..CallBound, calls[i] # None, NEW t \in Second,
         t = clock + 1, UNCHANGED <<mem, flow, req, status>>,
         calls' = Answered(i, t), SameCallers, RowsInv', Len(rows') = Len(rows) + 1,
         \A n \in 1..Len(rows) : /\ rows'[n].tok = rows[n].tok /\ rows'[n].expired = rows[n].expired
                                 /\ Live(rows[n]) => \/ Live(rows'[n])
                                                     \/ Asks(i) /\ Asked(i) = rows[n].tok,
         NEW f, rows'[Len(rows) + 1] = NewRow(t, f)
  PROVE  Sound'
  <1>1. /\ RowsOK /\ CallsOK /\ ClientsOK /\ clock \in Nat /\ t \in Held
        /\ Len(rows) \in Nat /\ Len(rows') = Len(rows) + 1 /\ DOMAIN rows = 1..Len(rows)
        /\ DOMAIN rows' = 1..(Len(rows) + 1)
    BY ServerParts DEF RowsInv, RowsOK, Held
  <1>2. /\ rows'[Len(rows) + 1].tok = t /\ ~rows'[Len(rows) + 1].expired
        /\ Live(rows'[Len(rows) + 1])
    BY DEF NewRow, Live
  <1>3. /\ ~Asks(i)' /\ CallTokens(i)' \subseteq {t}
        /\ \A j \in 1..CallBound : j # i =>
             /\ CallTokens(j)' = CallTokens(j)
             /\ Asks(j)' => Asks(j) /\ Asked(j)' = Asked(j)
    BY <1>1, AnsweredAsks
  <1>4. \A j \in 1..CallBound : j # i => calls'[j] = calls[j]
    BY <1>1, AnsweredCall
  <1>5. \A n \in 1..Len(rows) : rows[n].tok \in Int /\ rows[n].tok # t
    <2> SUFFICES ASSUME NEW n \in 1..Len(rows)
                 PROVE  rows[n].tok \in Int /\ rows[n].tok # t
      OBVIOUS
    <2>1. rows[n].tok \in 1..clock
      BY <1>1, RowTyped
    <2>2. QED
      BY <1>1, <2>1
  <1>6. Distinct'
    <2> SUFFICES ASSUME NEW m \in 1..(Len(rows) + 1), NEW n \in 1..(Len(rows) + 1),
                        rows'[m].tok = rows'[n].tok
                 PROVE  m = n
      BY <1>1 DEF Distinct
    <2>1. CASE m \in 1..Len(rows) /\ n \in 1..Len(rows)
      <3>1. rows[m].tok = rows[n].tok
        BY <2>1
      <3>2. QED
        BY <1>1, <2>1, <3>1 DEF Sound, Distinct
    <2>2. CASE m = Len(rows) + 1 /\ n \in 1..Len(rows)
      BY <1>2, <1>5, <2>2
    <2>3. CASE m \in 1..Len(rows) /\ n = Len(rows) + 1
      BY <1>2, <1>5, <2>3
    <2>4. QED
      BY <1>1, <2>1, <2>2, <2>3
  <1>7. ASSUME NEW x, Valid(x), ~(Asks(i) /\ Asked(i) = x)
        PROVE  Valid(x)'
    <2>1. PICK n \in 1..Len(rows) : rows[n].tok = x /\ Live(rows[n])
      BY <1>1, <1>7 DEF Valid
    <2>2. rows'[n].tok = x /\ Live(rows'[n]) /\ n \in DOMAIN rows'
      BY <1>1, <1>7, <2>1
    <2>3. QED
      BY <2>2 DEF Valid
  <1>8. Exchanges'
    <2>1. ASSUME NEW j \in 1..CallBound, Asks(j)'
          PROVE  Valid(Asked(j))' /\ calls'[j].phase \in {"sent", "go"}
      <3>1. j # i /\ Asks(j) /\ Asked(j)' = Asked(j) /\ calls'[j] = calls[j]
        BY <1>3, <1>4, <2>1
      <3>2. Valid(Asked(j)) /\ calls[j].phase \in {"sent", "go"}
        BY <3>1 DEF Sound, Exchanges
      <3>3. ~(Asks(i) /\ Asked(i) = Asked(j))
        BY <3>1 DEF Sound, Exchanges
      <3>4. Valid(Asked(j))'
        <4>1. PICK x : x = Asked(j)
          OBVIOUS
        <4>2. Valid(x)' /\ Asked(j)' = x
          BY <1>7, <3>1, <3>2, <3>3, <4>1
        <4>3. QED
          BY <4>2 DEF Valid
      <3>5. QED
        BY <3>1, <3>2, <3>4
    <2>2. ASSUME NEW j \in 1..CallBound, NEW k \in 1..CallBound,
                 Asks(j)', Asks(k)', Asked(j)' = Asked(k)'
          PROVE  j = k
      BY <1>3, <2>2 DEF Sound, Exchanges
    <2>3. QED
      BY <2>1, <2>2 DEF Exchanges
  <1>9. ASSUME NEW x \in Second, Usable(x)', x # t
        PROVE  Usable(x)
    <2>1. CASE Carried(x)'
      <3>1. Carried(x)
        BY <1>3, <1>9, <2>1 DEF Carried, NewTokens, SignedTokens
      <3>2. QED
        BY <3>1 DEF Usable
    <2>2. CASE \E h \in Homes : AtHome(h, x)'
      <3>1. PICK h \in Homes : mem'[h].refresh = x /\ ~HomeRefreshes(h)' /\ ~HomeLogsOut(h)'
        BY <2>2 DEF AtHome
      <3>2. HomeRefreshes(h) => HomeRefreshes(h)'
        <4>1. \A b \in App : Refreshing(b) => Refreshing(b)'
          BY CallersKept, RefreshingKept
        <4>2. QED
          BY <4>1, HomeStillRefreshes
      <3>3. HomeLogsOut(h) = HomeLogsOut(h)'
        BY DEF HomeLogsOut, LogoutsOf
      <3>4. AtHome(h, x)
        BY <3>1, <3>2, <3>3 DEF AtHome
      <3>5. QED
        BY <3>4 DEF Usable
    <2>3. QED
      BY <1>9, <2>1, <2>2 DEF Usable
  <1>10. ASSUME NEW x \in Second, Usable(x)'
         PROVE  Valid(x)'
    <2>1. CASE x = t
      BY <1>1, <1>2, <2>1 DEF Valid
    <2>2. CASE x # t
      <3>1. Usable(x)
        BY <1>9, <1>10, <2>2
      <3>2. InUse(x)
        BY <3>1 DEF Usable, Carried, AtHome, InUse
      <3>3. Asks(i) => Asked(i) # x
        BY <3>2 DEF Safe, AllFresh, Fresh
      <3>4. Valid(x)
        BY <3>1 DEF Sound
      <3>5. QED
        BY <1>7, <3>3, <3>4
    <2>3. QED
      BY <2>1, <2>2
  <1>11. \A n \in DOMAIN rows' : ~rows'[n].expired
    <2> SUFFICES ASSUME NEW n \in 1..(Len(rows) + 1)
                 PROVE  ~rows'[n].expired
      BY <1>1
    <2>1. CASE n \in 1..Len(rows)
      BY <1>1, <2>1 DEF Sound
    <2>2. CASE n = Len(rows) + 1
      BY <1>2, <2>2
    <2>3. QED
      BY <1>1, <2>1, <2>2
  <1>12. QED
    BY <1>6, <1>8, <1>10, <1>11 DEF Sound

LEMMA StoreSound ==
  ASSUME ServerInv, Safe, Sound, "same_second" \notin mishaps', NEW i \in 1..CallBound,
         NEW t \in Second, StoreRefreshToken(i, t)
  PROVE  Sound'
  <1>1. /\ calls[i] # None /\ Signs(t) /\ calls' = Answered(i, t)
        /\ UNCHANGED <<mem, flow, req, status>>
    BY DEF StoreRefreshToken, AtPhase
  <1>2. t = clock + 1
    BY <1>1, Mishaps
  <1>3. /\ ServerInv' /\ SameCallers /\ Len(rows') = Len(rows) + 1
        /\ \A n \in 1..Len(rows) : rows'[n] = rows[n]
        /\ rows'[Len(rows) + 1] = NewRow(t, Len(rows) + 1)
    BY StoreRefreshTokenHolds
  <1>4. RowsInv'
    BY <1>3 DEF ServerInv
  <1>5. PICK f : f = Len(rows) + 1
    OBVIOUS
  <1>6. rows'[Len(rows) + 1] = NewRow(t, f)
    BY <1>3, <1>5
  <1>7. \A n \in 1..Len(rows) : /\ rows'[n].tok = rows[n].tok /\ rows'[n].expired = rows[n].expired
                                /\ Live(rows[n]) => \/ Live(rows'[n])
                                                    \/ Asks(i) /\ Asked(i) = rows[n].tok
    BY <1>3
  <1>8. QED
    BY <1>1, <1>2, <1>3, <1>4, <1>6, <1>7, SignedSound

LEMMA RotateSound ==
  ASSUME ServerInv, Safe, Sound, "same_second" \notin mishaps', NEW i \in 1..CallBound,
         NEW t \in Second, RefreshRotate(i, t)
  PROVE  Sound'
  <1>1. /\ calls[i] # None /\ calls[i].kind = "refresh" /\ calls[i].phase = "go"
        /\ Signs(t) /\ Rotates(calls[i].row) /\ calls' = Answered(i, t)
        /\ UNCHANGED <<mem, flow, req, status>>
    BY NoRefusal DEF RefreshRotate, AtPhase
  <1>2. t = clock + 1
    BY <1>1, Mishaps
  <1>3. RowsOK /\ Len(rows) \in Nat /\ DOMAIN rows = 1..Len(rows)
    BY ServerParts
  <1>4. PICK n \in 1..Len(rows) : n = calls[i].row
    BY RefreshRotateHolds
  <1>5. /\ ServerInv' /\ SameCallers /\ Len(rows') = Len(rows) + 1
        /\ \A m \in 1..Len(rows) : rows'[m] = RevokeRow(n)[m]
        /\ rows'[Len(rows) + 1] = NewRow(t, rows[n].family)
    BY <1>1, <1>4, RefreshRotateHolds
  <1>6. RowsInv'
    BY <1>5 DEF ServerInv
  <1>7. Asks(i) /\ Asked(i) = rows[n].tok
    BY <1>1, <1>4 DEF Asks, Asked, AtPhase
  <1>8. ASSUME NEW m \in 1..Len(rows)
        PROVE  /\ rows'[m].tok = rows[m].tok /\ rows'[m].expired = rows[m].expired
               /\ Live(rows[m]) => Live(rows'[m]) \/ Asked(i) = rows[m].tok
    <2>1. CASE m # n
      BY <1>3, <1>5, <2>1, OneRowRevoked
    <2>2. CASE m = n
      <3>1. rows[n] \in Row /\ rows'[n] = [rows[n] EXCEPT !.revoked = TRUE]
        BY <1>3, <1>5, RowTyped DEF RevokeRow
      <3>2. QED
        BY <1>7, <2>2, <3>1 DEF Row
    <2>3. QED
      BY <2>1, <2>2
  <1>9. PICK f : f = rows[n].family
    OBVIOUS
  <1>10. rows'[Len(rows) + 1] = NewRow(t, f)
    BY <1>5, <1>9
  <1>11. \A m \in 1..Len(rows) : /\ rows'[m].tok = rows[m].tok /\ rows'[m].expired = rows[m].expired
                                 /\ Live(rows[m]) => \/ Live(rows'[m])
                                                     \/ Asks(i) /\ Asked(i) = rows[m].tok
    BY <1>7, <1>8
  <1>12. QED
    BY <1>1, <1>2, <1>5, <1>6, <1>10, <1>11, SignedSound

LEMMA ServerSound ==
  ASSUME ServerInv, Safe, Sound, "same_second" \notin mishaps', NEW i \in 1..CallBound,
         ServerStep(i)
  PROVE  Sound'
  BY NoRefusal, ChecksSound, FindSound, StoreSound, RotateSound DEF ServerStep

(* A refresh begins with a token that is valid, and nobody else asks for. *)
LEMMA StartRefreshSound ==
  ASSUME ServerInv, Safe, Sound, NEW q \in Request, StartRefresh(q),
         "logout_expired" \notin mishaps', "logout_in_refresh" \notin mishaps',
         "two_tabs" \notin mishaps'
  PROVE  Sound'
  <1>1. PICK a \in App, y \in Second, place \in 1..CallBound :
          /\ ClientsOK /\ RowsOK /\ clock \in Nat /\ Home(a) \in Homes
          /\ y = mem[Home(a)].refresh /\ ~HomeRefreshes(Home(a)) /\ ~HomeLogsOut(Home(a))
          /\ UNCHANGED <<rows, left, clock, status, mem, flow>>
          /\ req[q] # None /\ req[q].app = a /\ req[q].body = None
          /\ \A r \in Request \ {q} : req'[r] = req[r]
          /\ req'[q].app = a /\ req'[q].body = None
          /\ calls[place] = None
          /\ calls'[place] # None /\ calls'[place].app = a /\ calls'[place].kind = "refresh"
          /\ calls'[place].tok = y /\ calls'[place].phase = "sent"
          /\ \A j \in 1..CallBound : j # place => calls'[j] = calls[j]
    BY RefreshStarts
  <1>2. AtHome(Home(a), y)
    BY <1>1 DEF AtHome
  <1>3. Valid(y) /\ InUse(y)
    BY <1>1, <1>2 DEF Usable, Sound, InUse, AtHome
  <1>4. \A j \in 1..CallBound : Asks(j) => Asked(j) # y
    BY <1>3 DEF Safe, AllFresh, Fresh
  <1>5. \A i \in 1..CallBound : Asks(i)' =>
          IF i = place THEN Asked(i)' = y ELSE Asks(i) /\ Asked(i)' = Asked(i)
    BY <1>1 DEF Asks, Asked, AtPhase
  <1>6. \A x : Valid(x)' = Valid(x)
    BY <1>1 DEF Valid
  <1>7. Exchanges'
    <2>1. ASSUME NEW j \in 1..CallBound, Asks(j)'
          PROVE  Valid(Asked(j))' /\ calls'[j].phase \in {"sent", "go"}
      <3>1. CASE j = place
        <4>1. Asked(j)' = y /\ calls'[j].phase = "sent"
          BY <1>1, <1>5, <2>1, <3>1
        <4>2. Valid(Asked(j))'
          BY <1>1, <1>3, <4>1 DEF Valid
        <4>3. QED
          BY <4>1, <4>2
      <3>2. CASE j # place
        <4>1. Asks(j) /\ Asked(j)' = Asked(j) /\ calls'[j] = calls[j]
          BY <1>1, <1>5, <2>1, <3>2
        <4>2. Valid(Asked(j)) /\ calls[j].phase \in {"sent", "go"}
          BY <4>1 DEF Sound, Exchanges
        <4>3. Valid(Asked(j))'
          BY <1>1, <4>1, <4>2 DEF Valid
        <4>4. QED
          BY <4>1, <4>2, <4>3
      <3>3. QED
        BY <3>1, <3>2
    <2>2. ASSUME NEW j \in 1..CallBound, NEW k \in 1..CallBound,
                 Asks(j)', Asks(k)', Asked(j)' = Asked(k)'
          PROVE  j = k
      BY <1>4, <1>5, <2>2 DEF Sound, Exchanges
    <2>3. QED
      BY <2>1, <2>2 DEF Exchanges
  <1>8. \A x \in Second : Usable(x)' => Usable(x)
    <2>1. \A i \in 1..CallBound : CallTokens(i)' \subseteq CallTokens(i)
      BY <1>1 DEF CallTokens, AtPhase
    <2>2. \A h \in Homes : HomeRefreshes(h) => HomeRefreshes(h)'
      <3>1. \A b \in App : RefreshCallsOf(b) \subseteq RefreshCallsOf(b)'
        BY <1>1 DEF RefreshCallsOf, CallsOf
      <3>2. \A b \in App : Refreshing(b) => Refreshing(b)'
        BY <1>1, <3>1, RefreshingKept
      <3>3. QED
        BY <3>2, HomeStillRefreshes
    <2>3. Keeps
      BY <1>1, <2>1, <2>2, QuietKeeps
    <2>4. QED
      BY <2>3, RequestsLogOut, KeepsUsable
  <1>9. Distinct' /\ status' # "barred" /\ \A n \in DOMAIN rows' : ~rows'[n].expired
    BY <1>1 DEF Sound, Distinct
  <1>10. QED
    BY <1>6, <1>7, <1>8, <1>9 DEF Sound

(* A logout revokes the row of its token, which nobody else has. *)
LEMMA LogoutToken ==
  ASSUME ServerInv, Safe, Keeps, NEW q \in Request, req[q] # None, Finish(q),
         NEW x \in Second, req[q].body = x, Usable(x)'
  PROVE  FALSE
  <1>1. ClientsOK /\ req[q].app \in App
    BY ServerParts, FinishFacts
  <1>2. PICK a \in App : a = req[q].app
    BY <1>1
  <1>3. x # None
    BY Bounds, Numbers DEF Second
  <1>4. Home(a) \in Homes
    BY AppHome DEF Homes
  <1>5. x \in HomeTokens(Home(a))
    BY <1>2, <1>3 DEF HomeTokens, LogoutsOf
  <1>6. \A s \in Slot : x \in TokensIn(s) => s = <<"home", Home(a)>>
    BY <1>4, <1>5, SlotHolds DEF Safe, Apart
  <1>7. ~Carried(x)
    BY <1>6, SlotHolds, SlotsDiffer DEF Carried
  <1>8. PICK h \in Homes : mem'[h].refresh = x /\ ~HomeRefreshes(h)' /\ ~HomeLogsOut(h)'
    BY <1>7 DEF Keeps, Usable, AtHome
  <1>9. x \in HomeTokens(h)
    BY <1>7, <1>8 DEF Keeps, HomeTokens
  <1>10. h = Home(a)
    BY <1>6, <1>9, SlotHolds, SlotsDiffer
  <1>11. FinishLogout(a)
    BY <1>1, <1>2, <1>3, FinishFacts
  <1>12. CASE a \in Tab
    <2>1. mem'[h] = NoPair
      BY <1>1, <1>10, <1>11, <1>12, FinishLogoutFacts, AppHome
    <2>2. QED
      BY <1>3, <1>8, <2>1 DEF NoPair
  <1>13. CASE a \in Phone
    <2>1. h = a /\ flow'[h].sign = "signOut"
      BY <1>1, <1>10, <1>11, <1>13, FinishLogoutFacts, AppHome
    <2>2. QED
      BY <1>8, <1>13, <2>1 DEF HomeLogsOut
  <1>14. QED
    BY <1>12, <1>13 DEF App

LEMMA ServedSound ==
  ASSUME ServerInv, Safe, Sound, NEW q \in Request, Served(q)
  PROVE  Sound'
  <1>1. /\ ClientsOK /\ RowsOK /\ req[q] # None /\ Finish(q) /\ calls' = calls
        /\ status' = status /\ DOMAIN rows = 1..Len(rows)
    BY ServerParts DEF Served
  <1>2. /\ ServerInv' /\ Revoked(rows') /\ Len(rows') = Len(rows)
        /\ \A n \in DOMAIN rows : /\ rows'[n].expired = rows[n].expired
                                  /\ n \notin LogoutRows(q) /\ Live(rows[n]) => Live(rows'[n])
    BY ServedHolds
  <1>3. DOMAIN rows' = DOMAIN rows /\ \A n \in DOMAIN rows : rows'[n].tok = rows[n].tok
    BY <1>1, <1>2 DEF Revoked
  <1>4. CallsQuiet
    BY <1>1, SameCallsQuiet
  <1>5. AsksKept /\ \A i \in 1..CallBound : CallTokens(i)' \subseteq CallTokens(i)
    BY <1>2, <1>4, QuietCalls
  <1>6. Keeps
    BY <1>1, <1>5, FinishQuiet, QuietKeeps
  <1>7. \A x \in Second : Usable(x)' => Usable(x)
    BY <1>1, <1>6, FinishLogsOut, KeepsUsable
  <1>8. ASSUME NEW x \in Second, Valid(x), req[q].body # x
        PROVE  Valid(x)'
    <2>1. PICK n \in DOMAIN rows : rows[n].tok = x /\ Live(rows[n])
      BY <1>8 DEF Valid
    <2>2. n \notin LogoutRows(q)
      BY <1>8, <2>1 DEF LogoutRows
    <2>3. n \in DOMAIN rows' /\ rows'[n].tok = x /\ Live(rows'[n])
      BY <1>2, <1>3, <2>1, <2>2
    <2>4. QED
      BY <2>3 DEF Valid
  <1>9. Exchanges'
    <2>1. ASSUME NEW j \in 1..CallBound, Asks(j)'
          PROVE  Valid(Asked(j))' /\ calls'[j].phase \in {"sent", "go"}
      <3>1. Asks(j) /\ Asked(j)' = Asked(j) /\ calls'[j] = calls[j]
        BY <1>1, <1>5, <2>1 DEF AsksKept
      <3>2. Valid(Asked(j)) /\ calls[j].phase \in {"sent", "go"}
        BY <3>1 DEF Sound, Exchanges
      <3>3. PICK x \in Second : x = Asked(j)
        BY <1>1, <3>2, RowTyped DEF Valid, Row
      <3>4. req[q].body # x
        <4>1. req[q].body = x => InUse(x)
          BY <1>1 DEF InUse
        <4>2. QED
          BY <3>1, <3>3, <4>1 DEF Safe, AllFresh, Fresh
      <3>5. Valid(x)'
        BY <1>8, <3>2, <3>3, <3>4 DEF Valid
      <3>6. Valid(Asked(j))'
        BY <3>1, <3>3, <3>5 DEF Valid
      <3>7. QED
        BY <3>1, <3>2, <3>6
    <2>2. ASSUME NEW j \in 1..CallBound, NEW k \in 1..CallBound,
                 Asks(j)', Asks(k)', Asked(j)' = Asked(k)'
          PROVE  j = k
      BY <1>5, <2>2 DEF AsksKept, Sound, Exchanges
    <2>3. QED
      BY <2>1, <2>2 DEF Exchanges
  <1>10. \A x \in Second : Usable(x)' => Valid(x)'
    BY <1>1, <1>6, <1>7, <1>8, LogoutToken DEF Sound
  <1>11. Distinct' /\ status' # "barred" /\ \A n \in DOMAIN rows' : ~rows'[n].expired
    BY <1>1, <1>2, <1>3 DEF Sound, Distinct
  <1>12. QED
    BY <1>9, <1>10, <1>11 DEF Sound

(* Every step. *)
LEMMA StillSound ==
  ASSUME ServerInv, Sound, UNCHANGED <<rows, status, calls, mem, flow, req>>
  PROVE  Sound'
  <1>1. CallsQuiet /\ \A h \in Homes : HomeRefreshes(h) => HomeRefreshes(h)'
    BY SameCallsQuiet, FlowSame
  <1>2. \A i \in 1..CallBound : CallTokens(i)' \subseteq CallTokens(i)
    BY <1>1, QuietCalls, SameRows, ServerParts
  <1>3. Keeps
    BY <1>1, <1>2, QuietKeeps
  <1>4. LogsOutKept
    BY ServerParts, FlowLogsOut
  <1>5. QED
    BY <1>1, <1>3, <1>4, QuietSound DEF Sound

LEMMA AllValidStep ==
  ASSUME TokensInv, Clearing, TokensKept, AllValid, [TokensNext]_tokenVars
  PROVE  AllValid'
  <1> SUFFICES ASSUME Clean'
               PROVE  Sound'
    BY DEF AllValid
  <1>1. ServerInv /\ Persisting
    BY DEF TokensInv
  <1>2. CASE UNCHANGED tokenVars
    <2>1. Sound
      BY <1>2 DEF tokenVars, AllValid, Clean
    <2>2. QED
      BY <1>1, <1>2, <2>1, StillSound DEF tokenVars
  <1>3. CASE TokensNext
    <2>1. /\ mishaps \subseteq mishaps' /\ Clean /\ Mild
          /\ \A m \in Mishap \ {"late_401"} : m \notin mishaps'
      BY <1>3, MishapsGrow DEF Clean, Mild, Mishap
    <2>2. Safe /\ Sound /\ \A p \in Phone : Clears(p)
      BY <2>1 DEF TokensKept, Safe, AllValid, Clearing, Mild
    <2>3. /\ "same_second" \notin mishaps' /\ "logout_expired" \notin mishaps'
          /\ "logout_in_refresh" \notin mishaps' /\ "two_tabs" \notin mishaps'
          /\ "lost" \notin mishaps' /\ "kill" \notin mishaps' /\ "idle" \notin mishaps'
          /\ "bar" \notin mishaps'
      BY <2>1 DEF Mishap
    <2>4. /\ \A i \in 1..CallBound : ~Lost(i)
          /\ \A p \in Phone : ~Kill(p)
          /\ ~RefreshTokensExpire /\ ~Bar
      BY <1>1, <2>3, Notes DEF Lost, Kill, RefreshTokensExpire, Bar
    <2>5. CASE \E i \in 1..CallBound : ServerStep(i)
      BY <1>1, <2>2, <2>3, <2>5, ServerSound
    <2>6. CASE \E q \in Request : Served(q) \/ StartRefresh(q)
      BY <1>1, <2>2, <2>3, <2>6, ServedSound, StartRefreshSound
    <2>7. CASE AccessTokensExpire
      BY <1>1, <2>2, <2>7, StillSound DEF AccessTokensExpire
    <2>8. CASE ~(\/ \E i \in 1..CallBound : ServerStep(i)
                 \/ \E q \in Request : Served(q) \/ StartRefresh(q)
                 \/ AccessTokensExpire)
      <3>1. \/ \E i \in 1..CallBound : SignInAnswer(i) \/ RefreshRefused(i) \/ RefreshAnswer(i)
            \/ \E b \in App : SignInSubmit(b) \/ \E q \in Request : SendRequest(b, q) \/ SendLogout(b, q)
            \/ \E q \in Request : Reject(q) \/ JoinQueue(q) \/ NoTokenToRefresh(q)
            \/ \E p \in Phone : \/ SignedIn(p) \/ SignedOut(p) \/ SignOut(p) \/ Cleared(p)
                                \/ Persisted(p)
        BY <1>3, <2>4, <2>8 DEF TokensNext
      <3>2. QED
        BY <1>1, <2>2, <3>1, ClientsSound
    <2>9. QED
      BY <2>5, <2>6, <2>7, <2>8
  <1>4. QED
    BY <1>2, <1>3

LEMMA AllValidStart ==
  ASSUME TokensInit
  PROVE  AllValid
  <1>1. \A i \in 1..CallBound : calls[i] = None
    BY DEF TokensInit
  <1>2. \A x \in Second : x # None
    BY Bounds, Numbers DEF Second
  <1>3. \A x \in Second : ~Usable(x)
    BY <1>1, <1>2 DEF TokensInit, Usable, Carried, AtHome, CallTokens, AtPhase, NewTokens,
       SignedTokens, NoFlow, NoPair, Homes
  <1>4. DOMAIN rows = {} /\ status = "none"
    BY DEF TokensInit
  <1>5. Distinct /\ Exchanges
    BY <1>1, <1>4 DEF Distinct, Exchanges, Asks
  <1>6. QED
    BY <1>3, <1>4, <1>5 DEF AllValid, Sound

(* Whoever is at rest has the tokens it would sign in with: the one it     *)
(* holds can be exchanged, as no exchange of it is under way, no other     *)
(* client has it and nobody has logged out with it; and the store of a     *)
(* phone holds what its memory holds, so a restart signs in whom it would  *)
(* have been.  Each is under the mishaps the property excepts.             *)
THEOREM TokensStayInStep == TokensSpec => []TokensAgree
  <1>1. TokensInv /\ AllValid => SignedInCanRefresh
    <2> SUFFICES ASSUME TokensInv, AllValid, Clean, NEW h \in Homes, AtRest(h),
                        mem[h].refresh # None
                 PROVE  \E n \in DOMAIN rows : /\ rows[n].tok = mem[h].refresh
                                               /\ Live(rows[n]) /\ ~rows[n].expired
      BY DEF SignedInCanRefresh, Clean, Homes
    <2>1. ClientsOK /\ Sound
      BY ServerParts DEF TokensInv, AllValid
    <2>2. PICK x \in Second : x = mem[h].refresh
      BY <2>1 DEF ClientsOK, Homes, Pair, Held
    <2>3. \A a \in App : Home(a) = h => CallsOf(a) = {}
      BY DEF AtRest
    <2>4. ~HomeRefreshes(h)
      <3>1. \A a \in App : Home(a) = h /\ a \in Phone => a = h
        BY AppHome
      <3>2. h \in Phone => flow[h].refresh = "none"
        BY DEF AtRest, Idle, NoFlow
      <3>3. QED
        BY <2>3, <3>1, <3>2 DEF HomeRefreshes, Refreshing, RefreshCallsOf
    <2>5. ~HomeLogsOut(h)
      <3>1. LogoutsOf(h) = {}
        <4>1. \A q \in LogoutsOf(h) : req[q].app \in App /\ Home(req[q].app) = h
          BY <2>1 DEF LogoutsOf, ClientsOK, Sent
        <4>2. QED
          BY <4>1 DEF AtRest
      <3>2. h \in Phone => flow[h].sign = "none"
        BY DEF AtRest, Idle, NoFlow
      <3>3. QED
        BY <3>1, <3>2 DEF HomeLogsOut
    <2>6. Valid(x)
      BY <2>1, <2>2, <2>4, <2>5 DEF Sound, Usable, AtHome
    <2>7. QED
      BY <2>1, <2>2, <2>6 DEF Sound, Valid
  <1>2. TokensSpec => []AllValid
    <2>1. TokensInit => AllValid
      BY AllValidStart
    <2>2. TokensSpec => []TokensKept
      BY TokensKeptStart, TokensKeptStep, TokensAlways, ClearingAlways, PTL DEF TokensSpec
    <2>3. QED
      BY <2>1, <2>2, AllValidStep, TokensAlways, ClearingAlways, PTL DEF TokensSpec
  <1>3. SignedInCanRefresh /\ StoreFollowsMemory => TokensAgree
    BY DEF TokensAgree
  <1>4. QED
    BY <1>1, <1>2, <1>3, StoresKept, TokensAlways, PTL

-----------------------------------------------------------------------------
(* Moderation *)

(* A call in flight on an item that is decided had read it before.         *)
LateKept ==
  \A t \in Task, i \in Item :
    tasks[t] # Unset /\ tasks[t].item = i /\ Decided(i) => t \in late[i]

(* A review is of an application that is there. *)
ReviewsExist ==
  \A t \in Task, n \in 1..AppBound :
    tasks[t] # Unset /\ tasks[t].item = <<"application", n>> => n <= count

DecisionsInv == DecisionsTypeOK /\ LateKept /\ ReviewsExist

(* What DecisionsStand and BarredDoNothing ask for when item i changes:    *)
(* a late call is over in this step.                                       *)
ByLateCall(i) == \E t \in late[i] : tasks[t] # Unset /\ tasks'[t] = Unset

LEMMA DecisionsStart ==
  ASSUME DecisionsInit
  PROVE  DecisionsInv
  <1>1. DecisionsTypeOK
    <2>1. AppBound \in Nat
      BY ModerationConstants
    <2>2. \A n \in 1..AppBound : application[n] = Unset <=> n > count
      BY DEF DecisionsInit
    <2>3. /\ application \in [1..AppBound -> Review \cup {Unset}]
          /\ count \in 0..AppBound
          /\ profile \in Review \cup {Unset} /\ (profile = Unset <=> count = 0)
      BY <2>1 DEF DecisionsInit
    <2>4. /\ standing \in [Party -> {"active", "suspended", "banned"}]
          /\ report \in [Party -> Report \cup {Unset}]
          /\ rating \in [Party -> Rating \cup {Unset}]
          /\ tasks \in [Task -> Decision \cup {Unset}]
          /\ late \in [Item -> SUBSET Task]
      BY DEF DecisionsInit
    <2>5. available \in BOOLEAN /\ role \in BOOLEAN /\ completed \in BOOLEAN
      BY Zenon DEF DecisionsInit
    <2>6. /\ actions \subseteq Party \X (Party \cup {Unset}) \X ActionType
          /\ overlaps \subseteq AllowOverlap
      BY DEF DecisionsInit
    <2>7. QED
      BY <2>2, <2>3, <2>4, <2>5, <2>6 DEF DecisionsTypeOK
  <1>2. LateKept
    BY DEF DecisionsInit, LateKept
  <1>3. ReviewsExist
    BY DEF DecisionsInit, ReviewsExist
  <1>4. QED
    BY <1>1, <1>2, <1>3 DEF DecisionsInv

-----------------------------------------------------------------------------
(* A read starts a call on an item that is not decided. *)
LEMMA ReadsKeep ==
  ASSUME DecisionsInv, NEW t \in Task, NEW i \in Item, NEW as, Reads(t, i, as),
         [item |-> i, as |-> as] \in Decision, ~Decided(i), overlaps' \subseteq AllowOverlap,
         \A n \in 1..AppBound : i = <<"application", n>> => n <= count
  PROVE  DecisionsInv'
  <1>1. /\ tasks' = [tasks EXCEPT ![t] = [item |-> i, as |-> as]]
        /\ UNCHANGED <<rowVars, late>>
    BY DEF Reads
  <1>2. DecisionsTypeOK'
    BY <1>1 DEF DecisionsInv, DecisionsTypeOK, rowVars
  <1>3. \A j \in Item : Decided(j)' <=> Decided(j)
    BY <1>1 DEF Decided, rowVars
  <1>4. ASSUME NEW u \in Task, NEW j \in Item,
               tasks'[u] # Unset, tasks'[u].item = j, Decided(j)'
        PROVE  u \in late'[j]
    <2>1. Decided(j)
      BY <1>3, <1>4
    <2>2. j # i
      BY <2>1
    <2>3. u # t
      BY <1>1, <1>4, <2>2 DEF DecisionsInv, DecisionsTypeOK
    <2>4. tasks'[u] = tasks[u]
      BY <1>1, <2>3 DEF DecisionsInv, DecisionsTypeOK
    <2>5. QED
      BY <1>1, <1>4, <2>1, <2>4 DEF DecisionsInv, LateKept
  <1>5. LateKept'
    BY <1>4 DEF LateKept
  <1>6. ReviewsExist'
    BY <1>1 DEF DecisionsInv, DecisionsTypeOK, ReviewsExist, rowVars
  <1>7. QED
    BY <1>2, <1>5, <1>6 DEF DecisionsInv

(* A step that ends the calls in `over`, or none, and counts who is late.  *)
LEMMA LatenessKeeps ==
  ASSUME DecisionsInv, NEW over \in SUBSET Task, Lateness(over),
         \A u \in Task \ over : tasks'[u] = tasks[u],
         \A u \in over : tasks'[u] = Unset
  PROVE  LateKept' /\ late' \in [Item -> SUBSET Task]
  <1>1. late' = [i \in Item |->
                   (late[i] \cup (IF ~Decided(i) /\ Decided(i)' THEN On(i) ELSE {})) \ over]
    BY DEF Lateness
  <1>2. late' \in [Item -> SUBSET Task]
    BY <1>1 DEF DecisionsInv, DecisionsTypeOK, On
  <1>3. ASSUME NEW u \in Task, NEW j \in Item,
               tasks'[u] # Unset, tasks'[u].item = j, Decided(j)'
        PROVE  u \in late'[j]
    <2>1. u \notin over /\ tasks'[u] = tasks[u]
      BY <1>3
    <2>2. CASE Decided(j)
      <3>1. u \in late[j]
        BY <1>3, <2>1, <2>2 DEF DecisionsInv, LateKept
      <3>2. QED
        BY <1>1, <2>1, <3>1
    <2>3. CASE ~Decided(j)
      <3>1. u \in On(j)
        BY <1>3, <2>1 DEF On
      <3>2. QED
        BY <1>1, <1>3, <2>1, <2>3, <3>1
    <2>4. QED
      BY <2>2, <2>3
  <1>4. LateKept'
    BY <1>3 DEF LateKept
  <1>5. QED
    BY <1>2, <1>4

(* A write ends its call, which was late if the item was decided. *)
LEMMA WritesKeep ==
  ASSUME DecisionsInv, NEW t \in Task, NEW i \in Item, tasks[t] # Unset,
         tasks[t].item = i, Writes(t)
  PROVE  /\ LateKept'
         /\ count' \in Nat /\ count' >= count => ReviewsExist'
         /\ tasks' \in [Task -> Decision \cup {Unset}] /\ late' \in [Item -> SUBSET Task]
         /\ overlaps' \subseteq AllowOverlap
         /\ Decided(i) => ByLateCall(i)
  <1>1. tasks' = [tasks EXCEPT ![t] = Unset] /\ Lateness({t}) /\ overlaps' = overlaps
    BY DEF Writes
  <1>2. /\ \A u \in Task \ {t} : tasks'[u] = tasks[u]
        /\ tasks'[t] = Unset
        /\ tasks' \in [Task -> Decision \cup {Unset}]
    BY <1>1 DEF DecisionsInv, DecisionsTypeOK
  <1>3. LateKept' /\ late' \in [Item -> SUBSET Task]
    BY <1>1, <1>2, LatenessKeeps
  <1>4. Decided(i) => ByLateCall(i)
    BY <1>2 DEF DecisionsInv, LateKept, ByLateCall
  <1>5. ASSUME count' \in Nat, count' >= count
        PROVE  ReviewsExist'
    <2>1. \A u \in Task : tasks'[u] # Unset => tasks'[u] = tasks[u]
      BY <1>2
    <2>2. count \in Nat /\ AppBound \in Nat
      BY ModerationConstants DEF DecisionsInv, DecisionsTypeOK
    <2>3. QED
      BY <1>5, <2>1, <2>2 DEF DecisionsInv, ReviewsExist
  <1>6. QED
    BY <1>1, <1>2, <1>3, <1>4, <1>5 DEF DecisionsInv, DecisionsTypeOK

-----------------------------------------------------------------------------
(* The reads: each finds its item open. *)
Reading ==
  \E t \in Task :
    \/ ApplyRead(t)
    \/ \E as \in {"on", "off"} : AvailableRead(t, as)
    \/ \E n \in 1..AppBound, verdict \in {"approved", "rejected"} : ReviewRead(t, n, verdict)
    \/ \E p \in Reporter :
         \/ \E as \in ActionType \cup {"dismissed"} : ReportRead(t, p, as)
         \/ \E stars \in Rating : RateRead(t, p, stars)

LEMMA ReadingHolds ==
  ASSUME DecisionsInv, Reading
  PROVE  DecisionsInv' /\ UNCHANGED rowVars
  <1> USE DEF Item, Decision
  <1>0. overlaps \subseteq AllowOverlap /\ Applicant \in Party /\ Reporter \subseteq Party
    BY ModerationConstants DEF DecisionsInv, DecisionsTypeOK
  <1>1. ASSUME NEW t \in Task, ApplyRead(t)
        PROVE  DecisionsInv' /\ UNCHANGED rowVars
    <2> DEFINE i == <<"account", Applicant>>
    <2>1. i \in Account
      BY <1>0 DEF Account
    <2>2. ~Decided(i)
      BY <1>1 DEF ApplyRead, Decided, Application, Filed, Given
    <2>3. overlaps' \subseteq AllowOverlap /\ Reads(t, i, Unset)
      BY <1>0, <1>1 DEF ApplyRead, NoteOverlap
    <2>4. QED
      BY <2>1, <2>2, <2>3, ReadsKeep DEF Reads
  <1>2. ASSUME NEW t \in Task, NEW as \in {"on", "off"}, AvailableRead(t, as)
        PROVE  DecisionsInv' /\ UNCHANGED rowVars
    <2> DEFINE i == <<"account", Applicant>>
    <2>1. i \in Account
      BY <1>0 DEF Account
    <2>2. ~Decided(i)
      BY <1>2 DEF AvailableRead, Decided, Application, Filed, Given
    <2>3. overlaps' \subseteq AllowOverlap /\ Reads(t, i, as)
      BY <1>0, <1>2 DEF AvailableRead
    <2>4. QED
      BY <2>1, <2>2, <2>3, ReadsKeep DEF Reads
  <1>3. ASSUME NEW t \in Task, NEW n \in 1..AppBound, NEW verdict \in {"approved", "rejected"},
               ReviewRead(t, n, verdict)
        PROVE  DecisionsInv' /\ UNCHANGED rowVars
    <2> DEFINE i == <<"application", n>>
    <2>1. i \in Application
      BY DEF Application
    <2>2. ~Decided(i)
      BY <1>3 DEF ReviewRead, Reviewable, Decided, Account, Filed, Given
    <2>3. overlaps' \subseteq AllowOverlap /\ Reads(t, i, verdict) /\ n <= count
      BY <1>0, <1>3 DEF ReviewRead, Reviewable, NoteOverlap
    <2>4. QED
      BY <2>1, <2>2, <2>3, ReadsKeep DEF Reads
  <1>4. ASSUME NEW t \in Task, NEW p \in Reporter, NEW as \in ActionType \cup {"dismissed"},
               ReportRead(t, p, as)
        PROVE  DecisionsInv' /\ UNCHANGED rowVars
    <2> DEFINE i == <<"report", p>>
    <2>1. i \in Filed
      BY <1>0 DEF Filed
    <2>2. ~Decided(i)
      BY <1>4 DEF ReportRead, OpenReport, Decided, Account, Application, Given
    <2>3. overlaps' \subseteq AllowOverlap /\ Reads(t, i, as)
      BY <1>0, <1>4 DEF ReportRead, NoteOverlap
    <2>4. QED
      BY <2>1, <2>2, <2>3, ReadsKeep DEF Reads
  <1>5. ASSUME NEW t \in Task, NEW p \in Reporter, NEW stars \in Rating, RateRead(t, p, stars)
        PROVE  DecisionsInv' /\ UNCHANGED rowVars
    <2> DEFINE i == <<"rating", p>>
    <2>1. i \in Given
      BY <1>0 DEF Given
    <2>2. ~Decided(i)
      BY <1>5 DEF RateRead, Unrated, Decided, Account, Application, Filed
    <2>3. overlaps' \subseteq AllowOverlap /\ Reads(t, i, stars)
      BY <1>0, <1>5 DEF RateRead
    <2>4. QED
      BY <2>1, <2>2, <2>3, ReadsKeep DEF Reads
  <1>6. QED
    BY <1>1, <1>2, <1>3, <1>4, <1>5 DEF Reading

-----------------------------------------------------------------------------
(* What both properties say of one step. *)
StepStands ==
  \A i \in Application \cup Filed \cup Given :
    Decided(i) /\ Standing(i)' # Standing(i) => ByLateCall(i)

StepBarred ==
  standing[Applicant] # "active" /\ (count' # count \/ (available' /\ ~available))
    => ByLateCall(<<"account", Applicant>>)

LEMMA StandsIf ==
  ASSUME \A n \in 1..AppBound :
           application[n] \in {"approved", "rejected"} /\ application'[n] # application[n]
             => ByLateCall(<<"application", n>>),
         \A p \in Party :
           report[p] \in {"resolved", "dismissed"} /\ report'[p] # report[p]
             => ByLateCall(<<"report", p>>),
         \A p \in Party :
           rating[p] # Unset /\ rating'[p] # rating[p] => ByLateCall(<<"rating", p>>)
  PROVE  StepStands
  <1> USE DEF Decided, Standing, Application, Filed, Given, Account
  <1>1. ASSUME NEW i \in Application, Decided(i), Standing(i)' # Standing(i)
        PROVE  ByLateCall(i)
    BY <1>1
  <1>2. ASSUME NEW i \in Filed, Decided(i), Standing(i)' # Standing(i)
        PROVE  ByLateCall(i)
    BY <1>2
  <1>3. ASSUME NEW i \in Given, Decided(i), Standing(i)' # Standing(i)
        PROVE  ByLateCall(i)
    BY <1>3
  <1>4. QED
    BY <1>1, <1>2, <1>3 DEF StepStands

LEMMA ApplyWriteHolds ==
  ASSUME DecisionsInv, NEW t \in Task, ApplyWrite(t)
  PROVE  DecisionsInv' /\ StepStands /\ StepBarred
  <1> DEFINE i == <<"account", Applicant>>
  <1>1. i \in Item /\ (Decided(i) <=> standing[Applicant] # "active")
    BY ModerationConstants DEF Item, Account, Decided, Application, Filed, Given
  <1>2. tasks[t] # Unset /\ tasks[t].item = i /\ Writes(t)
    BY DEF ApplyWrite
  <1>3. /\ LateKept'
        /\ tasks' \in [Task -> Decision \cup {Unset}] /\ late' \in [Item -> SUBSET Task]
        /\ overlaps' \subseteq AllowOverlap
        /\ Decided(i) => ByLateCall(i)
        /\ count' \in Nat /\ count' >= count => ReviewsExist'
    BY <1>1, <1>2, WritesKeep
  <1>4. /\ AppBound \in Nat /\ count \in 0..AppBound /\ count < AppBound
        /\ application \in [1..AppBound -> Review \cup {Unset}]
        /\ \A n \in 1..AppBound : application[n] = Unset <=> n > count
        /\ Unset \notin {"pending", "approved", "rejected"}
    BY ModerationConstants DEF ApplyWrite, DecisionsInv, DecisionsTypeOK
  <1>5. /\ count' = count + 1 /\ application' = [application EXCEPT ![count + 1] = "pending"]
        /\ profile' = "pending" /\ available' = FALSE
        /\ UNCHANGED <<standing, role, report, actions, completed, rating>>
    BY DEF ApplyWrite
  <1>6. /\ count' \in 0..AppBound /\ count' # 0
        /\ application' \in [1..AppBound -> Review \cup {Unset}]
        /\ \A n \in 1..AppBound : application'[n] = Unset <=> n > count'
    BY <1>4, <1>5 DEF Review
  <1>7. DecisionsTypeOK'
    BY <1>3, <1>4, <1>5, <1>6 DEF DecisionsInv, DecisionsTypeOK, Review
  <1>8. application[count + 1] = Unset
    BY <1>4
  <1>9. StepStands
    BY <1>4, <1>5, <1>8, StandsIf
  <1>10. StepBarred
    BY <1>1, <1>3 DEF StepBarred
  <1>11. ReviewsExist'
    BY <1>3, <1>4, <1>5
  <1>12. QED
    BY <1>3, <1>7, <1>9, <1>10, <1>11 DEF DecisionsInv

LEMMA AvailableWriteHolds ==
  ASSUME DecisionsInv, NEW t \in Task, AvailableWrite(t)
  PROVE  DecisionsInv' /\ StepStands /\ StepBarred
  <1> DEFINE i == <<"account", Applicant>>
  <1>1. i \in Item /\ (Decided(i) <=> standing[Applicant] # "active")
    BY ModerationConstants DEF Item, Account, Decided, Application, Filed, Given
  <1>2. tasks[t] # Unset /\ tasks[t].item = i /\ Writes(t)
    BY DEF AvailableWrite
  <1>3. /\ LateKept'
        /\ tasks' \in [Task -> Decision \cup {Unset}] /\ late' \in [Item -> SUBSET Task]
        /\ overlaps' \subseteq AllowOverlap
        /\ Decided(i) => ByLateCall(i)
        /\ count' \in Nat /\ count' >= count => ReviewsExist'
    BY <1>1, <1>2, WritesKeep
  <1>4. /\ available' \in BOOLEAN
        /\ UNCHANGED <<standing, application, count, profile, role, report, actions, completed,
                       rating>>
    BY DEF AvailableWrite
  <1>5. DecisionsTypeOK'
    BY <1>3, <1>4 DEF DecisionsInv, DecisionsTypeOK
  <1>6. StepStands
    BY <1>4, StandsIf
  <1>7. StepBarred
    BY <1>1, <1>3 DEF StepBarred
  <1>8. ReviewsExist'
    BY <1>3, <1>4 DEF DecisionsInv, DecisionsTypeOK
  <1>9. QED
    BY <1>3, <1>5, <1>6, <1>7, <1>8 DEF DecisionsInv

LEMMA ReviewWriteHolds ==
  ASSUME DecisionsInv, NEW t \in Task, NEW n \in 1..AppBound, ReviewWrite(t, n)
  PROVE  DecisionsInv' /\ StepStands /\ StepBarred
  <1> DEFINE i == <<"application", n>>
  <1>1. i \in Item /\ i \in Application
    BY DEF Item, Application
  <1>2. tasks[t] # Unset /\ tasks[t].item = i /\ Writes(t)
    BY DEF ReviewWrite
  <1>3. /\ LateKept'
        /\ tasks' \in [Task -> Decision \cup {Unset}] /\ late' \in [Item -> SUBSET Task]
        /\ overlaps' \subseteq AllowOverlap
        /\ Decided(i) => ByLateCall(i)
        /\ count' \in Nat /\ count' >= count => ReviewsExist'
    BY <1>1, <1>2, WritesKeep
  <1>4. tasks[t].as \in {"approved", "rejected"}
    BY <1>2 DEF DecisionsInv, DecisionsTypeOK, Decision, Application, Filed, Given, Account
  <1>5. /\ application' = [application EXCEPT ![n] = tasks[t].as]
        /\ profile' = tasks[t].as
        /\ role' = (role \/ tasks[t].as = "approved")
        /\ UNCHANGED <<standing, count, available, report, actions, completed, rating>>
    BY DEF ReviewWrite
  <1>6. AppBound \in Nat /\ count \in Nat /\ n <= count
    BY ModerationConstants, <1>2 DEF DecisionsInv, DecisionsTypeOK, ReviewsExist
  <1>7. /\ \A m \in 1..AppBound : application'[m] = Unset <=> m > count'
        /\ application' \in [1..AppBound -> Review \cup {Unset}]
        /\ profile' \in Review /\ role' \in BOOLEAN /\ profile' # Unset /\ count # 0
    <2>1. /\ application \in [1..AppBound -> Review \cup {Unset}]
          /\ \A m \in 1..AppBound : application[m] = Unset <=> m > count
          /\ role \in BOOLEAN /\ count \in Nat
      BY <1>6 DEF DecisionsInv, DecisionsTypeOK
    <2>2. tasks[t].as \in Review /\ tasks[t].as # Unset
      BY ModerationConstants, <1>4 DEF Review
    <2>3. /\ application'[n] = tasks[t].as /\ count' = count
          /\ \A m \in 1..AppBound : m # n => application'[m] = application[m]
      BY <1>5, <2>1
    <2>4. \A m \in 1..AppBound : application'[m] = Unset <=> m > count'
      BY <1>6, <2>1, <2>2, <2>3
    <2>5. application' \in [1..AppBound -> Review \cup {Unset}]
      BY <1>5, <2>1, <2>2
    <2>6. count # 0
      BY <1>6
    <2>7. role' \in BOOLEAN
      BY <1>5
    <2> QED
      BY <1>5, <2>2, <2>4, <2>5, <2>6, <2>7
  <1>8. DecisionsTypeOK'
    BY <1>3, <1>5, <1>7 DEF DecisionsInv, DecisionsTypeOK
  <1>9. Decided(i) <=> application[n] \in {"approved", "rejected"}
    BY DEF Decided, Application, Filed, Given, Account
  <1>10. StepStands
    <2>1. \A m \in 1..AppBound : application'[m] # application[m] => m = n
      BY <1>5 DEF DecisionsInv, DecisionsTypeOK
    <2>2. QED
      BY <1>3, <1>5, <1>9, <2>1, StandsIf
  <1>11. StepBarred
    BY <1>5 DEF StepBarred
  <1>12. ReviewsExist'
    BY <1>3, <1>5, <1>6
  <1>13. QED
    BY <1>3, <1>8, <1>10, <1>11, <1>12 DEF DecisionsInv

LEMMA ReportWriteHolds ==
  ASSUME DecisionsInv, NEW t \in Task, NEW p \in Reporter, ReportWrite(t, p)
  PROVE  DecisionsInv' /\ StepStands /\ StepBarred
  <1> DEFINE i == <<"report", p>>
             as == tasks[t].as
  <1>1. i \in Item /\ i \in Filed /\ p \in Party /\ Other(p) \in Party
    BY ModerationConstants DEF Item, Filed, Other
  <1>2. tasks[t] # Unset /\ tasks[t].item = i /\ Writes(t)
    BY DEF ReportWrite
  <1>3. /\ LateKept'
        /\ tasks' \in [Task -> Decision \cup {Unset}] /\ late' \in [Item -> SUBSET Task]
        /\ overlaps' \subseteq AllowOverlap
        /\ Decided(i) => ByLateCall(i)
        /\ count' \in Nat /\ count' >= count => ReviewsExist'
    BY <1>1, <1>2, WritesKeep
  <1>4. as \in ActionType \cup {"dismissed"}
    BY <1>2 DEF DecisionsInv, DecisionsTypeOK, Decision, Application, Filed, Given, Account
  <1>5. /\ \E now \in {"resolved", "dismissed"} : report' = [report EXCEPT ![p] = now]
        /\ UNCHANGED <<application, count, profile, available, role, completed, rating>>
    BY DEF ReportWrite
  <1>6. standing' \in [Party -> {"active", "suspended", "banned"}]
    BY <1>1 DEF ReportWrite, Punished, DecisionsInv, DecisionsTypeOK
  <1>7. actions' \subseteq Party \X (Party \cup {Unset}) \X ActionType
    BY <1>1, <1>4 DEF ReportWrite, DecisionsInv, DecisionsTypeOK
  <1>8. report' \in [Party -> Report \cup {Unset}]
    BY <1>5 DEF DecisionsInv, DecisionsTypeOK, Report
  <1>9. DecisionsTypeOK'
    BY <1>3, <1>5, <1>6, <1>7, <1>8 DEF DecisionsInv, DecisionsTypeOK
  <1>10. Decided(i) <=> report[p] \in {"resolved", "dismissed"}
    BY <1>1 DEF Decided, Application, Filed, Given, Account
  <1>11. StepStands
    <2>1. \A q \in Party : report'[q] # report[q] => q = p
      BY <1>5 DEF DecisionsInv, DecisionsTypeOK
    <2>2. QED
      BY <1>3, <1>5, <1>10, <2>1, StandsIf
  <1>12. StepBarred
    BY <1>5 DEF StepBarred
  <1>13. ReviewsExist'
    BY <1>3, <1>5 DEF DecisionsInv, DecisionsTypeOK
  <1>14. QED
    BY <1>3, <1>9, <1>11, <1>12, <1>13 DEF DecisionsInv

LEMMA RateWriteHolds ==
  ASSUME DecisionsInv, NEW t \in Task, NEW p \in Reporter, RateWrite(t, p)
  PROVE  DecisionsInv' /\ StepStands /\ StepBarred
  <1> DEFINE i == <<"rating", p>>
  <1>1. i \in Item /\ i \in Given /\ p \in Party
    BY ModerationConstants DEF Item, Given
  <1>2. tasks[t] # Unset /\ tasks[t].item = i /\ Writes(t)
    BY DEF RateWrite
  <1>3. /\ LateKept'
        /\ tasks' \in [Task -> Decision \cup {Unset}] /\ late' \in [Item -> SUBSET Task]
        /\ overlaps' \subseteq AllowOverlap
        /\ Decided(i) => ByLateCall(i)
        /\ count' \in Nat /\ count' >= count => ReviewsExist'
    BY <1>1, <1>2, WritesKeep
  <1>4. tasks[t].as \in Rating
    BY <1>2 DEF DecisionsInv, DecisionsTypeOK, Decision, Application, Filed, Given, Account
  <1>5. /\ rating' = [rating EXCEPT ![p] = tasks[t].as]
        /\ UNCHANGED <<standing, application, count, profile, available, role, report, actions,
                       completed>>
    BY DEF RateWrite
  <1>6. DecisionsTypeOK'
    BY <1>3, <1>4, <1>5 DEF DecisionsInv, DecisionsTypeOK
  <1>7. Decided(i) <=> rating[p] # Unset
    BY <1>1 DEF Decided, Application, Filed, Given, Account
  <1>8. StepStands
    <2>1. \A q \in Party : rating'[q] # rating[q] => q = p
      BY <1>5 DEF DecisionsInv, DecisionsTypeOK
    <2>2. QED
      BY <1>3, <1>5, <1>7, <2>1, StandsIf
  <1>9. StepBarred
    BY <1>5 DEF StepBarred
  <1>10. ReviewsExist'
    BY <1>3, <1>5 DEF DecisionsInv, DecisionsTypeOK
  <1>11. QED
    BY <1>3, <1>6, <1>8, <1>9, <1>10 DEF DecisionsInv

-----------------------------------------------------------------------------
(* The steps that end no call. *)
LEMMA AccountActionHolds ==
  ASSUME DecisionsInv, NEW p \in Party, NEW type \in ActionType,
         AccountAction(p, type)
  PROVE  DecisionsInv' /\ StepStands /\ StepBarred
  <1>1. /\ actions' = actions \cup {<<p, Unset, type>>} /\ standing' = Punished(p, type)
        /\ UNCHANGED <<application, count, profile, available, role, report, completed, rating,
                       tasks, overlaps>>
        /\ Lateness({})
    BY DEF AccountAction
  <1>2. LateKept' /\ late' \in [Item -> SUBSET Task]
    BY <1>1, LatenessKeeps
  <1>3. standing' \in [Party -> {"active", "suspended", "banned"}]
    BY <1>1 DEF Punished, DecisionsInv, DecisionsTypeOK
  <1>4. DecisionsTypeOK'
    BY <1>1, <1>2, <1>3 DEF DecisionsInv, DecisionsTypeOK
  <1>5. StepStands
    BY <1>1, StandsIf
  <1>6. ReviewsExist' /\ StepBarred
    BY <1>1 DEF DecisionsInv, ReviewsExist, StepBarred
  <1>7. QED
    BY <1>2, <1>4, <1>5, <1>6 DEF DecisionsInv

LEMMA QuietHolds ==
  ASSUME DecisionsInv,
         Complete \/ (\E p \in Reporter : CreateReport(p)) \/ UNCHANGED decisionVars
  PROVE  DecisionsInv' /\ StepStands /\ StepBarred
  <1>1. UNCHANGED <<standing, application, count, profile, available, role, actions, rating, tasks,
                    late, overlaps>>
    BY DEF Complete, CreateReport, decisionVars
  <1>2. /\ report' \in [Party -> Report \cup {Unset}] /\ completed' \in BOOLEAN
        /\ \A p \in Party : report[p] \in {"resolved", "dismissed"} => report'[p] = report[p]
        /\ \A p \in Party : report'[p] \in {"resolved", "dismissed"} => report'[p] = report[p]
    BY ModerationConstants DEF Complete, CreateReport, decisionVars, DecisionsInv, DecisionsTypeOK, Report
  <1>3. DecisionsTypeOK'
    BY <1>1, <1>2 DEF DecisionsInv, DecisionsTypeOK
  <1>4. \A i \in Item : Decided(i)' => Decided(i)
    BY <1>1, <1>2 DEF Item, Decided, Application, Filed, Given, Account
  <1>5. LateKept' /\ ReviewsExist'
    BY <1>1, <1>4 DEF DecisionsInv, LateKept, ReviewsExist
  <1>6. StepStands
    BY <1>1, <1>2, StandsIf
  <1>7. QED
    BY <1>1, <1>3, <1>5, <1>6 DEF DecisionsInv, StepBarred

LEMMA DecisionsStep ==
  ASSUME DecisionsInv, [DecisionsNext]_decisionVars
  PROVE  DecisionsInv' /\ StepStands /\ StepBarred
  <1>1. CASE Reading
    <2>1. DecisionsInv' /\ UNCHANGED rowVars
      BY <1>1, ReadingHolds
    <2>2. QED
      BY <2>1, StandsIf DEF rowVars, StepBarred
  <1>2. CASE DecisionsNext /\ ~Reading
    BY <1>2, ApplyWriteHolds, AvailableWriteHolds, ReviewWriteHolds, ReportWriteHolds,
       RateWriteHolds, AccountActionHolds, QuietHolds DEF DecisionsNext, Reading
  <1>3. CASE UNCHANGED decisionVars
    BY <1>3, QuietHolds
  <1>4. QED
    BY <1>1, <1>2, <1>3

LEMMA DecisionsAlways == DecisionsSpec => []DecisionsInv
  <1>1. DecisionsInit => DecisionsInv
    BY DecisionsStart
  <1>2. DecisionsInv /\ [DecisionsNext]_decisionVars => DecisionsInv'
    BY DecisionsStep
  <1>3. QED
    BY <1>1, <1>2, PTL DEF DecisionsSpec

-----------------------------------------------------------------------------
(* Every variable keeps its type, for any parties and any bounds. *)
THEOREM DecisionsTyped == DecisionsSpec => []DecisionsTypeOK
  <1>1. DecisionsInv => DecisionsTypeOK
    BY DEF DecisionsInv
  <1>2. QED
    BY <1>1, DecisionsAlways, PTL

(* No review, action or rating changes what another has decided, unless    *)
(* the two calls had both read it open.                                    *)
THEOREM DecisionsLast == DecisionsSpec => DecisionsStand
  <1>1. DecisionsInv /\ [DecisionsNext]_decisionVars =>
          [\A i \in Application \cup Filed \cup Given :
             Decided(i) /\ Standing(i)' # Standing(i)
               => \E t \in late[i] : tasks[t] # Unset /\ tasks'[t] = Unset]_decisionVars
    BY DecisionsStep DEF StepStands, ByLateCall
  <1>2. DecisionsSpec => []DecisionsInv
    BY DecisionsAlways
  <1>3. QED
    BY <1>1, <1>2, PTL DEF DecisionsSpec, DecisionsStand

(* An account that is suspended or banned files no application and does    *)
(* not become available, but for a call that found it active.              *)
THEOREM BarredStayOut == DecisionsSpec => BarredDoNothing
  <1>1. DecisionsInv /\ [DecisionsNext]_decisionVars =>
          [standing[Applicant] # "active" /\ (count' # count \/ (available' /\ ~available))
             => \E t \in late[<<"account", Applicant>>] : tasks[t] # Unset /\ tasks'[t] = Unset]_decisionVars
    BY DecisionsStep DEF StepBarred, ByLateCall
  <1>2. DecisionsSpec => []DecisionsInv
    BY DecisionsAlways
  <1>3. QED
    BY <1>1, <1>2, PTL DEF DecisionsSpec, BarredDoNothing

-----------------------------------------------------------------------------
(* The records agree.  While no two calls overlap, an application that a   *)
(* call depends on stays as that call found it until the call is over.     *)
Applying(t) == tasks[t] # Unset /\ tasks[t].item = <<"account", Applicant>> /\ tasks[t].as = Unset
Setting(t) == tasks[t] # Unset /\ tasks[t].item = <<"account", Applicant>> /\ tasks[t].as # Unset
Reviewing(t, n) == tasks[t] # Unset /\ tasks[t].item = <<"application", n>>
Handling(t, p) == tasks[t] # Unset /\ tasks[t].item = <<"report", p>>

(* Whoever applies does so alone, and nothing is open meanwhile. *)
AppliesAlone ==
  \A t \in Task : Applying(t) =>
    /\ \A u \in Task : Applying(u) => u = t
    /\ \A n \in 1..count : ~OpenApplication(n)

(* An application is reviewed by one call, and pending until it is over. *)
ReviewsAlone ==
  \A t \in Task, n \in 1..AppBound : Reviewing(t, n) =>
    /\ \A u \in Task : Reviewing(u, n) => u = t
    /\ application[n] = "pending"

(* Whoever sets the availability has a profile that is approved. *)
SetsApproved == \A t \in Task : Setting(t) => profile = "approved"

(* No application but the last is open. *)
LastIsOpen == \A n \in 1..count : OpenApplication(n) => n = count

(* What ProfileFollowsApplication says while no two calls overlap. *)
ProfileFollows ==
  /\ count > 0 => profile = application[count]
  /\ profile = "approved" => role
  /\ available => profile = "approved"

ApplicationsAgree ==
  overlaps = {} =>
    AppliesAlone /\ ReviewsAlone /\ SetsApproved /\ LastIsOpen /\ ProfileFollows

(* A report is handled by one call, and pending until it is over. *)
HandledAlone ==
  \A t \in Task, p \in Party : Handling(t, p) =>
    /\ \A u \in Task : Handling(u, p) => u = t
    /\ report[p] = "pending"

(* An action is on record for a report just when it is resolved. *)
ActionsFollow ==
  \A p \in Party :
    (report[p] = "resolved") <=> (\E type \in ActionType : <<Other(p), p, type>> \in actions)

ReportsAgree ==
  "double_review" \notin overlaps => HandledAlone /\ ActionsFollow

Agreement == ApplicationsAgree /\ ReportsAgree

-----------------------------------------------------------------------------
(* A call that ends leaves the others as they are. *)
LEMMA OthersStay ==
  ASSUME DecisionsInv, NEW t \in Task, tasks' = [tasks EXCEPT ![t] = Unset], NEW u \in Task
  PROVE  /\ Applying(u)' => u # t /\ Applying(u)
         /\ Setting(u)' => u # t /\ Setting(u)
         /\ \A n : Reviewing(u, n)' => u # t /\ Reviewing(u, n)
         /\ \A p : Handling(u, p)' => u # t /\ Handling(u, p)
  BY DEF DecisionsInv, DecisionsTypeOK, Applying, Setting, Reviewing, Handling

(* A call that reads is the only new one. *)
LEMMA ReaderJoins ==
  ASSUME DecisionsInv, NEW t \in Task, NEW i, NEW as, Reads(t, i, as), NEW u \in Task
  PROVE  /\ u # t => tasks'[u] = tasks[u]
         /\ tasks'[t] = [item |-> i, as |-> as]
         /\ UNCHANGED rowVars
         /\ tasks[t] = Unset
  BY DEF DecisionsInv, DecisionsTypeOK, Reads

(* What the calls do to the applications depends on them and on the        *)
(* profile, the role and the availability alone.                           *)
LEMMA ApplicationsKept ==
  ASSUME DecisionsInv, ApplicationsAgree, overlaps \subseteq overlaps',
         UNCHANGED <<application, count, profile, available, role>>,
         \A u \in Task : Applying(u)' => Applying(u),
         \A u \in Task : Setting(u)' => Setting(u),
         \A u \in Task, n \in 1..AppBound : Reviewing(u, n)' => Reviewing(u, n)
  PROVE  ApplicationsAgree'
  <1> SUFFICES ASSUME overlaps' = {}
               PROVE  (AppliesAlone /\ ReviewsAlone /\ SetsApproved /\ LastIsOpen
                         /\ ProfileFollows)'
    BY DEF ApplicationsAgree
  <1>1. AppliesAlone /\ ReviewsAlone /\ SetsApproved /\ LastIsOpen /\ ProfileFollows
    BY DEF ApplicationsAgree
  <1>2. AppliesAlone' /\ SetsApproved'
    BY <1>1 DEF AppliesAlone, SetsApproved, OpenApplication
  <1>3. ReviewsAlone'
    BY <1>1 DEF ReviewsAlone
  <1>4. LastIsOpen' /\ ProfileFollows'
    BY <1>1 DEF LastIsOpen, ProfileFollows, OpenApplication
  <1>5. QED
    BY <1>2, <1>3, <1>4

LEMMA ReportsKept ==
  ASSUME DecisionsInv, ReportsAgree, overlaps \subseteq overlaps',
         UNCHANGED <<report, actions>>,
         \A u \in Task, p \in Party : Handling(u, p)' => Handling(u, p)
  PROVE  ReportsAgree'
  BY DEF ReportsAgree, HandledAlone, ActionsFollow

-----------------------------------------------------------------------------
LEMMA ApplyReadAgrees ==
  ASSUME DecisionsInv, Agreement, NEW t \in Task, ApplyRead(t)
  PROVE  Agreement'
  <1> DEFINE i == <<"account", Applicant>>
  <1>1. Reads(t, i, Unset) /\ \A n \in 1..count : ~OpenApplication(n)
    BY DEF ApplyRead
  <1>2. /\ \A u \in Task : u # t => tasks'[u] = tasks[u]
        /\ tasks'[t] = [item |-> i, as |-> Unset] /\ UNCHANGED rowVars
    BY <1>1, ReaderJoins
  <1>3. /\ overlaps \subseteq overlaps'
        /\ overlaps' = {} => \A u \in On(i) : tasks[u].as # Unset
    BY DEF ApplyRead, NoteOverlap
  <1>4. ReportsAgree'
    <2>1. \A u \in Task, p \in Party : Handling(u, p)' => Handling(u, p)
      BY <1>2 DEF Handling
    <2>2. QED
      BY <1>2, <1>3, <2>1, ReportsKept DEF Agreement, rowVars
  <1>5. ASSUME overlaps' = {}
        PROVE  (AppliesAlone /\ ReviewsAlone /\ SetsApproved /\ LastIsOpen /\ ProfileFollows)'
    <2>1. AppliesAlone /\ ReviewsAlone /\ SetsApproved /\ LastIsOpen /\ ProfileFollows
      BY <1>3, <1>5 DEF Agreement, ApplicationsAgree
    <2>2. \A u \in Task : ~Applying(u)
      BY <1>3, <1>5 DEF Applying, On
    <2>3. \A u \in Task : Applying(u)' => u = t
      BY <1>2, <2>2 DEF Applying
    <2>4. AppliesAlone'
      BY <1>1, <1>2, <2>3 DEF AppliesAlone, OpenApplication, rowVars
    <2>5. /\ \A u \in Task, n \in 1..AppBound : Reviewing(u, n)' => Reviewing(u, n)
          /\ \A u \in Task : Setting(u)' => Setting(u)
      BY <1>2 DEF Reviewing, Setting
    <2>6. ReviewsAlone' /\ SetsApproved'
      BY <1>2, <2>1, <2>5 DEF ReviewsAlone, SetsApproved, rowVars
    <2>7. LastIsOpen' /\ ProfileFollows'
      BY <1>2, <2>1 DEF LastIsOpen, ProfileFollows, OpenApplication, rowVars
    <2>8. QED
      BY <2>4, <2>6, <2>7
  <1>6. QED
    BY <1>4, <1>5 DEF Agreement, ApplicationsAgree

LEMMA AvailableReadAgrees ==
  ASSUME DecisionsInv, Agreement, NEW t \in Task, NEW now \in {"on", "off"}, AvailableRead(t, now)
  PROVE  Agreement'
  <1> DEFINE i == <<"account", Applicant>>
  <1>1. Reads(t, i, now) /\ profile = "approved" /\ overlaps' = overlaps /\ now # Unset
    BY ModerationConstants DEF AvailableRead
  <1>2. /\ \A u \in Task : u # t => tasks'[u] = tasks[u]
        /\ tasks'[t] = [item |-> i, as |-> now] /\ UNCHANGED rowVars
    <2>1. Reads(t, i, now)
      BY <1>1
    <2>2. \A u \in Task : u # t => tasks'[u] = tasks[u]
      BY <2>1, ReaderJoins
    <2>3. tasks'[t] = [item |-> i, as |-> now]
      BY <2>1, ReaderJoins
    <2>4. UNCHANGED rowVars
      BY <2>1, ReaderJoins
    <2>5. QED
      BY <2>2, <2>3, <2>4
  <1>3. ReportsAgree'
    <2>1. \A u \in Task, p \in Party : Handling(u, p)' => Handling(u, p)
      BY <1>2 DEF Handling
    <2>2. QED
      BY <1>1, <1>2, <2>1, ReportsKept DEF Agreement, rowVars
  <1>4. ASSUME overlaps' = {}
        PROVE  (AppliesAlone /\ ReviewsAlone /\ SetsApproved /\ LastIsOpen /\ ProfileFollows)'
    <2>1. AppliesAlone /\ ReviewsAlone /\ SetsApproved /\ LastIsOpen /\ ProfileFollows
      BY <1>1, <1>4 DEF Agreement, ApplicationsAgree
    <2>2. /\ \A u \in Task : Applying(u)' => Applying(u)
          /\ \A u \in Task, n \in 1..AppBound : Reviewing(u, n)' => Reviewing(u, n)
      <3>1. tasks'[t].as # Unset
        BY <1>1, <1>2
      <3>2. ~Applying(t)' /\ \A n \in 1..AppBound : ~Reviewing(t, n)'
        BY <1>2, <3>1 DEF Applying, Reviewing
      <3>3. QED
        BY <1>2, <3>2 DEF Applying, Reviewing
    <2>3. AppliesAlone' /\ SetsApproved'
      BY <1>1, <1>2, <2>1, <2>2 DEF AppliesAlone, SetsApproved, OpenApplication, rowVars
    <2>4. ReviewsAlone'
      BY <1>2, <2>1, <2>2 DEF ReviewsAlone, rowVars
    <2>5. LastIsOpen' /\ ProfileFollows'
      BY <1>2, <2>1 DEF LastIsOpen, ProfileFollows, OpenApplication, rowVars
    <2>6. QED
      BY <2>3, <2>4, <2>5
  <1>5. QED
    BY <1>3, <1>4 DEF Agreement, ApplicationsAgree

LEMMA ReviewReadAgrees ==
  ASSUME DecisionsInv, Agreement, NEW t \in Task, NEW n \in 1..AppBound,
         NEW verdict \in {"approved", "rejected"}, ReviewRead(t, n, verdict)
  PROVE  Agreement'
  <1> DEFINE i == <<"application", n>>
  <1>1. Reads(t, i, verdict) /\ application[n] = "pending" /\ n \in 1..count
    BY ModerationConstants DEF ReviewRead, Reviewable, DecisionsInv, DecisionsTypeOK
  <1>2. /\ \A u \in Task : u # t => tasks'[u] = tasks[u]
        /\ tasks'[t] = [item |-> i, as |-> verdict] /\ UNCHANGED rowVars
    BY <1>1, ReaderJoins
  <1>3. /\ overlaps \subseteq overlaps'
        /\ overlaps' = {} => On(i) = {}
    BY DEF ReviewRead, NoteOverlap
  <1>4. ReportsAgree'
    <2>1. \A u \in Task, p \in Party : Handling(u, p)' => Handling(u, p)
      BY <1>2 DEF Handling
    <2>2. QED
      BY <1>2, <1>3, <2>1, ReportsKept DEF Agreement, rowVars
  <1>5. ASSUME overlaps' = {}
        PROVE  (AppliesAlone /\ ReviewsAlone /\ SetsApproved /\ LastIsOpen /\ ProfileFollows)'
    <2>1. AppliesAlone /\ ReviewsAlone /\ SetsApproved /\ LastIsOpen /\ ProfileFollows
      BY <1>3, <1>5 DEF Agreement, ApplicationsAgree
    <2>2. /\ \A u \in Task : Applying(u)' => Applying(u)
          /\ \A u \in Task : Setting(u)' => Setting(u)
      BY <1>2 DEF Applying, Setting
    <2>3. AppliesAlone' /\ SetsApproved'
      BY <1>2, <2>1, <2>2 DEF AppliesAlone, SetsApproved, OpenApplication, rowVars
    <2>4. \A u \in Task : ~Reviewing(u, n)
      BY <1>3, <1>5 DEF On, Reviewing
    <2>5. \A u \in Task, m \in 1..AppBound :
            Reviewing(u, m)' => (u = t /\ m = n) \/ (m # n /\ Reviewing(u, m))
      BY <1>2, <2>4 DEF Reviewing
    <2>6. ReviewsAlone'
      BY <1>1, <1>2, <2>1, <2>5 DEF ReviewsAlone, rowVars
    <2>7. LastIsOpen' /\ ProfileFollows'
      BY <1>2, <2>1 DEF LastIsOpen, ProfileFollows, OpenApplication, rowVars
    <2>8. QED
      BY <2>3, <2>6, <2>7
  <1>6. QED
    BY <1>4, <1>5 DEF Agreement, ApplicationsAgree

LEMMA ReportReadAgrees ==
  ASSUME DecisionsInv, Agreement, NEW t \in Task, NEW p \in Reporter,
         NEW as \in ActionType \cup {"dismissed"}, ReportRead(t, p, as)
  PROVE  Agreement'
  <1> DEFINE i == <<"report", p>>
  <1>1. Reads(t, i, as) /\ report[p] = "pending" /\ p \in Party
    BY ModerationConstants DEF ReportRead, OpenReport
  <1>2. /\ \A u \in Task : u # t => tasks'[u] = tasks[u]
        /\ tasks'[t] = [item |-> i, as |-> as] /\ UNCHANGED rowVars
    BY <1>1, ReaderJoins
  <1>3. /\ overlaps \subseteq overlaps'
        /\ "double_review" \notin overlaps' => On(i) = {}
    BY DEF ReportRead, NoteOverlap
  <1>4. /\ \A u \in Task : Applying(u)' => Applying(u)
        /\ \A u \in Task : Setting(u)' => Setting(u)
        /\ \A u \in Task, n \in 1..AppBound : Reviewing(u, n)' => Reviewing(u, n)
    BY <1>2 DEF Applying, Setting, Reviewing
  <1>5. ApplicationsAgree'
    BY <1>2, <1>3, <1>4, ApplicationsKept DEF Agreement, rowVars
  <1>6. ASSUME "double_review" \notin overlaps'
        PROVE  HandledAlone' /\ ActionsFollow'
    <2>1. HandledAlone /\ ActionsFollow
      BY <1>3, <1>6 DEF Agreement, ReportsAgree
    <2>2. \A u \in Task : ~Handling(u, p)
      BY <1>3, <1>6 DEF On, Handling
    <2>3. \A u \in Task, q \in Party :
            Handling(u, q)' => (u = t /\ q = p) \/ (q # p /\ Handling(u, q))
      BY <1>2, <2>2 DEF Handling
    <2>4. HandledAlone'
      BY <1>1, <1>2, <2>1, <2>3 DEF HandledAlone, rowVars
    <2>5. ActionsFollow'
      BY <1>2, <2>1 DEF ActionsFollow, rowVars
    <2>6. QED
      BY <2>4, <2>5
  <1>7. QED
    BY <1>5, <1>6 DEF Agreement, ReportsAgree

LEMMA RateReadAgrees ==
  ASSUME DecisionsInv, Agreement, NEW t \in Task, NEW p \in Reporter, NEW stars \in Rating,
         RateRead(t, p, stars)
  PROVE  Agreement'
  <1> DEFINE i == <<"rating", p>>
  <1>1. Reads(t, i, stars) /\ overlaps' = overlaps
    BY DEF RateRead
  <1>2. /\ \A u \in Task : u # t => tasks'[u] = tasks[u]
        /\ tasks'[t] = [item |-> i, as |-> stars] /\ UNCHANGED rowVars
    BY <1>1, ReaderJoins
  <1>3. /\ \A u \in Task : Applying(u)' => Applying(u)
        /\ \A u \in Task : Setting(u)' => Setting(u)
        /\ \A u \in Task, n \in 1..AppBound : Reviewing(u, n)' => Reviewing(u, n)
        /\ \A u \in Task, q \in Party : Handling(u, q)' => Handling(u, q)
    BY <1>2 DEF Applying, Setting, Reviewing, Handling
  <1>4. QED
    BY <1>1, <1>2, <1>3, ApplicationsKept, ReportsKept DEF Agreement, rowVars

-----------------------------------------------------------------------------
LEMMA ApplyWriteAgrees ==
  ASSUME DecisionsInv, Agreement, NEW t \in Task, ApplyWrite(t)
  PROVE  Agreement'
  <1>1. /\ Applying(t) /\ count < AppBound
        /\ count' = count + 1 /\ application' = [application EXCEPT ![count + 1] = "pending"]
        /\ profile' = "pending" /\ available' = FALSE
        /\ UNCHANGED <<role, report, actions>>
        /\ tasks' = [tasks EXCEPT ![t] = Unset] /\ overlaps' = overlaps
    BY DEF ApplyWrite, Writes, Applying
  <1>2. /\ \A u \in Task : Applying(u)' => u # t /\ Applying(u)
        /\ \A u \in Task : Setting(u)' => Setting(u)
        /\ \A u \in Task, n \in 1..AppBound : Reviewing(u, n)' => Reviewing(u, n)
        /\ \A u \in Task, p \in Party : Handling(u, p)' => Handling(u, p)
    BY <1>1, OthersStay
  <1>3. ReportsAgree'
    BY <1>1, <1>2, ReportsKept DEF Agreement
  <1>4. ASSUME overlaps' = {}
        PROVE  (AppliesAlone /\ ReviewsAlone /\ SetsApproved /\ LastIsOpen /\ ProfileFollows)'
    <2>1. AppliesAlone /\ ReviewsAlone /\ SetsApproved /\ LastIsOpen /\ ProfileFollows
      BY <1>1, <1>4 DEF Agreement, ApplicationsAgree
    <2>2. /\ \A n \in 1..count : ~OpenApplication(n)
          /\ \A u \in Task : ~Applying(u)'
      BY <1>1, <1>2, <2>1 DEF AppliesAlone
    <2>3. /\ AppBound \in Nat /\ count \in 0..AppBound
          /\ application \in [1..AppBound -> Review \cup {Unset}]
          /\ \A n \in 1..AppBound : application[n] = Unset <=> n > count
          /\ (profile = Unset <=> count = 0) /\ Unset # "pending" /\ Unset # "approved"
      BY ModerationConstants DEF DecisionsInv, DecisionsTypeOK
    <2>4. ReviewsAlone'
      <3>1. \A u \in Task, n \in 1..AppBound : ~Reviewing(u, n)
        BY <2>1, <2>2, <2>3 DEF ReviewsAlone, OpenApplication
      <3>2. QED
        BY <1>2, <3>1 DEF ReviewsAlone
    <2>5. SetsApproved'
      <3>1. profile # "approved"
        BY <2>1, <2>2, <2>3 DEF ProfileFollows, OpenApplication
      <3>2. QED
        BY <1>2, <2>1, <3>1 DEF SetsApproved
    <2>6. LastIsOpen' /\ ProfileFollows'
      BY <1>1, <2>2, <2>3 DEF LastIsOpen, ProfileFollows, OpenApplication
    <2>7. QED
      BY <2>2, <2>4, <2>5, <2>6 DEF AppliesAlone
  <1>5. QED
    BY <1>3, <1>4 DEF Agreement, ApplicationsAgree

LEMMA AvailableWriteAgrees ==
  ASSUME DecisionsInv, Agreement, NEW t \in Task, AvailableWrite(t)
  PROVE  Agreement'
  <1>1. /\ Setting(t)
        /\ available' = (tasks[t].as = "on")
        /\ UNCHANGED <<application, count, profile, role, report, actions>>
        /\ tasks' = [tasks EXCEPT ![t] = Unset] /\ overlaps' = overlaps
    BY ModerationConstants DEF AvailableWrite, Writes, Setting
  <1>2. /\ \A u \in Task : Applying(u)' => Applying(u)
        /\ \A u \in Task : Setting(u)' => Setting(u)
        /\ \A u \in Task, n \in 1..AppBound : Reviewing(u, n)' => Reviewing(u, n)
        /\ \A u \in Task, p \in Party : Handling(u, p)' => Handling(u, p)
    BY <1>1, OthersStay
  <1>3. ReportsAgree'
    BY <1>1, <1>2, ReportsKept DEF Agreement
  <1>4. ASSUME overlaps' = {}
        PROVE  (AppliesAlone /\ ReviewsAlone /\ SetsApproved /\ LastIsOpen /\ ProfileFollows)'
    <2>1. AppliesAlone /\ ReviewsAlone /\ SetsApproved /\ LastIsOpen /\ ProfileFollows
      BY <1>1, <1>4 DEF Agreement, ApplicationsAgree
    <2>2. AppliesAlone' /\ SetsApproved'
      BY <1>1, <1>2, <2>1 DEF AppliesAlone, SetsApproved, OpenApplication
    <2>3. ReviewsAlone'
      BY <1>1, <1>2, <2>1 DEF ReviewsAlone
    <2>4. LastIsOpen'
      BY <1>1, <2>1 DEF LastIsOpen, OpenApplication
    <2>5. ProfileFollows'
      BY <1>1, <2>1 DEF ProfileFollows, SetsApproved
    <2>6. QED
      BY <2>2, <2>3, <2>4, <2>5
  <1>5. QED
    BY <1>3, <1>4 DEF Agreement, ApplicationsAgree

LEMMA ReviewWriteAgrees ==
  ASSUME DecisionsInv, Agreement, NEW t \in Task, NEW n \in 1..AppBound, ReviewWrite(t, n)
  PROVE  Agreement'
  <1> DEFINE as == tasks[t].as
  <1>1. /\ Reviewing(t, n)
        /\ application' = [application EXCEPT ![n] = as]
        /\ profile' = as /\ role' = (role \/ as = "approved")
        /\ UNCHANGED <<count, available, report, actions>>
        /\ tasks' = [tasks EXCEPT ![t] = Unset] /\ overlaps' = overlaps
    BY DEF ReviewWrite, Writes, Reviewing
  <1>2. /\ \A u \in Task : Applying(u)' => Applying(u)
        /\ \A u \in Task : Setting(u)' => Setting(u)
        /\ \A u \in Task, m \in 1..AppBound : Reviewing(u, m)' => u # t /\ Reviewing(u, m)
        /\ \A u \in Task, p \in Party : Handling(u, p)' => Handling(u, p)
    BY <1>1, OthersStay
  <1>3. ReportsAgree'
    BY <1>1, <1>2, ReportsKept DEF Agreement
  <1>4. as \in {"approved", "rejected"}
    BY <1>1 DEF Reviewing, DecisionsInv, DecisionsTypeOK, Decision, Application, Filed, Given, Account
  <1>5. ASSUME overlaps' = {}
        PROVE  (AppliesAlone /\ ReviewsAlone /\ SetsApproved /\ LastIsOpen /\ ProfileFollows)'
    <2>1. AppliesAlone /\ ReviewsAlone /\ SetsApproved /\ LastIsOpen /\ ProfileFollows
      BY <1>1, <1>5 DEF Agreement, ApplicationsAgree
    <2>2. /\ AppBound \in Nat /\ count \in 0..AppBound /\ n \in 1..count
          /\ application \in [1..AppBound -> Review \cup {Unset}]
      BY <1>1, ModerationConstants DEF Reviewing, DecisionsInv, ReviewsExist, DecisionsTypeOK
    <2>3. application[n] = "pending" /\ OpenApplication(n) /\ n = count
      BY <1>1, <2>1, <2>2 DEF ReviewsAlone, LastIsOpen, OpenApplication
    <2>4. \A u \in Task : ~Applying(u)
      BY <2>1, <2>2, <2>3 DEF AppliesAlone
    <2>5. profile = "pending"
      BY <2>1, <2>2, <2>3 DEF ProfileFollows
    <2>6. AppliesAlone'
      BY <1>2, <2>4 DEF AppliesAlone
    <2>7. SetsApproved'
      BY <1>2, <2>1, <2>5 DEF SetsApproved
    <2>8. ReviewsAlone'
      BY <1>1, <1>2, <2>1, <2>2 DEF ReviewsAlone
    <2>9. LastIsOpen'
      BY <1>1, <2>1, <2>2, <2>3 DEF LastIsOpen, OpenApplication
    <2>10. ProfileFollows'
      BY <1>1, <1>4, <2>1, <2>2, <2>3, <2>5 DEF ProfileFollows
    <2>11. QED
      BY <2>6, <2>7, <2>8, <2>9, <2>10
  <1>6. QED
    BY <1>3, <1>5 DEF Agreement, ApplicationsAgree

LEMMA ReportWriteAgrees ==
  ASSUME DecisionsInv, Agreement, NEW t \in Task, NEW p \in Reporter, ReportWrite(t, p)
  PROVE  Agreement'
  <1> DEFINE as == tasks[t].as
  <1>1. /\ Handling(t, p) /\ p \in Party
        /\ UNCHANGED <<application, count, profile, available, role>>
        /\ tasks' = [tasks EXCEPT ![t] = Unset] /\ overlaps' = overlaps
    BY ModerationConstants DEF ReportWrite, Writes, Handling
  <1>2. /\ \A u \in Task : Applying(u)' => Applying(u)
        /\ \A u \in Task : Setting(u)' => Setting(u)
        /\ \A u \in Task, n \in 1..AppBound : Reviewing(u, n)' => Reviewing(u, n)
        /\ \A u \in Task, q \in Party : Handling(u, q)' => u # t /\ Handling(u, q)
    BY <1>1, OthersStay
  <1>3. ApplicationsAgree'
    BY <1>1, <1>2, ApplicationsKept DEF Agreement
  <1>4. as \in ActionType \cup {"dismissed"}
    BY <1>1 DEF Handling, DecisionsInv, DecisionsTypeOK, Decision, Application, Filed, Given, Account
  <1>5. ASSUME "double_review" \notin overlaps'
        PROVE  HandledAlone' /\ ActionsFollow'
    <2>1. HandledAlone /\ ActionsFollow
      BY <1>1, <1>5 DEF Agreement, ReportsAgree
    <2>2. /\ report \in [Party -> Report \cup {Unset}]
          /\ report[p] = "pending"
          /\ \A type \in ActionType : <<Other(p), p, type>> \notin actions
      BY <1>1, <2>1 DEF HandledAlone, ActionsFollow, DecisionsInv, DecisionsTypeOK
    <2>3. /\ report' = [report EXCEPT ![p] = IF as = "dismissed" THEN "dismissed" ELSE "resolved"]
          /\ actions' = IF as = "dismissed" THEN actions ELSE actions \cup {<<Other(p), p, as>>}
      BY DEF ReportWrite
    <2>4. HandledAlone'
      BY <1>1, <1>2, <2>1, <2>2, <2>3 DEF HandledAlone
    <2>5. ASSUME NEW q \in Party
          PROVE  (report'[q] = "resolved") <=>
                   (\E type \in ActionType : <<Other(q), q, type>> \in actions')
      <3>1. CASE q = p
        BY <1>1, <1>4, <2>2, <2>3, <3>1
      <3>2. CASE q # p
        BY <2>1, <2>2, <2>3, <3>2 DEF ActionsFollow
      <3>3. QED
        BY <3>1, <3>2
    <2>6. QED
      BY <2>4, <2>5 DEF ActionsFollow
  <1>6. QED
    BY <1>3, <1>5 DEF Agreement, ReportsAgree

LEMMA RateWriteAgrees ==
  ASSUME DecisionsInv, Agreement, NEW t \in Task, NEW p \in Reporter, RateWrite(t, p)
  PROVE  Agreement'
  <1>1. /\ UNCHANGED <<application, count, profile, available, role, report, actions>>
        /\ tasks' = [tasks EXCEPT ![t] = Unset] /\ overlaps' = overlaps
    BY DEF RateWrite, Writes
  <1>2. QED
    BY <1>1, OthersStay, ApplicationsKept, ReportsKept DEF Agreement

LEMMA AccountActionAgrees ==
  ASSUME DecisionsInv, Agreement, NEW p \in Party, NEW type \in ActionType, AccountAction(p, type)
  PROVE  Agreement'
  <1>1. /\ UNCHANGED <<application, count, profile, available, role, report, tasks, overlaps>>
        /\ actions' = actions \cup {<<p, Unset, type>>} /\ Unset \notin Party
    BY ModerationConstants DEF AccountAction
  <1>2. ApplicationsAgree'
    BY <1>1, ApplicationsKept DEF Agreement, Applying, Setting, Reviewing
  <1>3. \A q \in Party, kind \in ActionType :
          <<Other(q), q, kind>> \in actions' <=> <<Other(q), q, kind>> \in actions
    BY <1>1
  <1>4. ReportsAgree'
    BY <1>1, <1>3 DEF Agreement, ReportsAgree, HandledAlone, ActionsFollow, Handling
  <1>5. QED
    BY <1>2, <1>4 DEF Agreement

LEMMA QuietAgrees ==
  ASSUME DecisionsInv, Agreement,
         Complete \/ (\E p \in Reporter : CreateReport(p)) \/ UNCHANGED decisionVars
  PROVE  Agreement'
  <1>1. UNCHANGED <<application, count, profile, available, role, actions, tasks, overlaps>>
    BY DEF Complete, CreateReport, decisionVars
  <1>2. \A q \in Party : report[q] \in {"pending", "resolved"} => report'[q] = report[q]
    BY ModerationConstants DEF Complete, CreateReport, decisionVars, DecisionsInv, DecisionsTypeOK
  <1>3. \A q \in Party : report'[q] = "resolved" => report[q] = "resolved"
    BY ModerationConstants DEF Complete, CreateReport, decisionVars, DecisionsInv, DecisionsTypeOK
  <1>4. ApplicationsAgree'
    BY <1>1, ApplicationsKept DEF Agreement, Applying, Setting, Reviewing
  <1>5. ReportsAgree'
    BY <1>1, <1>2, <1>3 DEF Agreement, ReportsAgree, HandledAlone, ActionsFollow, Handling
  <1>6. QED
    BY <1>4, <1>5 DEF Agreement

LEMMA AgreementInit ==
  ASSUME DecisionsInit
  PROVE  Agreement
  <1>1. count = 0 /\ tasks = [t \in Task |-> Unset] /\ actions = {} /\ profile = Unset
        /\ available = FALSE /\ report = [p \in Party |-> Unset]
    BY DEF DecisionsInit
  <1>2. Unset # "approved" /\ Unset # "resolved"
    BY ModerationConstants
  <1>3. AppliesAlone /\ ReviewsAlone /\ SetsApproved /\ HandledAlone
    BY <1>1 DEF AppliesAlone, ReviewsAlone, SetsApproved, HandledAlone, Applying, Reviewing,
       Setting, Handling
  <1>4. LastIsOpen /\ ProfileFollows /\ ActionsFollow
    BY <1>1, <1>2 DEF LastIsOpen, ProfileFollows, ActionsFollow
  <1>5. QED
    BY <1>3, <1>4 DEF Agreement, ApplicationsAgree, ReportsAgree

LEMMA AgreementNext ==
  ASSUME DecisionsInv, Agreement, [DecisionsNext]_decisionVars
  PROVE  Agreement'
  BY ApplyReadAgrees, AvailableReadAgrees, ReviewReadAgrees, ReportReadAgrees, RateReadAgrees,
     ApplyWriteAgrees, AvailableWriteAgrees, ReviewWriteAgrees, ReportWriteAgrees,
     RateWriteAgrees, AccountActionAgrees, QuietAgrees DEF DecisionsNext

(* Whatever the administrators, the applicant and the parties do, and in   *)
(* whatever order their calls read and write: as long as no two calls to   *)
(* apply and no two reviews of the same item overlap, one application at   *)
(* most is open, it is the last, the profile, the role and the             *)
(* availability follow it, and a report is resolved just when an action is *)
(* on record for it.                                                       *)
THEOREM RecordsStayInStep == DecisionsSpec => []RecordsAgree
  <1>1. DecisionsInit => Agreement
    BY AgreementInit
  <1>2. DecisionsInv /\ Agreement /\ [DecisionsNext]_decisionVars => Agreement'
    BY AgreementNext
  <1>3. DecisionsInv /\ Agreement => RecordsAgree
    <2> SUFFICES ASSUME DecisionsInv, Agreement
                 PROVE  RecordsAgree
      OBVIOUS
    <2>1. OneOpenApplication
      BY DEF OneOpenApplication, Agreement, ApplicationsAgree, LastIsOpen
    <2>2. ProfileFollowsApplication
      BY DEF ProfileFollowsApplication, Agreement, ApplicationsAgree, ProfileFollows
    <2>3. ReportsAndActionsAgree
      BY DEF ReportsAndActionsAgree, Agreement, ReportsAgree, ActionsFollow
    <2>4. QED
      BY <2>1, <2>2, <2>3 DEF RecordsAgree
  <1>4. QED
    BY <1>1, <1>2, <1>3, DecisionsAlways, PTL DEF DecisionsSpec

-----------------------------------------------------------------------------
(* AccountRecords *)

(* Requests of a kind that never crossed come one at a time.               *)
Alone ==
  \A k \in Kind : k \notin crossed =>
    \A c, d \in Handler : Doing(c, k) /\ Doing(d, k) => c = d

(* What a request of such a kind has read is still so.                     *)
LanguagesRead ==
  "languages" \notin crossed =>
    \A c \in Handler : Doing(c, "languages") => handling[c].seen = languages
DeviceRead ==
  "device" \notin crossed =>
    \A c \in Handler : Doing(c, "device") /\ ~handling[c].found => devices = 0
PasswordRead ==
  "password" \notin crossed =>
    \A c \in Handler : Doing(c, "password") => handling[c].read = password
OtpRead ==
  "otp" \notin crossed =>
    /\ otp => spent < sent
    /\ \A c \in Handler : Doing(c, "otp") => spent < sent

(* No replacement sets a language twice.                                   *)
SetsOnce ==
  \A c \in Handler : Doing(c, "languages") =>
    \A k, m \in handling[c].to : k.language = m.language => k = m

RecordsInv ==
  /\ RecordsTypeOK /\ Alone /\ SetsOnce
  /\ LanguagesRead /\ DeviceRead /\ PasswordRead /\ OtpRead
  /\ RecordsHold

-----------------------------------------------------------------------------
(* The initial states satisfy the invariant. *)
LEMMA RecordsStart == RecordsInit => RecordsInv
<1> SUFFICES ASSUME RecordsInit PROVE RecordsInv
  OBVIOUS
<1>1. PICK s \in SUBSET Language : languages = {[language |-> l, by |-> 0] : l \in s}
  BY DEF RecordsInit
<1>2. languages \subseteq LanguageRow
  BY <1>1 DEF LanguageRow
<1>3. \A k, m \in languages : k.language = m.language => k = m
  BY <1>1
<1>4. \A c \in Handler : handling[c] = Absent
  BY DEF RecordsInit
<1>5. \A c \in Handler : \A k : ~Doing(c, k)
  BY <1>4 DEF Doing
<1>6. RecordsTypeOK
  BY <1>2 DEF RecordsInit, RecordsTypeOK
<1>7. RecordsHold
  BY <1>3 DEF RecordsInit, RecordsHold
<1> QED
  BY <1>5, <1>6, <1>7 DEF RecordsInit, RecordsInv, Alone, SetsOnce, LanguagesRead, DeviceRead, PasswordRead, OtpRead

-----------------------------------------------------------------------------
(* A request starts: those of its kind, if none crosses it, are not there. *)
LEMMA Started ==
  ASSUME RecordsTypeOK, Alone, NEW c \in Handler, NEW call \in RecordCall, Start(c, call)
  PROVE  /\ handling' \in [Handler -> RecordCall \cup {Absent}] /\ handling'[c] = call
         /\ \A d \in Handler : d # c => handling'[d] = handling[d]
         /\ asked' \in Nat /\ crossed \subseteq crossed' /\ crossed' \subseteq Kind
         /\ call.kind \notin crossed' => \A d \in Handler : ~Doing(d, call.kind)
         /\ Alone'
<1>1. call.kind \in Kind
  BY DEF RecordCall, Kind
<1>2. handling' \in [Handler -> RecordCall \cup {Absent}] /\ handling'[c] = call
  BY DEF Start, RecordsTypeOK
<1>3. \A d \in Handler : d # c => handling'[d] = handling[d]
  BY DEF Start, RecordsTypeOK
<1>4. asked' \in Nat /\ crossed \subseteq crossed' /\ crossed' \subseteq Kind
  BY <1>1 DEF Start, RecordsTypeOK
<1>5. call.kind \notin crossed' => \A d \in Handler : ~Doing(d, call.kind)
  BY DEF Start
<1>6. Alone'
  <2> SUFFICES ASSUME NEW k \in Kind, k \notin crossed',
                      NEW d \in Handler, NEW e \in Handler, Doing(d, k)', Doing(e, k)'
               PROVE  d = e
    BY DEF Alone
  <2>1. CASE d # c /\ e # c
    BY <2>1, <1>3, <1>4 DEF Alone, Doing
  <2>2. CASE d = c /\ e # c
    <3>1. k = call.kind
      BY <2>2, <1>2 DEF Doing
    <3> QED
      BY <3>1, <2>2, <1>3, <1>5 DEF Doing
  <2>3. CASE d # c /\ e = c
    <3>1. k = call.kind
      BY <2>3, <1>2 DEF Doing
    <3> QED
      BY <3>1, <2>3, <1>3, <1>5 DEF Doing
  <2> QED
    BY <2>1, <2>2, <2>3
<1> QED
  BY <1>2, <1>3, <1>4, <1>5, <1>6

(* A request ends: nothing of it is left. *)
LEMMA Finished ==
  ASSUME RecordsTypeOK, Alone, NEW c \in Handler, Done(c)
  PROVE  /\ handling' \in [Handler -> RecordCall \cup {Absent}] /\ handling'[c] = Absent
         /\ \A d \in Handler : d # c => handling'[d] = handling[d]
         /\ asked' \in Nat /\ crossed' = crossed
         /\ Alone'
<1>1. handling' \in [Handler -> RecordCall \cup {Absent}] /\ handling'[c] = Absent
  BY DEF Done, RecordsTypeOK
<1>2. \A d \in Handler : d # c => handling'[d] = handling[d]
  BY DEF Done, RecordsTypeOK
<1>3. asked' \in Nat /\ crossed' = crossed
  BY DEF Done, RecordsTypeOK
<1>4. Alone'
  BY <1>1, <1>2, <1>3 DEF Alone, Doing
<1> QED
  BY <1>1, <1>2, <1>3, <1>4

-----------------------------------------------------------------------------
(* What a request of one kind does leaves the facts about the others: they *)
(* are about variables it does not touch and requests it does not change.  *)
LEMMA RegistrationsKeep ==
  ASSUME RecordsInv, NEW c \in Handler,
         \/ \E p \in Person : CheckEmail(c, p)
         \/ \E n \in Nickname : DrawNickname(c, n)
         \/ CreateAccount(c)
  PROVE  RecordsInv'
<1> USE DEF RecordsInv
<1>1. SUFFICES ASSUME /\ handling' \in [Handler -> RecordCall \cup {Absent}]
                      /\ \A d \in Handler : d # c => handling'[d] = handling[d]
                      /\ Doing(c, "register")' \/ handling'[c] = Absent
                      /\ asked' \in Nat /\ crossed \subseteq crossed' /\ crossed' \subseteq Kind
                      /\ UNCHANGED <<languages, password, devices, otp, histories>>
                      /\ \A a, b \in accounts' : a # b => a.email # b.email /\ a.nickname # b.nickname
                      /\ Alone'
               PROVE  RecordsInv'
  <2>1. CASE \E p \in Person : CheckEmail(c, p)
    <3>1. PICK p \in Person : CheckEmail(c, p)
      BY <2>1
    <3> DEFINE call == [kind |-> "register", email |-> p, nickname |-> Absent]
    <3>2. call \in RecordCall
      BY DEF RecordCall
    <3>3. Start(c, call)
      BY <3>1 DEF CheckEmail
    <3>4. UNCHANGED <<accounts, languages, password, devices, otp, histories>>
      BY <3>1 DEF CheckEmail
    <3>5. Doing(c, "register")' \/ handling'[c] = Absent
      BY <3>2, <3>3, Started DEF Doing
    <3>6. \A a, b \in accounts' : a # b => a.email # b.email /\ a.nickname # b.nickname
      BY <3>4 DEF RecordsHold
    <3> HIDE DEF call
    <3> QED
      BY <3>2, <3>3, <3>4, <3>5, <3>6, <1>1, Started
  <2>2. CASE \E n \in Nickname : DrawNickname(c, n)
    <3>1. PICK n \in Nickname : DrawNickname(c, n)
      BY <2>2
    <3>2. /\ handling[c] \in [kind : {"register"}, email : Person, nickname : Nickname \cup {Absent}]
          /\ handling[c] # Absent
      BY <3>1 DEF DrawNickname, Doing, RecordsTypeOK, RecordCall
    <3>3. handling' = [handling EXCEPT ![c] = [handling[c] EXCEPT !.nickname = n]]
      BY <3>1 DEF DrawNickname
    <3> DEFINE call == [handling[c] EXCEPT !.nickname = n]
    <3>4. call \in [kind : {"register"}, email : Person, nickname : Nickname \cup {Absent}]
      BY <3>2
    <3>5. call \in RecordCall /\ call.kind = "register"
      BY <3>4 DEF RecordCall
    <3>6. handling' = [handling EXCEPT ![c] = call]
      BY <3>3
    <3> HIDE DEF call
    <3>7. /\ handling' \in [Handler -> RecordCall \cup {Absent}]
          /\ \A d \in Handler : d # c => handling'[d] = handling[d]
          /\ handling'[c] = call
      BY <3>5, <3>6 DEF RecordsTypeOK
    <3>8. UNCHANGED <<accounts, languages, password, devices, otp, asked, crossed, histories>>
      BY <3>1 DEF DrawNickname
    <3>9. \A d \in Handler, k \in Kind : Doing(d, k)' => Doing(d, k)
      BY <3>1, <3>5, <3>7 DEF Doing, DrawNickname
    <3>10. Alone'
      BY <3>8, <3>9 DEF Alone
    <3>11. \A a, b \in accounts' : a # b => a.email # b.email /\ a.nickname # b.nickname
      BY <3>8 DEF RecordsHold
    <3>12. Doing(c, "register")' \/ handling'[c] = Absent
      BY <3>5, <3>7 DEF Doing
    <3> QED
      BY <3>7, <3>8, <3>10, <3>11, <3>12, <1>1 DEF RecordsTypeOK
  <2>3. CASE CreateAccount(c)
    <3>1. Done(c) /\ UNCHANGED <<languages, password, devices, otp, histories>>
      BY <2>3 DEF CreateAccount
    <3>2. \A a, b \in accounts' : a # b => a.email # b.email /\ a.nickname # b.nickname
      <4> DEFINE new == [email |-> handling[c].email, nickname |-> handling[c].nickname, by |-> c]
      <4>1. CASE Insertable(handling[c])
        <5>1. accounts' = accounts \cup {new}
          BY <2>3, <4>1 DEF CreateAccount
        <5>2. \A a \in accounts : a.email # new.email /\ a.nickname # new.nickname
          BY <4>1 DEF Insertable
        <5> HIDE DEF new
        <5> QED
          BY <5>1, <5>2 DEF RecordsHold
      <4>2. CASE ~Insertable(handling[c])
        BY <2>3, <4>2 DEF CreateAccount, RecordsHold
      <4> QED
        BY <4>1, <4>2
    <3> QED
      BY <3>1, <3>2, <1>1, Finished DEF RecordsTypeOK
  <2> QED
    BY <2>1, <2>2, <2>3
<1>2. \A d \in Handler, k \in Kind \ {"register"} :
        Doing(d, k)' => Doing(d, k) /\ handling'[d] = handling[d]
  BY <1>1 DEF Doing, Kind
<1>3. UNCHANGED <<languages, password, devices, otp, last, sent, spent, rightful>>
  BY <1>1 DEF histories
<1>4. RecordsTypeOK'
  BY <1>1, <1>3 DEF RecordsTypeOK
<1>5. SetsOnce'
  BY <1>2 DEF SetsOnce, Kind
<1>6. LanguagesRead' /\ DeviceRead' /\ PasswordRead' /\ OtpRead'
  BY <1>1, <1>2, <1>3 DEF LanguagesRead, DeviceRead, PasswordRead, OtpRead, Kind
<1>7. RecordsHold'
  BY <1>1, <1>3 DEF RecordsHold
<1> QED
  BY <1>1, <1>4, <1>5, <1>6, <1>7

LEMMA LanguagesKeep ==
  ASSUME RecordsInv, NEW c \in Handler,
         (\E s \in SUBSET Language : DeleteLanguages(c, s)) \/ CreateLanguages(c)
  PROVE  RecordsInv'
<1> USE DEF RecordsInv
<1>1. CASE \E s \in SUBSET Language : DeleteLanguages(c, s)
  <2>1. PICK s \in SUBSET Language : DeleteLanguages(c, s)
    BY <1>1
  <2> DEFINE to == {[language |-> l, by |-> asked + 1] : l \in s}
             call == [kind |-> "languages", seen |-> languages, to |-> to]
  <2>2. call \in RecordCall
    BY DEF RecordCall, RecordsTypeOK, LanguageRow
  <2>3. \A k, m \in to : k.language = m.language => k = m
    OBVIOUS
  <2>4. Start(c, call) /\ UNCHANGED <<accounts, languages, password, devices, otp, histories>>
    BY <2>1 DEF DeleteLanguages
  <2>5. call.kind = "languages" /\ call.seen = languages /\ call.to = to
    OBVIOUS
  <2> HIDE DEF call, to
  <2>6. /\ handling' \in [Handler -> RecordCall \cup {Absent}] /\ handling'[c] = call
        /\ \A d \in Handler : d # c => handling'[d] = handling[d]
        /\ asked' \in Nat /\ crossed \subseteq crossed' /\ crossed' \subseteq Kind
        /\ "languages" \notin crossed' => \A d \in Handler : ~Doing(d, "languages")
        /\ Alone'
    BY <2>2, <2>4, <2>5, Started
  <2>7. UNCHANGED <<accounts, languages, password, devices, otp, last, sent, spent, rightful>>
    BY <2>4 DEF histories
  <2>8. \A k : \A d \in Handler : d # c => (Doing(d, k)' <=> Doing(d, k))
    BY <2>6 DEF Doing
  <2>9. \A k \in Kind \ {"languages"} : ~Doing(c, k)'
    BY <2>5, <2>6 DEF Doing
  <2>10. RecordsTypeOK'
    BY <2>6, <2>7 DEF RecordsTypeOK
  <2>11. SetsOnce'
    BY <2>3, <2>5, <2>6, <2>8 DEF SetsOnce
  <2>12. LanguagesRead'
    BY <2>5, <2>6, <2>7, <2>8 DEF LanguagesRead
  <2>13. DeviceRead' /\ PasswordRead' /\ OtpRead'
    BY <2>6, <2>7, <2>8, <2>9 DEF DeviceRead, PasswordRead, OtpRead, Kind
  <2>14. RecordsHold'
    BY <2>6, <2>7 DEF RecordsHold
  <2> QED
    BY <2>6, <2>10, <2>11, <2>12, <2>13, <2>14
<1>2. CASE CreateLanguages(c)
  <2> DEFINE kept == languages \ handling[c].seen
             new == handling[c].to
  <2>1. /\ handling' \in [Handler -> RecordCall \cup {Absent}] /\ handling'[c] = Absent
        /\ \A d \in Handler : d # c => handling'[d] = handling[d]
        /\ asked' \in Nat /\ crossed' = crossed
        /\ Alone'
    BY <1>2, Finished DEF CreateLanguages
  <2>2. UNCHANGED <<accounts, password, devices, otp, sent, spent, rightful>>
    BY <1>2 DEF CreateLanguages
  <2>3. Doing(c, "languages")
    BY <1>2 DEF CreateLanguages
  <2>4. new \subseteq LanguageRow /\ \A k, m \in new : k.language = m.language => k = m
    BY <2>3 DEF RecordsTypeOK, RecordCall, Doing, SetsOnce
  <2>5. \/ /\ \A k \in kept, n \in new : k.language # n.language
           /\ languages' = kept \cup new /\ last' = new
        \/ UNCHANGED <<languages, last>>
    BY <1>2 DEF CreateLanguages
  <2>6. "languages" \notin crossed => kept = {}
    BY <2>3 DEF LanguagesRead
  <2>7. kept \subseteq languages
    OBVIOUS
  <2> HIDE DEF kept, new
  <2>8. \A k : \A d \in Handler : Doing(d, k)' => d # c /\ Doing(d, k) /\ handling'[d] = handling[d]
    BY <2>1 DEF Doing
  <2>9. RecordsTypeOK'
    BY <2>1, <2>2, <2>4, <2>5, <2>7 DEF RecordsTypeOK
  <2>10. SetsOnce'
    BY <2>8 DEF SetsOnce
  <2>11. LanguagesRead'
    BY <2>1, <2>3, <2>8 DEF LanguagesRead, Alone, Kind
  <2>12. DeviceRead' /\ PasswordRead' /\ OtpRead'
    BY <2>1, <2>2, <2>8 DEF DeviceRead, PasswordRead, OtpRead
  <2>13. \A k, m \in languages' : k.language = m.language => k = m
    BY <2>4, <2>5, <2>7 DEF RecordsHold
  <2>14. last' \subseteq languages' /\ ("languages" \notin crossed => languages' = last')
    BY <2>5, <2>6 DEF RecordsHold
  <2>15. RecordsHold'
    BY <2>1, <2>2, <2>13, <2>14 DEF RecordsHold
  <2> QED
    BY <2>1, <2>9, <2>10, <2>11, <2>12, <2>15
<1> QED
  BY <1>1, <1>2

LEMMA PasswordKeeps ==
  ASSUME RecordsInv, NEW c \in Handler, VerifyPassword(c) \/ WritePassword(c)
  PROVE  RecordsInv'
<1> USE DEF RecordsInv
<1>1. CASE VerifyPassword(c)
  <2> DEFINE call == [kind |-> "password", read |-> password, to |-> asked + 1]
  <2>1. call \in RecordCall /\ call.kind = "password" /\ call.read = password
    BY DEF RecordCall, RecordsTypeOK
  <2>2. Start(c, call) /\ UNCHANGED <<accounts, languages, password, devices, otp, histories>>
    BY <1>1 DEF VerifyPassword
  <2> HIDE DEF call
  <2>3. /\ handling' \in [Handler -> RecordCall \cup {Absent}] /\ handling'[c] = call
        /\ \A d \in Handler : d # c => handling'[d] = handling[d]
        /\ asked' \in Nat /\ crossed \subseteq crossed' /\ crossed' \subseteq Kind
        /\ "password" \notin crossed' => \A d \in Handler : ~Doing(d, "password")
        /\ Alone'
    BY <2>1, <2>2, Started
  <2>4. UNCHANGED <<accounts, languages, password, devices, otp, last, sent, spent, rightful>>
    BY <2>2 DEF histories
  <2>5. \A k : \A d \in Handler : d # c => (Doing(d, k)' <=> Doing(d, k))
    BY <2>3 DEF Doing
  <2>6. \A k \in Kind \ {"password"} : ~Doing(c, k)'
    BY <2>1, <2>3 DEF Doing
  <2>7. RecordsTypeOK'
    BY <2>3, <2>4 DEF RecordsTypeOK
  <2>8. SetsOnce' /\ LanguagesRead' /\ DeviceRead' /\ OtpRead'
    BY <2>3, <2>4, <2>5, <2>6 DEF SetsOnce, LanguagesRead, DeviceRead, OtpRead, Kind
  <2>9. PasswordRead'
    BY <2>1, <2>3, <2>4, <2>5 DEF PasswordRead
  <2>10. RecordsHold'
    BY <2>3, <2>4 DEF RecordsHold
  <2> QED
    BY <2>3, <2>7, <2>8, <2>9, <2>10
<1>2. CASE WritePassword(c)
  <2>1. /\ handling' \in [Handler -> RecordCall \cup {Absent}] /\ handling'[c] = Absent
        /\ \A d \in Handler : d # c => handling'[d] = handling[d]
        /\ asked' \in Nat /\ crossed' = crossed
        /\ Alone'
    BY <1>2, Finished DEF WritePassword
  <2>2. UNCHANGED <<accounts, languages, devices, otp, last, sent, spent>>
    BY <1>2 DEF WritePassword
  <2>3. Doing(c, "password") /\ password' = handling[c].to
    BY <1>2 DEF WritePassword
  <2>4. password' \in Nat
    BY <2>3 DEF RecordsTypeOK, RecordCall, Doing
  <2>5. rightful' = (rightful /\ handling[c].read = password)
    BY <1>2 DEF WritePassword
  <2>6. rightful' \in BOOLEAN
    BY <2>5
  <2>7. "password" \notin crossed => rightful'
    BY <2>3, <2>5 DEF PasswordRead, RecordsHold
  <2>8. \A k : \A d \in Handler : Doing(d, k)' => d # c /\ Doing(d, k) /\ handling'[d] = handling[d]
    BY <2>1 DEF Doing
  <2>9. RecordsTypeOK'
    BY <2>1, <2>2, <2>4, <2>6 DEF RecordsTypeOK
  <2>10. SetsOnce' /\ LanguagesRead' /\ DeviceRead' /\ OtpRead'
    BY <2>1, <2>2, <2>8 DEF SetsOnce, LanguagesRead, DeviceRead, OtpRead
  <2>11. PasswordRead'
    BY <2>1, <2>3, <2>8 DEF PasswordRead, Alone, Kind
  <2>12. RecordsHold'
    BY <2>1, <2>2, <2>7 DEF RecordsHold
  <2> QED
    BY <2>1, <2>9, <2>10, <2>11, <2>12
<1> QED
  BY <1>1, <1>2

LEMMA DevicesKeep ==
  ASSUME RecordsInv, NEW c \in Handler, FindDevice(c) \/ WriteDevice(c)
  PROVE  RecordsInv'
<1> USE DEF RecordsInv
<1>1. CASE FindDevice(c)
  <2> DEFINE call == [kind |-> "device", found |-> devices > 0]
  <2>1. call \in RecordCall /\ call.kind = "device" /\ (~call.found => devices = 0)
    <3>1. (devices > 0) \in BOOLEAN
      OBVIOUS
    <3>2. ~(devices > 0) => devices = 0
      BY DEF RecordsTypeOK
    <3>3. call \in [kind : {"device"}, found : BOOLEAN]
      BY <3>1
    <3> QED
      BY <3>2, <3>3 DEF RecordCall
  <2>2. Start(c, call) /\ UNCHANGED <<accounts, languages, password, devices, otp, histories>>
    BY <1>1 DEF FindDevice
  <2> HIDE DEF call
  <2>3. /\ handling' \in [Handler -> RecordCall \cup {Absent}] /\ handling'[c] = call
        /\ \A d \in Handler : d # c => handling'[d] = handling[d]
        /\ asked' \in Nat /\ crossed \subseteq crossed' /\ crossed' \subseteq Kind
        /\ "device" \notin crossed' => \A d \in Handler : ~Doing(d, "device")
        /\ Alone'
    BY <2>1, <2>2, Started
  <2>4. UNCHANGED <<accounts, languages, password, devices, otp, last, sent, spent, rightful>>
    BY <2>2 DEF histories
  <2>5. \A k : \A d \in Handler : d # c => (Doing(d, k)' <=> Doing(d, k))
    BY <2>3 DEF Doing
  <2>6. \A k \in Kind \ {"device"} : ~Doing(c, k)'
    BY <2>1, <2>3 DEF Doing
  <2>7. RecordsTypeOK'
    BY <2>3, <2>4 DEF RecordsTypeOK
  <2>8. SetsOnce' /\ LanguagesRead' /\ PasswordRead' /\ OtpRead'
    BY <2>3, <2>4, <2>5, <2>6 DEF SetsOnce, LanguagesRead, PasswordRead, OtpRead, Kind
  <2>9. DeviceRead'
    BY <2>1, <2>3, <2>4, <2>5 DEF DeviceRead
  <2>10. RecordsHold'
    BY <2>3, <2>4 DEF RecordsHold
  <2> QED
    BY <2>3, <2>7, <2>8, <2>9, <2>10
<1>2. CASE WriteDevice(c)
  <2>1. /\ handling' \in [Handler -> RecordCall \cup {Absent}] /\ handling'[c] = Absent
        /\ \A d \in Handler : d # c => handling'[d] = handling[d]
        /\ asked' \in Nat /\ crossed' = crossed
        /\ Alone'
    BY <1>2, Finished DEF WriteDevice
  <2>2. UNCHANGED <<accounts, languages, password, otp, last, sent, spent, rightful>>
    BY <1>2 DEF WriteDevice, histories
  <2>3. Doing(c, "device") /\ devices' = IF handling[c].found THEN devices ELSE devices + 1
    BY <1>2 DEF WriteDevice
  <2>4. devices' \in Nat
    BY <2>3 DEF RecordsTypeOK
  <2>5. "device" \notin crossed => devices' <= 1
    BY <2>3 DEF DeviceRead, RecordsHold, RecordsTypeOK
  <2>6. \A k : \A d \in Handler : Doing(d, k)' => d # c /\ Doing(d, k) /\ handling'[d] = handling[d]
    BY <2>1 DEF Doing
  <2>7. RecordsTypeOK'
    BY <2>1, <2>2, <2>4 DEF RecordsTypeOK
  <2>8. SetsOnce' /\ LanguagesRead' /\ PasswordRead' /\ OtpRead'
    BY <2>1, <2>2, <2>6 DEF SetsOnce, LanguagesRead, PasswordRead, OtpRead
  <2>9. DeviceRead'
    BY <2>1, <2>3, <2>6 DEF DeviceRead, Alone, Kind
  <2>10. RecordsHold'
    BY <2>1, <2>2, <2>5 DEF RecordsHold
  <2> QED
    BY <2>1, <2>7, <2>8, <2>9, <2>10
<1> QED
  BY <1>1, <1>2

LEMMA OtpKeeps ==
  ASSUME RecordsInv, NEW c \in Handler, ReadOtp(c) \/ SpendOtp(c)
  PROVE  RecordsInv'
<1> USE DEF RecordsInv
<1>1. CASE ReadOtp(c)
  <2> DEFINE call == [kind |-> "otp"]
  <2>1. call \in RecordCall /\ call.kind = "otp"
    BY DEF RecordCall
  <2>2. Start(c, call) /\ UNCHANGED <<accounts, languages, password, devices, otp, histories>> /\ otp
    BY <1>1 DEF ReadOtp
  <2> HIDE DEF call
  <2>3. /\ handling' \in [Handler -> RecordCall \cup {Absent}] /\ handling'[c] = call
        /\ \A d \in Handler : d # c => handling'[d] = handling[d]
        /\ asked' \in Nat /\ crossed \subseteq crossed' /\ crossed' \subseteq Kind
        /\ Alone'
    BY <2>1, <2>2, Started
  <2>4. UNCHANGED <<accounts, languages, password, devices, otp, last, sent, spent, rightful>>
    BY <2>2 DEF histories
  <2>5. \A k : \A d \in Handler : d # c => (Doing(d, k)' <=> Doing(d, k))
    BY <2>3 DEF Doing
  <2>6. \A k \in Kind \ {"otp"} : ~Doing(c, k)'
    BY <2>1, <2>3 DEF Doing
  <2>7. RecordsTypeOK'
    BY <2>3, <2>4 DEF RecordsTypeOK
  <2>8. SetsOnce' /\ LanguagesRead' /\ DeviceRead' /\ PasswordRead'
    BY <2>3, <2>4, <2>5, <2>6 DEF SetsOnce, LanguagesRead, DeviceRead, PasswordRead, Kind
  <2>9. OtpRead'
    BY <2>2, <2>3, <2>4 DEF OtpRead
  <2>10. RecordsHold'
    BY <2>3, <2>4 DEF RecordsHold
  <2> QED
    BY <2>3, <2>7, <2>8, <2>9, <2>10
<1>2. CASE SpendOtp(c)
  <2>1. /\ handling' \in [Handler -> RecordCall \cup {Absent}] /\ handling'[c] = Absent
        /\ \A d \in Handler : d # c => handling'[d] = handling[d]
        /\ asked' \in Nat /\ crossed' = crossed
        /\ Alone'
    BY <1>2, Finished DEF SpendOtp
  <2>2. UNCHANGED <<accounts, languages, password, devices, last, sent, rightful>>
    BY <1>2 DEF SpendOtp
  <2>3. Doing(c, "otp") /\ otp' = FALSE /\ spent' = spent + 1
    BY <1>2 DEF SpendOtp
  <2>4. spent' \in Nat
    BY <2>3 DEF RecordsTypeOK
  <2>5. "otp" \notin crossed => spent' <= sent
    BY <2>3 DEF OtpRead, RecordsTypeOK
  <2>6. \A k : \A d \in Handler : Doing(d, k)' => d # c /\ Doing(d, k) /\ handling'[d] = handling[d]
    BY <2>1 DEF Doing
  <2>7. RecordsTypeOK'
    BY <2>1, <2>2, <2>3, <2>4 DEF RecordsTypeOK
  <2>8. SetsOnce' /\ LanguagesRead' /\ DeviceRead' /\ PasswordRead'
    BY <2>1, <2>2, <2>6 DEF SetsOnce, LanguagesRead, DeviceRead, PasswordRead
  <2>9. OtpRead'
    BY <2>1, <2>3, <2>6 DEF OtpRead, Alone, Kind
  <2>10. RecordsHold'
    BY <2>1, <2>2, <2>5 DEF RecordsHold
  <2> QED
    BY <2>1, <2>7, <2>8, <2>9, <2>10
<1> QED
  BY <1>1, <1>2

(* The steps that no request is behind, and stuttering. *)
LEMMA OtherStepsKeep ==
  ASSUME RecordsInv, RemoveDevice \/ ForgotPassword \/ OtpExpires \/ UNCHANGED recordVars
  PROVE  RecordsInv'
<1> USE DEF RecordsInv
<1>1. CASE RemoveDevice
  <2>1. UNCHANGED <<accounts, languages, password, otp, handling, asked, crossed, last, sent, spent,
                    rightful>> /\ devices' = 0
    BY <1>1 DEF RemoveDevice, histories
  <2> QED
    BY <2>1 DEF RecordsTypeOK, Alone, SetsOnce, LanguagesRead, DeviceRead, PasswordRead, OtpRead,
                RecordsHold, Doing
<1>2. CASE ForgotPassword
  <2>1. /\ UNCHANGED <<accounts, languages, password, devices, handling, asked, crossed, last, spent,
                       rightful>>
        /\ otp' = TRUE /\ sent' = sent + 1
    BY <1>2 DEF ForgotPassword
  <2>2. RecordsTypeOK'
    BY <2>1 DEF RecordsTypeOK
  <2>3. OtpRead'
    BY <2>1 DEF OtpRead, RecordsHold, RecordsTypeOK, Doing
  <2>4. RecordsHold'
    BY <2>1 DEF RecordsHold, RecordsTypeOK
  <2> QED
    BY <2>1, <2>2, <2>3, <2>4 DEF Alone, SetsOnce, LanguagesRead, DeviceRead, PasswordRead, Doing
<1>3. CASE OtpExpires
  <2>1. /\ UNCHANGED <<accounts, languages, password, devices, handling, asked, crossed, last, sent,
                       spent, rightful>>
        /\ otp' = FALSE
    BY <1>3 DEF OtpExpires, histories
  <2> QED
    BY <2>1 DEF RecordsTypeOK, Alone, SetsOnce, LanguagesRead, DeviceRead, PasswordRead, OtpRead,
                RecordsHold, Doing
<1>4. CASE UNCHANGED recordVars
  BY <1>4 DEF recordVars, RecordsTypeOK, Alone, SetsOnce, LanguagesRead, DeviceRead, PasswordRead, OtpRead,
              RecordsHold, Doing
<1> QED
  BY <1>1, <1>2, <1>3, <1>4

-----------------------------------------------------------------------------
LEMMA RecordsStep == RecordsInv /\ [RecordsNext]_recordVars => RecordsInv'
<1> SUFFICES ASSUME RecordsInv, [RecordsNext]_recordVars PROVE RecordsInv'
  OBVIOUS
<1>1. CASE \E c \in Handler :
             \/ \E p \in Person : CheckEmail(c, p)
             \/ \E n \in Nickname : DrawNickname(c, n)
             \/ CreateAccount(c)
  BY <1>1, RegistrationsKeep
<1>2. CASE \E c \in Handler : (\E s \in SUBSET Language : DeleteLanguages(c, s)) \/ CreateLanguages(c)
  BY <1>2, LanguagesKeep
<1>3. CASE \E c \in Handler : VerifyPassword(c) \/ WritePassword(c)
  BY <1>3, PasswordKeeps
<1>4. CASE \E c \in Handler : FindDevice(c) \/ WriteDevice(c)
  BY <1>4, DevicesKeep
<1>5. CASE \E c \in Handler : ReadOtp(c) \/ SpendOtp(c)
  BY <1>5, OtpKeeps
<1>6. CASE RemoveDevice \/ ForgotPassword \/ OtpExpires \/ UNCHANGED recordVars
  BY <1>6, OtherStepsKeep
<1> QED
  BY <1>1, <1>2, <1>3, <1>4, <1>5, <1>6 DEF RecordsNext

(* However the requests of the accounts interleave, the index keeps        *)
(* addresses and nicknames apart and the last replacement of languages is  *)
(* all there, and a request that no other of its kind crossed leaves       *)
(* exactly what it was asked for (auth.service.ts:39-190,259-309,          *)
(* account.service.ts:80-200, device.service.ts:11-35).                    *)
THEOREM RecordsCorrect == RecordsSpec => []RecordsHold
<1>1. RecordsInv => RecordsHold
  BY DEF RecordsInv
<1> QED
  BY <1>1, RecordsStart, RecordsStep, PTL DEF RecordsSpec

================================================================================
