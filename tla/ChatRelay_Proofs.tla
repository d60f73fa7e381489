------------------------- MODULE ChatRelay_Proofs --------------------------
(***************************************************************************)
(* What holds of ChatRelay for any two parties and any number of messages  *)
(* and keys: the secrets of two open chats agree (SecretsAgree), each      *)
(* party gets the other's key (KeysReachBoth) and, while nothing goes      *)
(* wrong, the other's messages, once and in order (DeliveredInOrder).      *)
(***************************************************************************)
EXTENDS ChatRelay, SequenceTheorems, FiniteSetTheorems, WellFoundedInduction, TLAPS

-----------------------------------------------------------------------------
(* Numbers and sequences                                                   *)

LEMMA Smallest ==
  ASSUME NEW T \in SUBSET Nat, T # {}
  PROVE  \E x \in T : \A y \in T : x <= y
  <1> DEFINE Less == {ss \in Nat \X Nat : ss[1] < ss[2]}
  <1>1. IsWellFoundedOn(Less, Nat)
    BY NatLessThanWellFounded DEF OpToRel
  <1>2. PICK x \in T : \A y \in T : <<y, x>> \notin Less
    BY <1>1, WFMin
  <1>3. ASSUME NEW y \in T PROVE x <= y
    <2>1. x \in Nat /\ y \in Nat /\ <<y, x>> \notin Less
      BY <1>2
    <2>2. ~ (y < x)
      BY <2>1
    <2> QED
      BY <2>1, <2>2
  <1> QED
    BY <1>3

LEMMA Largest ==
  ASSUME NEW n \in Nat, NEW T \in SUBSET (1..n), T # {}
  PROVE  \E x \in T : \A y \in T : y <= x
  <1> DEFINE D == {n - x : x \in T}
  <1>1. D \in SUBSET Nat /\ D # {}
    <2>1. ASSUME NEW x \in T PROVE n - x \in Nat
      <3>1. x \in Nat /\ x <= n
        OBVIOUS
      <3> QED
        BY <3>1
    <2> QED
      BY <2>1
  <1>2. PICK d \in D : \A y \in D : d <= y
    BY <1>1, Smallest
  <1>3. PICK x \in T : d = n - x
    BY <1>2
  <1>4. ASSUME NEW y \in T PROVE y <= x
    <2>1. n - y \in D
      OBVIOUS
    <2>2. n - x <= n - y /\ x \in Int /\ y \in Int
      BY <1>2, <1>3, <2>1
    <2> QED
      BY <2>2
  <1> QED
    BY <1>4

Without(s, kind) == \A i \in DOMAIN s : s[i].kind # kind

(* The last key of a queue is k. *)
EndsWith(s, k) ==
  \A i \in DOMAIN s :
    s[i].kind = "key" /\ (\A j \in DOMAIN s : s[j].kind = "key" => j <= i) => s[i].key = k

(* Every key of a queue stands behind a join. *)
Led(s) == \A i \in DOMAIN s : s[i].kind = "key" => \E j \in 1..(i - 1) : s[j].kind = "join"

JoinsTwice(s) == \E i, j \in DOMAIN s : i # j /\ s[i].kind = "join" /\ s[j].kind = "join"

LEMMA Emptied ==
  ASSUME NEW k
  PROVE  /\ Without(<<>>, "key") /\ Without(<<>>, "join") /\ EndsWith(<<>>, k)
         /\ Led(<<>>) /\ ~JoinsTwice(<<>>)
  BY DEF Without, EndsWith, Led, JoinsTwice

LEMMA Appended ==
  ASSUME NEW S, NEW s \in Seq(S), NEW e \in S
  PROVE  /\ \A kind : Without(Append(s, e), kind) <=> Without(s, kind) /\ e.kind # kind
         /\ e.kind # "key" => \A k : EndsWith(s, k) => EndsWith(Append(s, e), k)
         /\ e.kind = "key" => EndsWith(Append(s, e), e.key)
         /\ e.kind # "key" => (Led(s) <=> Led(Append(s, e)))
         /\ e.kind = "key" /\ ~Without(s, "join") /\ Led(s) => Led(Append(s, e))
         /\ JoinsTwice(s) => JoinsTwice(Append(s, e))
         /\ e.kind = "join" /\ ~Without(s, "join") => JoinsTwice(Append(s, e))
         /\ e.kind # "join" => (JoinsTwice(s) <=> JoinsTwice(Append(s, e)))
  <1> DEFINE t == Append(s, e)
  <1>1. /\ Len(s) \in Nat /\ DOMAIN s = 1..Len(s) /\ DOMAIN t = 1..(Len(s) + 1)
        /\ \A i \in 1..Len(s) : t[i] = s[i]
        /\ t[Len(s) + 1] = e
    BY AppendProperties, LenProperties
  <1> HIDE DEF t
  <1>2. \A kind : Without(t, kind) <=> Without(s, kind) /\ e.kind # kind
    BY <1>1 DEF Without
  <1>3. e.kind # "key" => \A k : EndsWith(s, k) => EndsWith(t, k)
    BY <1>1 DEF EndsWith
  <1>4. e.kind = "key" => EndsWith(t, e.key)
    BY <1>1 DEF EndsWith
  <1>5. e.kind # "key" => (Led(s) <=> Led(t))
    BY <1>1 DEF Led
  <1>6. e.kind = "key" /\ ~Without(s, "join") /\ Led(s) => Led(t)
    BY <1>1 DEF Led, Without
  <1>7. JoinsTwice(s) => JoinsTwice(t)
    BY <1>1 DEF JoinsTwice
  <1>8. e.kind = "join" /\ ~Without(s, "join") => JoinsTwice(t)
    BY <1>1 DEF JoinsTwice, Without
  <1>9. e.kind # "join" => (JoinsTwice(s) <=> JoinsTwice(t))
    BY <1>1 DEF JoinsTwice
  <1> QED
    BY <1>2, <1>3, <1>4, <1>5, <1>6, <1>7, <1>8, <1>9 DEF t

LEMMA Taken ==
  ASSUME NEW S, NEW s \in Seq(S), s # <<>>
  PROVE  LET h == Head(s)
             t == Tail(s)
         IN /\ \A kind : Without(s, kind) <=> Without(t, kind) /\ h.kind # kind
            /\ \A k : EndsWith(s, k) => EndsWith(t, k)
            /\ \A k : EndsWith(s, k) /\ h.kind = "key" /\ Without(t, "key") => h.key = k
            /\ Led(s) => h.kind # "key"
            /\ Led(s) /\ h.kind # "join" => Led(t)
            /\ JoinsTwice(s) => ~Without(t, "join")
            /\ JoinsTwice(s) /\ h.kind # "join" => JoinsTwice(t)
  <1> DEFINE t == Tail(s)
             h == Head(s)
  <1>1. /\ Len(s) \in Nat /\ Len(s) >= 1 /\ DOMAIN s = 1..Len(s) /\ DOMAIN t = 1..(Len(s) - 1)
        /\ \A i \in 1..(Len(s) - 1) : t[i] = s[i + 1]
        /\ h = s[1]
    BY HeadTailProperties, LenProperties
  <1> HIDE DEF t, h
  <1>2. \A i \in DOMAIN s : i = 1 \/ (i - 1 \in DOMAIN t /\ s[i] = t[i - 1])
    BY <1>1
  <1>3. ASSUME NEW kind PROVE Without(s, kind) <=> Without(t, kind) /\ h.kind # kind
    <2>1. Without(s, kind) => Without(t, kind) /\ h.kind # kind
      <3>1. 1 \in DOMAIN s /\ \A i \in DOMAIN t : i + 1 \in DOMAIN s /\ t[i] = s[i + 1]
        BY <1>1
      <3> QED
        BY <1>1, <3>1 DEF Without
    <2>2. ASSUME Without(t, kind), h.kind # kind, NEW i \in DOMAIN s PROVE s[i].kind # kind
      BY <1>1, <1>2, <2>2 DEF Without
    <2> QED
      BY <2>1, <2>2 DEF Without
  <1>4. ASSUME NEW k, EndsWith(s, k) PROVE EndsWith(t, k)
    <2>1. SUFFICES ASSUME NEW i \in DOMAIN t, t[i].kind = "key",
                          \A j \in DOMAIN t : t[j].kind = "key" => j <= i
                   PROVE  t[i].key = k
      BY DEF EndsWith
    <2>2. i + 1 \in DOMAIN s /\ s[i + 1] = t[i]
      BY <1>1
    <2>3. ASSUME NEW j \in DOMAIN s, s[j].kind = "key" PROVE j <= i + 1
      <3>1. CASE j = 1
        BY <1>1, <3>1
      <3>2. CASE j # 1
        <4>1. j - 1 \in DOMAIN t /\ t[j - 1].kind = "key"
          BY <1>2, <2>3, <3>2
        <4>2. j - 1 <= i
          BY <2>1, <4>1
        <4> QED
          BY <1>1, <4>2
      <3> QED
        BY <3>1, <3>2
    <2> QED
      BY <1>4, <2>1, <2>2, <2>3 DEF EndsWith
  <1>5. ASSUME NEW k, EndsWith(s, k), h.kind = "key", Without(t, "key") PROVE h.key = k
    <2>1. \A j \in DOMAIN s : s[j].kind = "key" => j = 1
      BY <1>2, <1>5 DEF Without
    <2> QED
      BY <1>1, <1>5, <2>1 DEF EndsWith
  <1>6. Led(s) => h.kind # "key"
    BY <1>1 DEF Led
  <1>7. ASSUME Led(s), h.kind # "join" PROVE Led(t)
    <2>1. SUFFICES ASSUME NEW i \in DOMAIN t, t[i].kind = "key"
                   PROVE  \E j \in 1..(i - 1) : t[j].kind = "join"
      BY DEF Led
    <2>2. i + 1 \in DOMAIN s /\ s[i + 1].kind = "key"
      BY <1>1, <2>1
    <2>3. PICK j \in 1..((i + 1) - 1) : s[j].kind = "join"
      BY <1>7, <2>2 DEF Led
    <2>4. j # 1
      BY <1>1, <1>7, <2>3
    <2>5. j - 1 \in 1..(i - 1) /\ t[j - 1] = s[j]
      BY <1>1, <2>3, <2>4
    <2> QED
      BY <2>3, <2>5
  <1>8. JoinsTwice(s) => ~Without(t, "join")
    BY <1>1, <1>2 DEF JoinsTwice, Without
  <1>9. ASSUME JoinsTwice(s), h.kind # "join" PROVE JoinsTwice(t)
    <2>1. PICK i \in DOMAIN s, j \in DOMAIN s : i # j /\ s[i].kind = "join" /\ s[j].kind = "join"
      BY <1>9 DEF JoinsTwice
    <2>2. i # 1 /\ j # 1
      BY <1>1, <1>9, <2>1
    <2>3. /\ i - 1 \in DOMAIN t /\ j - 1 \in DOMAIN t /\ i - 1 # j - 1
          /\ t[i - 1].kind = "join" /\ t[j - 1].kind = "join"
      BY <1>1, <1>2, <2>1, <2>2
    <2> QED
      BY <2>3 DEF JoinsTwice
  <1> QED
    BY <1>3, <1>4, <1>5, <1>6, <1>7, <1>8, <1>9 DEF t, h

(* What an app emits at once. *)
LEMMA EmittedOne ==
  ASSUME NEW S, NEW s \in Seq(S), NEW a \in S
  PROVE  s \o <<a>> = Append(s, a)
  BY AppendIsConcat

LEMMA EmittedTwo ==
  ASSUME NEW S, NEW s \in Seq(S), NEW a \in S, NEW b \in S
  PROVE  s \o <<a, b>> = Append(Append(s, a), b)
  <1>1. <<a>> \in Seq(S) /\ <<b>> \in Seq(S) /\ Append(s, a) \in Seq(S)
    BY AppendProperties
  <1>3. <<a>> \o <<b>> = <<a, b>>
    <2>1. /\ Len(<<a>> \o <<b>>) = 2 /\ <<a>> \o <<b>> \in Seq(S)
          /\ \A i \in 1..2 : (<<a>> \o <<b>>)[i] = IF i <= 1 THEN <<a>>[i] ELSE <<b>>[i - 1]
      BY <1>1, ConcatProperties
    <2>2. <<a, b>> \in Seq(S) /\ Len(<<a, b>>) = 2
      OBVIOUS
    <2>3. /\ (<<a>> \o <<b>>)[1] = <<a, b>>[1] /\ (<<a>> \o <<b>>)[2] = <<a, b>>[2]
      BY <2>1
    <2>4. \A i \in 1..Len(<<a>> \o <<b>>) : (<<a>> \o <<b>>)[i] = <<a, b>>[i]
      BY <2>1, <2>3
    <2>5. Len(<<a>> \o <<b>>) = Len(<<a, b>>)
      BY <2>1, <2>2
    <2> QED
      BY <2>1, <2>2, <2>4, <2>5, SeqEqual
  <1>2. (s \o <<a>>) \o <<b>> = s \o (<<a>> \o <<b>>)
    BY <1>1, ConcatAssociative
  <1> QED
    BY <1>1, <1>2, <1>3, AppendIsConcat

-----------------------------------------------------------------------------
(* Counting                                                                *)

(* How many members of I are at most i. *)
Rank(I, i) == Cardinality({j \in I : j <= i})

(* A finite set of numbers is counted off by the ranks of its members. *)
LEMMA Ranks ==
  ASSUME NEW I \in SUBSET Nat, IsFiniteSet(I)
  PROVE  /\ Cardinality(I) \in Nat
         /\ \A i \in I : Rank(I, i) \in 1..Cardinality(I)
         /\ \A i, j \in I : i < j => Rank(I, i) < Rank(I, j)
         /\ \A n \in 1..Cardinality(I) : \E i \in I : Rank(I, i) = n
  <1>1. Cardinality(I) \in Nat
    BY FS_CardinalityType
  <1>2. ASSUME NEW i \in I
        PROVE  /\ IsFiniteSet({j \in I : j <= i}) /\ Rank(I, i) \in Nat
               /\ Rank(I, i) <= Cardinality(I) /\ Rank(I, i) # 0
    <2>1. {j \in I : j <= i} \in SUBSET I /\ i \in {j \in I : j <= i}
      OBVIOUS
    <2>2. /\ IsFiniteSet({j \in I : j <= i})
          /\ Cardinality({j \in I : j <= i}) <= Cardinality(I)
      BY <2>1, FS_Subset
    <2>3. Cardinality({j \in I : j <= i}) \in Nat
      BY <2>2, FS_CardinalityType
    <2>4. Cardinality({j \in I : j <= i}) # 0
      BY <2>1, <2>2, FS_EmptySet
    <2> QED
      BY <2>2, <2>3, <2>4 DEF Rank
  <1>3. ASSUME NEW i \in I PROVE Rank(I, i) \in 1..Cardinality(I)
    <2>1. Rank(I, i) \in Nat /\ Rank(I, i) <= Cardinality(I) /\ Rank(I, i) # 0
      BY <1>2
    <2> QED
      BY <1>1, <2>1
  <1>4. ASSUME NEW i \in I, NEW j \in I, i < j PROVE Rank(I, i) < Rank(I, j)
    <2> DEFINE A == {k \in I : k <= i}
               B == {k \in I : k <= j}
    <2>1. A \in SUBSET B /\ j \in B /\ j \notin A
      <3>1. i \in Nat /\ j \in Nat /\ \A k \in I : k \in Nat
        OBVIOUS
      <3>2. \A k \in I : k <= i => k <= j
        BY <1>4, <3>1
      <3>3. ~(j <= i) /\ j <= j
        BY <1>4, <3>1
      <3> QED
        BY <3>2, <3>3
    <2>2. IsFiniteSet(B) /\ Rank(I, i) \in Nat /\ Rank(I, j) \in Nat
      BY <1>2
    <2>3. Cardinality(A) <= Cardinality(B) /\ (Cardinality(B) = Cardinality(A) => B = A)
      BY <2>1, <2>2, FS_Subset
    <2>4. Cardinality(A) # Cardinality(B)
      BY <2>1, <2>3
    <2>5. Rank(I, i) = Cardinality(A) /\ Rank(I, j) = Cardinality(B)
      BY DEF Rank
    <2> HIDE DEF A, B
    <2> QED
      BY <2>2, <2>3, <2>4, <2>5
  <1>5. ASSUME NEW n \in 1..Cardinality(I) PROVE \E i \in I : Rank(I, i) = n
    <2>1. PICK f : f = [i \in I |-> Rank(I, i)]
      OBVIOUS
    <2>2. f \in [I -> 1..Cardinality(I)]
      BY <1>3, <2>1
    <2>3. \A i, j \in I : f[i] = f[j] => i = j
      <3>1. ASSUME NEW i \in I, NEW j \in I, f[i] = f[j] PROVE i = j
        <4>1. Rank(I, i) = Rank(I, j) /\ Rank(I, i) \in Nat /\ i \in Nat /\ j \in Nat
          BY <1>2, <2>1, <3>1
        <4>2. ~(i < j) /\ ~(j < i)
          BY <1>4, <4>1
        <4> QED
          BY <4>1, <4>2
      <3> QED
        BY <3>1
    <2>4. f \in Injection(I, 1..Cardinality(I))
      BY <2>2, <2>3 DEF Injection, IsInjective
    <2>5. IsFiniteSet(1..Cardinality(I)) /\ Cardinality(1..Cardinality(I)) = Cardinality(I)
      BY <1>1, FS_Interval
    <2>6. f \in Surjection(I, 1..Cardinality(I))
      BY <2>4, <2>5, FS_Injection
    <2>7. PICK i \in I : f[i] = n
      BY <2>6 DEF Surjection
    <2> QED
      BY <2>1, <2>7
  <1> QED
    BY <1>1, <1>3, <1>4, <1>5

(* The n-th member. *)
Nth(I, n) == CHOOSE i \in I : Rank(I, i) = n

LEMMA NthRank ==
  ASSUME NEW I \in SUBSET Nat, IsFiniteSet(I)
  PROVE  /\ \A n \in 1..Cardinality(I) : Nth(I, n) \in I /\ Rank(I, Nth(I, n)) = n
         /\ \A i \in I : Nth(I, Rank(I, i)) = i
  <1>1. \A n \in 1..Cardinality(I) : Nth(I, n) \in I /\ Rank(I, Nth(I, n)) = n
    BY Ranks DEF Nth
  <1>2. ASSUME NEW i \in I PROVE Nth(I, Rank(I, i)) = i
    <2>1. PICK j : j = Nth(I, Rank(I, i))
      OBVIOUS
    <2>2. j \in I /\ Rank(I, j) = Rank(I, i)
      BY <1>1, <2>1, Ranks
    <2>3. ~(i < j) /\ ~(j < i) /\ Rank(I, i) \in Int
      BY <2>2, Ranks
    <2> QED
      BY <2>1, <2>2, <2>3
  <1> QED
    BY <1>1, <1>2

LEMMA KeptSeq ==
  ASSUME NEW S, NEW s \in Seq(S), NEW I \in SUBSET (DOMAIN s)
  PROVE  /\ IsFiniteSet(I) /\ I \in SUBSET Nat
         /\ Kept(s, I) \in Seq(S) /\ Len(Kept(s, I)) = Cardinality(I)
         /\ \A n \in 1..Cardinality(I) : Nth(I, n) \in I /\ Kept(s, I)[n] = s[Nth(I, n)]
  <1>1. DOMAIN s = 1..Len(s) /\ Len(s) \in Nat
    BY LenProperties
  <1>2. I \in SUBSET Nat /\ IsFiniteSet(1..Len(s)) /\ I \in SUBSET (1..Len(s))
    <2>1. PICK n \in Nat : n = Len(s)
      BY <1>1
    <2>2. IsFiniteSet(1..n)
      BY FS_Interval
    <2>3. I \in SUBSET (1..n)
      BY <1>1, <2>1
    <2> QED
      BY <2>1, <2>2, <2>3
  <1>3. IsFiniteSet(I)
    BY <1>2, FS_Subset
  <1>4. Cardinality(I) \in Nat /\ \A n \in 1..Cardinality(I) : Nth(I, n) \in I
    BY <1>2, <1>3, Ranks, NthRank
  <1>5. Kept(s, I) = [n \in 1..Cardinality(I) |-> s[Nth(I, n)]]
    BY DEF Kept, Nth, Rank
  <1>6. \A n \in 1..Cardinality(I) : s[Nth(I, n)] \in S
    BY <1>1, <1>4, ElementOfSeq
  <1>7. Kept(s, I) \in Seq(S) /\ Len(Kept(s, I)) = Cardinality(I)
    BY <1>4, <1>5, <1>6
  <1> QED
    BY <1>2, <1>3, <1>4, <1>5, <1>7

(* The positions of s that hold an element of E, and the numbers that num  *)
(* gives those elements.                                                   *)
At(s, E) == {i \in DOMAIN s : s[i] \in E}
Numbers(s, E, num) == {num[s[i]] : i \in At(s, E)}
Rising(s, E, num) == \A i, j \in At(s, E) : i < j => num[s[i]] < num[s[j]]

(* Rising numbers are counted like their positions. *)
LEMMA Counted ==
  ASSUME NEW S, NEW s \in Seq(S), NEW E, NEW num \in [E -> Nat], Rising(s, E, num)
  PROVE  LET I == At(s, E)
             X == Numbers(s, E, num)
         IN /\ X \in SUBSET Nat /\ IsFiniteSet(X) /\ Cardinality(X) = Cardinality(I)
            /\ \A n \in 1..Cardinality(I) : num[s[Nth(I, n)]] = Nth(X, n)
  <1> DEFINE I == At(s, E)
             X == Numbers(s, E, num)
  <1>1. I \in SUBSET (DOMAIN s) /\ \A i \in I : s[i] \in E
    BY DEF At
  <1>2. IsFiniteSet(I) /\ I \in SUBSET Nat
    BY <1>1, KeptSeq
  <1>3. PICK f : f = [i \in I |-> num[s[i]]]
    OBVIOUS
  <1>4. X = {f[i] : i \in I} /\ f \in [I -> Nat]
    BY <1>1, <1>3 DEF Numbers
  <1>5. \A i, j \in I : i < j => f[i] < f[j]
    BY <1>3 DEF Rising
  <1> HIDE DEF I, X
  <1>6. ASSUME NEW i \in I, NEW j \in I PROVE i <= j <=> f[i] <= f[j]
    <2>1. i \in Nat /\ j \in Nat /\ f[i] \in Nat /\ f[j] \in Nat
      BY <1>2, <1>4
    <2>2. (i < j => f[i] < f[j]) /\ (j < i => f[j] < f[i])
      BY <1>5
    <2>3. i = j => f[i] = f[j]
      OBVIOUS
    <2> QED
      BY <2>1, <2>2, <2>3
  <1>7. ASSUME NEW A \in SUBSET I PROVE ExistsBijection(A, {f[i] : i \in A})
    <2>1. PICK g : g = [i \in A |-> f[i]]
      OBVIOUS
    <2>2. g \in [A -> {f[i] : i \in A}]
      BY <2>1
    <2>3. ASSUME NEW i \in A, NEW j \in A, g[i] = g[j] PROVE i = j
      <3>1. i \in Nat /\ j \in Nat /\ f[i] \in Nat /\ f[j] \in Nat /\ f[i] = f[j]
        BY <1>2, <1>4, <2>1, <2>3
      <3>2. i <= j /\ j <= i
        BY <1>6, <3>1
      <3> QED
        BY <3>1, <3>2
    <2>4. \A x \in {f[i] : i \in A} : \E i \in A : g[i] = x
      BY <2>1
    <2>5. g \in Injection(A, {f[i] : i \in A})
      BY <2>2, <2>3 DEF Injection, IsInjective
    <2>6. g \in Surjection(A, {f[i] : i \in A})
      BY <2>2, <2>4 DEF Surjection
    <2> QED
      BY <2>5, <2>6 DEF ExistsBijection, Bijection
  <1>8. X \in SUBSET Nat /\ IsFiniteSet(X) /\ Cardinality(X) = Cardinality(I)
    <2>1. ExistsBijection(I, X)
      BY <1>4, <1>7
    <2> QED
      BY <1>2, <1>4, <2>1, FS_Bijection
  <1>9. ASSUME NEW i \in I PROVE Rank(X, f[i]) = Rank(I, i)
    <2> DEFINE A == {j \in I : j <= i}
    <2>1. {x \in X : x <= f[i]} = {f[j] : j \in A}
      BY <1>4, <1>6
    <2>2. A \in SUBSET I
      OBVIOUS
    <2>3. IsFiniteSet(A)
      BY <1>2, <2>2, FS_Subset
    <2>4. Cardinality({f[j] : j \in A}) = Cardinality(A)
      <3> HIDE DEF A
      <3>1. ExistsBijection(A, {f[j] : j \in A})
        BY <1>7, <2>2
      <3> QED
        BY <2>3, <3>1, FS_Bijection
    <2> QED
      BY <2>1, <2>4 DEF Rank
  <1>10. ASSUME NEW n \in 1..Cardinality(I) PROVE f[Nth(I, n)] = Nth(X, n)
    <2>1. PICK i \in I : i = Nth(I, n) /\ Rank(I, i) = n
      BY <1>2, NthRank
    <2>2. f[i] \in X /\ Rank(X, f[i]) = n
      BY <1>4, <1>9, <2>1
    <2>3. Nth(X, Rank(X, f[i])) = f[i]
      BY <1>8, <2>2, NthRank
    <2> QED
      BY <2>1, <2>2, <2>3
  <1>11. ASSUME NEW n \in 1..Cardinality(I) PROVE num[s[Nth(I, n)]] = Nth(X, n)
    <2>1. Nth(I, n) \in I
      BY <1>2, NthRank
    <2> QED
      BY <1>3, <1>10, <2>1
  <1> QED
    BY <1>8, <1>11 DEF I, X

(* The first members of a set of numbers. *)
LEMMA First ==
  ASSUME NEW Y \in SUBSET Nat, IsFiniteSet(Y), NEW X \in SUBSET Y,
         \A x \in X, y \in Y : y <= x => y \in X
  PROVE  /\ Cardinality(X) \in Nat /\ Cardinality(Y) \in Nat
         /\ Cardinality(X) <= Cardinality(Y)
         /\ \A n \in 1..Cardinality(X) : Nth(X, n) = Nth(Y, n)
  <1>1. IsFiniteSet(X) /\ Cardinality(X) <= Cardinality(Y) /\ X \in SUBSET Nat
    BY FS_Subset
  <1>2. Cardinality(X) \in Nat /\ Cardinality(Y) \in Nat
    BY <1>1, FS_CardinalityType
  <1>3. ASSUME NEW n \in 1..Cardinality(X) PROVE Nth(X, n) = Nth(Y, n)
    <2>1. PICK x \in X : x = Nth(X, n) /\ Rank(X, x) = n
      BY <1>1, NthRank
    <2>2. {z \in X : z <= x} = {z \in Y : z <= x}
      OBVIOUS
    <2>3. Rank(Y, x) = n
      BY <2>1, <2>2 DEF Rank
    <2> QED
      BY <2>1, <2>3, NthRank
  <1> QED
    BY <1>1, <1>2, <1>3

LEMMA Lengthened ==
  ASSUME NEW S, NEW s \in Seq(S), NEW e \in S, NEW E, NEW num \in [E -> Nat]
  PROVE  LET t == Append(s, e)
         IN /\ Numbers(t, E, num) = IF e \in E THEN Numbers(s, E, num) \cup {num[e]}
                                    ELSE Numbers(s, E, num)
            /\ /\ Rising(s, E, num)
               /\ e \in E => \A x \in Numbers(s, E, num) : x < num[e]
               => Rising(t, E, num)
  <1> DEFINE t == Append(s, e)
  <1>1. /\ Len(s) \in Nat /\ DOMAIN s = 1..Len(s) /\ DOMAIN t = 1..(Len(s) + 1)
        /\ \A i \in 1..Len(s) : t[i] = s[i]
        /\ t[Len(s) + 1] = e
    BY AppendProperties, LenProperties
  <1> HIDE DEF t
  <1>2. At(t, E) = IF e \in E THEN At(s, E) \cup {Len(s) + 1} ELSE At(s, E)
    <2>1. \A i : i \in 1..(Len(s) + 1) <=> i \in 1..Len(s) \/ i = Len(s) + 1
      BY <1>1
    <2>2. \A i : i \in At(t, E) <=> i \in At(s, E) \/ (i = Len(s) + 1 /\ e \in E)
      BY <1>1, <2>1 DEF At
    <2> QED
      BY <2>2
  <1>3. \A i \in At(s, E) : t[i] = s[i] /\ i < Len(s) + 1 /\ ~(Len(s) + 1 < i) /\ i \in Nat
    BY <1>1 DEF At
  <1>4. Numbers(t, E, num) = IF e \in E THEN Numbers(s, E, num) \cup {num[e]}
                             ELSE Numbers(s, E, num)
    BY <1>1, <1>2, <1>3 DEF Numbers
  <1>5. ASSUME Rising(s, E, num), e \in E => \A x \in Numbers(s, E, num) : x < num[e]
        PROVE  Rising(t, E, num)
    <2>1. SUFFICES ASSUME NEW i \in At(t, E), NEW j \in At(t, E), i < j
                   PROVE  num[t[i]] < num[t[j]]
      BY DEF Rising
    <2>2. CASE i \in At(s, E) /\ j \in At(s, E)
      BY <1>3, <1>5, <2>1, <2>2 DEF Rising
    <2>3. CASE i \in At(s, E) /\ j = Len(s) + 1 /\ e \in E
      <3>1. num[s[i]] \in Numbers(s, E, num)
        BY <2>3 DEF Numbers
      <3> QED
        BY <1>1, <1>3, <1>5, <2>3, <3>1
    <2>4. ~(i = Len(s) + 1)
      <3>1. Len(s) + 1 \in Nat
        BY <1>1
      <3> QED
        BY <1>1, <1>2, <1>3, <2>1, <3>1
    <2> QED
      BY <1>2, <2>2, <2>3, <2>4
  <1> QED
    BY <1>4, <1>5 DEF t

LEMMA Shortened ==
  ASSUME NEW S, NEW s \in Seq(S), s # <<>>, NEW E, NEW num \in [E -> Nat]
  PROVE  LET h == Head(s)
             t == Tail(s)
         IN /\ Numbers(s, E, num) = IF h \in E THEN Numbers(t, E, num) \cup {num[h]}
                                    ELSE Numbers(t, E, num)
            /\ Rising(s, E, num) =>
                 /\ Rising(t, E, num)
                 /\ h \in E => \A x \in Numbers(t, E, num) : num[h] < x
  <1> DEFINE t == Tail(s)
             h == Head(s)
  <1>1. /\ Len(s) \in Nat /\ Len(s) >= 1 /\ DOMAIN s = 1..Len(s) /\ DOMAIN t = 1..(Len(s) - 1)
        /\ \A i \in 1..(Len(s) - 1) : t[i] = s[i + 1]
        /\ h = s[1]
    BY HeadTailProperties, LenProperties
  <1> HIDE DEF t, h
  <1>2. \A i \in At(t, E) : i + 1 \in At(s, E) /\ t[i] = s[i + 1] /\ i \in Nat /\ i >= 1
    BY <1>1 DEF At
  <1>3. ASSUME NEW i \in At(s, E)
        PROVE  (i = 1 /\ h \in E) \/ (i - 1 \in At(t, E) /\ s[i] = t[i - 1])
    BY <1>1 DEF At
  <1>4. h \in E => 1 \in At(s, E)
    BY <1>1 DEF At
  <1>5. Numbers(s, E, num) = IF h \in E THEN Numbers(t, E, num) \cup {num[h]}
                             ELSE Numbers(t, E, num)
    <2>1. ASSUME NEW x \in Numbers(t, E, num) PROVE x \in Numbers(s, E, num)
      BY <1>2 DEF Numbers
    <2>2. h \in E => num[h] \in Numbers(s, E, num)
      BY <1>1, <1>4 DEF Numbers
    <2>3. ASSUME NEW x \in Numbers(s, E, num)
          PROVE  x \in Numbers(t, E, num) \/ (h \in E /\ x = num[h])
      <3>1. PICK i \in At(s, E) : x = num[s[i]]
        BY DEF Numbers
      <3> QED
        BY <1>1, <1>3, <3>1 DEF Numbers
    <2> QED
      BY <2>1, <2>2, <2>3
  <1>6. ASSUME Rising(s, E, num) PROVE Rising(t, E, num)
    <2>1. SUFFICES ASSUME NEW i \in At(t, E), NEW j \in At(t, E), i < j
                   PROVE  num[t[i]] < num[t[j]]
      BY DEF Rising
    <2>2. i + 1 \in At(s, E) /\ j + 1 \in At(s, E) /\ i + 1 < j + 1
      BY <1>2, <2>1
    <2>3. num[s[i + 1]] < num[s[j + 1]]
      BY <1>6, <2>2 DEF Rising
    <2> QED
      BY <1>2, <2>3
  <1>7. ASSUME Rising(s, E, num), h \in E, NEW x \in Numbers(t, E, num) PROVE num[h] < x
    <2>1. PICK i \in At(t, E) : x = num[t[i]]
      BY DEF Numbers
    <2>2. i + 1 \in At(s, E) /\ 1 < i + 1
      BY <1>2
    <2>3. num[s[1]] < num[s[i + 1]]
      BY <1>4, <1>7, <2>2 DEF Rising
    <2> QED
      BY <1>1, <1>2, <2>1, <2>3
  <1> QED
    BY <1>5, <1>6, <1>7 DEF t, h

-----------------------------------------------------------------------------
(* Types                                                                   *)

UpEvent ==
  [kind: {"join"}, after: Nat \cup {None}] \cup [kind: {"key"}, key: KeyPair]
    \cup [kind: {"send"}, m: Message]
DownEvent ==
  [kind: {"key"}, key: KeyPair] \cup [kind: {"message"}, m: Message, index: Int]
    \cup [kind: {"sync"}, ms: Seq(Message), from: Int] \cup [kind: {"ack"}, index: Int]
    \cup [kind: {"ended"}]
Relayed == [m: Message, index: Int]

(* The record of useChat. *)
Shape(a) ==
  a = [screen |-> a.screen, rerun |-> a.rerun, deleting |-> a.deleting, ended |-> a.ended,
       key |-> a.key, secret |-> a.secret, last |-> a.last, pending |-> a.pending,
       shown |-> a.shown, made |-> a.made]

AppOK(a) ==
  /\ a.screen \in {"closed", "reading", "writing", "ready"}
  /\ a.rerun \in BOOLEAN /\ a.deleting \in BOOLEAN /\ a.ended \in BOOLEAN
  /\ a.key \in KeyPair \cup {None} /\ a.secret \in Secret \cup {None}
  /\ a.last \in Int /\ a.made \in 0..KeyBound
  /\ a.pending \in Seq(Message) /\ a.shown \in Seq(1..MessageBound)
  /\ a.screen \in {"closed", "reading"} => a.key = None
  /\ a.screen \in {"writing", "ready"} => a.key # None
  /\ a.screen = "closed" => ~a.rerun
  /\ a.key = None => a.secret = None

Apps ==
  /\ app = [p \in Party |-> app[p]]
  /\ \A p \in Party : Shape(app[p]) /\ AppOK(app[p])

Queues ==
  /\ up \in [Party -> Seq(UpEvent)] /\ down \in [Party -> Seq(DownEvent)]
  /\ msgs \in Seq(Message) /\ Len(msgs) <= MaxMessages /\ relayq \in Seq(Relayed)
  /\ log \in Seq(Message)

JoinRecord == [step: {"none", "check", "sync"}, after: Nat]

Server ==
  /\ store \in [Party -> KeyPair \cup {None}]
  /\ sock \in [Party -> {"down", "new", "accepted", "up"}]
  /\ joining \in [Party -> JoinRecord]
  /\ room \subseteq Party /\ member \subseteq Party /\ away \subseteq Party
  /\ keys \in [Party -> KeyPair \cup {None}]
  /\ over \in {"no", "ending", "yes"} /\ typed \in 0..MessageBound
  /\ mishaps \subseteq Allow
  /\ over # "no" => "end" \in mishaps
  /\ \A p \in Party : p \in room \/ joining[p] # NoJoin => Connected(p)

Base == Apps /\ Queues /\ Server

LEMMA Constants ==
  /\ MessageBound \in Nat /\ KeyBound \in Nat /\ KeyBound >= 1 /\ MaxMessages \in Nat
  /\ MaxMessages >= 1
  /\ None \notin KeyPair /\ None \notin Secret /\ None \notin Party
  /\ \A p \in Party : Other(p) \in Party /\ Other(p) # p /\ \A q \in Party : q = p \/ q = Other(p)
  <1>1. PICK a \in Party, b \in Party : a # b /\ Party = {a, b}
    BY RelayConstants
  <1>2. ASSUME NEW p \in Party
        PROVE  Other(p) \in Party /\ Other(p) # p /\ \A q \in Party : q = p \/ q = Other(p)
    <2>1. \E q \in Party : q # p
      BY <1>1
    <2>2. Other(p) \in Party /\ Other(p) # p
      BY <2>1 DEF Other
    <2> QED
      BY <1>1, <2>2
  <1> QED
    BY <1>2, RelayConstants

LEMMA BaseInit == Init => Base
  <1> SUFFICES ASSUME Init PROVE Base
    OBVIOUS
  <1>1. Apps
    <2>1. \A p \in Party : app[p] = Closed(0)
      BY DEF Init
    <2>2. Shape(Closed(0)) /\ AppOK(Closed(0))
      BY Constants DEF Shape, AppOK, Closed
    <2> QED
      BY <2>1, <2>2 DEF Apps, Init
  <1>2. Queues
    <2>1. <<>> \in Seq(UpEvent) /\ <<>> \in Seq(DownEvent) /\ <<>> \in Seq(Message)
          /\ <<>> \in Seq(Relayed) /\ Len(<<>>) <= MaxMessages
      BY Constants
    <2> QED
      BY <2>1 DEF Init, Queues
  <1>3. NoJoin \in JoinRecord
    BY DEF NoJoin, JoinRecord
  <1>4. Server
    BY <1>3, Constants DEF Init, Server
  <1> QED
    BY <1>1, <1>2, <1>4 DEF Base

LEMMA AppKept ==
  ASSUME Apps, NEW p \in Party, NEW b, Shape(b), AppOK(b), app' = [app EXCEPT ![p] = b]
  PROVE  Apps' /\ app'[p] = b /\ \A q \in Party : q # p => app'[q] = app[q]
  BY DEF Apps

LEMMA Pushed ==
  ASSUME Queues, NEW p \in Party, NEW e \in UpEvent, up' = [up EXCEPT ![p] = Append(@, e)]
  PROVE  /\ up' \in [Party -> Seq(UpEvent)] /\ up'[p] = Append(up[p], e)
         /\ \A q \in Party : q # p => up'[q] = up[q]
  <1>1. Append(up[p], e) \in Seq(UpEvent)
    BY AppendProperties DEF Queues
  <1> QED
    BY <1>1 DEF Queues

LEMMA Pulled ==
  ASSUME Queues, NEW p \in Party, up[p] # <<>>, up' = [up EXCEPT ![p] = Tail(@)]
  PROVE  /\ up' \in [Party -> Seq(UpEvent)] /\ up'[p] = Tail(up[p]) /\ Head(up[p]) \in UpEvent
         /\ \A q \in Party : q # p => up'[q] = up[q]
  <1>1. Tail(up[p]) \in Seq(UpEvent) /\ Head(up[p]) \in UpEvent
    BY HeadTailProperties DEF Queues
  <1> QED
    BY <1>1 DEF Queues

(* A join and a key, as init() emits them. *)
LEMMA Joining ==
  ASSUME Queues, NEW p \in Party, NEW k \in KeyPair, Emit(p, <<Join(None), KeyOffer(k)>>)
  PROVE  /\ up' \in [Party -> Seq(UpEvent)]
         /\ up'[p] = Append(Append(up[p], Join(None)), KeyOffer(k))
         /\ \A q \in Party : q # p => up'[q] = up[q]
  <1>1. Join(None) \in UpEvent /\ KeyOffer(k) \in UpEvent /\ up[p] \in Seq(UpEvent)
    BY DEF UpEvent, Join, KeyOffer, Queues
  <1>2. up[p] \o <<Join(None), KeyOffer(k)>> = Append(Append(up[p], Join(None)), KeyOffer(k))
    BY <1>1, EmittedTwo
  <1>3. Append(Append(up[p], Join(None)), KeyOffer(k)) \in Seq(UpEvent)
    BY <1>1, AppendProperties
  <1> QED
    BY <1>2, <1>3 DEF Queues, Emit

-----------------------------------------------------------------------------
(* What the steps do, and that they keep the types                         *)

(* The fields that matter for the keys, and for the messages. *)
AppIs(p, screen, rerun, key, secret) ==
  /\ app'[p].screen = screen /\ app'[p].rerun = rerun
  /\ app'[p].key = key /\ app'[p].secret = secret
  /\ \A q \in Party : q # p => app'[q] = app[q]

TextsAre(p, pending, shown) == app'[p].pending = pending /\ app'[p].shown = shown

LEMMA OpenFacts ==
  ASSUME Base, NEW p \in Party, OpenChat(p)
  PROVE  /\ Base' /\ AppIs(p, "reading", app[p].rerun, None, None)
         /\ TextsAre(p, app[p].pending, app[p].shown)
  <1>0. PICK b : b = [app[p] EXCEPT !.screen = "reading", !.deleting = Connected(p)]
    OBVIOUS
  <1>1. Shape(app[p]) /\ AppOK(app[p]) /\ app[p].screen = "closed"
    BY DEF Base, Apps, OpenChat, Mounted
  <1>2. app' = [app EXCEPT ![p] = b]
    BY <1>0 DEF Base, Apps, OpenChat
  <1>3. Connected(p) \in BOOLEAN
    BY DEF Connected
  <1>4. /\ b.screen = "reading" /\ b.rerun = app[p].rerun /\ b.key = app[p].key
        /\ b.secret = app[p].secret /\ b.last = app[p].last
        /\ b.pending = app[p].pending /\ b.shown = app[p].shown /\ b.made = app[p].made
        /\ b.deleting = Connected(p) /\ b.ended = app[p].ended /\ Shape(b)
    BY <1>0, <1>1 DEF Shape
  <1>5. AppOK(b) /\ b.key = None /\ b.secret = None
    BY <1>1, <1>3, <1>4 DEF AppOK
  <1>6. Apps' /\ app'[p] = b /\ \A q \in Party : q # p => app'[q] = app[q]
    BY <1>2, <1>4, <1>5, AppKept DEF Base
  <1> QED
    BY <1>4, <1>5, <1>6
      DEF AppIs, TextsAre, Base, Queues, Server, OpenChat, serverVars, Connected

LEMMA RerunFacts ==
  ASSUME Base, NEW p \in Party, RerunEffect(p)
  PROVE  Base' /\ AppIs(p, "reading", FALSE, None, None)
  <1>0. PICK b : b = [app[p] EXCEPT !.rerun = FALSE, !.screen = "reading", !.deleting = TRUE,
                                 !.key = None, !.secret = None, !.pending = <<>>]
    OBVIOUS
  <1>1. Shape(app[p]) /\ AppOK(app[p])
    BY DEF Base, Apps
  <1>2. app' = [app EXCEPT ![p] = b]
    BY <1>0 DEF Base, Apps, RerunEffect
  <1>3. /\ b.screen = "reading" /\ b.rerun = FALSE /\ b.key = None /\ b.secret = None
        /\ b.last = app[p].last /\ b.pending = <<>> /\ b.shown = app[p].shown
        /\ b.made = app[p].made /\ b.deleting = TRUE /\ b.ended = app[p].ended /\ Shape(b)
    BY <1>0, <1>1 DEF Shape
  <1>4. AppOK(b)
    <2>1. <<>> \in Seq(Message)
      OBVIOUS
    <2> QED
      BY <1>1, <1>3, <2>1 DEF AppOK
  <1>5. Apps' /\ app'[p] = b /\ \A q \in Party : q # p => app'[q] = app[q]
    BY <1>2, <1>3, <1>4, AppKept DEF Base
  <1> QED
    BY <1>3, <1>5 DEF AppIs, Base, Queues, Server, RerunEffect, serverVars, Connected

LEMMA LeaveFacts ==
  ASSUME Base, NEW p \in Party, app' = [app EXCEPT ![p] = Closed(app[p].made)]
  PROVE  Apps' /\ AppIs(p, "closed", FALSE, None, None)
  <1>0. PICK b : b = Closed(app[p].made)
    OBVIOUS
  <1>1. AppOK(app[p])
    BY DEF Base, Apps
  <1>2. /\ b.screen = "closed" /\ b.rerun = FALSE /\ b.key = None /\ b.secret = None
        /\ b.last = -1 /\ b.pending = <<>> /\ b.shown = <<>> /\ b.made = app[p].made
        /\ b.deleting = FALSE /\ b.ended = FALSE /\ Shape(b)
    BY <1>0 DEF Closed, Shape
  <1>3. AppOK(b)
    <2>1. b.last \in Int /\ b.made \in 0..KeyBound
      BY <1>1, <1>2 DEF AppOK
    <2>2. <<>> \in Seq(Message) /\ <<>> \in Seq(1..MessageBound)
      OBVIOUS
    <2> QED
      BY <1>2, <2>1, <2>2 DEF AppOK
  <1>4. Apps' /\ app'[p] = b /\ \A q \in Party : q # p => app'[q] = app[q]
    BY <1>0, <1>2, <1>3, AppKept DEF Base
  <1> QED
    BY <1>2, <1>4 DEF AppIs

(* A key is found and offered, or made and written first. *)
Offering(p) ==
  \E k \in KeyPair :
    /\ AppIs(p, "ready", app[p].rerun, k, app[p].secret)
    /\ up'[p] = Append(Append(up[p], Join(None)), KeyOffer(k))
    /\ \A q \in Party : q # p => up'[q] = up[q]

LEMMA ReadFacts ==
  ASSUME Base, NEW p \in Party, ReadKey(p)
  PROVE  /\ Base' /\ UNCHANGED <<down, sock, serverVars, typed, mishaps>>
         /\ app[p].screen = "reading" /\ app[p].key = None /\ app[p].secret = None
         /\ TextsAre(p, app[p].pending, app[p].shown)
         /\ \/ Offering(p)
            \/ up' = up /\ \E k \in KeyPair : AppIs(p, "writing", app[p].rerun, k, app[p].secret)
  <1>1. /\ Shape(app[p]) /\ AppOK(app[p]) /\ app[p].screen = "reading"
        /\ app[p].key = None /\ app[p].secret = None
    BY DEF Base, Apps, ReadKey, AppOK
  <1>2. PICK found \in {store[p], None} :
          IF found # None
            THEN /\ app' = [app EXCEPT ![p].screen = "ready", ![p].key = found,
                                       ![p].deleting = FALSE]
                 /\ store' = [store EXCEPT ![p] = IF app[p].deleting THEN None ELSE @]
                 /\ Emit(p, <<Join(None), KeyOffer(found)>>)
            ELSE LET k == <<p, app[p].made + 1>> IN
                 /\ app[p].made < KeyBound
                 /\ app' = [app EXCEPT ![p].screen = "writing", ![p].key = k,
                                       ![p].made = @ + 1, ![p].deleting = FALSE]
                 /\ store' = [store EXCEPT ![p] = k]
                 /\ UNCHANGED up
    BY DEF ReadKey
  <1>3. UNCHANGED <<down, sock, serverVars, typed, mishaps>>
    BY DEF ReadKey
  <1>4. CASE found # None
    <2>0. PICK b : b = [app[p] EXCEPT !.screen = "ready", !.key = found, !.deleting = FALSE]
      OBVIOUS
    <2>1. found \in KeyPair
      BY <1>2, <1>4 DEF Base, Server
    <2>2. app' = [app EXCEPT ![p] = b]
      BY <1>2, <1>4, <2>0 DEF Base, Apps
    <2>3. /\ b.screen = "ready" /\ b.rerun = app[p].rerun /\ b.key = found
          /\ b.secret = app[p].secret /\ b.last = app[p].last
          /\ b.pending = app[p].pending /\ b.shown = app[p].shown /\ b.made = app[p].made
          /\ b.deleting = FALSE /\ b.ended = app[p].ended /\ Shape(b)
      BY <1>1, <2>0 DEF Shape
    <2>4. AppOK(b)
      BY <1>1, <2>1, <2>3, Constants DEF AppOK
    <2>5. Apps' /\ app'[p] = b /\ \A q \in Party : q # p => app'[q] = app[q]
      BY <2>2, <2>3, <2>4, AppKept DEF Base
    <2>6. Emit(p, <<Join(None), KeyOffer(found)>>)
      BY <1>2, <1>4
    <2>7. /\ up' \in [Party -> Seq(UpEvent)]
          /\ up'[p] = Append(Append(up[p], Join(None)), KeyOffer(found))
          /\ \A q \in Party : q # p => up'[q] = up[q]
      BY <2>1, <2>6, Joining DEF Base
    <2>8. store' \in [Party -> KeyPair \cup {None}]
      BY <1>2, <1>4 DEF Base, Server
    <2>9. Queues' /\ Server'
      BY <1>3, <2>7, <2>8 DEF Base, Queues, Server, serverVars, Connected
    <2>10. AppIs(p, "ready", app[p].rerun, found, app[p].secret)
      BY <2>3, <2>5 DEF AppIs
    <2> QED
      BY <1>1, <1>3, <2>1, <2>3, <2>5, <2>7, <2>9, <2>10 DEF Offering, TextsAre, Base
  <1>5. CASE found = None
    <2> DEFINE k == <<p, app[p].made + 1>>
    <2>0. PICK b : b = [app[p] EXCEPT !.screen = "writing", !.key = k,
                                      !.made = app[p].made + 1, !.deleting = FALSE]
      OBVIOUS
    <2>1. app[p].made + 1 \in 1..KeyBound /\ app[p].made + 1 \in 0..KeyBound
      BY <1>1, <1>2, <1>5, Constants DEF AppOK
    <2>2. k \in KeyPair
      BY <2>1 DEF KeyPair
    <2>3. app' = [app EXCEPT ![p] = b]
      BY <1>2, <1>5, <2>0 DEF Base, Apps
    <2>4. /\ b.screen = "writing" /\ b.rerun = app[p].rerun /\ b.key = k
          /\ b.secret = app[p].secret /\ b.last = app[p].last
          /\ b.pending = app[p].pending /\ b.shown = app[p].shown /\ b.made = app[p].made + 1 /\ b.deleting = FALSE /\ b.ended = app[p].ended /\ Shape(b)
      BY <1>1, <2>0 DEF Shape
    <2>5. store' = [store EXCEPT ![p] = k] /\ up' = up
      BY <1>2, <1>5
    <2> HIDE DEF k
    <2>6. AppOK(b)
      BY <1>1, <2>1, <2>2, <2>4, Constants DEF AppOK
    <2>7. Apps' /\ app'[p] = b /\ \A q \in Party : q # p => app'[q] = app[q]
      BY <2>3, <2>4, <2>6, AppKept DEF Base
    <2>8. Queues' /\ Server'
      BY <1>3, <2>2, <2>5 DEF Base, Queues, Server, serverVars, Connected
    <2>9. AppIs(p, "writing", app[p].rerun, k, app[p].secret)
      BY <2>4, <2>7 DEF AppIs
    <2> QED
      BY <1>1, <1>3, <2>2, <2>4, <2>5, <2>7, <2>8, <2>9 DEF TextsAre, Base
  <1> QED
    BY <1>4, <1>5

LEMMA JoinFacts ==
  ASSUME Base, NEW p \in Party, JoinRoom(p)
  PROVE  /\ Base' /\ UNCHANGED <<down, sock, serverVars, typed, mishaps>>
         /\ app[p].screen = "writing"
         /\ TextsAre(p, app[p].pending, app[p].shown)
         /\ Offering(p)
         /\ AppIs(p, "ready", app[p].rerun, app[p].key, app[p].secret)
  <1>0. PICK b : b = [app[p] EXCEPT !.screen = "ready"]
    OBVIOUS
  <1>1. /\ Shape(app[p]) /\ AppOK(app[p]) /\ app[p].screen = "writing"
        /\ app[p].key \in KeyPair
    BY DEF Base, Apps, JoinRoom, AppOK
  <1>2. app' = [app EXCEPT ![p] = b]
    BY <1>0 DEF Base, Apps, JoinRoom
  <1>3. /\ b.screen = "ready" /\ b.rerun = app[p].rerun /\ b.key = app[p].key
        /\ b.secret = app[p].secret /\ b.last = app[p].last
        /\ b.pending = app[p].pending /\ b.shown = app[p].shown /\ b.made = app[p].made
        /\ b.deleting = app[p].deleting /\ b.ended = app[p].ended /\ Shape(b)
    BY <1>0, <1>1 DEF Shape
  <1>4. AppOK(b)
    BY <1>1, <1>3, Constants DEF AppOK
  <1>5. Apps' /\ app'[p] = b /\ \A q \in Party : q # p => app'[q] = app[q]
    BY <1>2, <1>3, <1>4, AppKept DEF Base
  <1>6. Emit(p, <<Join(None), KeyOffer(app[p].key)>>)
    BY DEF JoinRoom
  <1>7. /\ up' \in [Party -> Seq(UpEvent)]
        /\ up'[p] = Append(Append(up[p], Join(None)), KeyOffer(app[p].key))
        /\ \A q \in Party : q # p => up'[q] = up[q]
    BY <1>1, <1>6, Joining DEF Base
  <1>8. UNCHANGED <<down, sock, serverVars, typed, mishaps, store>>
    BY DEF JoinRoom
  <1>9. Queues' /\ Server'
    BY <1>7, <1>8 DEF Base, Queues, Server, serverVars, Connected
  <1>10. AppIs(p, "ready", app[p].rerun, app[p].key, app[p].secret)
    BY <1>3, <1>5 DEF AppIs
  <1> QED
    BY <1>1, <1>3, <1>5, <1>7, <1>8, <1>9, <1>10 DEF Offering, TextsAre, Base

(* The message that p sends next. *)
Typing(p) == [id |-> typed + 1, from |-> p, secret |-> app[p].secret]

LEMMA SendFacts ==
  ASSUME Base, NEW p \in Party, SendMessage(p)
  PROVE  /\ Base' /\ UNCHANGED <<down, sock, serverVars, mishaps>>
         /\ AppIs(p, app[p].screen, app[p].rerun, app[p].key, app[p].secret)
         /\ TextsAre(p, app[p].pending, Append(app[p].shown, typed + 1))
         /\ app[p].secret # None /\ typed' = typed + 1 /\ typed \in Nat
         /\ \E e \in UpEvent : /\ e.kind = "send" /\ e.m = Typing(p) /\ e.m \in Message
                               /\ up'[p] = Append(up[p], e)
         /\ \A q \in Party : q # p => up'[q] = up[q]
  <1>1. /\ Shape(app[p]) /\ AppOK(app[p]) /\ app[p].secret \in Secret /\ app[p].secret # None
        /\ typed \in 0..MessageBound /\ typed < MessageBound /\ typed' = typed + 1
    BY DEF Base, Apps, SendMessage, AppOK, Server
  <1>2. typed + 1 \in 1..MessageBound /\ typed + 1 \in 0..MessageBound /\ typed \in Nat
    BY <1>1, Constants
  <1>3. PICK x \in Seq(1..MessageBound) : x = Append(app[p].shown, typed + 1)
    BY <1>1, <1>2, AppendProperties DEF AppOK
  <1>4. PICK b : b = [app[p] EXCEPT !.shown = x]
    OBVIOUS
  <1>5. app' = [app EXCEPT ![p] = b]
    BY <1>3, <1>4 DEF Base, Apps, SendMessage
  <1>6. /\ b.screen = app[p].screen /\ b.rerun = app[p].rerun /\ b.key = app[p].key
        /\ b.secret = app[p].secret /\ b.last = app[p].last
        /\ b.pending = app[p].pending /\ b.shown = x /\ b.made = app[p].made
        /\ b.deleting = app[p].deleting /\ b.ended = app[p].ended /\ Shape(b)
    BY <1>1, <1>4 DEF Shape
  <1>7. AppOK(b)
    BY <1>1, <1>6 DEF AppOK
  <1>8. Apps' /\ app'[p] = b /\ \A q \in Party : q # p => app'[q] = app[q]
    BY <1>5, <1>6, <1>7, AppKept DEF Base
  <1>9. PICK m \in Message : m = Typing(p)
    BY <1>1, <1>2 DEF Message, Typing
  <1>10. PICK e \in UpEvent : e = [kind |-> "send", m |-> m]
    BY <1>9 DEF UpEvent
  <1>11. up' = [up EXCEPT ![p] = @ \o <<e>>] /\ UNCHANGED <<down, sock, serverVars, mishaps, store>>
    BY <1>9, <1>10 DEF SendMessage, Emit, Typing
  <1>12. up' = [up EXCEPT ![p] = Append(@, e)]
    BY <1>10, <1>11, EmittedOne DEF Base, Queues
  <1>13. /\ up' \in [Party -> Seq(UpEvent)] /\ up'[p] = Append(up[p], e)
         /\ \A q \in Party : q # p => up'[q] = up[q]
    BY <1>10, <1>12, Pushed DEF Base
  <1>14. Queues' /\ Server'
    BY <1>1, <1>2, <1>11, <1>13 DEF Base, Queues, Server, serverVars, Connected
  <1>15. e.kind = "send" /\ e.m = Typing(p) /\ e.m \in Message
    BY <1>9, <1>10
  <1>16. /\ AppIs(p, app[p].screen, app[p].rerun, app[p].key, app[p].secret)
         /\ TextsAre(p, app[p].pending, Append(app[p].shown, typed + 1))
    BY <1>3, <1>6, <1>8 DEF AppIs, TextsAre
  <1> QED
    BY <1>1, <1>2, <1>8, <1>10, <1>11, <1>13, <1>14, <1>15, <1>16 DEF Base

(* An event changes the secret of a screen only. *)
Heard(a, b, secret) ==
  /\ Shape(b) /\ AppOK(b)
  /\ b.screen = a.screen /\ b.rerun = a.rerun /\ b.key = a.key /\ b.secret = secret

(* Messages that are shown, of any positions I. *)
LEMMA Shown ==
  ASSUME NEW ms \in Seq(Message), NEW I \in SUBSET (DOMAIN ms), NEW s \in Seq(1..MessageBound)
  PROVE  s \o Ids(Kept(ms, I)) \in Seq(1..MessageBound)
  <1>1. PICK ks \in Seq(Message) : ks = Kept(ms, I)
    BY KeptSeq
  <1>2. /\ Len(ks) \in Nat /\ DOMAIN ks = 1..Len(ks) /\ \A i \in 1..Len(ks) : ks[i] \in Message
    BY LenProperties, ElementOfSeq
  <1>3. \A i \in 1..Len(ks) : ks[i].id \in 1..MessageBound
    BY <1>2 DEF Message
  <1>4. Ids(ks) = [i \in 1..Len(ks) |-> ks[i].id]
    BY <1>2 DEF Ids
  <1>5. Ids(ks) \in Seq(1..MessageBound)
    BY <1>2, <1>3, <1>4
  <1> QED
    BY <1>1, <1>5, ConcatProperties

LEMMA ShowsNone ==
  ASSUME NEW s \in Seq(1..MessageBound), NEW secret
  PROVE  s \o Ids(Opens(secret, <<>>)) = s
  <1>1. /\ <<>> \in Seq(Message) /\ DOMAIN <<>> = {} /\ Len(<<>>) = 0
        /\ {i \in DOMAIN <<>> : <<>>[i].secret = secret} = {}
    OBVIOUS
  <1>2. Kept(<<>>, {}) \in Seq(Message) /\ Len(Kept(<<>>, {})) = 0
    BY <1>1, KeptSeq, FS_EmptySet
  <1>3. Kept(<<>>, {}) = <<>>
    BY <1>2, EmptySeq
  <1>4. Ids(<<>>) = <<>>
    BY <1>1 DEF Ids
  <1>5. Ids(Opens(secret, <<>>)) = <<>>
    BY <1>1, <1>3, <1>4 DEF Opens
  <1> QED
    BY <1>5, ConcatEmptySeq

LEMMA KeyHeard ==
  ASSUME NEW a, Shape(a), AppOK(a), NEW k \in KeyPair, NEW b, b = OnKeyExchange(a, k)
  PROVE  /\ Heard(a, b, IF a.key = None THEN a.secret ELSE {a.key, k})
         /\ a.pending = <<>> => b.pending = <<>> /\ b.shown = a.shown
  <1>1. CASE a.key = None
    BY <1>1 DEF OnKeyExchange, Heard
  <1>2. CASE a.key # None
    <2>1. a.pending \in Seq(Message) /\ a.shown \in Seq(1..MessageBound)
      BY DEF AppOK
    <2>2. PICK x \in Seq(1..MessageBound) : x = a.shown \o Ids(Opens({a.key, k}, a.pending))
      BY <2>1, Shown DEF Opens
    <2>3. b = [a EXCEPT !.secret = {a.key, k}, !.pending = <<>>, !.shown = x]
      BY <1>2, <2>2 DEF OnKeyExchange
    <2>4. /\ b.screen = a.screen /\ b.rerun = a.rerun /\ b.key = a.key /\ b.secret = {a.key, k}
          /\ b.last = a.last /\ b.made = a.made /\ b.deleting = a.deleting /\ b.ended = a.ended
          /\ b.pending = <<>> /\ b.shown = x /\ Shape(b)
      BY <2>3 DEF Shape
    <2>5. {a.key, k} \in Secret
      BY <1>2 DEF AppOK, Secret
    <2>6. a.pending = <<>> => x = a.shown
      BY <2>1, <2>2, ShowsNone
    <2> QED
      BY <1>2, <2>4, <2>5, <2>6 DEF Heard, AppOK
  <1> QED
    BY <1>1, <1>2

LEMMA LastSeen ==
  ASSUME NEW a, Shape(a), AppOK(a), NEW i \in Int, NEW j, j = Later(a.last, i), NEW b,
         b = [a EXCEPT !.last = j, !.pending = b.pending, !.shown = b.shown],
         b.pending \in Seq(Message), b.shown \in Seq(1..MessageBound)
  PROVE  Heard(a, b, a.secret)
  <1>1. j \in Int
    BY DEF Later, AppOK
  <1>2. PICK x, y : b = [a EXCEPT !.last = j, !.pending = x, !.shown = y]
    OBVIOUS
  <1>3. /\ b.screen = a.screen /\ b.rerun = a.rerun /\ b.key = a.key /\ b.secret = a.secret
        /\ b.last = j /\ b.made = a.made /\ b.deleting = a.deleting /\ b.ended = a.ended /\ Shape(b)
    BY <1>2 DEF Shape
  <1> QED
    BY <1>1, <1>3 DEF Heard, AppOK

LEMMA MessageHeard ==
  ASSUME NEW a, Shape(a), AppOK(a), NEW m \in Message, NEW i \in Int, NEW b,
         b = OnMessageReceive(a, m, i)
  PROVE  /\ Heard(a, b, a.secret)
         /\ a.secret # None =>
              /\ b.pending = a.pending
              /\ b.shown = IF m.secret = a.secret THEN Append(a.shown, m.id) ELSE a.shown
  <1>1. PICK j : j = Later(a.last, i)
    OBVIOUS
  <1>2. PICK c : c = [a EXCEPT !.last = j]
    OBVIOUS
  <1>3. /\ c.pending = a.pending /\ c.shown = a.shown /\ c.secret = a.secret /\ Shape(c)
        /\ c = [a EXCEPT !.last = j, !.pending = a.pending, !.shown = a.shown]
    BY <1>2 DEF Shape
  <1>4. a.pending \in Seq(Message) /\ a.shown \in Seq(1..MessageBound) /\ m.id \in 1..MessageBound
    BY DEF AppOK, Message
  <1>5. CASE a.secret = None
    <2>1. PICK x \in Seq(Message) : x = Append(c.pending, m)
      BY <1>3, <1>4, AppendProperties
    <2>2. b = [c EXCEPT !.pending = x]
      BY <1>1, <1>2, <1>5, <2>1 DEF OnMessageReceive
    <2>3. b = [a EXCEPT !.last = j, !.pending = x, !.shown = a.shown]
      BY <1>2, <2>2 DEF Shape
    <2>4. b.pending = x /\ b.shown = a.shown
      BY <2>3 DEF Shape
    <2> QED
      BY <1>1, <1>4, <1>5, <2>3, <2>4, LastSeen
  <1>6. CASE a.secret # None
    <2>0. Append(a.shown, m.id) \in Seq(1..MessageBound)
      BY <1>4, AppendProperties
    <2>1. PICK y \in Seq(1..MessageBound) :
            y = IF m.secret = a.secret THEN Append(c.shown, m.id) ELSE c.shown
      BY <1>3, <1>4, <2>0
    <2>2. b = [c EXCEPT !.shown = y]
      BY <1>1, <1>2, <1>6, <2>1 DEF OnMessageReceive
    <2>3. b = [a EXCEPT !.last = j, !.pending = a.pending, !.shown = y]
      BY <1>2, <2>2 DEF Shape
    <2>4. b.pending = a.pending /\ b.shown = y
      BY <2>3 DEF Shape
    <2>5. Heard(a, b, a.secret)
      BY <1>1, <1>4, <2>3, <2>4, LastSeen
    <2> QED
      BY <1>3, <2>1, <2>4, <2>5
  <1> QED
    BY <1>5, <1>6

LEMMA SyncHeard ==
  ASSUME NEW p, NEW a, Shape(a), AppOK(a), NEW ms \in Seq(Message), NEW from \in Int,
         NEW b, b = OnMessageSync(p, a, ms, from)
  PROVE  Heard(a, b, a.secret)
  <1>1. PICK new : new = {i \in DOMAIN ms : ms[i].from # p /\ ms[i].secret = a.secret}
    OBVIOUS
  <1>2. CASE a.secret = None \/ new = {}
    BY <1>1, <1>2 DEF OnMessageSync, Heard
  <1>3. CASE ~(a.secret = None \/ new = {})
    <2>1. Len(ms) \in Nat /\ new \in SUBSET (1..Len(ms)) /\ new # {} /\ DOMAIN ms = 1..Len(ms)
      BY <1>1, <1>3
    <2>2. \E i \in new : \A j \in new : j <= i
      BY <2>1, Largest
    <2>3. PICK last : last = CHOOSE i \in new : \A j \in new : j <= i
      OBVIOUS
    <2>4. last \in new
      BY <2>2, <2>3
    <2>5. from + last - 1 \in Int
      BY <2>1, <2>4
    <2>6. PICK I \in SUBSET (DOMAIN ms) :
            I = {i \in new : \A j \in DOMAIN a.shown : a.shown[j] # ms[i].id}
      BY <2>1
    <2>7. PICK y \in Seq(1..MessageBound) : y = a.shown \o Ids(Kept(ms, I))
      BY Shown DEF AppOK
    <2>8. b = [a EXCEPT !.shown = y, !.last = Later(a.last, from + last - 1)]
      BY <1>1, <1>3, <2>3, <2>6, <2>7 DEF OnMessageSync
    <2>9. PICK i \in Int : i = from + last - 1
      BY <2>5
    <2>10. PICK j : j = Later(a.last, i)
      OBVIOUS
    <2>11. b = [a EXCEPT !.shown = y, !.last = j]
      BY <2>8, <2>9, <2>10
    <2>12. b = [a EXCEPT !.last = j, !.pending = a.pending, !.shown = y] /\ a.pending \in Seq(Message)
      BY <2>11 DEF Shape, AppOK
    <2>13. b.pending = a.pending /\ b.shown = y
      BY <2>12 DEF Shape
    <2> QED
      BY <2>10, <2>12, <2>13, LastSeen
  <1> QED
    BY <1>2, <1>3

(* The secret of a screen after the event e. *)
NewSecret(p, e) ==
  IF e.kind = "key" /\ app[p].key # None THEN {app[p].key, e.key} ELSE app[p].secret

(* What a screen shows after it: nothing is new but a message that opens. *)
Reading(p, e) ==
  /\ e.kind \notin {"message", "sync"} /\ app[p].pending = <<>> => TextsAre(p, <<>>, app[p].shown)
  /\ e.kind = "message" /\ app[p].secret # None =>
       TextsAre(p, app[p].pending, IF e.m.secret = app[p].secret
                                   THEN Append(app[p].shown, e.m.id) ELSE app[p].shown)

LEMMA ReceiveFacts ==
  ASSUME Base, NEW p \in Party, Receive(p)
  PROVE  /\ Base' /\ UNCHANGED <<store, up, sock, serverVars, typed, mishaps>>
         /\ down[p] # <<>> /\ down'[p] = Tail(down[p])
         /\ \A q \in Party : q # p => down'[q] = down[q]
         /\ Head(down[p]).kind = "key" => Head(down[p]).key \in KeyPair
         /\ AppIs(p, app[p].screen, app[p].rerun, app[p].key, NewSecret(p, Head(down[p])))
         /\ Reading(p, Head(down[p])) /\ Head(down[p]) \in DownEvent
  <1> DEFINE a == app[p]
             e == Head(down[p])
  <1>1. Shape(a) /\ AppOK(a)
    BY DEF Base, Apps
  <1>2. down[p] # <<>> /\ down[p] \in Seq(DownEvent)
    BY DEF Receive, Base, Queues
  <1>3. e \in DownEvent /\ Tail(down[p]) \in Seq(DownEvent)
    BY <1>2, HeadTailProperties
  <1>4. down' = [down EXCEPT ![p] = Tail(down[p])]
    BY DEF Receive, Base, Queues
  <1>5. /\ down' \in [Party -> Seq(DownEvent)] /\ down'[p] = Tail(down[p])
        /\ \A q \in Party : q # p => down'[q] = down[q]
    BY <1>3, <1>4 DEF Base, Queues
  <1>6. PICK b : b =
          CASE a.screen = "closed" -> a
            [] a.screen # "closed" /\ e.kind = "key" -> OnKeyExchange(a, e.key)
            [] a.screen # "closed" /\ e.kind = "message" -> OnMessageReceive(a, e.m, e.index)
            [] a.screen # "closed" /\ e.kind = "sync" -> OnMessageSync(p, a, e.ms, e.from)
            [] a.screen # "closed" /\ e.kind = "ack" -> [a EXCEPT !.last = Later(@, e.index)]
            [] a.screen # "closed" /\ e.kind = "ended" -> [a EXCEPT !.ended = TRUE]
    OBVIOUS
  <1>7. app' = [app EXCEPT ![p] = b]
    BY <1>6 DEF Receive
  <1>8. /\ Heard(a, b, NewSecret(p, e))
        /\ e.kind \notin {"message", "sync"} /\ a.pending = <<>> =>
             b.pending = <<>> /\ b.shown = a.shown
        /\ e.kind = "message" /\ a.secret # None =>
             /\ b.pending = a.pending
             /\ b.shown = IF e.m.secret = a.secret THEN Append(a.shown, e.m.id) ELSE a.shown
    <2> HIDE DEF e
    <2>1. CASE a.screen = "closed"
      <3>1. b = a
        BY <1>6, <2>1
      <3>2. NewSecret(p, e) = a.secret
        BY <1>1, <2>1 DEF AppOK, NewSecret
      <3> QED
        BY <1>1, <2>1, <3>1, <3>2 DEF Heard, AppOK
    <2>2. CASE a.screen # "closed" /\ e.kind = "key"
      <3>1. b = OnKeyExchange(a, e.key) /\ e.key \in KeyPair
        BY <1>3, <1>6, <2>2 DEF DownEvent
      <3>2. /\ Heard(a, b, IF a.key = None THEN a.secret ELSE {a.key, e.key})
            /\ a.pending = <<>> => b.pending = <<>> /\ b.shown = a.shown
        BY <1>1, <3>1, KeyHeard
      <3> QED
        BY <2>2, <3>2 DEF NewSecret
    <2>3. CASE a.screen # "closed" /\ e.kind = "message"
      <3>1. b = OnMessageReceive(a, e.m, e.index) /\ e.index \in Int /\ e.m \in Message
        BY <1>3, <1>6, <2>3 DEF DownEvent
      <3> QED
        BY <1>1, <2>3, <3>1, MessageHeard DEF NewSecret
    <2>4. CASE a.screen # "closed" /\ e.kind = "sync"
      <3>1. b = OnMessageSync(p, a, e.ms, e.from) /\ e.ms \in Seq(Message) /\ e.from \in Int
        BY <1>3, <1>6, <2>4 DEF DownEvent
      <3> QED
        BY <1>1, <2>4, <3>1, SyncHeard DEF NewSecret
    <2>5. CASE a.screen # "closed" /\ e.kind = "ack"
      <3>1. b = [a EXCEPT !.last = Later(a.last, e.index)] /\ e.index \in Int
        BY <1>3, <1>6, <2>5 DEF DownEvent
      <3>2. PICK j : j = Later(a.last, e.index)
        OBVIOUS
      <3>3. b = [a EXCEPT !.last = j, !.pending = a.pending, !.shown = a.shown]
        BY <1>1, <3>1, <3>2 DEF Shape
      <3>4. a.pending \in Seq(Message) /\ a.shown \in Seq(1..MessageBound)
        BY <1>1 DEF AppOK
      <3>5. b.pending = a.pending /\ b.shown = a.shown
        BY <1>1, <3>3 DEF Shape
      <3>6. Heard(a, b, a.secret)
        BY <1>1, <3>1, <3>2, <3>3, <3>4, <3>5, LastSeen
      <3> QED
        BY <2>5, <3>5, <3>6 DEF NewSecret
    <2>6. CASE a.screen # "closed" /\ e.kind = "ended"
      <3>1. b = [a EXCEPT !.ended = TRUE]
        BY <1>6, <2>6
      <3>2. /\ b.screen = a.screen /\ b.rerun = a.rerun /\ b.key = a.key /\ b.secret = a.secret
            /\ b.last = a.last /\ b.made = a.made /\ b.deleting = a.deleting /\ b.ended = TRUE
            /\ b.pending = a.pending /\ b.shown = a.shown /\ Shape(b)
        BY <1>1, <3>1 DEF Shape
      <3> QED
        BY <1>1, <2>6, <3>2 DEF Heard, AppOK, NewSecret
    <2>7. e.kind \in {"key", "message", "sync", "ack", "ended"}
      BY <1>3 DEF DownEvent
    <2> QED
      BY <2>1, <2>2, <2>3, <2>4, <2>5, <2>6, <2>7
  <1>9. Apps' /\ app'[p] = b /\ \A q \in Party : q # p => app'[q] = app[q]
    BY <1>7, <1>8, AppKept DEF Base, Heard
  <1>10. AppIs(p, a.screen, a.rerun, a.key, NewSecret(p, e))
    BY <1>8, <1>9 DEF AppIs, Heard
  <1>14. Reading(p, e)
    BY <1>8, <1>9 DEF Reading, TextsAre
  <1>11. UNCHANGED <<store, up, sock, serverVars, typed, mishaps>>
    BY DEF Receive
  <1>12. Queues' /\ Server'
    BY <1>5, <1>11 DEF Base, Queues, Server, serverVars, Connected
  <1>13. e.kind = "key" => e.key \in KeyPair
    BY <1>3 DEF DownEvent
  <1> QED
    BY <1>2, <1>3, <1>5, <1>9, <1>10, <1>11, <1>12, <1>13, <1>14 DEF Base

LEMMA MishapKept ==
  ASSUME Base, NEW m, Happens(m)
  PROVE  mishaps' \subseteq Allow /\ mishaps' = mishaps \cup {m}
  BY DEF Base, Server, Happens

(* A connection that is lost. *)
Lost(p) ==
  /\ up'[p] = <<>> /\ down'[p] = <<>> /\ sock'[p] \in {"down", "new"}
  /\ joining'[p] = NoJoin /\ p \notin room'
  /\ \A q \in Party : q # p => /\ up'[q] = up[q] /\ down'[q] = down[q] /\ sock'[q] = sock[q]
                               /\ joining'[q] = joining[q] /\ (q \in room' <=> q \in room)
                               /\ (q \in away' <=> q \in away)
  /\ away' = IF p \in member THEN away \cup {p} ELSE away
  /\ UNCHANGED <<member, keys, msgs, relayq, over, log, typed>>

LEMMA LoseFacts ==
  ASSUME Base, NEW p \in Party, NEW state \in {"down", "new"}, Lose(p, state),
         Apps', store' = store, NEW m, Happens(m)
  PROVE  Base' /\ Lost(p) /\ sock'[p] = state
  <1>1. mishaps' \subseteq Allow /\ mishaps' = mishaps \cup {m}
    BY MishapKept
  <1>2. NoJoin \in JoinRecord
    BY DEF NoJoin, JoinRecord
  <1>3. Lost(p) /\ sock'[p] = state
    BY DEF Lose, Lost, Base, Queues, Server
  <1>4. Queues'
    BY DEF Lose, Base, Queues
  <1>5. Server'
    <2>1. \A q \in Party : (q \in room \/ joining[q] # NoJoin => Connected(q))'
      <3>1. ASSUME NEW q \in Party, q \in room' \/ joining'[q] # NoJoin PROVE Connected(q)'
        <4>1. q # p
          BY <1>3, <3>1 DEF Lost
        <4>2. Connected(q)
          BY <1>3, <3>1, <4>1 DEF Lost, Base, Server
        <4> QED
          BY <1>3, <4>1, <4>2 DEF Lost, Connected
      <3> QED
        BY <3>1
    <2>2. /\ sock' \in [Party -> {"down", "new", "accepted", "up"}]
          /\ joining' \in [Party -> JoinRecord]
          /\ room' \subseteq Party /\ member' \subseteq Party /\ away' \subseteq Party
      BY <1>2 DEF Lose, Base, Server
    <2>3. UNCHANGED <<store, keys, over, typed>>
      BY DEF Lose
    <2> QED
      BY <1>1, <2>1, <2>2, <2>3 DEF Base, Server
  <1> QED
    BY <1>3, <1>4, <1>5 DEF Base

LEMMA DropFacts ==
  ASSUME Base, NEW p \in Party, Drop(p)
  PROVE  Base' /\ Lost(p) /\ sock'[p] = "down" /\ app' = app /\ mishaps' = mishaps \cup {"drop"}
  <1>1. Apps'
    BY DEF Drop, Base, Apps
  <1> QED
    BY <1>1, LoseFacts, MishapKept DEF Drop

LEMMA RefreshFacts ==
  ASSUME Base, NEW p \in Party, RefreshToken(p)
  PROVE  Base' /\ Lost(p) /\ app' = app /\ mishaps' = mishaps \cup {"refresh"}
  <1>1. Apps'
    BY DEF RefreshToken, Base, Apps
  <1> QED
    BY <1>1, LoseFacts, MishapKept DEF RefreshToken

LEMMA KillFacts ==
  ASSUME Base, NEW p \in Party, KillApp(p)
  PROVE  /\ Base' /\ Lost(p) /\ AppIs(p, "closed", FALSE, None, None)
         /\ mishaps' = mishaps \cup {"kill"}
  <1>1. Apps' /\ AppIs(p, "closed", FALSE, None, None)
    BY LeaveFacts DEF KillApp
  <1> QED
    BY <1>1, LoseFacts, MishapKept DEF KillApp

LEMMA LeaveChatFacts ==
  ASSUME Base, NEW p \in Party, LeaveChat(p)
  PROVE  /\ Base' /\ AppIs(p, "closed", FALSE, None, None)
         /\ mishaps' = mishaps \cup {"leave"} /\ UNCHANGED <<up, down, sock, serverVars, typed>>
  <1>1. Apps' /\ AppIs(p, "closed", FALSE, None, None)
    BY LeaveFacts DEF LeaveChat
  <1>2. mishaps' \subseteq Allow /\ mishaps' = mishaps \cup {"leave"}
    BY MishapKept DEF LeaveChat
  <1>3. /\ store' = [store EXCEPT ![p] = None] /\ UNCHANGED <<up, down, sock, serverVars, typed>>
    BY DEF LeaveChat
  <1>4. Queues' /\ Server'
    BY <1>2, <1>3 DEF Base, Queues, Server, serverVars, Connected
  <1> QED
    BY <1>1, <1>2, <1>3, <1>4 DEF Base

(* What onReconnect emits: a join, and the key if there is one. *)
Again(p) ==
  \E j \in UpEvent :
    /\ j.kind = "join"
    /\ \/ app[p].key = None /\ up'[p] = Append(up[p], j)
       \/ /\ app[p].key \in KeyPair
          /\ up'[p] = Append(Append(up[p], j), KeyOffer(app[p].key))

LEMMA ConnectFacts ==
  ASSUME Base, NEW p \in Party, Connect(p)
  PROVE  /\ Base' /\ ~Connected(p) /\ UNCHANGED <<store, down, serverVars, typed, mishaps>>
         /\ sock'[p] = "accepted" /\ \A q \in Party : q # p => sock'[q] = sock[q]
         /\ AppIs(p, app[p].screen, Mounted(p), app[p].key, app[p].secret)
         /\ IF Mounted(p) /\ sock[p] = "down" THEN Again(p) ELSE up'[p] = up[p]
         /\ \A q \in Party : q # p => up'[q] = up[q]
  <1>0. PICK b : b = [app[p] EXCEPT !.rerun = Mounted(p)]
    OBVIOUS
  <1>1. Shape(app[p]) /\ AppOK(app[p]) /\ Mounted(p) \in BOOLEAN
    BY DEF Base, Apps, Mounted
  <1>2. app' = [app EXCEPT ![p] = b]
    BY <1>0 DEF Base, Apps, Connect
  <1>3. PICK mounted \in BOOLEAN : mounted = Mounted(p)
    BY <1>1
  <1>4. b = [app[p] EXCEPT !.rerun = mounted]
    BY <1>0, <1>3
  <1>5. /\ b.screen = app[p].screen /\ b.rerun = mounted /\ b.key = app[p].key
        /\ b.secret = app[p].secret /\ b.last = app[p].last
        /\ b.pending = app[p].pending /\ b.shown = app[p].shown /\ b.made = app[p].made
        /\ b.deleting = app[p].deleting /\ b.ended = app[p].ended /\ Shape(b)
    BY <1>1, <1>4 DEF Shape
  <1>6. app[p].screen = "closed" => ~mounted
    BY <1>3 DEF Mounted
  <1>7. AppOK(b)
    BY <1>1, <1>5, <1>6 DEF AppOK
  <1>8. Apps' /\ app'[p] = b /\ \A q \in Party : q # p => app'[q] = app[q]
    BY <1>2, <1>5, <1>7, AppKept DEF Base
  <1>9. AppIs(p, app[p].screen, Mounted(p), app[p].key, app[p].secret)
    BY <1>3, <1>5, <1>8 DEF AppIs
  <1>10. /\ up' \in [Party -> Seq(UpEvent)] /\ \A q \in Party : q # p => up'[q] = up[q]
         /\ IF Mounted(p) /\ sock[p] = "down" THEN Again(p) ELSE up'[p] = up[p]
    <2>1. CASE ~(Mounted(p) /\ sock[p] = "down")
      BY <2>1 DEF Connect, Base, Queues
    <2>2. CASE Mounted(p) /\ sock[p] = "down"
      <3>1. PICK after \in Nat \cup {None} :
              after = IF app[p].last >= 0 THEN app[p].last + 1 ELSE None
        <4>1. app[p].last \in Int
          BY <1>1 DEF AppOK
        <4>2. app[p].last >= 0 => app[p].last + 1 \in Nat
          BY <4>1
        <4> QED
          BY <4>2
      <3>2. PICK j : j = Join(after)
        OBVIOUS
      <3>3. j \in UpEvent /\ j.kind = "join" /\ up[p] \in Seq(UpEvent)
        BY <3>1, <3>2 DEF Join, UpEvent, Base, Queues
      <3>4. up' = [up EXCEPT ![p] = @ \o (<<j>> \o (IF app[p].key # None
                                              THEN <<KeyOffer(app[p].key)>> ELSE <<>>))]
        BY <2>2, <3>1, <3>2 DEF Connect, Emit
      <3>5. CASE app[p].key = None
        <4>1. <<j>> \o <<>> = <<j>>
          BY <3>3, ConcatEmptySeq
        <4>2. up' = [up EXCEPT ![p] = Append(@, j)]
          BY <3>3, <3>4, <3>5, <4>1, EmittedOne DEF Base, Queues
        <4> QED
          BY <2>2, <3>3, <3>5, <4>2, Pushed DEF Again, Base
      <3>6. CASE app[p].key # None
        <4>1. PICK o : o = KeyOffer(app[p].key)
          OBVIOUS
        <4>2. o \in UpEvent /\ app[p].key \in KeyPair
          BY <1>1, <3>6, <4>1 DEF AppOK, KeyOffer, UpEvent
        <4>3. <<j>> \in Seq(UpEvent) /\ <<j>> \o <<o>> = Append(<<j>>, o)
          BY <3>3, <4>2, AppendIsConcat
        <4>4. up' = [up EXCEPT ![p] = @ \o (<<j>> \o <<o>>)]
          BY <3>4, <3>6, <4>1
        <4>5. up[p] \o (<<j>> \o <<o>>) = Append(Append(up[p], j), o)
          <5>1. <<o>> \in Seq(UpEvent) /\ Append(up[p], j) \in Seq(UpEvent)
            BY <3>3, <4>2, AppendProperties
          <5>2. up[p] \o (<<j>> \o <<o>>) = (up[p] \o <<j>>) \o <<o>>
            BY <3>3, <4>3, <5>1, ConcatAssociative
          <5> QED
            BY <3>3, <4>2, <5>1, <5>2, EmittedOne
        <4>6. Append(Append(up[p], j), o) \in Seq(UpEvent)
          BY <3>3, <4>2, AppendProperties
        <4>7. up' \in [Party -> Seq(UpEvent)] /\ up'[p] = Append(Append(up[p], j), o)
          BY <4>4, <4>5, <4>6 DEF Base, Queues
        <4>8. \A q \in Party : q # p => up'[q] = up[q]
          BY <4>4 DEF Base, Queues
        <4>9. Again(p)
          BY <3>3, <4>1, <4>2, <4>7 DEF Again
        <4> QED
          BY <2>2, <4>7, <4>8, <4>9
      <3> QED
        BY <3>5, <3>6
    <2> QED
      BY <2>1, <2>2
  <1>11. /\ sock' = [sock EXCEPT ![p] = "accepted"] /\ ~Connected(p)
         /\ UNCHANGED <<store, down, serverVars, typed, mishaps>>
    BY DEF Connect
  <1>12. /\ sock' \in [Party -> {"down", "new", "accepted", "up"}] /\ sock'[p] = "accepted"
         /\ \A q \in Party : q # p => sock'[q] = sock[q]
    BY <1>11 DEF Base, Server
  <1>13. Queues' /\ Server'
    BY <1>10, <1>11, <1>12 DEF Base, Queues, Server, serverVars, Connected
  <1> QED
    BY <1>8, <1>9, <1>10, <1>11, <1>12, <1>13 DEF Base

LEMMA AuthenticateFacts ==
  ASSUME Base, NEW p \in Party, Authenticate(p)
  PROVE  /\ Base' /\ UNCHANGED <<app, store, up, down, serverVars, typed, mishaps>>
         /\ sock[p] = "accepted" /\ sock'[p] = "up" /\ \A q \in Party : q # p => sock'[q] = sock[q]
  <1>1. /\ sock' = [sock EXCEPT ![p] = "up"] /\ sock[p] = "accepted"
        /\ UNCHANGED <<app, store, up, down, serverVars, typed, mishaps>>
    BY DEF Authenticate
  <1>2. /\ sock' \in [Party -> {"down", "new", "accepted", "up"}] /\ sock'[p] = "up"
        /\ \A q \in Party : q # p => sock'[q] = sock[q]
    BY <1>1 DEF Base, Server
  <1>3. Apps' /\ Queues' /\ Server'
    BY <1>1, <1>2 DEF Base, Apps, Queues, Server, serverVars, Connected
  <1> QED
    BY <1>1, <1>2, <1>3 DEF Base

-----------------------------------------------------------------------------
(* The gateway: a step takes an event off the queue of its sender.         *)
Pops(p) ==
  /\ up[p] # <<>> /\ up'[p] = Tail(up[p]) /\ \A q \in Party : q # p => up'[q] = up[q]

(* The queue to p stays or gets an event that is no key. *)
Fed(p) ==
  \/ down'[p] = down[p]
  \/ \E e \in DownEvent : e.kind # "key" /\ down'[p] = Append(down[p], e)

LEMMA PopFacts ==
  ASSUME Base, NEW p \in Party, NEW kind, NextEvent(p, kind)
  PROVE  /\ Pops(p) /\ up' \in [Party -> Seq(UpEvent)] /\ sock[p] = "up"
         /\ Head(up[p]) \in UpEvent /\ Head(up[p]).kind = kind
  <1>1. /\ up[p] # <<>> /\ up' = [up EXCEPT ![p] = Tail(@)]
        /\ sock[p] = "up" /\ Head(up[p]).kind = kind
    BY DEF NextEvent
  <1> QED
    BY <1>1, Pulled DEF Base, Pops

LEMMA RejectFacts ==
  ASSUME Base, NEW p \in Party, RejectEarly(p)
  PROVE  /\ Base' /\ UNCHANGED <<app, store, down, sock, serverVars, typed>>
         /\ mishaps' = mishaps \cup {"early_event"}
  <1>1. /\ up[p] # <<>> /\ up' = [up EXCEPT ![p] = Tail(@)]
        /\ UNCHANGED <<app, store, down, sock, serverVars, typed>>
    BY DEF RejectEarly
  <1>2. up' \in [Party -> Seq(UpEvent)]
    BY <1>1, Pulled DEF Base
  <1>3. mishaps' \subseteq Allow /\ mishaps' = mishaps \cup {"early_event"}
    BY MishapKept DEF RejectEarly
  <1>4. Apps' /\ Queues' /\ Server'
    BY <1>1, <1>2, <1>3 DEF Base, Apps, Queues, Server, serverVars, Connected
  <1> QED
    BY <1>1, <1>3, <1>4 DEF Base

LEMMA HandleJoinFacts ==
  ASSUME Base, NEW p \in Party, HandleJoin(p)
  PROVE  /\ Base' /\ Pops(p) /\ Head(up[p]).kind = "join" /\ joining[p] = NoJoin
         /\ over = "no" => joining'[p].step = "check"
         /\ over # "no" => joining' = joining
         /\ \A q \in Party : q # p => joining'[q] = joining[q]
         /\ UNCHANGED <<app, store, down, sock, room, member, away, keys, msgs,
                        relayq, over, log, typed, mishaps>>
  <1>1. /\ joining[p] = NoJoin /\ NextEvent(p, "join")
        /\ UNCHANGED <<app, store, down, sock, room, member, away, keys, msgs,
                       relayq, over, log, typed, mishaps>>
    BY DEF HandleJoin
  <1>2. /\ Pops(p) /\ up' \in [Party -> Seq(UpEvent)] /\ sock[p] = "up"
        /\ Head(up[p]) \in UpEvent /\ Head(up[p]).kind = "join"
    BY <1>1, PopFacts
  <1>3. PICK n : n = IF Head(up[p]).after = None THEN 0 ELSE Head(up[p]).after
    OBVIOUS
  <1>4. n \in Nat
    BY <1>2, <1>3 DEF UpEvent
  <1>5. [step |-> "check", after |-> n] \in JoinRecord
    BY <1>4 DEF JoinRecord
  <1>6. CASE over = "no"
    <2>1. joining' = [joining EXCEPT ![p] = [step |-> "check", after |-> n]]
      BY <1>3, <1>6 DEF HandleJoin
    <2>2. /\ joining' \in [Party -> JoinRecord] /\ joining'[p].step = "check"
          /\ \A q \in Party : q # p => joining'[q] = joining[q]
      BY <1>5, <2>1 DEF Base, Server
    <2>3. \A q \in Party : (q \in room \/ joining[q] # NoJoin => Connected(q))'
      BY <1>1, <1>2, <2>2 DEF Base, Server, Connected
    <2>4. Apps' /\ Queues' /\ Server'
      BY <1>1, <1>2, <2>2, <2>3 DEF Base, Apps, Queues, Server
    <2> QED
      BY <1>1, <1>2, <1>6, <2>2, <2>4 DEF Base
  <1>7. CASE over # "no"
    <2>1. joining' = joining
      BY <1>7 DEF HandleJoin
    <2>2. Apps' /\ Queues' /\ Server'
      BY <1>1, <1>2, <2>1 DEF Base, Apps, Queues, Server, Connected
    <2> QED
      BY <1>1, <1>2, <1>7, <2>1, <2>2 DEF Base
  <1> QED
    BY <1>6, <1>7

LEMMA EnterFacts ==
  ASSUME Base, NEW p \in Party, EnterRoom(p)
  PROVE  /\ Base' /\ joining[p].step = "check" /\ room' = room \cup {p}
         /\ IF p \in away THEN joining'[p].step = "sync" ELSE joining'[p] = NoJoin
         /\ \A q \in Party : q # p => joining'[q] = joining[q] /\ down'[q] = down[q]
         /\ IF p \in away \/ keys[Other(p)] = None THEN down'[p] = down[p]
            ELSE /\ keys[Other(p)] \in KeyPair /\ KeyOffer(keys[Other(p)]) \in DownEvent
                 /\ down'[p] = Append(down[p], KeyOffer(keys[Other(p)]))
         /\ UNCHANGED <<app, store, up, sock, away, keys, msgs, relayq, over, log,
                        typed, mishaps>>
  <1>1. /\ joining[p].step = "check" /\ room' = room \cup {p} /\ member' = member \cup {p}
        /\ UNCHANGED <<app, store, up, sock, away, keys, msgs, relayq, over, log,
                       typed, mishaps>>
    BY DEF EnterRoom
  <1>2. Connected(p) /\ Other(p) \in Party
    BY <1>1, Constants DEF NoJoin, Base, Server
  <1>3. PICK k : k = keys[Other(p)]
    OBVIOUS
  <1>4. k \in KeyPair \cup {None}
    BY <1>2, <1>3 DEF Base, Server
  <1>5. /\ joining' \in [Party -> JoinRecord]
        /\ IF p \in away THEN joining'[p].step = "sync" ELSE joining'[p] = NoJoin
        /\ \A q \in Party : q # p => joining'[q] = joining[q]
    <2>1. joining[p] \in JoinRecord /\ NoJoin \in JoinRecord
      BY DEF Base, Server, NoJoin, JoinRecord
    <2>2. [joining[p] EXCEPT !.step = "sync"] = [step |-> "sync", after |-> joining[p].after]
      BY <2>1 DEF JoinRecord
    <2>3. joining' = IF p \in away
                       THEN [joining EXCEPT ![p] = [step |-> "sync", after |-> joining[p].after]]
                       ELSE [joining EXCEPT ![p] = NoJoin]
      BY <2>1, <2>2 DEF EnterRoom, Base, Server
    <2>4. [step |-> "sync", after |-> joining[p].after] \in JoinRecord
      BY <2>1 DEF JoinRecord
    <2> QED
      BY <2>1, <2>3, <2>4 DEF Base, Server
  <1>6. /\ down' \in [Party -> Seq(DownEvent)]
        /\ \A q \in Party : q # p => down'[q] = down[q]
        /\ IF p \in away \/ k = None THEN down'[p] = down[p]
           ELSE k \in KeyPair /\ KeyOffer(k) \in DownEvent /\ down'[p] = Append(down[p], KeyOffer(k))
    <2>1. CASE p \in away \/ k = None
      BY <1>3, <2>1 DEF EnterRoom, Base, Queues
    <2>2. CASE ~(p \in away \/ k = None)
      <3>1. k \in KeyPair /\ KeyOffer(k) \in DownEvent
        BY <1>4, <2>2 DEF KeyOffer, DownEvent
      <3>2. down' = [down EXCEPT ![p] = Append(@, KeyOffer(k))]
        BY <1>3, <2>2 DEF EnterRoom
      <3>3. Append(down[p], KeyOffer(k)) \in Seq(DownEvent)
        BY <3>1, AppendProperties DEF Base, Queues
      <3> QED
        BY <2>2, <3>1, <3>2, <3>3 DEF Base, Queues
    <2> QED
      BY <2>1, <2>2
  <1>7. Apps' /\ Queues' /\ Server'
    BY <1>1, <1>2, <1>5, <1>6 DEF Base, Apps, Queues, Server, Connected
  <1> QED
    BY <1>1, <1>3, <1>5, <1>6, <1>7 DEF Base

LEMMA SyncFacts ==
  ASSUME Base, NEW p \in Party, SyncMissed(p)
  PROVE  /\ Base' /\ joining[p].step = "sync" /\ joining'[p] = NoJoin /\ away' = away \ {p}
         /\ \A q \in Party : q # p => joining'[q] = joining[q]
         /\ \A q \in Party : Fed(q)
         /\ UNCHANGED <<app, store, up, sock, room, member, keys, msgs, relayq, over,
                        log, typed, mishaps>>
  <1>1. /\ joining[p].step = "sync" /\ joining' = [joining EXCEPT ![p] = NoJoin]
        /\ away' = away \ {p}
        /\ UNCHANGED <<app, store, up, sock, room, member, keys, msgs, relayq, over,
                       log, typed, mishaps>>
    BY DEF SyncMissed
  <1>2. joining[p].after \in Nat /\ NoJoin \in JoinRecord /\ Len(msgs) \in Nat
    BY DEF Base, Server, Queues, NoJoin, JoinRecord
  <1>3. PICK from \in Nat : from = joining[p].after
    BY <1>2
  <1>4. PICK missed : missed = SubSeq(msgs, from + 1, Len(msgs))
    OBVIOUS
  <1>5. missed \in Seq(Message)
    <2>1. \A i \in (from + 1) .. Len(msgs) : msgs[i] \in Message
      BY DEF Base, Queues
    <2> QED
      BY <1>2, <1>4, <2>1, SubSeqProperties
  <1>6. PICK e : e = [kind |-> "sync", ms |-> missed, from |-> from]
    OBVIOUS
  <1>7. e \in DownEvent /\ e.kind # "key"
    BY <1>5, <1>6 DEF DownEvent
  <1>8. down' = IF missed = <<>> THEN down ELSE [down EXCEPT ![p] = Append(@, e)]
    BY <1>3, <1>4, <1>6 DEF SyncMissed
  <1>9. Append(down[p], e) \in Seq(DownEvent)
    BY <1>7, AppendProperties DEF Base, Queues
  <1>10. down' \in [Party -> Seq(DownEvent)] /\ \A q \in Party : Fed(q)
    BY <1>7, <1>8, <1>9 DEF Base, Queues, Fed
  <1>11. Apps' /\ Queues' /\ Server'
    BY <1>1, <1>2, <1>10 DEF Base, Apps, Queues, Server, Connected
  <1>12. joining'[p] = NoJoin /\ \A q \in Party : q # p => joining'[q] = joining[q]
    BY <1>1 DEF Base, Server
  <1> QED
    BY <1>1, <1>10, <1>11, <1>12 DEF Base

LEMMA HandleKeyFacts ==
  ASSUME Base, NEW p \in Party, HandleKey(p)
  PROVE  /\ Base' /\ Pops(p) /\ Head(up[p]).kind = "key"
         /\ mishaps' = IF joining[p].step = "check" THEN mishaps \cup {"early_key"} ELSE mishaps
         /\ p \notin room => UNCHANGED <<keys, down>>
         /\ p \in room => \E k \in KeyPair :
              /\ k = Head(up[p]).key /\ keys'[p] = k /\ keys'[Other(p)] = keys[Other(p)]
              /\ KeyOffer(k) \in DownEvent /\ down'[p] = down[p]
              /\ IF Other(p) \in room THEN down'[Other(p)] = Append(down[Other(p)], KeyOffer(k))
                 ELSE down'[Other(p)] = down[Other(p)]
         /\ UNCHANGED <<app, store, sock, joining, room, member, away, msgs, relayq,
                        over, log, typed>>
  <1>1. /\ NextEvent(p, "key")
        /\ UNCHANGED <<app, store, sock, joining, room, member, away, msgs, relayq,
                       over, log, typed>>
    BY DEF HandleKey
  <1>2. /\ Pops(p) /\ up' \in [Party -> Seq(UpEvent)] /\ sock[p] = "up"
        /\ Head(up[p]) \in UpEvent /\ Head(up[p]).kind = "key"
    BY <1>1, PopFacts
  <1>3. PICK k : k = Head(up[p]).key
    OBVIOUS
  <1>4. k \in KeyPair /\ KeyOffer(k) \in DownEvent
    BY <1>2, <1>3 DEF UpEvent, KeyOffer, DownEvent
  <1>5. /\ mishaps' = IF joining[p].step = "check" THEN mishaps \cup {"early_key"} ELSE mishaps
        /\ mishaps' \subseteq Allow
    BY MishapKept DEF HandleKey, Base, Server
  <1>6. Other(p) \in Party /\ Other(p) # p
    BY Constants
  <1>7. CASE p \in room
    <2>1. /\ keys' = [keys EXCEPT ![p] = k]
          /\ down' = IF Other(p) \in room
                       THEN [down EXCEPT ![Other(p)] = Append(@, KeyOffer(k))] ELSE down
      BY <1>3, <1>7 DEF HandleKey
    <2>2. Append(down[Other(p)], KeyOffer(k)) \in Seq(DownEvent)
      BY <1>4, <1>6, AppendProperties DEF Base, Queues
    <2>3. /\ down' \in [Party -> Seq(DownEvent)] /\ down'[p] = down[p]
          /\ IF Other(p) \in room THEN down'[Other(p)] = Append(down[Other(p)], KeyOffer(k))
             ELSE down'[Other(p)] = down[Other(p)]
      BY <1>6, <2>1, <2>2 DEF Base, Queues
    <2>4. /\ keys' \in [Party -> KeyPair \cup {None}] /\ keys'[p] = k
          /\ keys'[Other(p)] = keys[Other(p)]
      BY <1>4, <1>6, <2>1 DEF Base, Server
    <2>5. Apps' /\ Queues' /\ Server'
      BY <1>1, <1>2, <1>5, <2>3, <2>4 DEF Base, Apps, Queues, Server, Connected
    <2> QED
      BY <1>1, <1>2, <1>3, <1>4, <1>5, <1>7, <2>3, <2>4, <2>5 DEF Base
  <1>8. CASE p \notin room
    <2>1. UNCHANGED <<keys, down>>
      BY <1>8 DEF HandleKey
    <2>2. Apps' /\ Queues' /\ Server'
      BY <1>1, <1>2, <1>5, <2>1 DEF Base, Apps, Queues, Server, Connected
    <2> QED
      BY <1>1, <1>2, <1>5, <1>8, <2>1, <2>2 DEF Base
  <1> QED
    BY <1>7, <1>8

LEMMA BufferFacts ==
  ASSUME Base, NEW p \in Party, BufferMessage(p)
  PROVE  /\ Base' /\ Pops(p) /\ Head(up[p]).kind = "send"
         /\ UNCHANGED <<app, store, down, sock, joining, room, member, away, keys,
                        over, typed, mishaps>>
         /\ Head(up[p]).m \in Message
         /\ p \in room => /\ log' = Append(log, Head(up[p]).m)
                          /\ \E r \in Relayed : /\ r.m = Head(up[p]).m
                                                /\ relayq' = Append(relayq, r)
  <1>1. /\ NextEvent(p, "send")
        /\ UNCHANGED <<app, store, down, sock, joining, room, member, away, keys,
                       over, typed, mishaps>>
    BY DEF BufferMessage
  <1>2. /\ Pops(p) /\ up' \in [Party -> Seq(UpEvent)] /\ sock[p] = "up"
        /\ Head(up[p]) \in UpEvent /\ Head(up[p]).kind = "send"
    BY <1>1, PopFacts
  <1>3. Head(up[p]).m \in Message
    BY <1>2 DEF UpEvent
  <1>4. PICK m \in Message : m = Head(up[p]).m
    BY <1>3
  <1>5. PICK all : all = Append(msgs, m)
    OBVIOUS
  <1>6. all \in Seq(Message) /\ all # <<>> /\ Len(all) \in Nat /\ MaxMessages \in Nat
    <2>1. msgs \in Seq(Message)
      BY DEF Base, Queues
    <2>2. all \in Seq(Message) /\ all # <<>>
      BY <1>5, <2>1, AppendProperties
    <2>3. Len(all) \in Nat
      BY <2>2, LenProperties
    <2> QED
      BY <2>2, <2>3, Constants
  <1>7. Tail(all) \in Seq(Message) /\ Len(Tail(all)) <= MaxMessages
    <2>1. Tail(all) \in Seq(Message) /\ Len(Tail(all)) = Len(all) - 1
      BY <1>6, HeadTailProperties
    <2>2. Len(all) = Len(msgs) + 1 /\ Len(msgs) \in Nat /\ Len(msgs) <= MaxMessages
      BY <1>5, AppendProperties, LenProperties DEF Base, Queues
    <2> QED
      BY <1>6, <2>1, <2>2
  <1>8. /\ msgs' \in Seq(Message) /\ Len(msgs') <= MaxMessages /\ relayq' \in Seq(Relayed)
        /\ p \in room => \E r \in Relayed : r.m = m /\ relayq' = Append(relayq, r)
    <2>1. CASE p \notin room
      BY <2>1 DEF BufferMessage, Base, Queues
    <2>2. CASE p \in room
      <3>1. PICK i : i = IF Len(all) > MaxMessages THEN MaxMessages - 1 ELSE Len(all) - 1
        OBVIOUS
      <3>2. i \in Int
        BY <1>6, <3>1
      <3>3. PICK r \in Relayed : r = [m |-> m, index |-> i]
        BY <3>2 DEF Relayed
      <3>4. /\ msgs' = IF Len(all) > MaxMessages THEN Tail(all) ELSE all
            /\ relayq' = Append(relayq, r)
        BY <1>4, <1>5, <2>2, <3>1, <3>3 DEF BufferMessage
      <3>5. relayq' \in Seq(Relayed) /\ r.m = m
        BY <3>3, <3>4, AppendProperties DEF Base, Queues
      <3>6. ~(Len(all) > MaxMessages) => Len(all) <= MaxMessages
        BY <1>6
      <3> QED
        BY <1>6, <1>7, <3>4, <3>5, <3>6
    <2> QED
      BY <2>1, <2>2
  <1>9. /\ p \in room => log' = Append(log, m)
        /\ log' \in Seq(Message)
    <2>1. log \in Seq(Message)
      BY DEF Base, Queues
    <2>2. Append(log, m) \in Seq(Message)
      BY <2>1, AppendProperties
    <2> QED
      BY <1>4, <2>1, <2>2 DEF BufferMessage
  <1>10. Apps' /\ Queues' /\ Server'
    BY <1>1, <1>2, <1>8, <1>9 DEF Base, Apps, Queues, Server, Connected
  <1> QED
    BY <1>1, <1>2, <1>3, <1>4, <1>8, <1>9, <1>10 DEF Base

LEMMA RelayFacts ==
  ASSUME Base, RelayMessage
  PROVE  /\ Base' /\ \A p \in Party : Fed(p)
         /\ UNCHANGED <<app, store, up, sock, joining, room, member, away, keys, msgs, over,
                        log, typed, mishaps>>
         /\ relayq # <<>> /\ relayq' = Tail(relayq) /\ Head(relayq) \in Relayed
         /\ LET m == Head(relayq).m
                q == Other(m.from)
            IN /\ m \in Message /\ m.from \in Party /\ q \in Party /\ q # m.from
               /\ q \in room => \E e \in DownEvent : /\ e.kind = "message" /\ e.m = m
                                                     /\ down'[q] = Append(down[q], e)
               /\ \/ down'[m.from] = down[m.from]
                  \/ \E e \in DownEvent : /\ e.kind = "ack"
                                          /\ down'[m.from] = Append(down[m.from], e)
  <1>1. /\ relayq # <<>> /\ relayq' = Tail(relayq)
        /\ UNCHANGED <<app, store, up, sock, joining, room, member, away, keys, msgs, over,
                       log, typed, mishaps>>
    BY DEF RelayMessage
  <1>2. Head(relayq) \in Relayed /\ relayq' \in Seq(Relayed)
    BY <1>1, HeadTailProperties DEF Base, Queues
  <1>3. PICK m \in Message, i \in Int : m = Head(relayq).m /\ i = Head(relayq).index
    BY <1>2 DEF Relayed
  <1>4. m.from \in Party /\ Other(m.from) \in Party /\ Other(m.from) # m.from
    BY Constants DEF Message
  <1>5. PICK g : g = [kind |-> "message", m |-> m, index |-> i]
    OBVIOUS
  <1>6. PICK h : h = [kind |-> "ack", index |-> i]
    OBVIOUS
  <1>7. g \in DownEvent /\ g.kind # "key" /\ h \in DownEvent /\ h.kind # "key"
    BY <1>5, <1>6 DEF DownEvent
  <1>8. PICK q : q = Other(m.from)
    OBVIOUS
  <1>9. down' = [p \in Party |->
          CASE p = q /\ q \in room -> Append(down[p], g)
            [] p = m.from /\ Connected(p) -> Append(down[p], h)
            [] (p = q /\ q \notin room) \/ (p = m.from /\ ~Connected(p)) -> down[p]]
    BY <1>3, <1>5, <1>6, <1>8 DEF RelayMessage
  <1>10. ASSUME NEW p \in Party
         PROVE  /\ down'[p] \in {down[p], Append(down[p], g), Append(down[p], h)}
                /\ Append(down[p], g) \in Seq(DownEvent) /\ Append(down[p], h) \in Seq(DownEvent)
    <2>1. p = q \/ p = m.from
      BY <1>4, <1>8, Constants
    <2>2. down'[p] \in {down[p], Append(down[p], g), Append(down[p], h)}
      BY <1>4, <1>8, <1>9, <2>1
    <2>3. Append(down[p], g) \in Seq(DownEvent) /\ Append(down[p], h) \in Seq(DownEvent)
      BY <1>7, AppendProperties DEF Base, Queues
    <2> QED
      BY <2>2, <2>3
  <1>11. down' \in [Party -> Seq(DownEvent)]
    <2>1. \A p \in Party : down'[p] \in Seq(DownEvent)
      <3>1. \A p \in Party : down[p] \in Seq(DownEvent)
        BY DEF Base, Queues
      <3> QED
        BY <1>10, <3>1
    <2> DEFINE Then(p) ==
          CASE p = q /\ q \in room -> Append(down[p], g)
            [] p = m.from /\ Connected(p) -> Append(down[p], h)
            [] (p = q /\ q \notin room) \/ (p = m.from /\ ~Connected(p)) -> down[p]
    <2>2. down' = [p \in Party |-> Then(p)]
      BY <1>9
    <2> HIDE DEF Then
    <2>3. \A p \in Party : Then(p) \in Seq(DownEvent)
      <3>1. \A p \in Party : Then(p) = down'[p]
        BY <2>2
      <3> QED
        BY <2>1, <3>1
    <2> QED
      BY <2>2, <2>3
  <1>12. \A p \in Party : Fed(p)
    BY <1>7, <1>10 DEF Fed
  <1>14. q \in room => down'[q] = Append(down[q], g) /\ g.kind = "message" /\ g.m = m
    BY <1>4, <1>5, <1>8, <1>9
  <1>15. /\ down'[m.from] \in {down[m.from], Append(down[m.from], h)}
         /\ h.kind = "ack"
    BY <1>4, <1>6, <1>8, <1>9
  <1>13. Apps' /\ Queues' /\ Server'
    BY <1>1, <1>2, <1>11 DEF Base, Apps, Queues, Server, Connected
  <1> QED
    BY <1>1, <1>2, <1>3, <1>4, <1>7, <1>8, <1>12, <1>13, <1>14, <1>15 DEF Base

LEMMA EndFacts ==
  ASSUME Base, EndSession
  PROVE  /\ Base' /\ \A p \in Party : Fed(p)
         /\ over = "no" /\ over' = "ending" /\ mishaps' = mishaps \cup {"end"}
         /\ UNCHANGED <<app, store, up, sock, joining, room, member, away, keys, msgs,
                        relayq, log, typed>>
  <1>1. /\ over = "no" /\ over' = "ending"
        /\ UNCHANGED <<app, store, up, sock, joining, room, member, away, keys, msgs,
                       relayq, log, typed>>
    BY DEF EndSession
  <1>2. mishaps' \subseteq Allow /\ mishaps' = mishaps \cup {"end"}
    BY MishapKept DEF EndSession
  <1>3. PICK e : e = [kind |-> "ended"]
    OBVIOUS
  <1>4. e \in DownEvent /\ e.kind # "key"
    BY <1>3 DEF DownEvent
  <1>5. down' = [p \in Party |-> IF p \in room THEN Append(down[p], e) ELSE down[p]]
    BY <1>3 DEF EndSession
  <1>6. \A p \in Party : Append(down[p], e) \in Seq(DownEvent)
    BY <1>4, AppendProperties DEF Base, Queues
  <1>7. down' \in [Party -> Seq(DownEvent)] /\ \A p \in Party : Fed(p)
    BY <1>4, <1>5, <1>6 DEF Base, Queues, Fed
  <1>8. Apps' /\ Queues' /\ Server'
    BY <1>1, <1>2, <1>7 DEF Base, Apps, Queues, Server, Connected
  <1> QED
    BY <1>1, <1>2, <1>7, <1>8 DEF Base

LEMMA PurgeFacts ==
  ASSUME Base, Purge
  PROVE  /\ Base' /\ over = "ending" /\ over' = "yes"
         /\ UNCHANGED <<app, store, up, down, sock, joining, room, relayq, log, typed, mishaps>>
  <1>1. /\ over = "ending" /\ over' = "yes" /\ member' = {} /\ away' = {}
        /\ keys' = [p \in Party |-> None] /\ msgs' = <<>>
        /\ UNCHANGED <<app, store, up, down, sock, joining, room, relayq, log, typed, mishaps>>
    BY DEF Purge
  <1>2. Apps' /\ Queues' /\ Server'
    <2>1. <<>> \in Seq(Message) /\ Len(<<>>) <= MaxMessages
      BY Constants
    <2> QED
      BY <1>1, <2>1 DEF Base, Apps, Queues, Server, Connected
  <1> QED
    BY <1>1, <1>2 DEF Base

-----------------------------------------------------------------------------
(* Two secrets that agree                                                  *)

(* The keys that reach an app reach it through the room: outside it an app *)
(* that is connected, and has run its setup since, has no secret and no    *)
(* key on its way.                                                         *)
Barred(p) ==
  p \notin room => /\ Without(down[p], "key")
                   /\ Connected(p) /\ ~app[p].rerun => app[p].secret = None

(* The last key on its way to an app is the one its peer has stored; when  *)
(* none is on its way, the secret is made with that one.                   *)
LastIsStored(p) == EndsWith(down[p], keys[Other(p)])

SecretIsStored(p) ==
  Without(down[p], "key") /\ Connected(p) /\ ~app[p].rerun /\ app[p].secret # None =>
    app[p].secret = {app[p].key, keys[Other(p)]}

Known(p) == Barred(p) /\ LastIsStored(p) /\ SecretIsStored(p)

AllKnown == over # "yes" => \A p \in Party : Known(p)

LEMMA WithoutEndsWith ==
  ASSUME NEW s, NEW k, Without(s, "key")
  PROVE  EndsWith(s, k)
  BY DEF Without, EndsWith

LEMMA FedKeys ==
  ASSUME Base, NEW p \in Party, Fed(p)
  PROVE  /\ Without(down[p], "key") <=> Without(down'[p], "key")
         /\ \A k : EndsWith(down[p], k) => EndsWith(down'[p], k)
  <1>1. down[p] \in Seq(DownEvent)
    BY DEF Base, Queues
  <1>2. CASE down'[p] = down[p]
    BY <1>2
  <1>3. ASSUME NEW e \in DownEvent, e.kind # "key", down'[p] = Append(down[p], e)
        PROVE  /\ Without(down[p], "key") <=> Without(down'[p], "key")
               /\ \A k : EndsWith(down[p], k) => EndsWith(down'[p], k)
    BY <1>1, <1>3, Appended
  <1> QED
    BY <1>2, <1>3 DEF Fed

(* A step that changes neither key nor secret of p. *)
LEMMA KnownStays ==
  ASSUME Base, NEW p \in Party, Known(p), Fed(p), p \in room' <=> p \in room,
         keys'[Other(p)] = keys[Other(p)], app'[p].key = app[p].key,
         app'[p].secret = app[p].secret,
         Connected(p)' /\ ~app'[p].rerun => Connected(p) /\ ~app[p].rerun
  PROVE  Known(p)'
  <1>1. /\ Without(down[p], "key") <=> Without(down'[p], "key")
        /\ \A k : EndsWith(down[p], k) => EndsWith(down'[p], k)
    BY FedKeys
  <1> QED
    BY <1>1 DEF Known, Barred, LastIsStored, SecretIsStored

(* A step after which p has no secret, or is to run its setup again. *)
LEMMA KnownCleared ==
  ASSUME Base, NEW p \in Party, Known(p), down'[p] = down[p], room' = room, keys' = keys,
         app'[p].secret = None \/ app'[p].rerun
  PROVE  Known(p)'
  BY DEF Known, Barred, LastIsStored, SecretIsStored

LEMMA KnownLost ==
  ASSUME NEW p \in Party, Lost(p)
  PROVE  Known(p)'
  <1>1. down'[p] = <<>> /\ ~Connected(p)'
    BY DEF Lost, Connected
  <1>2. Without(down'[p], "key")
    BY <1>1, Emptied
  <1> QED
    BY <1>1, <1>2, WithoutEndsWith DEF Known, Barred, LastIsStored, SecretIsStored

(* A step of another party. *)
LEMMA KnownOther ==
  ASSUME Base, NEW p \in Party, NEW q \in Party, q # p, Known(q), Fed(q), keys' = keys,
         app'[q] = app[q], sock'[q] = sock[q], q \in room' <=> q \in room
  PROVE  Known(q)'
  <1>1. Connected(q)' <=> Connected(q)
    BY DEF Connected
  <1> QED
    BY <1>1, KnownStays

LEMMA KnownReceive ==
  ASSUME Base, NEW p \in Party, Known(p), Receive(p)
  PROVE  Known(p)'
  <1> DEFINE e == Head(down[p])
             t == Tail(down[p])
  <1>1. /\ UNCHANGED <<sock, serverVars>> /\ down[p] # <<>> /\ down'[p] = t
        /\ e.kind = "key" => e.key \in KeyPair
        /\ AppIs(p, app[p].screen, app[p].rerun, app[p].key, NewSecret(p, e))
    BY ReceiveFacts
  <1>2. down[p] \in Seq(DownEvent)
    BY DEF Base, Queues
  <1>3. /\ Without(down[p], "key") <=> Without(t, "key") /\ e.kind # "key"
        /\ \A k : EndsWith(down[p], k) => EndsWith(t, k)
        /\ \A k : EndsWith(down[p], k) /\ e.kind = "key" /\ Without(t, "key") => e.key = k
    BY <1>1, <1>2, Taken
  <1> HIDE DEF e, t
  <1>4. app[p].key = None => app[p].secret = None
    BY DEF Base, Apps, AppOK
  <1>5. Connected(p)' = Connected(p) /\ room' = room /\ keys' = keys
    BY <1>1 DEF Connected, serverVars
  <1>6. CASE e.kind = "key" /\ app[p].key # None
    <2>1. app'[p].secret = {app[p].key, e.key} /\ app'[p].key = app[p].key
      BY <1>1, <1>6 DEF AppIs, NewSecret
    <2>2. p \in room
      BY <1>3, <1>6 DEF Known, Barred
    <2>3. Without(t, "key") => e.key = keys[Other(p)]
      BY <1>3, <1>6 DEF Known, LastIsStored
    <2> QED
      BY <1>1, <1>3, <1>5, <2>1, <2>2, <2>3 DEF Known, Barred, LastIsStored, SecretIsStored
  <1>7. CASE ~(e.kind = "key" /\ app[p].key # None)
    <2>1. app'[p].secret = app[p].secret /\ app'[p].key = app[p].key /\ app'[p].rerun = app[p].rerun
      BY <1>1, <1>7 DEF AppIs, NewSecret
    <2>2. e.kind = "key" => app[p].secret = None
      BY <1>4, <1>7
    <2> QED
      BY <1>1, <1>3, <1>5, <2>1, <2>2 DEF Known, Barred, LastIsStored, SecretIsStored
  <1> QED
    BY <1>6, <1>7

LEMMA KnownEnter ==
  ASSUME Base, NEW p \in Party, Known(p), EnterRoom(p)
  PROVE  Known(p)'
  <1>1. /\ room' = room \cup {p} /\ UNCHANGED <<app, sock, keys>>
        /\ IF p \in away \/ keys[Other(p)] = None THEN down'[p] = down[p]
           ELSE /\ keys[Other(p)] \in KeyPair /\ KeyOffer(keys[Other(p)]) \in DownEvent
                /\ down'[p] = Append(down[p], KeyOffer(keys[Other(p)]))
    BY EnterFacts
  <1>2. down[p] \in Seq(DownEvent) /\ Connected(p)' = Connected(p)
    BY <1>1 DEF Base, Queues, Connected
  <1>3. CASE p \in away \/ keys[Other(p)] = None
    BY <1>1, <1>2, <1>3 DEF Known, Barred, LastIsStored, SecretIsStored
  <1>4. CASE ~(p \in away \/ keys[Other(p)] = None)
    <2>1. PICK e \in DownEvent : e = KeyOffer(keys[Other(p)])
      BY <1>1, <1>4
    <2>2. e.kind = "key" /\ e.key = keys[Other(p)] /\ down'[p] = Append(down[p], e)
      BY <1>1, <1>4, <2>1 DEF KeyOffer
    <2>3. EndsWith(down'[p], keys[Other(p)]) /\ ~Without(down'[p], "key")
      BY <1>2, <2>2, Appended
    <2> QED
      BY <1>1, <2>3 DEF Known, Barred, LastIsStored, SecretIsStored
  <1> QED
    BY <1>3, <1>4

LEMMA KnownHandleKey ==
  ASSUME Base, NEW p \in Party, \A r \in Party : Known(r), HandleKey(p), NEW q \in Party
  PROVE  Known(q)'
  <1>1. /\ UNCHANGED <<app, sock, room>>
        /\ p \notin room => UNCHANGED <<keys, down>>
    BY HandleKeyFacts
  <1>2. Connected(q)' = Connected(q) /\ Other(q) \in Party
    BY <1>1, Constants DEF Connected
  <1>3. CASE p \notin room
    BY <1>1, <1>2, <1>3, KnownStays DEF Fed
  <1>4. CASE p \in room
    <2>1. PICK k \in KeyPair :
            /\ keys'[p] = k /\ keys'[Other(p)] = keys[Other(p)]
            /\ KeyOffer(k) \in DownEvent /\ down'[p] = down[p]
            /\ IF Other(p) \in room THEN down'[Other(p)] = Append(down[Other(p)], KeyOffer(k))
               ELSE down'[Other(p)] = down[Other(p)]
      BY <1>4, HandleKeyFacts
    <2>2. CASE q = p
      BY <1>1, <1>2, <2>1, <2>2, KnownStays DEF Fed
    <2>3. CASE q # p
      <3>1. q = Other(p) /\ Other(q) = p
        BY <1>2, <2>3, Constants
      <3>2. CASE q \in room
        <4>1. PICK e \in DownEvent : e = KeyOffer(k)
          BY <2>1
        <4>2. e.kind = "key" /\ e.key = k /\ down'[q] = Append(down[q], e)
          BY <2>1, <3>1, <3>2, <4>1 DEF KeyOffer
        <4>3. down[q] \in Seq(DownEvent)
          BY DEF Base, Queues
        <4>4. EndsWith(down'[q], k) /\ ~Without(down'[q], "key")
          BY <4>2, <4>3, Appended
        <4> QED
          BY <1>1, <2>1, <3>1, <3>2, <4>4 DEF Known, Barred, LastIsStored, SecretIsStored
      <3>3. CASE q \notin room
        <4>1. down'[q] = down[q]
          BY <2>1, <3>1, <3>3
        <4>2. /\ Without(down[q], "key")
              /\ Connected(q) /\ ~app[q].rerun => app[q].secret = None
          BY <3>3 DEF Known, Barred
        <4>3. EndsWith(down'[q], keys'[Other(q)])
          BY <4>1, <4>2, WithoutEndsWith
        <4> QED
          BY <1>1, <1>2, <4>1, <4>2, <4>3 DEF Known, Barred, LastIsStored, SecretIsStored
      <3> QED
        BY <3>2, <3>3
    <2> QED
      BY <2>2, <2>3
  <1> QED
    BY <1>3, <1>4

(* One step of a party p, or of nobody. *)
PartyStep(p) ==
  AppStep(p) \/ GatewayStep(p) \/ Authenticate(p) \/ RejectEarly(p)
  \/ Drop(p) \/ RefreshToken(p) \/ KillApp(p) \/ Connect(p)

LEMMA KnownPartyStep ==
  ASSUME Base, NEW p \in Party, over # "yes", \A r \in Party : Known(r), PartyStep(p)
  PROVE  Base' /\ over' = over /\ \A r \in Party : Known(r)'
  <1>1. \A r \in Party : r # p /\ Fed(r) /\ keys' = keys /\ app'[r] = app[r]
          /\ sock'[r] = sock[r] /\ (r \in room' <=> r \in room) => Known(r)'
    BY KnownOther
  <1>2. app[p].screen = "closed" => app[p].secret = None
    BY DEF Base, Apps, AppOK
  <1>3. CASE OpenChat(p)
    <2>1. Base' /\ AppIs(p, "reading", app[p].rerun, None, None)
      BY <1>3, OpenFacts
    <2>2. UNCHANGED <<down, sock, serverVars>>
      BY <1>3 DEF OpenChat
    <2>3. Known(p)'
      BY <2>1, <2>2, KnownCleared DEF AppIs, serverVars
    <2> QED
      BY <1>1, <2>1, <2>2, <2>3 DEF AppIs, serverVars, Fed
  <1>4. CASE RerunEffect(p)
    <2>1. Base' /\ AppIs(p, "reading", FALSE, None, None)
      BY <1>4, RerunFacts
    <2>2. UNCHANGED <<down, sock, serverVars>>
      BY <1>4 DEF RerunEffect
    <2>3. Known(p)'
      BY <2>1, <2>2, KnownCleared DEF AppIs, serverVars
    <2> QED
      BY <1>1, <2>1, <2>2, <2>3 DEF AppIs, serverVars, Fed
  <1>5. CASE ReadKey(p)
    <2>1. /\ Base' /\ UNCHANGED <<down, sock, serverVars>> /\ app[p].secret = None
          /\ \E screen, k : AppIs(p, screen, app[p].rerun, k, app[p].secret)
      BY <1>5, ReadFacts DEF Offering
    <2>2. Known(p)'
      BY <2>1, KnownCleared DEF AppIs, serverVars
    <2> QED
      BY <1>1, <2>1, <2>2 DEF AppIs, serverVars, Fed
  <1>6. CASE JoinRoom(p)
    <2>1. /\ Base' /\ UNCHANGED <<down, sock, serverVars>>
          /\ AppIs(p, "ready", app[p].rerun, app[p].key, app[p].secret)
      BY <1>6, JoinFacts
    <2>2. Known(p)'
      BY <2>1, KnownStays DEF AppIs, serverVars, Fed, Connected
    <2> QED
      BY <1>1, <2>1, <2>2 DEF AppIs, serverVars, Fed
  <1>7. CASE SendMessage(p)
    <2>1. /\ Base' /\ UNCHANGED <<down, sock, serverVars>>
          /\ AppIs(p, app[p].screen, app[p].rerun, app[p].key, app[p].secret)
      BY <1>7, SendFacts
    <2>2. Known(p)'
      BY <2>1, KnownStays DEF AppIs, serverVars, Fed, Connected
    <2> QED
      BY <1>1, <2>1, <2>2 DEF AppIs, serverVars, Fed
  <1>8. CASE Receive(p)
    <2>1. /\ Base' /\ UNCHANGED <<sock, serverVars>>
          /\ \A q \in Party : q # p => down'[q] = down[q]
          /\ AppIs(p, app[p].screen, app[p].rerun, app[p].key, NewSecret(p, Head(down[p])))
      BY <1>8, ReceiveFacts
    <2>2. Known(p)'
      BY <1>8, KnownReceive
    <2> QED
      BY <1>1, <2>1, <2>2 DEF AppIs, serverVars, Fed
  <1>9. CASE LeaveChat(p)
    <2>1. /\ Base' /\ AppIs(p, "closed", FALSE, None, None)
          /\ UNCHANGED <<down, sock, serverVars>>
      BY <1>9, LeaveChatFacts
    <2>2. Known(p)'
      BY <2>1, KnownCleared DEF AppIs, serverVars
    <2> QED
      BY <1>1, <2>1, <2>2 DEF AppIs, serverVars, Fed
  <1>10. CASE HandleJoin(p)
    <2>1. Base' /\ UNCHANGED <<app, down, sock, room, keys, over>>
      BY <1>10, HandleJoinFacts
    <2> QED
      BY <2>1, KnownStays DEF Fed, Connected
  <1>11. CASE EnterRoom(p)
    <2>1. /\ Base' /\ room' = room \cup {p} /\ UNCHANGED <<app, sock, keys, over>>
          /\ \A q \in Party : q # p => down'[q] = down[q]
      BY <1>11, EnterFacts
    <2>2. Known(p)'
      BY <1>11, KnownEnter
    <2> QED
      BY <1>1, <2>1, <2>2 DEF Fed
  <1>12. CASE SyncMissed(p)
    <2>1. Base' /\ UNCHANGED <<app, sock, room, keys, over>> /\ \A q \in Party : Fed(q)
      BY <1>12, SyncFacts
    <2> QED
      BY <2>1, KnownStays DEF Connected
  <1>13. CASE HandleKey(p)
    BY <1>13, HandleKeyFacts, KnownHandleKey
  <1>14. CASE BufferMessage(p)
    <2>1. Base' /\ UNCHANGED <<app, down, sock, room, keys, over>>
      BY <1>14, BufferFacts
    <2> QED
      BY <2>1, KnownStays DEF Fed, Connected
  <1>15. CASE Authenticate(p)
    <2>1. /\ Base' /\ UNCHANGED <<app, down, serverVars>>
          /\ sock[p] = "accepted" /\ sock'[p] = "up" /\ \A q \in Party : q # p => sock'[q] = sock[q]
      BY <1>15, AuthenticateFacts
    <2>2. Known(p)'
      BY <2>1, KnownStays DEF Fed, Connected, serverVars
    <2> QED
      BY <1>1, <2>1, <2>2 DEF Fed, serverVars
  <1>16. CASE RejectEarly(p)
    <2>1. Base' /\ UNCHANGED <<app, down, sock, serverVars>>
      BY <1>16, RejectFacts
    <2> QED
      BY <2>1, KnownStays DEF Fed, Connected, serverVars
  <1>17. CASE Drop(p)
    <2>1. Base' /\ Lost(p) /\ app' = app
      BY <1>17, DropFacts
    <2> QED
      BY <1>1, <2>1, KnownLost DEF Lost, Fed
  <1>18. CASE RefreshToken(p)
    <2>1. Base' /\ Lost(p) /\ app' = app
      BY <1>18, RefreshFacts
    <2> QED
      BY <1>1, <2>1, KnownLost DEF Lost, Fed
  <1>19. CASE KillApp(p)
    <2>1. Base' /\ Lost(p) /\ AppIs(p, "closed", FALSE, None, None)
      BY <1>19, KillFacts
    <2> QED
      BY <1>1, <2>1, KnownLost DEF Lost, Fed, AppIs
  <1>20. CASE Connect(p)
    <2>1. /\ Base' /\ UNCHANGED <<down, serverVars>>
          /\ \A q \in Party : q # p => sock'[q] = sock[q]
          /\ AppIs(p, app[p].screen, Mounted(p), app[p].key, app[p].secret)
      BY <1>20, ConnectFacts
    <2>2. app'[p].secret = None \/ app'[p].rerun
      BY <1>2, <2>1 DEF AppIs, Mounted
    <2>3. Known(p)'
      BY <2>1, <2>2, KnownCleared DEF serverVars
    <2> QED
      BY <1>1, <2>1, <2>3 DEF AppIs, serverVars, Fed
  <1> QED
    BY <1>3, <1>4, <1>5, <1>6, <1>7, <1>8, <1>9, <1>10, <1>11, <1>12, <1>13, <1>14, <1>15,
       <1>16, <1>17, <1>18, <1>19, <1>20 DEF PartyStep, AppStep, GatewayStep

LEMMA NextIs ==
  Next => (\E p \in Party : PartyStep(p)) \/ RelayMessage \/ EndSession \/ Purge
  BY DEF Next, PartyStep

LEMMA BaseStutters ==
  ASSUME Base, UNCHANGED vars
  PROVE  Base'
  <1>1. UNCHANGED <<app, store, up, down, sock, joining, room, member, away, keys, msgs,
                    relayq, over, log, typed, mishaps>>
    BY DEF vars
  <1> QED
    BY <1>1 DEF Base, Apps, Queues, Server, Connected

LEMMA BaseNext ==
  ASSUME Base, [Next]_vars
  PROVE  Base'
  <1>1. ASSUME NEW p \in Party, PartyStep(p) PROVE Base'
    BY <1>1, OpenFacts, RerunFacts, ReadFacts, JoinFacts, SendFacts, ReceiveFacts,
       LeaveChatFacts, HandleJoinFacts, EnterFacts, SyncFacts, HandleKeyFacts, BufferFacts,
       AuthenticateFacts, RejectFacts, DropFacts, RefreshFacts, KillFacts, ConnectFacts
       DEF PartyStep, AppStep, GatewayStep
  <1> QED
    BY <1>1, NextIs, RelayFacts, EndFacts, PurgeFacts, BaseStutters

LEMMA KnownInit == Init => AllKnown
  <1> SUFFICES ASSUME Init, NEW p \in Party PROVE Known(p)
    BY DEF AllKnown
  <1>1. down[p] = <<>> /\ app[p] = Closed(0)
    BY DEF Init
  <1>2. app[p].secret = None
    BY <1>1 DEF Closed
  <1>3. Without(down[p], "key")
    BY <1>1, Emptied
  <1> QED
    BY <1>2, <1>3, WithoutEndsWith DEF Known, Barred, LastIsStored, SecretIsStored

LEMMA KnownNext ==
  ASSUME Base, AllKnown, [Next]_vars
  PROVE  AllKnown'
  <1> SUFFICES ASSUME over' # "yes", NEW q \in Party PROVE Known(q)'
    BY DEF AllKnown
  <1>1. ASSUME NEW p \in Party, PartyStep(p) PROVE Known(q)'
    <2>1. over # "yes"
      <3>1. CASE over = "yes"
        <4>1. over' = over
          BY <1>1, HandleJoinFacts, EnterFacts, SyncFacts, HandleKeyFacts, BufferFacts,
             DropFacts, RefreshFacts, KillFacts
             DEF PartyStep, AppStep, GatewayStep, OpenChat, RerunEffect, ReadKey, JoinRoom,
                 SendMessage, Receive, LeaveChat, Authenticate, RejectEarly, Connect, Lost,
                 serverVars
        <4> QED
          BY <3>1, <4>1
      <3> QED
        BY <3>1
    <2>2. \A r \in Party : Known(r)
      BY <2>1 DEF AllKnown
    <2> QED
      BY <1>1, <2>1, <2>2, KnownPartyStep
  <1>2. CASE RelayMessage
    <2>1. UNCHANGED <<app, sock, room, keys, over>> /\ Fed(q)
      BY <1>2, RelayFacts
    <2>2. Known(q)
      BY <2>1 DEF AllKnown
    <2> QED
      BY <2>1, <2>2, KnownStays DEF Connected
  <1>3. CASE EndSession
    <2>1. UNCHANGED <<app, sock, room, keys>> /\ Fed(q) /\ over = "no"
      BY <1>3, EndFacts
    <2>2. Known(q)
      BY <2>1 DEF AllKnown
    <2> QED
      BY <2>1, <2>2, KnownStays DEF Connected
  <1>4. CASE Purge
    BY <1>4, PurgeFacts
  <1>5. CASE UNCHANGED vars
    <2>1. UNCHANGED <<app, down, sock, room, keys, over>>
      BY <1>5 DEF vars, serverVars
    <2>2. Known(q)
      BY <2>1 DEF AllKnown
    <2> QED
      BY <2>1, <2>2, KnownStays DEF Connected, Fed
  <1> QED
    BY <1>1, <1>2, <1>3, <1>4, <1>5, NextIs

LEMMA KnownAgree ==
  ASSUME Base, AllKnown
  PROVE  SecretsAgree
  <1> SUFFICES ASSUME Quiet, \A r \in Party : keys[r] = app[r].key, NEW p \in Party,
                      app[p].secret # None
               PROVE  app[p].secret = Agreed
    BY DEF SecretsAgree
  <1>1. /\ over = "no" /\ down[p] = <<>> /\ Connected(p) /\ ~app[p].rerun
    BY DEF Quiet, Connected
  <1>2. Without(down[p], "key")
    BY <1>1, Emptied
  <1>3. app[p].secret = {app[p].key, keys[Other(p)]}
    BY <1>1, <1>2 DEF AllKnown, Known, SecretIsStored
  <1>4. /\ Other(p) \in Party /\ keys[Other(p)] = app[Other(p)].key
        /\ \A q \in Party : q = p \/ q = Other(p)
    BY Constants
  <1>5. Agreed = {app[p].key, app[Other(p)].key}
    BY <1>4 DEF Agreed
  <1> QED
    BY <1>3, <1>4, <1>5

-----------------------------------------------------------------------------
(* A key for both                                                          *)

Fair == mishaps \in {{}, {"leave"}, {"drop"}}

(* The screen is open, on a connection it has set itself up for. *)
Ready(p) == Connected(p) /\ app[p].screen = "ready" /\ ~app[p].rerun
(* ... and the gateway has handled its keys, or its joins. *)
Offered(p) == Ready(p) /\ Without(up[p], "key")
Entered(p) == Ready(p) /\ Without(up[p], "join") /\ joining[p].step # "check"

Calm(p) ==
  /\ over = "no" /\ sock[p] # "new"
  /\ "drop" \notin mishaps => Connected(p) /\ p \notin away

(* A chat not opened yet has left nothing with the gateway. *)
Shut(p) ==
  ~Mounted(p) /\ mishaps # {"leave"} =>
    up[p] = <<>> /\ joining[p] = NoJoin /\ p \notin member \cup away \cup room

(* No key reaches the gateway before a join. *)
InOrder(p) == p \in room \/ joining[p].step = "check" \/ Led(up[p])

Stored(p) == Offered(p) => keys[p] # None
Inside(p) == Entered(p) => p \in room

(* Who has entered when the other's key is stored has it, or soon will. *)
Handed(p) ==
  Entered(p) /\ Offered(Other(p)) => app[p].secret # None \/ ~Without(down[p], "key")

(* The join of a reconnection, which brings no key, is not the last one:   *)
(* the setup that follows the connect event emits another.                 *)
Rejoining(p) ==
  /\ p \in away /\ Connected(p) => ~Without(up[p], "join") \/ joining[p] # NoJoin
  /\ p \in away /\ Ready(p) => \/ JoinsTwice(up[p])
                               \/ joining[p] # NoJoin /\ ~Without(up[p], "join")

Order(p) ==
  Calm(p) /\ Shut(p) /\ InOrder(p) /\ Stored(p) /\ Inside(p) /\ Handed(p) /\ Rejoining(p)

AllOrder == Fair => \A p \in Party : Order(p)

(* Of p nothing changes but what comes down to it, and that is no key. *)
Same(p) ==
  /\ app'[p].screen = app[p].screen /\ app'[p].rerun = app[p].rerun
  /\ app'[p].secret = app[p].secret /\ up'[p] = up[p] /\ sock'[p] = sock[p]
  /\ joining'[p] = joining[p] /\ keys'[p] = keys[p]
  /\ p \in room' <=> p \in room
  /\ p \in member' <=> p \in member
  /\ p \in away' <=> p \in away

LEMMA SameViews ==
  ASSUME NEW p \in Party, Same(p)
  PROVE  /\ Mounted(p)' <=> Mounted(p)
         /\ Connected(p)' <=> Connected(p)
         /\ Ready(p)' <=> Ready(p)
         /\ Offered(p)' <=> Offered(p)
         /\ Entered(p)' <=> Entered(p)
  BY DEF Same, Mounted, Connected, Ready, Offered, Entered

(* A step that leaves p alone and gives the other no key to offer. *)
LEMMA OrderStays ==
  ASSUME Base, NEW p \in Party, Order(p), Same(p), Fed(p), over' = over,
         "drop" \notin mishaps' => "drop" \notin mishaps,
         mishaps' # {"leave"} => mishaps # {"leave"},
         Offered(Other(p))' => Offered(Other(p))
  PROVE  Order(p)'
  <1>1. /\ Mounted(p)' <=> Mounted(p)
        /\ Connected(p)' <=> Connected(p)
        /\ Ready(p)' <=> Ready(p)
        /\ Offered(p)' <=> Offered(p)
        /\ Entered(p)' <=> Entered(p)
    BY SameViews
  <1>2. Without(down[p], "key") <=> Without(down'[p], "key")
    BY FedKeys
  <1>3. Calm(p)'
    BY <1>1 DEF Order, Calm, Same
  <1>4. Shut(p)'
    BY <1>1 DEF Order, Shut, Same
  <1>5. InOrder(p)' /\ Stored(p)' /\ Inside(p)' /\ Rejoining(p)'
    BY <1>1 DEF Order, InOrder, Stored, Inside, Rejoining, Same
  <1>6. Handed(p)'
    BY <1>1, <1>2 DEF Order, Handed, Same
  <1> QED
    BY <1>3, <1>4, <1>5, <1>6 DEF Order

(* A screen that is not ready after a step. *)
LEMMA OrderUnready ==
  ASSUME NEW p \in Party, Order(p), ~Ready(p)', Mounted(p)', UNCHANGED <<up, sock, joining, room, away, over, mishaps>>
  PROVE  Order(p)'
  <1>1. Connected(p)' <=> Connected(p)
    BY DEF Connected
  <1>2. ~Offered(p)' /\ ~Entered(p)'
    BY DEF Offered, Entered
  <1> QED
    BY <1>1, <1>2 DEF Order, Calm, Shut, InOrder, Stored, Inside, Handed, Rejoining

LEMMA OrderOffering ==
  ASSUME Base, NEW p \in Party, Order(p), Offering(p),
         UNCHANGED <<down, sock, joining, room, away, over, mishaps>>
  PROVE  Order(p)' /\ ~Offered(p)'
  <1>1. PICK k \in KeyPair :
          /\ AppIs(p, "ready", app[p].rerun, k, app[p].secret)
          /\ up'[p] = Append(Append(up[p], Join(None)), KeyOffer(k))
    BY DEF Offering
  <1>2. PICK j, o : j = Join(None) /\ o = KeyOffer(k)
    OBVIOUS
  <1>3. /\ j \in UpEvent /\ o \in UpEvent /\ j.kind = "join" /\ o.kind = "key"
        /\ up[p] \in Seq(UpEvent) /\ Append(up[p], j) \in Seq(UpEvent)
    BY <1>2, AppendProperties DEF Base, Queues, Join, KeyOffer, UpEvent
  <1>4. up'[p] = Append(Append(up[p], j), o)
    BY <1>1, <1>2
  <1>5. /\ ~Without(Append(up[p], j), "join")
        /\ Led(up[p]) => Led(Append(up[p], j))
        /\ ~Without(up[p], "join") => JoinsTwice(Append(up[p], j))
    BY <1>3, Appended
  <1>6. /\ ~Without(up'[p], "join") /\ ~Without(up'[p], "key")
        /\ Led(up[p]) => Led(up'[p])
        /\ ~Without(up[p], "join") => JoinsTwice(up'[p])
    <2>1. PICK t \in Seq(UpEvent) : t = Append(up[p], j)
      BY <1>3
    <2>2. up'[p] = Append(t, o)
      BY <1>4, <2>1
    <2>3. /\ ~Without(Append(t, o), "join") /\ ~Without(Append(t, o), "key")
          /\ Led(t) => Led(Append(t, o))
          /\ JoinsTwice(t) => JoinsTwice(Append(t, o))
      BY <1>3, <1>5, <2>1, Appended
    <2> QED
      BY <1>5, <2>1, <2>2, <2>3
  <1>7. ~Offered(p)' /\ ~Entered(p)' /\ Mounted(p)'
    BY <1>1, <1>6 DEF Offered, Entered, Mounted, AppIs
  <1>8. (Connected(p)' <=> Connected(p)) /\ (Ready(p)' => Connected(p))
    BY DEF Connected, Ready
  <1>9. Calm(p)' /\ Shut(p)' /\ InOrder(p)' /\ Stored(p)' /\ Inside(p)' /\ Handed(p)'
    BY <1>6, <1>7, <1>8 DEF Order, Calm, Shut, InOrder, Stored, Inside, Handed
  <1>10. Rejoining(p)'
    BY <1>6, <1>8 DEF Order, Rejoining
  <1> QED
    BY <1>7, <1>9, <1>10 DEF Order

LEMMA OrderSend ==
  ASSUME Base, NEW p \in Party, Order(p), SendMessage(p)
  PROVE  Order(p)' /\ (Offered(p)' <=> Offered(p))
  <1>1. /\ UNCHANGED <<down, sock, serverVars, mishaps>>
        /\ AppIs(p, app[p].screen, app[p].rerun, app[p].key, app[p].secret)
    BY SendFacts
  <1>2. PICK e \in UpEvent : e.kind = "send" /\ up'[p] = Append(up[p], e)
    BY SendFacts
  <1>3. up[p] \in Seq(UpEvent)
    BY DEF Base, Queues
  <1>4. /\ Without(up'[p], "key") <=> Without(up[p], "key")
        /\ Without(up'[p], "join") <=> Without(up[p], "join")
        /\ Led(up'[p]) <=> Led(up[p])
        /\ JoinsTwice(up'[p]) <=> JoinsTwice(up[p])
    BY <1>2, <1>3, Appended
  <1>5. UNCHANGED <<joining, room, member, away, keys, over>>
    BY <1>1 DEF serverVars
  <1>6. /\ Connected(p)' <=> Connected(p)
        /\ Ready(p)' <=> Ready(p)
    BY <1>1 DEF Connected, Ready, AppIs
  <1>7. Mounted(p)'
    BY <1>1 DEF Mounted, AppIs, SendMessage
  <1>8. (Offered(p)' <=> Offered(p)) /\ (Entered(p)' <=> Entered(p))
    BY <1>4, <1>5, <1>6 DEF Offered, Entered
  <1>9. Offered(Other(p))' => Offered(Other(p))
    <2>1. Other(p) \in Party /\ Other(p) # p
      BY Constants
    <2>2. app'[Other(p)] = app[Other(p)] /\ up'[Other(p)] = up[Other(p)]
      BY <1>1, <2>1, SendFacts DEF AppIs
    <2> QED
      BY <1>1, <2>2 DEF Offered, Ready, Connected
  <1>10. Calm(p)' /\ Shut(p)' /\ InOrder(p)' /\ Stored(p)' /\ Inside(p)' /\ Rejoining(p)'
    BY <1>1, <1>4, <1>5, <1>6, <1>7, <1>8
      DEF Order, Calm, Shut, InOrder, Stored, Inside, Rejoining
  <1>11. Handed(p)'
    BY <1>1, <1>8, <1>9 DEF Order, Handed, AppIs
  <1> QED
    BY <1>8, <1>10, <1>11 DEF Order

LEMMA OrderReceive ==
  ASSUME Base, NEW p \in Party, Order(p), Receive(p)
  PROVE  Order(p)' /\ (Offered(p)' <=> Offered(p))
  <1> DEFINE e == Head(down[p])
  <1>1. /\ UNCHANGED <<store, up, sock, serverVars, typed, mishaps>>
        /\ down[p] # <<>> /\ down'[p] = Tail(down[p])
        /\ e.kind = "key" => e.key \in KeyPair
        /\ AppIs(p, app[p].screen, app[p].rerun, app[p].key, NewSecret(p, e))
        /\ \A q \in Party : q # p => app'[q] = app[q]
    BY ReceiveFacts DEF AppIs
  <1>2. down[p] \in Seq(DownEvent) /\ AppOK(app[p])
    BY DEF Base, Queues, Apps
  <1>3. Without(down[p], "key") <=> Without(down'[p], "key") /\ e.kind # "key"
    BY <1>1, <1>2, Taken
  <1> HIDE DEF e
  <1>4. UNCHANGED <<joining, room, member, away, keys, over>>
    BY <1>1 DEF serverVars
  <1>5. /\ Mounted(p)' <=> Mounted(p)
        /\ Connected(p)' <=> Connected(p)
        /\ Ready(p)' <=> Ready(p)
    BY <1>1 DEF Connected, Ready, Mounted, AppIs
  <1>6. (Offered(p)' <=> Offered(p)) /\ (Entered(p)' <=> Entered(p))
    BY <1>1, <1>4, <1>5 DEF Offered, Entered
  <1>7. Offered(Other(p))' => Offered(Other(p))
    <2>1. Other(p) \in Party /\ Other(p) # p
      BY Constants
    <2> QED
      BY <1>1, <2>1 DEF Offered, Ready, Connected
  <1>8. Calm(p)' /\ Shut(p)' /\ InOrder(p)' /\ Stored(p)' /\ Inside(p)' /\ Rejoining(p)'
    BY <1>1, <1>4, <1>5, <1>6 DEF Order, Calm, Shut, InOrder, Stored, Inside, Rejoining
  <1>9. Ready(p) /\ (e.kind = "key" \/ app[p].secret # None) => app'[p].secret # None
    <2>1. Ready(p) => app[p].key \in KeyPair
      BY <1>2 DEF Ready, AppOK
    <2>2. Ready(p) /\ e.kind = "key" => {app[p].key, e.key} \in Secret
      BY <1>1, <2>1 DEF Secret
    <2> QED
      BY <1>1, <2>1, <2>2, Constants DEF AppIs, NewSecret
  <1>10. Handed(p)'
    BY <1>3, <1>6, <1>7, <1>9 DEF Order, Handed, Entered
  <1> QED
    BY <1>6, <1>8, <1>10 DEF Order

LEMMA OrderLeave ==
  ASSUME Base, NEW p \in Party, Order(p), LeaveChat(p), Fair'
  PROVE  Order(p)' /\ ~Offered(p)' /\ mishaps' = {"leave"}
  <1>1. /\ AppIs(p, "closed", FALSE, None, None) /\ mishaps' = mishaps \cup {"leave"}
        /\ UNCHANGED <<up, down, sock, serverVars, typed>>
    BY LeaveChatFacts
  <1>2. mishaps' = {"leave"} /\ "drop" \notin mishaps
    BY <1>1 DEF Fair
  <1>3. ~Ready(p)' /\ ~Offered(p)' /\ ~Entered(p)' /\ (Connected(p)' <=> Connected(p))
    BY <1>1 DEF AppIs, Ready, Offered, Entered, Connected
  <1> QED
    BY <1>1, <1>2, <1>3
      DEF Order, Calm, Shut, InOrder, Stored, Inside, Handed, Rejoining, serverVars

LEMMA OrderDrop ==
  ASSUME Base, NEW p \in Party, Order(p), Drop(p), Fair'
  PROVE  Order(p)' /\ ~Offered(p)' /\ mishaps' = {"drop"} /\ mishaps = {}
  <1>1. Lost(p) /\ sock'[p] = "down" /\ app' = app /\ mishaps' = mishaps \cup {"drop"}
    BY DropFacts
  <1>2. "drop" \notin mishaps
    BY DEF Drop, Happens
  <1>3. mishaps' = {"drop"} /\ mishaps = {}
    BY <1>1, <1>2 DEF Fair
  <1>4. ~Connected(p)' /\ ~Ready(p)' /\ ~Offered(p)' /\ ~Entered(p)'
        /\ (Mounted(p)' <=> Mounted(p))
    BY <1>1 DEF Ready, Offered, Entered, Connected, Mounted
  <1>5. Led(up'[p])
    BY <1>1, Emptied DEF Lost
  <1>6. Calm(p)' /\ InOrder(p)' /\ Stored(p)' /\ Inside(p)' /\ Handed(p)' /\ Rejoining(p)'
    BY <1>1, <1>3, <1>4, <1>5
      DEF Order, Calm, InOrder, Stored, Inside, Handed, Rejoining, Lost
  <1>7. Shut(p)'
    BY <1>1, <1>3, <1>4 DEF Order, Shut, Lost
  <1> QED
    BY <1>3, <1>4, <1>6, <1>7 DEF Order

LEMMA OrderConnect ==
  ASSUME Base, NEW p \in Party, Order(p), Connect(p), Fair
  PROVE  Order(p)' /\ ~Offered(p)'
  <1>1. /\ ~Connected(p) /\ UNCHANGED <<store, down, serverVars, typed, mishaps>>
        /\ sock'[p] = "accepted"
        /\ AppIs(p, app[p].screen, Mounted(p), app[p].key, app[p].secret)
        /\ IF Mounted(p) /\ sock[p] = "down" THEN Again(p) ELSE up'[p] = up[p]
    BY ConnectFacts
  <1>2. UNCHANGED <<joining, room, member, away, keys, over>>
    BY <1>1 DEF serverVars
  <1>3. mishaps = {"drop"}
    BY <1>1 DEF Order, Calm, Fair
  <1>4. sock[p] = "down" /\ p \notin room /\ joining[p] = NoJoin
    BY <1>1 DEF Order, Calm, Connected, Base, Server
  <1>5. ~Ready(p)' /\ ~Offered(p)' /\ ~Entered(p)' /\ Connected(p)'
        /\ (Mounted(p)' <=> Mounted(p))
    BY <1>1 DEF Ready, Offered, Entered, Connected, Mounted, AppIs
  <1>6. Led(up[p])
    BY <1>4 DEF Order, InOrder, NoJoin
  <1>7. CASE Mounted(p)
    <2>1. PICK j \in UpEvent :
            /\ j.kind = "join"
            /\ \/ app[p].key = None /\ up'[p] = Append(up[p], j)
               \/ /\ app[p].key \in KeyPair
                  /\ up'[p] = Append(Append(up[p], j), KeyOffer(app[p].key))
      BY <1>1, <1>4, <1>7 DEF Again
    <2>2. up[p] \in Seq(UpEvent) /\ Append(up[p], j) \in Seq(UpEvent)
      BY AppendProperties DEF Base, Queues
    <2>3. Led(Append(up[p], j)) /\ ~Without(Append(up[p], j), "join")
      BY <1>6, <2>1, <2>2, Appended
    <2>4. Led(up'[p]) /\ ~Without(up'[p], "join")
      <3>1. CASE up'[p] = Append(up[p], j)
        BY <2>3, <3>1
      <3>2. CASE /\ app[p].key \in KeyPair
                 /\ up'[p] = Append(Append(up[p], j), KeyOffer(app[p].key))
        <4>1. PICK o \in UpEvent : o = KeyOffer(app[p].key)
          BY <3>2 DEF KeyOffer, UpEvent
        <4>2. o.kind = "key" /\ up'[p] = Append(Append(up[p], j), o)
          BY <3>2, <4>1 DEF KeyOffer
        <4>3. PICK t \in Seq(UpEvent) : t = Append(up[p], j)
          BY <2>2
        <4>4. Led(Append(t, o)) /\ ~Without(Append(t, o), "join")
          BY <2>3, <4>2, <4>3, Appended
        <4> QED
          BY <4>2, <4>3, <4>4
      <3> QED
        BY <2>1, <3>1, <3>2
    <2> QED
      BY <1>1, <1>2, <1>3, <1>5, <1>7, <2>4
        DEF Order, Calm, Shut, InOrder, Stored, Inside, Handed, Rejoining
  <1>8. CASE ~Mounted(p)
    <2>1. up[p] = <<>> /\ joining[p] = NoJoin /\ p \notin member \cup away \cup room
      BY <1>3, <1>8 DEF Order, Shut
    <2>2. up'[p] = up[p]
      BY <1>1, <1>8
    <2> QED
      BY <1>1, <1>2, <1>3, <1>5, <1>6, <1>8, <2>1, <2>2
        DEF Order, Calm, Shut, InOrder, Stored, Inside, Handed, Rejoining
  <1> QED
    BY <1>7, <1>8

LEMMA OrderAuthenticate ==
  ASSUME Base, NEW p \in Party, Order(p), Authenticate(p)
  PROVE  Order(p)' /\ (Offered(p)' <=> Offered(p))
  <1>1. /\ UNCHANGED <<app, store, up, down, serverVars, typed, mishaps>>
        /\ sock[p] = "accepted" /\ sock'[p] = "up" /\ \A q \in Party : q # p => sock'[q] = sock[q]
    BY AuthenticateFacts
  <1>2. UNCHANGED <<joining, room, member, away, keys, over>>
    BY <1>1 DEF serverVars
  <1>3. /\ Mounted(p)' <=> Mounted(p)
        /\ Connected(p)' <=> Connected(p)
        /\ Ready(p)' <=> Ready(p)
        /\ Offered(p)' <=> Offered(p)
        /\ Entered(p)' <=> Entered(p)
    BY <1>1, <1>2 DEF Connected, Ready, Mounted, Offered, Entered
  <1>4. Offered(Other(p))' => Offered(Other(p))
    <2>1. Other(p) \in Party /\ Other(p) # p
      BY Constants
    <2> QED
      BY <1>1, <2>1 DEF Offered, Ready, Connected
  <1> QED
    BY <1>1, <1>2, <1>3, <1>4
      DEF Order, Calm, Shut, InOrder, Stored, Inside, Handed, Rejoining

(* An event that the gateway has taken off the queue of p. *)
LEMMA Popped ==
  ASSUME Base, NEW p \in Party, Pops(p)
  PROVE  LET e == Head(up[p]) IN
         /\ \A kind : Without(up[p], kind) <=> Without(up'[p], kind) /\ e.kind # kind
         /\ Led(up[p]) => e.kind # "key"
         /\ Led(up[p]) /\ e.kind # "join" => Led(up'[p])
         /\ JoinsTwice(up[p]) => ~Without(up'[p], "join")
         /\ JoinsTwice(up[p]) /\ e.kind # "join" => JoinsTwice(up'[p])
  <1>1. up[p] \in Seq(UpEvent) /\ up[p] # <<>> /\ up'[p] = Tail(up[p])
    BY DEF Base, Queues, Pops
  <1> QED
    BY <1>1, Taken

LEMMA OthersPopped ==
  ASSUME Base, NEW p \in Party, Pops(p), app' = app, sock' = sock
  PROVE  /\ Mounted(p)' <=> Mounted(p)
         /\ Connected(p)' <=> Connected(p)
         /\ Ready(p)' <=> Ready(p)
         /\ Offered(Other(p))' <=> Offered(Other(p))
  <1>1. up'[Other(p)] = up[Other(p)]
    BY Constants DEF Pops
  <1> QED
    BY <1>1 DEF Mounted, Connected, Ready, Offered

LEMMA OrderHandleJoin ==
  ASSUME Base, NEW p \in Party, Order(p), HandleJoin(p)
  PROVE  Order(p)' /\ (Offered(p)' <=> Offered(p))
  <1>1. /\ Pops(p) /\ Head(up[p]).kind = "join" /\ joining[p] = NoJoin
        /\ joining'[p].step = "check"
        /\ UNCHANGED <<app, store, down, sock, room, member, away, keys, msgs,
                       relayq, over, log, typed, mishaps>>
    BY HandleJoinFacts DEF Order, Calm
  <1>2. /\ Without(up[p], "key") <=> Without(up'[p], "key")
        /\ ~Without(up[p], "join")
        /\ JoinsTwice(up[p]) => ~Without(up'[p], "join")
    BY <1>1, Popped
  <1>3. /\ Mounted(p)' <=> Mounted(p)
        /\ Connected(p)' <=> Connected(p)
        /\ Ready(p)' <=> Ready(p)
        /\ Offered(Other(p))' <=> Offered(Other(p))
    BY <1>1, OthersPopped
  <1>4. (Offered(p)' <=> Offered(p)) /\ ~Entered(p)' /\ joining'[p] # NoJoin
    BY <1>1, <1>2, <1>3 DEF Offered, Entered, NoJoin
  <1>5. ~Mounted(p) => mishaps = {"leave"}
    BY <1>1 DEF Order, Shut, Pops
  <1>6. Calm(p)' /\ Shut(p)' /\ InOrder(p)' /\ Stored(p)' /\ Inside(p)' /\ Handed(p)'
    BY <1>1, <1>3, <1>4, <1>5 DEF Order, Calm, Shut, InOrder, Stored, Inside, Handed
  <1>7. Rejoining(p)'
    BY <1>1, <1>2, <1>3, <1>4 DEF Order, Rejoining
  <1> QED
    BY <1>4, <1>6, <1>7 DEF Order

LEMMA OrderEnter ==
  ASSUME Base, NEW p \in Party, \A r \in Party : Order(r), EnterRoom(p)
  PROVE  Order(p)' /\ (Offered(p)' <=> Offered(p))
  <1>1. /\ joining[p].step = "check" /\ room' = room \cup {p}
        /\ IF p \in away THEN joining'[p].step = "sync" ELSE joining'[p] = NoJoin
        /\ IF p \in away \/ keys[Other(p)] = None THEN down'[p] = down[p]
           ELSE /\ keys[Other(p)] \in KeyPair /\ KeyOffer(keys[Other(p)]) \in DownEvent
                /\ down'[p] = Append(down[p], KeyOffer(keys[Other(p)]))
        /\ UNCHANGED <<app, store, up, sock, away, keys, over, mishaps>>
    BY EnterFacts
  <1>2. /\ Mounted(p)' <=> Mounted(p)
        /\ Connected(p)' <=> Connected(p)
        /\ Ready(p)' <=> Ready(p)
        /\ Offered(p)' <=> Offered(p)
        /\ Offered(Other(p))' <=> Offered(Other(p))
    BY <1>1 DEF Mounted, Connected, Ready, Offered
  <1>3. Order(p) /\ Order(Other(p)) /\ joining[p] # NoJoin /\ down[p] \in Seq(DownEvent)
    BY <1>1, Constants DEF NoJoin, Base, Queues
  <1>4. ~Mounted(p) => mishaps = {"leave"}
    BY <1>3 DEF Order, Shut
  <1>5. p \in away => joining'[p] # NoJoin
    BY <1>1 DEF NoJoin
  <1>6. Calm(p)' /\ Shut(p)' /\ InOrder(p)' /\ Stored(p)' /\ Inside(p)'
    BY <1>1, <1>2, <1>3, <1>4 DEF Order, Calm, Shut, InOrder, Stored, Inside
  <1>7. JoinsTwice(up[p]) => ~Without(up[p], "join")
    BY DEF JoinsTwice, Without
  <1>8. Rejoining(p)'
    BY <1>1, <1>2, <1>3, <1>5 DEF Order, Rejoining
  <1>9. Handed(p)'
    <2>1. SUFFICES ASSUME Entered(p)', Offered(Other(p))' PROVE ~Without(down'[p], "key")
      BY DEF Handed
    <2>2. p \notin away
      BY <1>1, <1>2, <1>3, <1>7, <2>1 DEF Entered, Order, Rejoining
    <2>3. keys[Other(p)] # None
      BY <1>2, <1>3, <2>1 DEF Order, Stored
    <2>4. PICK e \in DownEvent : e = KeyOffer(keys[Other(p)]) /\ down'[p] = Append(down[p], e)
      BY <1>1, <2>2, <2>3
    <2>5. e.kind = "key"
      BY <2>4 DEF KeyOffer
    <2> QED
      BY <1>3, <2>4, <2>5, Appended
  <1> QED
    BY <1>2, <1>6, <1>8, <1>9 DEF Order

LEMMA OrderSync ==
  ASSUME Base, NEW p \in Party, Order(p), SyncMissed(p)
  PROVE  Order(p)' /\ (Offered(p)' <=> Offered(p))
  <1>1. /\ joining[p].step = "sync" /\ joining'[p] = NoJoin /\ away' = away \ {p} /\ Fed(p)
        /\ UNCHANGED <<app, up, sock, room, member, keys, over, mishaps>>
    BY SyncFacts
  <1>2. /\ Mounted(p)' <=> Mounted(p)
        /\ Connected(p)' <=> Connected(p)
        /\ Ready(p)' <=> Ready(p)
        /\ Offered(p)' <=> Offered(p)
        /\ Offered(Other(p))' <=> Offered(Other(p))
    BY <1>1 DEF Mounted, Connected, Ready, Offered
  <1>3. Entered(p)' => Entered(p)
    BY <1>1, <1>2 DEF Entered
  <1>4. Without(down[p], "key") <=> Without(down'[p], "key")
    BY <1>1, FedKeys
  <1>5. ~Mounted(p) => mishaps = {"leave"}
    BY <1>1 DEF Order, Shut, NoJoin
  <1>6. Calm(p)' /\ Shut(p)' /\ InOrder(p)' /\ Stored(p)' /\ Inside(p)' /\ Rejoining(p)'
    BY <1>1, <1>2, <1>3, <1>5 DEF Order, Calm, Shut, InOrder, Stored, Inside, Rejoining
  <1>7. Handed(p)'
    BY <1>1, <1>2, <1>3, <1>4 DEF Order, Handed
  <1> QED
    BY <1>2, <1>6, <1>7 DEF Order

LEMMA OrderBuffer ==
  ASSUME Base, NEW p \in Party, Order(p), BufferMessage(p)
  PROVE  Order(p)' /\ (Offered(p)' <=> Offered(p))
  <1>1. /\ Pops(p) /\ Head(up[p]).kind = "send"
        /\ UNCHANGED <<app, down, sock, joining, room, member, away, keys, over, mishaps>>
    BY BufferFacts
  <1>2. /\ \A kind \in {"key", "join"} : Without(up[p], kind) <=> Without(up'[p], kind)
        /\ Led(up[p]) => Led(up'[p])
        /\ JoinsTwice(up[p]) => JoinsTwice(up'[p])
    BY <1>1, Popped
  <1>3. /\ Mounted(p)' <=> Mounted(p)
        /\ Connected(p)' <=> Connected(p)
        /\ Ready(p)' <=> Ready(p)
        /\ Offered(Other(p))' <=> Offered(Other(p))
    BY <1>1, OthersPopped
  <1>4. (Offered(p)' <=> Offered(p)) /\ (Entered(p)' <=> Entered(p))
    BY <1>1, <1>2, <1>3 DEF Offered, Entered
  <1>5. ~Mounted(p) => mishaps = {"leave"}
    BY <1>1 DEF Order, Shut, Pops
  <1>6. Calm(p)' /\ Shut(p)' /\ InOrder(p)' /\ Stored(p)' /\ Inside(p)' /\ Handed(p)'
    BY <1>1, <1>2, <1>3, <1>4, <1>5 DEF Order, Calm, Shut, InOrder, Stored, Inside, Handed
  <1>7. Rejoining(p)'
    BY <1>1, <1>2, <1>3 DEF Order, Rejoining
  <1> QED
    BY <1>4, <1>6, <1>7 DEF Order

LEMMA OrderHandleKey ==
  ASSUME Base, NEW p \in Party, \A r \in Party : Order(r), HandleKey(p), Fair'
  PROVE  \A r \in Party : Order(r)'
  <1>1. /\ Pops(p) /\ Head(up[p]).kind = "key"
        /\ mishaps' = IF joining[p].step = "check" THEN mishaps \cup {"early_key"} ELSE mishaps
        /\ UNCHANGED <<app, sock, joining, room, member, away, over>>
    BY HandleKeyFacts
  <1>2. joining[p].step # "check" /\ mishaps' = mishaps
    BY <1>1 DEF Fair
  <1>3. /\ ~Without(up[p], "key") /\ ~Led(up[p])
        /\ Without(up[p], "join") <=> Without(up'[p], "join")
        /\ JoinsTwice(up[p]) => JoinsTwice(up'[p])
    BY <1>1, Popped
  <1>4. /\ Mounted(p)' <=> Mounted(p)
        /\ Connected(p)' <=> Connected(p)
        /\ Ready(p)' <=> Ready(p)
        /\ Offered(Other(p))' <=> Offered(Other(p))
    BY <1>1, OthersPopped
  <1>5. p \in room
    BY <1>2, <1>3 DEF Order, InOrder
  <1>6. PICK k \in KeyPair :
          /\ keys'[p] = k /\ keys'[Other(p)] = keys[Other(p)]
          /\ KeyOffer(k) \in DownEvent /\ down'[p] = down[p]
          /\ IF Other(p) \in room THEN down'[Other(p)] = Append(down[Other(p)], KeyOffer(k))
             ELSE down'[Other(p)] = down[Other(p)]
    BY <1>5, HandleKeyFacts
  <1>7. Entered(p)' <=> Entered(p)
    BY <1>1, <1>3, <1>4 DEF Entered
  <1>8. ~Mounted(p) => mishaps = {"leave"}
    BY <1>1 DEF Order, Shut, Pops
  <1>9. k # None
    BY Constants
  <1>10. Order(p)'
    <2>1. Calm(p)' /\ Shut(p)' /\ InOrder(p)' /\ Stored(p)' /\ Inside(p)' /\ Handed(p)'
      BY <1>1, <1>2, <1>4, <1>5, <1>6, <1>7, <1>8, <1>9
        DEF Order, Calm, Shut, InOrder, Stored, Inside, Handed
    <2>2. Rejoining(p)'
      BY <1>1, <1>3, <1>4 DEF Order, Rejoining
    <2> QED
      BY <2>1, <2>2 DEF Order
  <1>11. ASSUME NEW q \in Party, q # p PROVE Order(q)'
    <2>1. q = Other(p) /\ Other(q) = p
      BY <1>11, Constants
    <2>2. up'[q] = up[q]
      BY <1>1, <1>11 DEF Pops
    <2>3. /\ Mounted(q)' <=> Mounted(q)
          /\ Connected(q)' <=> Connected(q)
          /\ Ready(q)' <=> Ready(q)
          /\ Offered(q)' <=> Offered(q)
          /\ Entered(q)' <=> Entered(q)
      BY <1>1, <2>2 DEF Mounted, Connected, Ready, Offered, Entered
    <2>4. Calm(q)' /\ Shut(q)' /\ InOrder(q)' /\ Stored(q)' /\ Inside(q)' /\ Rejoining(q)'
      BY <1>1, <1>2, <1>6, <2>1, <2>2, <2>3
        DEF Order, Calm, Shut, InOrder, Stored, Inside, Rejoining
    <2>5. Handed(q)'
      <3>1. SUFFICES ASSUME Entered(q)' PROVE ~Without(down'[q], "key")
        BY DEF Handed
      <3>2. q \in room
        BY <2>3, <3>1 DEF Order, Inside
      <3>3. PICK e \in DownEvent : e = KeyOffer(k) /\ down'[q] = Append(down[q], e)
        BY <1>6, <2>1, <3>2
      <3>4. e.kind = "key" /\ down[q] \in Seq(DownEvent)
        BY <3>3 DEF KeyOffer, Base, Queues
      <3> QED
        BY <3>3, <3>4, Appended
    <2> QED
      BY <2>4, <2>5 DEF Order
  <1> QED
    BY <1>10, <1>11

LEMMA OrderPartyStep ==
  ASSUME Base, NEW p \in Party, \A r \in Party : Order(r), Fair, Fair', PartyStep(p)
  PROVE  \A r \in Party : Order(r)'
  <1> USE Constants
  <1>1. ASSUME NEW q \in Party, q # p, Same(q), Fed(q), over' = over,
               "drop" \notin mishaps' => "drop" \notin mishaps,
               mishaps' # {"leave"} => mishaps # {"leave"}, Offered(p)' => Offered(p)
        PROVE  Order(q)'
    <2>1. Other(q) = p
      BY <1>1
    <2> QED
      BY <1>1, <2>1, OrderStays
  <1>2. ASSUME NEW q \in Party, q # p, app'[q] = app[q], up'[q] = up[q], down'[q] = down[q],
               sock'[q] = sock[q], UNCHANGED <<joining, room, member, away, keys, over, mishaps>>,
               Offered(p)' => Offered(p)
        PROVE  Order(q)'
    BY <1>1, <1>2 DEF Same, Fed
  <1>3. CASE OpenChat(p)
    <2>1. AppIs(p, "reading", app[p].rerun, None, None) /\ UNCHANGED <<up, down, sock, serverVars, mishaps>>
      BY <1>3, OpenFacts DEF OpenChat
    <2>2. ~Ready(p)' /\ Mounted(p)' /\ ~Offered(p)'
      BY <2>1 DEF AppIs, Ready, Mounted, Offered
    <2>3. Order(p)'
      BY <2>1, <2>2, OrderUnready DEF serverVars
    <2> QED
      BY <1>2, <2>1, <2>2, <2>3 DEF AppIs, serverVars
  <1>4. CASE RerunEffect(p)
    <2>1. AppIs(p, "reading", FALSE, None, None) /\ UNCHANGED <<up, down, sock, serverVars, mishaps>>
      BY <1>4, RerunFacts DEF RerunEffect
    <2>2. ~Ready(p)' /\ Mounted(p)' /\ ~Offered(p)'
      BY <2>1 DEF AppIs, Ready, Mounted, Offered
    <2>3. Order(p)'
      BY <2>1, <2>2, OrderUnready DEF serverVars
    <2> QED
      BY <1>2, <2>1, <2>2, <2>3 DEF AppIs, serverVars
  <1>5. CASE ReadKey(p)
    <2>1. /\ UNCHANGED <<down, sock, serverVars, mishaps>>
          /\ \/ Offering(p)
             \/ up' = up /\ \E k \in KeyPair : AppIs(p, "writing", app[p].rerun, k, app[p].secret)
      BY <1>5, ReadFacts
    <2>2. CASE Offering(p)
      <3>1. Order(p)' /\ ~Offered(p)'
        BY <2>1, <2>2, OrderOffering DEF serverVars
      <3> QED
        BY <1>2, <2>1, <2>2, <3>1 DEF Offering, AppIs, serverVars
    <2>3. CASE up' = up /\ \E k \in KeyPair : AppIs(p, "writing", app[p].rerun, k, app[p].secret)
      <3>1. ~Ready(p)' /\ Mounted(p)' /\ ~Offered(p)'
        BY <2>3 DEF AppIs, Ready, Mounted, Offered
      <3>2. Order(p)'
        BY <2>1, <2>3, <3>1, OrderUnready DEF serverVars
      <3> QED
        BY <1>2, <2>1, <2>3, <3>1, <3>2 DEF AppIs, serverVars
    <2> QED
      BY <2>1, <2>2, <2>3
  <1>6. CASE JoinRoom(p)
    <2>1. UNCHANGED <<down, sock, serverVars, mishaps>> /\ Offering(p)
      BY <1>6, JoinFacts
    <2>2. Order(p)' /\ ~Offered(p)'
      BY <2>1, OrderOffering DEF serverVars
    <2> QED
      BY <1>2, <2>1, <2>2 DEF Offering, AppIs, serverVars
  <1>7. CASE SendMessage(p)
    <2>1. /\ UNCHANGED <<down, sock, serverVars, mishaps>>
          /\ AppIs(p, app[p].screen, app[p].rerun, app[p].key, app[p].secret)
          /\ \A q \in Party : q # p => up'[q] = up[q]
      BY <1>7, SendFacts
    <2>2. Order(p)' /\ (Offered(p)' <=> Offered(p))
      BY <1>7, OrderSend
    <2> QED
      BY <1>2, <2>1, <2>2 DEF AppIs, serverVars
  <1>8. CASE Receive(p)
    <2>1. /\ UNCHANGED <<up, sock, serverVars, mishaps>>
          /\ \A q \in Party : q # p => down'[q] = down[q]
          /\ \A q \in Party : q # p => app'[q] = app[q]
      BY <1>8, ReceiveFacts DEF AppIs
    <2>2. Order(p)' /\ (Offered(p)' <=> Offered(p))
      BY <1>8, OrderReceive
    <2> QED
      BY <1>2, <2>1, <2>2 DEF serverVars
  <1>9. CASE LeaveChat(p)
    <2>1. /\ AppIs(p, "closed", FALSE, None, None) /\ mishaps' = mishaps \cup {"leave"}
          /\ UNCHANGED <<up, down, sock, serverVars>>
      BY <1>9, LeaveChatFacts
    <2>2. Order(p)' /\ ~Offered(p)' /\ mishaps' = {"leave"}
      BY <1>9, OrderLeave
    <2>3. "drop" \notin mishaps
      BY <2>1, <2>2
    <2> QED
      BY <1>1, <2>1, <2>2, <2>3 DEF AppIs, serverVars, Same, Fed
  <1>10. CASE HandleJoin(p)
    <2>1. /\ Pops(p) /\ \A q \in Party : q # p => joining'[q] = joining[q]
          /\ UNCHANGED <<app, down, sock, room, member, away, keys, over, mishaps>>
      BY <1>10, HandleJoinFacts
    <2>2. Order(p)' /\ (Offered(p)' <=> Offered(p))
      BY <1>10, OrderHandleJoin
    <2> QED
      BY <1>1, <2>1, <2>2 DEF Same, Fed, Pops
  <1>11. CASE EnterRoom(p)
    <2>1. /\ room' = room \cup {p} /\ member' = member \cup {p}
          /\ \A q \in Party : q # p => joining'[q] = joining[q] /\ down'[q] = down[q]
          /\ UNCHANGED <<app, up, sock, away, keys, over, mishaps>>
      BY <1>11, EnterFacts DEF EnterRoom
    <2>2. Order(p)' /\ (Offered(p)' <=> Offered(p))
      BY <1>11, OrderEnter
    <2> QED
      BY <1>1, <2>1, <2>2 DEF Same, Fed
  <1>12. CASE SyncMissed(p)
    <2>1. /\ away' = away \ {p}
          /\ \A q \in Party : q # p => joining'[q] = joining[q]
          /\ \A q \in Party : Fed(q)
          /\ UNCHANGED <<app, up, sock, room, member, keys, over, mishaps>>
      BY <1>12, SyncFacts
    <2>2. Order(p)' /\ (Offered(p)' <=> Offered(p))
      BY <1>12, OrderSync
    <2> QED
      BY <1>1, <2>1, <2>2 DEF Same
  <1>13. CASE HandleKey(p)
    BY <1>13, OrderHandleKey
  <1>14. CASE BufferMessage(p)
    <2>1. /\ Pops(p) /\ UNCHANGED <<app, down, sock, joining, room, member, away, keys, over, mishaps>>
      BY <1>14, BufferFacts
    <2>2. Order(p)' /\ (Offered(p)' <=> Offered(p))
      BY <1>14, OrderBuffer
    <2> QED
      BY <1>2, <2>1, <2>2 DEF Pops
  <1>15. CASE Authenticate(p)
    <2>1. /\ UNCHANGED <<app, up, down, serverVars, mishaps>>
          /\ \A q \in Party : q # p => sock'[q] = sock[q]
      BY <1>15, AuthenticateFacts
    <2>2. Order(p)' /\ (Offered(p)' <=> Offered(p))
      BY <1>15, OrderAuthenticate
    <2> QED
      BY <1>2, <2>1, <2>2 DEF serverVars
  <1>16. CASE RejectEarly(p)
    BY <1>16, RejectFacts DEF Fair
  <1>17. CASE Drop(p)
    <2>1. Lost(p) /\ app' = app
      BY <1>17, DropFacts
    <2>2. Order(p)' /\ ~Offered(p)' /\ mishaps' = {"drop"} /\ mishaps = {}
      BY <1>17, OrderDrop
    <2>3. ASSUME NEW q \in Party, q # p PROVE Same(q) /\ Fed(q) /\ over' = over
      BY <2>1, <2>3 DEF Lost, Same, Fed
    <2> QED
      BY <1>1, <2>2, <2>3
  <1>18. CASE RefreshToken(p)
    BY <1>18, RefreshFacts DEF Fair
  <1>19. CASE KillApp(p)
    <2>1. mishaps' = mishaps \cup {"kill"}
      BY <1>19, KillFacts
    <2> QED
      BY <2>1 DEF Fair
  <1>20. CASE Connect(p)
    <2>1. /\ UNCHANGED <<down, serverVars, mishaps>>
          /\ \A q \in Party : q # p => sock'[q] = sock[q]
          /\ \A q \in Party : q # p => app'[q] = app[q]
          /\ \A q \in Party : q # p => up'[q] = up[q]
      BY <1>20, ConnectFacts DEF AppIs
    <2>2. Order(p)' /\ ~Offered(p)'
      BY <1>20, OrderConnect
    <2> QED
      BY <1>2, <2>1, <2>2 DEF serverVars
  <1> QED
    BY <1>3, <1>4, <1>5, <1>6, <1>7, <1>8, <1>9, <1>10, <1>11, <1>12, <1>13, <1>14, <1>15,
       <1>16, <1>17, <1>18, <1>19, <1>20 DEF PartyStep, AppStep, GatewayStep

LEMMA OrderInit == Init => AllOrder
  <1> SUFFICES ASSUME Init, NEW p \in Party PROVE Order(p)
    BY DEF AllOrder
  <1>1. /\ app[p] = Closed(0) /\ up[p] = <<>> /\ joining[p] = NoJoin /\ over = "no"
        /\ sock[p] \in {"accepted", "up"} /\ room = {} /\ member = {} /\ away = {}
    BY DEF Init
  <1>2. ~Mounted(p) /\ ~Ready(p) /\ ~Offered(p) /\ ~Entered(p) /\ Connected(p)
    BY <1>1 DEF Closed, Mounted, Ready, Offered, Entered, Connected
  <1>3. Led(up[p])
    BY <1>1, Emptied
  <1> QED
    BY <1>1, <1>2, <1>3 DEF Order, Calm, Shut, InOrder, Stored, Inside, Handed, Rejoining

(* No mishap is taken back. *)
LEMMA MishapsStay ==
  ASSUME Base, [Next]_vars
  PROVE  mishaps \subseteq mishaps'
  <1>1. ASSUME NEW p \in Party, PartyStep(p) PROVE mishaps \subseteq mishaps'
    BY <1>1, HandleKeyFacts
       DEF PartyStep, AppStep, GatewayStep, OpenChat, RerunEffect, ReadKey, JoinRoom,
           SendMessage, Receive, LeaveChat, Authenticate, RejectEarly, Connect, Drop,
           RefreshToken, KillApp, HandleJoin, EnterRoom, SyncMissed, BufferMessage, Happens
  <1> QED
    BY <1>1, NextIs DEF RelayMessage, EndSession, Purge, Happens, vars

LEMMA FairBefore ==
  ASSUME Base, [Next]_vars, Fair'
  PROVE  Fair
  BY MishapsStay DEF Fair

LEMMA OrderNext ==
  ASSUME Base, AllOrder, [Next]_vars
  PROVE  AllOrder'
  <1> SUFFICES ASSUME Fair' PROVE \A r \in Party : Order(r)'
    BY DEF AllOrder
  <1>1. Fair /\ \A r \in Party : Order(r)
    BY FairBefore DEF AllOrder
  <1>2. ASSUME NEW p \in Party, PartyStep(p) PROVE \A r \in Party : Order(r)'
    BY <1>1, <1>2, OrderPartyStep
  <1>3. CASE RelayMessage
    <2>1. /\ \A q \in Party : Fed(q)
          /\ UNCHANGED <<app, up, sock, joining, room, member, away, keys, over, mishaps>>
      BY <1>3, RelayFacts
    <2>2. ASSUME NEW q \in Party PROVE Same(q) /\ (Offered(Other(q))' => Offered(Other(q)))
      BY <2>1 DEF Same, Offered, Ready, Connected
    <2> QED
      BY <1>1, <2>1, <2>2, OrderStays
  <1>4. CASE EndSession
    BY <1>4, EndFacts DEF Fair
  <1>5. CASE Purge
    <2>1. \A r \in Party : over = "no"
      BY <1>1 DEF Order, Calm
    <2> QED
      BY <1>5, <2>1, PurgeFacts
  <1>6. CASE UNCHANGED vars
    <2>1. UNCHANGED <<app, up, down, sock, joining, room, member, away, keys, over, mishaps>>
      BY <1>6 DEF vars
    <2>2. ASSUME NEW q \in Party
          PROVE  Same(q) /\ Fed(q) /\ (Offered(Other(q))' => Offered(Other(q)))
      BY <2>1 DEF Same, Fed, Offered, Ready, Connected
    <2> QED
      BY <1>1, <2>1, <2>2, OrderStays
  <1> QED
    BY <1>2, <1>3, <1>4, <1>5, <1>6, NextIs

LEMMA OrderReaches ==
  ASSUME AllOrder
  PROVE  KeysReachBoth
  <1> SUFFICES ASSUME Fair, Quiet, NEW p \in Party PROVE app[p].secret # None
    BY DEF KeysReachBoth, Fair
  <1>1. \A q \in Party : /\ up[q] = <<>> /\ down[q] = <<>> /\ joining[q] = NoJoin
                         /\ Ready(q)
    BY DEF Quiet, Ready, Connected
  <1>2. \A q \in Party : Entered(q) /\ Offered(q) /\ Without(down[q], "key")
    BY <1>1, Emptied DEF Entered, Offered, NoJoin
  <1>3. Order(p) /\ Other(p) \in Party
    BY Constants DEF AllOrder
  <1> QED
    BY <1>2, <1>3 DEF Order, Handed

LEMMA BaseTypes ==
  ASSUME Base
  PROVE  TypeOK
  <1>1. app \in [Party -> AppState]
    <2>1. ASSUME NEW p \in Party PROVE app[p] \in AppState
      <3>1. Shape(app[p]) /\ AppOK(app[p])
        BY DEF Base, Apps
      <3>2. /\ app[p].screen \in {"closed", "reading", "writing", "ready"}
            /\ app[p].rerun \in BOOLEAN /\ app[p].deleting \in BOOLEAN /\ app[p].ended \in BOOLEAN
            /\ app[p].key \in KeyPair \cup {None} /\ app[p].secret \in Secret \cup {None}
            /\ app[p].last \in Int /\ app[p].made \in 0..KeyBound
            /\ app[p].pending \in Seq(Message) /\ app[p].shown \in Seq(1..MessageBound)
        BY <3>1 DEF AppOK
      <3>3. PICK a : a = app[p]
        OBVIOUS
      <3> QED
        BY <3>1, <3>2, <3>3 DEF Shape, AppState
    <2> QED
      BY <2>1 DEF Base, Apps
  <1>2. JoinRecord \subseteq [step: {"none", "check", "sync"}, after: Int]
    BY DEF JoinRecord
  <1>3. joining \in [Party -> [step: {"none", "check", "sync"}, after: Int]]
    BY <1>2 DEF Base, Server
  <1>4. \A p \in Party : sock[p] \in {"down", "new"} => p \notin room
    BY DEF Base, Server, Connected
  <1> QED
    BY <1>1, <1>3, <1>4 DEF Base, Queues, Server, TypeOK

-----------------------------------------------------------------------------
(* A session without a mishap                                              *)

KeysOf(s, k) == \A i \in DOMAIN s : s[i].kind = "key" => s[i].key = k

(* A join is the first event of a queue or none. *)
JoinFirst(s) == \A i \in DOMAIN s : s[i].kind = "join" => i = 1

(* Messages are sent behind the key, and come down behind one. *)
KeyFirst(s) ==
  \A i, j \in DOMAIN s : s[i].kind = "send" /\ s[j].kind = "key" => j < i
Behind(s) ==
  \A i \in DOMAIN s : s[i].kind = "message" => \E j \in 1..(i - 1) : s[j].kind = "key"

LEMMA NothingYet ==
  /\ \A k : KeysOf(<<>>, k)
  /\ JoinFirst(<<>>) /\ KeyFirst(<<>>) /\ Behind(<<>>)
  BY DEF KeysOf, JoinFirst, KeyFirst, Behind

LEMMA Pushes ==
  ASSUME NEW S, NEW s \in Seq(S), NEW e \in S
  PROVE  /\ \A k : KeysOf(s, k) /\ (e.kind = "key" => e.key = k) => KeysOf(Append(s, e), k)
         /\ JoinFirst(s) /\ (e.kind = "join" => s = <<>>) => JoinFirst(Append(s, e))
         /\ KeyFirst(s) /\ (e.kind = "key" => Without(s, "send")) => KeyFirst(Append(s, e))
         /\ Behind(s) /\ (e.kind = "message" => ~Without(s, "key")) => Behind(Append(s, e))
  <1> DEFINE t == Append(s, e)
  <1>1. /\ Len(s) \in Nat /\ DOMAIN s = 1..Len(s) /\ DOMAIN t = 1..(Len(s) + 1)
        /\ \A i \in 1..Len(s) : t[i] = s[i]
        /\ t[Len(s) + 1] = e
    BY AppendProperties, LenProperties
  <1>2. s = <<>> => Len(s) = 0
    OBVIOUS
  <1> HIDE DEF t
  <1>3. \A k : KeysOf(s, k) /\ (e.kind = "key" => e.key = k) => KeysOf(t, k)
    BY <1>1 DEF KeysOf
  <1>4. JoinFirst(s) /\ (e.kind = "join" => s = <<>>) => JoinFirst(t)
    BY <1>1, <1>2 DEF JoinFirst
  <1>5. KeyFirst(s) /\ (e.kind = "key" => Without(s, "send")) => KeyFirst(t)
    BY <1>1 DEF KeyFirst, Without
  <1>6. Behind(s) /\ (e.kind = "message" => ~Without(s, "key")) => Behind(t)
    BY <1>1 DEF Behind, Without
  <1> QED
    BY <1>3, <1>4, <1>5, <1>6 DEF t

LEMMA Pulls ==
  ASSUME NEW S, NEW s \in Seq(S), s # <<>>
  PROVE  LET h == Head(s)
             t == Tail(s)
         IN /\ \A k : KeysOf(s, k) => KeysOf(t, k) /\ (h.kind = "key" => h.key = k)
            /\ JoinFirst(s) => JoinFirst(t) /\ Without(t, "join")
            /\ KeyFirst(s) => KeyFirst(t) /\ (h.kind = "send" => Without(s, "key"))
            /\ Behind(s) => h.kind # "message"
            /\ Behind(s) /\ h.kind # "key" => Behind(t)
  <1> DEFINE t == Tail(s)
             h == Head(s)
  <1>1. /\ Len(s) \in Nat /\ Len(s) >= 1 /\ DOMAIN s = 1..Len(s) /\ DOMAIN t = 1..(Len(s) - 1)
        /\ \A i \in 1..(Len(s) - 1) : t[i] = s[i + 1]
        /\ h = s[1]
    BY HeadTailProperties, LenProperties
  <1> HIDE DEF t, h
  <1>2. \A i \in DOMAIN t : i + 1 \in DOMAIN s /\ t[i] = s[i + 1] /\ i \in Nat /\ i >= 1
    BY <1>1
  <1>3. 1 \in DOMAIN s
    BY <1>1
  <1>4. ASSUME NEW k, KeysOf(s, k) PROVE KeysOf(t, k) /\ (h.kind = "key" => h.key = k)
    BY <1>1, <1>2, <1>3, <1>4 DEF KeysOf
  <1>5. ASSUME JoinFirst(s) PROVE JoinFirst(t) /\ Without(t, "join")
    <2>1. ASSUME NEW i \in DOMAIN t, t[i].kind = "join" PROVE FALSE
      <3>1. i + 1 = 1 /\ i \in Nat /\ i >= 1
        BY <1>2, <1>5, <2>1 DEF JoinFirst
      <3> QED
        BY <3>1
    <2> QED
      BY <2>1 DEF JoinFirst, Without
  <1>6. ASSUME KeyFirst(s) PROVE KeyFirst(t) /\ (h.kind = "send" => Without(s, "key"))
    <2>1. ASSUME NEW i \in DOMAIN t, NEW j \in DOMAIN t, t[i].kind = "send", t[j].kind = "key"
          PROVE  j < i
      <3>1. j + 1 < i + 1
        BY <1>2, <1>6, <2>1 DEF KeyFirst
      <3> QED
        BY <1>2, <3>1
    <2>2. ASSUME h.kind = "send", NEW j \in DOMAIN s, s[j].kind = "key" PROVE FALSE
      <3>1. j < 1 /\ j \in Nat /\ j >= 1
        BY <1>1, <1>3, <1>6, <2>2 DEF KeyFirst
      <3> QED
        BY <3>1
    <2> QED
      BY <2>1, <2>2 DEF KeyFirst, Without
  <1>7. ASSUME Behind(s) PROVE h.kind # "message"
    BY <1>1, <1>3, <1>7 DEF Behind
  <1>8. ASSUME Behind(s), h.kind # "key" PROVE Behind(t)
    <2>1. SUFFICES ASSUME NEW i \in DOMAIN t, t[i].kind = "message"
                   PROVE  \E j \in 1..(i - 1) : t[j].kind = "key"
      BY DEF Behind
    <2>2. i + 1 \in DOMAIN s /\ s[i + 1].kind = "message"
      BY <1>2, <2>1
    <2>3. PICK j \in 1..((i + 1) - 1) : s[j].kind = "key"
      BY <1>8, <2>2 DEF Behind
    <2>4. j # 1
      BY <1>1, <1>8, <2>3
    <2>5. j - 1 \in 1..(i - 1) /\ t[j - 1] = s[j]
      BY <1>1, <1>2, <2>1, <2>3, <2>4
    <2> QED
      BY <2>3, <2>5
  <1> QED
    BY <1>4, <1>5, <1>6, <1>7, <1>8 DEF t, h

(* What is in a queue is still, or was already, in what is left of it. *)
LEMMA StillThere ==
  ASSUME NEW S, NEW s \in Seq(S), s # <<>>
  PROVE  \A i \in DOMAIN Tail(s) : i + 1 \in DOMAIN s /\ Tail(s)[i] = s[i + 1]
  <1>1. /\ Len(s) \in Nat /\ Len(s) >= 1 /\ DOMAIN s = 1..Len(s)
        /\ DOMAIN Tail(s) = 1..(Len(s) - 1)
        /\ \A i \in 1..(Len(s) - 1) : Tail(s)[i] = s[i + 1]
    BY HeadTailProperties, LenProperties
  <1> QED
    BY <1>1

LEMMA OneMore ==
  ASSUME NEW S, NEW s \in Seq(S), NEW e \in S
  PROVE  \A i \in DOMAIN Append(s, e) :
           \/ i \in DOMAIN s /\ Append(s, e)[i] = s[i]
           \/ Append(s, e)[i] = e
  <1>1. /\ Len(s) \in Nat /\ DOMAIN s = 1..Len(s) /\ DOMAIN Append(s, e) = 1..(Len(s) + 1)
        /\ \A i \in 1..Len(s) : Append(s, e)[i] = s[i]
        /\ Append(s, e)[Len(s) + 1] = e
    BY AppendProperties, LenProperties
  <1> QED
    BY <1>1

-----------------------------------------------------------------------------
(* ... the keys and the secrets                                            *)

Holds(p) == app[p].secret # None

Settled(p) ==
  /\ ~app[p].rerun /\ joining[p].step # "sync"
  /\ app[p].pending = <<>> /\ Without(down[p], "sync")

(* A screen that is ready has joined once, and is in the room after that. *)
Entering(p) ==
  /\ app[p].screen # "ready" => up[p] = <<>> /\ joining[p] = NoJoin /\ p \notin room
  /\ p \in room => Without(up[p], "join") /\ joining[p] = NoJoin
  /\ joining[p] # NoJoin => Without(up[p], "join")
  /\ JoinFirst(up[p])

(* Each party has one key, and a secret is made of the two. *)
KeysRight(p) ==
  /\ KeysOf(up[p], app[p].key)
  /\ KeysOf(down[p], app[Other(p)].key)
  /\ ~Without(down[p], "key") => Other(p) \in room
  /\ keys[p] # None => keys[p] = app[p].key /\ p \in room
  /\ Holds(p) => /\ app[p].secret = {app[p].key, app[Other(p)].key}
                 /\ p \in room /\ Other(p) \in room

(* What is sent is sent with the secret, behind the key ... *)
SendsRight(p) ==
  /\ KeyFirst(up[p])
  /\ \A i \in DOMAIN up[p] : up[p][i].kind = "send" =>
       Holds(p) /\ up[p][i].m.from = p /\ up[p][i].m.secret = app[p].secret

(* ... and finds a receiver who has the secret or will have it by then. *)
RelaysRight(p) ==
  \A i \in DOMAIN relayq : relayq[i].m.from = Other(p) =>
    /\ Holds(Other(p)) /\ relayq[i].m.secret = app[Other(p)].secret
    /\ Holds(p) \/ ~Without(down[p], "key")
MailRight(p) ==
  /\ \A i \in DOMAIN down[p] : down[p][i].kind = "message" =>
       /\ Holds(Other(p)) /\ down[p][i].m.from = Other(p)
       /\ down[p][i].m.secret = app[Other(p)].secret
  /\ Holds(p) \/ Behind(down[p])

Plain(p) ==
  Settled(p) /\ Entering(p) /\ KeysRight(p) /\ SendsRight(p) /\ RelaysRight(p) /\ MailRight(p)

Smooth == mishaps = {} /\ \A p \in Party : Order(p) /\ Known(p) /\ Plain(p)

(* A secret stays, so does who is in the room and, there, the key. *)
Steady(p) ==
  /\ Holds(p) => app'[p].secret = app[p].secret
  /\ p \in room => p \in room'
  /\ app'[p].key = app[p].key \/ app[p].screen # "ready"

LEMMA ThePeer ==
  ASSUME NEW p \in Party
  PROVE  \E q \in Party : q = Other(p) /\ Other(q) = p /\ q # p /\ \A r \in Party : r = p \/ r = q
  <1>1. /\ Other(p) \in Party /\ Other(p) # p /\ \A r \in Party : r = p \/ r = Other(p)
        /\ Other(Other(p)) \in Party /\ Other(Other(p)) # Other(p)
    BY Constants
  <1> QED
    BY <1>1

LEMMA PlainSteady ==
  ASSUME Base, NEW p \in Party, NEW q \in Party, q = Other(p), p = Other(q),
         Plain(p), Plain(q), Steady(p), Steady(q)
  PROVE  /\ /\ app'[p].screen = "ready" <=> app[p].screen = "ready"
            /\ up'[p] = up[p] /\ joining'[p] = joining[p] /\ (p \in room' <=> p \in room)
            => Entering(p)'
         /\ /\ up'[p] = up[p] /\ down'[p] = down[p] /\ keys'[p] = keys[p]
            /\ app'[p].secret = app[p].secret
            => KeysRight(p)'
         /\ up'[p] = up[p] => SendsRight(p)'
         /\ /\ relayq' = relayq
            /\ ~Without(down[p], "key") => ~Without(down'[p], "key") \/ app'[p].secret # None
            => RelaysRight(p)'
         /\ down'[p] = down[p] => MailRight(p)'
  <1>1. ASSUME app'[p].screen = "ready" <=> app[p].screen = "ready", up'[p] = up[p],
               joining'[p] = joining[p], p \in room' <=> p \in room
        PROVE  Entering(p)'
    BY <1>1 DEF Plain, Entering
  <1>2. ASSUME up'[p] = up[p], down'[p] = down[p], keys'[p] = keys[p], app'[p].secret = app[p].secret
        PROVE  KeysRight(p)'
    <2>1. KeysOf(up[p], app'[p].key)
      <3>1. CASE app[p].screen = "ready"
        BY <3>1 DEF Plain, KeysRight, Steady
      <3>2. CASE app[p].screen # "ready"
        BY <3>2, NothingYet DEF Plain, Entering
      <3> QED
        BY <3>1, <3>2
    <2>2. \A r \in {p, q} : r \in room => app'[r].key = app[r].key /\ r \in room'
      BY DEF Plain, Entering, Steady
    <2>3. KeysOf(down[p], app'[q].key)
      <3>1. CASE Without(down[p], "key")
        BY <3>1 DEF Without, KeysOf
      <3>2. CASE ~Without(down[p], "key")
        BY <2>2, <3>2 DEF Plain, KeysRight
      <3> QED
        BY <3>1, <3>2
    <2>4. ~Without(down[p], "key") => q \in room'
      BY <2>2 DEF Plain, KeysRight
    <2>5. keys[p] # None => keys[p] = app'[p].key /\ p \in room'
      BY <2>2 DEF Plain, KeysRight
    <2>6. Holds(p) => /\ app[p].secret = {app'[p].key, app'[q].key} /\ p \in room' /\ q \in room'
      BY <2>2 DEF Plain, KeysRight
    <2> QED
      BY <1>2, <2>1, <2>3, <2>4, <2>5, <2>6 DEF KeysRight, Holds
  <1>3. ASSUME up'[p] = up[p] PROVE SendsRight(p)'
    BY <1>3 DEF Plain, SendsRight, Steady, Holds
  <1>4. ASSUME relayq' = relayq,
               ~Without(down[p], "key") => ~Without(down'[p], "key") \/ app'[p].secret # None
        PROVE  RelaysRight(p)'
    BY <1>4 DEF Plain, RelaysRight, Steady, Holds
  <1>5. ASSUME down'[p] = down[p] PROVE MailRight(p)'
    BY <1>5 DEF Plain, MailRight, Steady, Holds
  <1> QED
    BY <1>1, <1>2, <1>3, <1>4, <1>5

LEMMA PlainStays ==
  ASSUME Base, NEW p \in Party, NEW q \in Party, q = Other(p), p = Other(q),
         Plain(p), Plain(q), Steady(p), Steady(q), UNCHANGED <<joining, relayq>>,
         app'[p].screen = "ready" <=> app[p].screen = "ready", app'[p].rerun = app[p].rerun,
         app'[p].secret = app[p].secret, app'[p].pending = app[p].pending,
         up'[p] = up[p], down'[p] = down[p], keys'[p] = keys[p], p \in room' <=> p \in room
  PROVE  Plain(p)'
  <1>1. Entering(p)' /\ KeysRight(p)' /\ SendsRight(p)' /\ RelaysRight(p)' /\ MailRight(p)'
    BY PlainSteady
  <1>2. Settled(p)'
    BY DEF Plain, Settled
  <1> QED
    BY <1>1, <1>2 DEF Plain

LEMMA PlainOpen ==
  ASSUME Base, Smooth, NEW p \in Party, OpenChat(p)
  PROVE  \A r \in Party : Plain(r)'
  <1>1. PICK q \in Party : q = Other(p) /\ Other(q) = p /\ q # p /\ \A r \in Party : r = p \/ r = q
    BY ThePeer
  <1>2. /\ AppIs(p, "reading", app[p].rerun, None, None)
        /\ TextsAre(p, app[p].pending, app[p].shown)
        /\ UNCHANGED <<up, down, sock, joining, room, keys, relayq>>
    BY OpenFacts DEF OpenChat, serverVars
  <1>3. app[p].screen = "closed" /\ app[p].key = None /\ app[p].secret = None
    BY DEF OpenChat, Mounted, Base, Apps, AppOK
  <1>4. Steady(p) /\ Steady(q)
    BY <1>1, <1>2, <1>3 DEF Steady, AppIs, Holds
  <1>5. \A r \in {p, q} :
          /\ app'[r].screen = "ready" <=> app[r].screen = "ready"
          /\ app'[r].rerun = app[r].rerun /\ app'[r].secret = app[r].secret
          /\ app'[r].pending = app[r].pending
    BY <1>1, <1>2, <1>3 DEF AppIs, TextsAre
  <1>6. Plain(p) /\ Plain(q)
    BY DEF Smooth
  <1>7. Plain(p)' /\ Plain(q)'
    BY <1>1, <1>2, <1>4, <1>5, <1>6, PlainStays
  <1> QED
    BY <1>1, <1>7

(* A screen that joins with its key. *)
LEMMA PlainOffering ==
  ASSUME Base, Smooth, NEW p \in Party, Offering(p), app[p].screen # "ready",
         TextsAre(p, app[p].pending, app[p].shown), UNCHANGED <<down, joining, room, keys, relayq>>
  PROVE  \A r \in Party : Plain(r)'
  <1>1. PICK q \in Party : q = Other(p) /\ Other(q) = p /\ q # p /\ \A r \in Party : r = p \/ r = q
    BY ThePeer
  <1>2. PICK k \in KeyPair :
          /\ AppIs(p, "ready", app[p].rerun, k, app[p].secret)
          /\ up'[p] = Append(Append(up[p], Join(None)), KeyOffer(k))
          /\ \A r \in Party : r # p => up'[r] = up[r]
    BY DEF Offering
  <1>3. Plain(p) /\ Plain(q)
    BY DEF Smooth
  <1>4. /\ up[p] = <<>> /\ joining[p] = NoJoin /\ p \notin room /\ ~Holds(p)
        /\ keys[p] = None /\ NoJoin.step = "none"
    BY <1>3 DEF Plain, Entering, KeysRight, NoJoin
  <1>5. Steady(p) /\ Steady(q)
    BY <1>1, <1>2, <1>4 DEF Steady, AppIs, Holds
  <1>6. Plain(q)'
    BY <1>1, <1>2, <1>3, <1>5, PlainStays DEF AppIs
  <1>7. Settled(p)'
    BY <1>2, <1>3 DEF Plain, Settled, AppIs, TextsAre
  <1>8. RelaysRight(p)' /\ MailRight(p)'
    BY <1>1, <1>3, <1>5, PlainSteady
  <1>9. PICK u \in Seq(UpEvent) : u = Append(<<>>, Join(None))
    <2>1. Join(None) \in UpEvent
      BY DEF UpEvent, Join
    <2>2. <<>> \in Seq(UpEvent)
      OBVIOUS
    <2> QED
      BY <2>1, <2>2, AppendProperties
  <1>10. /\ KeyOffer(k) \in UpEvent /\ KeyOffer(k).kind = "key" /\ KeyOffer(k).key = k
         /\ Join(None) \in UpEvent /\ Join(None).kind = "join" /\ <<>> \in Seq(UpEvent)
    BY DEF UpEvent, KeyOffer, Join
  <1>11. KeysOf(u, k) /\ JoinFirst(u) /\ KeyFirst(u) /\ Without(u, "send")
    <2>1. Without(<<>>, "send")
      BY DEF Without
    <2>2. KeysOf(u, k) /\ JoinFirst(u) /\ KeyFirst(u)
      BY <1>9, <1>10, NothingYet, Pushes
    <2>3. Without(u, "send")
      BY <1>9, <1>10, <2>1, Appended
    <2> QED
      BY <2>2, <2>3
  <1>12. PICK v \in Seq(UpEvent) : v = Append(u, KeyOffer(k))
    BY <1>9, <1>10, AppendProperties
  <1>13. KeysOf(v, k) /\ JoinFirst(v) /\ KeyFirst(v) /\ Without(v, "send")
    <2>1. KeysOf(v, k) /\ JoinFirst(v) /\ KeyFirst(v)
      BY <1>10, <1>11, <1>12, Pushes
    <2>2. Without(v, "send")
      BY <1>10, <1>11, <1>12, Appended
    <2> QED
      BY <2>1, <2>2
  <1>14. up'[p] = v /\ app'[p].key = k /\ app'[p].screen = "ready" /\ app'[p].secret = None
    BY <1>2, <1>4, <1>9, <1>12 DEF AppIs, Holds
  <1>15. Entering(p)'
    BY <1>4, <1>13, <1>14 DEF Entering
  <1>16. SendsRight(p)'
    BY <1>13, <1>14 DEF SendsRight, Without
  <1>17. KeysRight(p)'
    <2>1. KeysOf(down[p], app[q].key) /\ (~Without(down[p], "key") => q \in room)
      BY <1>1, <1>3 DEF Plain, KeysRight
    <2>2. KeysOf(down'[p], app'[q].key) /\ app'[q].key = app[q].key
      BY <1>1, <1>2, <2>1 DEF AppIs
    <2> QED
      BY <1>1, <1>4, <1>13, <1>14, <2>1, <2>2 DEF KeysRight, Holds
  <1>18. Plain(p)'
    BY <1>7, <1>8, <1>15, <1>16, <1>17 DEF Plain
  <1> QED
    BY <1>1, <1>6, <1>18

LEMMA PlainRead ==
  ASSUME Base, Smooth, NEW p \in Party, ReadKey(p)
  PROVE  \A r \in Party : Plain(r)'
  <1>1. PICK q \in Party : q = Other(p) /\ Other(q) = p /\ q # p /\ \A r \in Party : r = p \/ r = q
    BY ThePeer
  <1>2. /\ UNCHANGED <<down, sock, joining, room, keys, relayq>>
        /\ app[p].screen = "reading" /\ app[p].secret = None
        /\ TextsAre(p, app[p].pending, app[p].shown)
        /\ \/ Offering(p)
           \/ up' = up /\ \E k \in KeyPair : AppIs(p, "writing", app[p].rerun, k, app[p].secret)
    BY ReadFacts DEF serverVars
  <1>3. CASE Offering(p)
    BY <1>2, <1>3, PlainOffering
  <1>4. CASE up' = up /\ \E k \in KeyPair : AppIs(p, "writing", app[p].rerun, k, app[p].secret)
    <2>1. Steady(p) /\ Steady(q)
      BY <1>1, <1>2, <1>4 DEF Steady, AppIs, Holds
    <2>2. \A r \in {p, q} :
            /\ app'[r].screen = "ready" <=> app[r].screen = "ready"
            /\ app'[r].rerun = app[r].rerun /\ app'[r].secret = app[r].secret
            /\ app'[r].pending = app[r].pending
      BY <1>1, <1>2, <1>4 DEF AppIs, TextsAre
    <2>3. Plain(p) /\ Plain(q)
      BY DEF Smooth
    <2>4. Plain(p)' /\ Plain(q)'
      BY <1>1, <1>2, <1>4, <2>1, <2>2, <2>3, PlainStays
    <2> QED
      BY <1>1, <2>4
  <1> QED
    BY <1>2, <1>3, <1>4

LEMMA PlainJoin ==
  ASSUME Base, Smooth, NEW p \in Party, JoinRoom(p)
  PROVE  \A r \in Party : Plain(r)'
  <1>1. /\ UNCHANGED <<down, joining, room, keys, relayq>> /\ app[p].screen # "ready"
        /\ TextsAre(p, app[p].pending, app[p].shown) /\ Offering(p)
    BY JoinFacts DEF serverVars
  <1> QED
    BY <1>1, PlainOffering

LEMMA PlainSend ==
  ASSUME Base, Smooth, NEW p \in Party, SendMessage(p)
  PROVE  \A r \in Party : Plain(r)'
  <1>1. PICK q \in Party : q = Other(p) /\ Other(q) = p /\ q # p /\ \A r \in Party : r = p \/ r = q
    BY ThePeer
  <1>2. /\ UNCHANGED <<down, sock, joining, room, keys, relayq>>
        /\ AppIs(p, app[p].screen, app[p].rerun, app[p].key, app[p].secret)
        /\ TextsAre(p, app[p].pending, Append(app[p].shown, typed + 1))
        /\ app[p].secret # None
        /\ \A r \in Party : r # p => up'[r] = up[r]
    BY SendFacts DEF serverVars
  <1>3. PICK e \in UpEvent : e.kind = "send" /\ e.m = Typing(p) /\ up'[p] = Append(up[p], e)
    BY SendFacts
  <1>4. Plain(p) /\ Plain(q) /\ up[p] \in Seq(UpEvent)
    BY DEF Smooth, Base, Queues
  <1>5. Steady(p) /\ Steady(q)
    BY <1>1, <1>2 DEF Steady, AppIs
  <1>6. Plain(q)'
    BY <1>1, <1>2, <1>4, <1>5, PlainStays DEF AppIs
  <1>7. Settled(p)' /\ RelaysRight(p)' /\ MailRight(p)'
    <2>1. Settled(p)'
      BY <1>2, <1>4 DEF Plain, Settled, AppIs, TextsAre
    <2> QED
      BY <1>1, <1>2, <1>4, <1>5, <2>1, PlainSteady
  <1>8. /\ \A k : KeysOf(up[p], k) => KeysOf(up'[p], k)
        /\ JoinFirst(up[p]) => JoinFirst(up'[p])
        /\ KeyFirst(up[p]) => KeyFirst(up'[p])
        /\ Without(up[p], "join") => Without(up'[p], "join")
    BY <1>3, <1>4, Pushes, Appended
  <1>9. app[p].screen = "ready"
    BY <1>2, <1>4 DEF Plain, KeysRight, Entering, Holds
  <1>10. Entering(p)'
    BY <1>2, <1>4, <1>8, <1>9 DEF Plain, Entering, AppIs
  <1>11. KeysRight(p)'
    BY <1>1, <1>2, <1>4, <1>8 DEF Plain, KeysRight, AppIs, Holds
  <1>12. SendsRight(p)'
    <2>1. \A i \in DOMAIN up'[p] : (i \in DOMAIN up[p] /\ up'[p][i] = up[p][i]) \/ up'[p][i] = e
      BY <1>3, <1>4, OneMore
    <2>2. e.m.from = p /\ e.m.secret = app[p].secret
      BY <1>3 DEF Typing
    <2>3. ASSUME NEW i \in DOMAIN up'[p], up'[p][i].kind = "send"
          PROVE  Holds(p) /\ up'[p][i].m.from = p /\ up'[p][i].m.secret = app[p].secret
      BY <1>2, <1>4, <2>1, <2>2, <2>3 DEF Plain, SendsRight, Holds
    <2> QED
      BY <1>2, <1>4, <1>8, <2>3 DEF Plain, SendsRight, AppIs, Holds
  <1>13. Plain(p)'
    BY <1>7, <1>10, <1>11, <1>12 DEF Plain
  <1> QED
    BY <1>1, <1>6, <1>13

LEMMA PlainReceive ==
  ASSUME Base, Smooth, NEW p \in Party, Receive(p)
  PROVE  \A r \in Party : Plain(r)'
  <1> DEFINE e == Head(down[p])
             t == Tail(down[p])
  <1>1. PICK q \in Party : q = Other(p) /\ Other(q) = p /\ q # p /\ \A r \in Party : r = p \/ r = q
    BY ThePeer
  <1>2. /\ UNCHANGED <<up, sock, joining, room, keys, relayq>>
        /\ down[p] # <<>> /\ down'[p] = t /\ down[p] \in Seq(DownEvent)
        /\ \A r \in Party : r # p => down'[r] = down[r]
        /\ AppIs(p, app[p].screen, app[p].rerun, app[p].key, NewSecret(p, e))
        /\ Reading(p, e)
    BY ReceiveFacts DEF serverVars, Base, Queues
  <1>3. /\ \A kind : Without(down[p], kind) <=> Without(t, kind) /\ e.kind # kind
        /\ \A k : KeysOf(down[p], k) => KeysOf(t, k) /\ (e.kind = "key" => e.key = k)
        /\ Behind(down[p]) => e.kind # "message"
        /\ Behind(down[p]) /\ e.kind # "key" => Behind(t)
        /\ \A i \in DOMAIN t : i + 1 \in DOMAIN down[p] /\ t[i] = down[p][i + 1]
    BY <1>2, Taken, Pulls, StillThere
  <1> HIDE DEF e, t
  <1>4. Plain(p) /\ Plain(q)
    BY DEF Smooth
  <1>5. e.kind = "key" => /\ e.key = app[q].key /\ q \in room /\ p \in room
                          /\ app[p].key # None /\ app[p].screen = "ready"
    <2>1. ASSUME e.kind = "key" PROVE e.key = app[q].key /\ q \in room /\ p \in room
      <3>1. KeysOf(down[p], app[q].key) /\ (~Without(down[p], "key") => q \in room)
        BY <1>1, <1>4 DEF Plain, KeysRight
      <3>2. p \in room
        BY <1>3, <2>1 DEF Smooth, Known, Barred
      <3> QED
        BY <1>3, <2>1, <3>1, <3>2
    <2>2. p \in room => app[p].key # None /\ app[p].screen = "ready"
      BY <1>4 DEF Plain, Entering, Base, Apps, AppOK
    <2> QED
      BY <2>1, <2>2
  <1>6. e.kind = "key" => NewSecret(p, e) = {app[p].key, app[q].key}
    BY <1>5 DEF NewSecret
  <1>7. e.kind # "key" => NewSecret(p, e) = app[p].secret
    BY DEF NewSecret
  <1>8. Holds(p) => app[p].secret = {app[p].key, app[q].key}
    BY <1>1, <1>4 DEF Plain, KeysRight
  <1>9. Steady(p) /\ Steady(q)
    BY <1>1, <1>2, <1>6, <1>7, <1>8 DEF Steady, AppIs
  <1>10. /\ app'[p].screen = app[p].screen /\ app'[p].rerun = app[p].rerun
         /\ app'[p].key = app[p].key /\ app'[p].secret = NewSecret(p, e) /\ app'[q] = app[q]
    BY <1>1, <1>2 DEF AppIs
  <1>11. Plain(q)'
    BY <1>1, <1>2, <1>4, <1>9, <1>10, PlainStays
  <1>12. e.kind = "message" => Holds(p)
    BY <1>3, <1>4 DEF Plain, MailRight
  <1>13. Settled(p)'
    <2>1. e.kind \notin {"message", "sync"} => app'[p].pending = <<>>
      BY <1>2, <1>4 DEF Reading, TextsAre, Plain, Settled
    <2>2. e.kind = "message" => app'[p].pending = <<>>
      BY <1>2, <1>4, <1>12 DEF Reading, TextsAre, Plain, Settled, Holds
    <2>3. e.kind # "sync" /\ Without(t, "sync")
      BY <1>3, <1>4 DEF Plain, Settled
    <2> QED
      BY <1>2, <1>4, <1>10, <2>1, <2>2, <2>3 DEF Plain, Settled
  <1>14. Holds(p) => Holds(p)'
    BY <1>9 DEF Steady, Holds
  <1>15. e.kind = "key" => Holds(p)'
    <2>1. ASSUME e.kind = "key" PROVE NewSecret(p, e) # None
      <3>1. app[p].key \in KeyPair /\ app[q].key \in KeyPair
        <4>1. app[q].key # None
          BY <1>1, <1>4, <1>5, <2>1 DEF Plain, Entering, Base, Apps, AppOK
        <4> QED
          BY <1>1, <1>5, <2>1, <4>1 DEF Base, Apps, AppOK
      <3>2. {app[p].key, app[q].key} \in Secret
        BY <3>1 DEF Secret
      <3> QED
        BY <1>6, <2>1, <3>2, Constants
    <2> QED
      BY <1>10, <2>1 DEF Holds
  <1>16. Entering(p)' /\ SendsRight(p)' /\ RelaysRight(p)'
    <2>1. ~Without(down[p], "key") => ~Without(down'[p], "key") \/ app'[p].secret # None
      BY <1>2, <1>3, <1>15 DEF Holds
    <2> QED
      BY <1>1, <1>2, <1>4, <1>9, <1>10, <2>1, PlainSteady
  <1>17. KeysRight(p)'
    <2>1. KeysOf(down[p], app[q].key) /\ (~Without(down[p], "key") => q \in room)
      BY <1>1, <1>4 DEF Plain, KeysRight
    <2>2. KeysOf(t, app[q].key) /\ (~Without(t, "key") => q \in room)
      BY <1>3, <2>1
    <2>3. KeysOf(up[p], app[p].key) /\ (keys[p] # None => keys[p] = app[p].key /\ p \in room)
      BY <1>4 DEF Plain, KeysRight
    <2>4. NewSecret(p, e) # None => /\ NewSecret(p, e) = {app[p].key, app[q].key}
                                    /\ p \in room /\ q \in room
      <3>1. Holds(p) => p \in room /\ q \in room
        BY <1>1, <1>4 DEF Plain, KeysRight
      <3> QED
        BY <1>5, <1>6, <1>7, <1>8, <3>1 DEF Holds
    <2> QED
      BY <1>1, <1>2, <1>10, <2>2, <2>3, <2>4 DEF KeysRight, Holds
  <1>18. MailRight(p)'
    <2>1. ASSUME NEW i \in DOMAIN t, t[i].kind = "message"
          PROVE  Holds(q) /\ t[i].m.from = q /\ t[i].m.secret = app[q].secret
      BY <1>1, <1>3, <1>4, <2>1 DEF Plain, MailRight
    <2>2. Holds(p)' \/ Behind(t)
      BY <1>3, <1>4, <1>14, <1>15 DEF Plain, MailRight
    <2> QED
      BY <1>1, <1>2, <1>10, <2>1, <2>2 DEF MailRight, Holds
  <1>19. Plain(p)'
    BY <1>13, <1>16, <1>17, <1>18 DEF Plain
  <1> QED
    BY <1>1, <1>11, <1>19

(* The gateway takes an event. *)
LEMMA EventTaken ==
  ASSUME Base, Smooth, NEW p \in Party, Pops(p)
  PROVE  /\ \A kind : Without(up[p], kind) <=> Without(up'[p], kind) /\ Head(up[p]).kind # kind
         /\ KeysOf(up'[p], app[p].key)
         /\ Head(up[p]).kind = "key" => Head(up[p]).key = app[p].key
         /\ JoinFirst(up'[p]) /\ Without(up'[p], "join") /\ KeyFirst(up'[p])
         /\ Head(up[p]).kind = "send" =>
              /\ Without(up[p], "key") /\ Holds(p)
              /\ Head(up[p]).m.from = p /\ Head(up[p]).m.secret = app[p].secret
         /\ \A i \in DOMAIN up'[p] : up'[p][i].kind = "send" =>
              Holds(p) /\ up'[p][i].m.from = p /\ up'[p][i].m.secret = app[p].secret
         /\ app[p].screen = "ready"
  <1>1. up[p] \in Seq(UpEvent) /\ up[p] # <<>> /\ up'[p] = Tail(up[p])
    BY DEF Pops, Base, Queues
  <1>2. /\ \A kind : Without(up[p], kind) <=> Without(up'[p], kind) /\ Head(up[p]).kind # kind
        /\ \A k : KeysOf(up[p], k) => /\ KeysOf(up'[p], k)
                                      /\ Head(up[p]).kind = "key" => Head(up[p]).key = k
        /\ JoinFirst(up[p]) => JoinFirst(up'[p]) /\ Without(up'[p], "join")
        /\ KeyFirst(up[p]) => /\ KeyFirst(up'[p])
                              /\ Head(up[p]).kind = "send" => Without(up[p], "key")
        /\ \A i \in DOMAIN up'[p] : i + 1 \in DOMAIN up[p] /\ up'[p][i] = up[p][i + 1]
    BY <1>1, Taken, Pulls, StillThere
  <1>3. Plain(p)
    BY DEF Smooth
  <1>4. /\ KeysOf(up[p], app[p].key) /\ JoinFirst(up[p]) /\ KeyFirst(up[p])
        /\ app[p].screen = "ready"
    BY <1>1, <1>3 DEF Plain, KeysRight, Entering, SendsRight
  <1>5. 1 \in DOMAIN up[p] /\ Head(up[p]) = up[p][1]
    BY <1>1, HeadTailProperties, LenProperties
  <1>6. Head(up[p]).kind = "send" =>
          Holds(p) /\ Head(up[p]).m.from = p /\ Head(up[p]).m.secret = app[p].secret
    BY <1>3, <1>5 DEF Plain, SendsRight
  <1>7. \A i \in DOMAIN up'[p] : up'[p][i].kind = "send" =>
          Holds(p) /\ up'[p][i].m.from = p /\ up'[p][i].m.secret = app[p].secret
    BY <1>2, <1>3 DEF Plain, SendsRight
  <1> QED
    BY <1>2, <1>4, <1>6, <1>7

LEMMA PlainHandleJoin ==
  ASSUME Base, Smooth, NEW p \in Party, HandleJoin(p)
  PROVE  \A r \in Party : Plain(r)'
  <1>1. PICK q \in Party : q = Other(p) /\ Other(q) = p /\ q # p /\ \A r \in Party : r = p \/ r = q
    BY ThePeer
  <1>2. /\ Pops(p) /\ Head(up[p]).kind = "join" /\ joining[p] = NoJoin
        /\ over = "no" => joining'[p].step = "check"
        /\ over # "no" => joining' = joining
        /\ joining'[q] = joining[q]
        /\ UNCHANGED <<app, down, sock, room, keys, relayq>>
    BY <1>1, HandleJoinFacts
  <1>3. Plain(p) /\ Plain(q) /\ over = "no" /\ up'[q] = up[q]
    BY <1>1, <1>2 DEF Smooth, Order, Calm, Pops
  <1>4. Steady(p) /\ Steady(q)
    BY <1>2 DEF Steady
  <1>5. /\ Without(up'[p], "join") /\ JoinFirst(up'[p]) /\ KeysOf(up'[p], app[p].key)
        /\ KeyFirst(up'[p]) /\ app[p].screen = "ready" /\ ~Without(up[p], "join")
        /\ \A i \in DOMAIN up'[p] : up'[p][i].kind = "send" =>
             Holds(p) /\ up'[p][i].m.from = p /\ up'[p][i].m.secret = app[p].secret
    BY <1>2, EventTaken
  <1>6. p \notin room
    BY <1>3, <1>5 DEF Plain, Entering
  <1>7. Entering(p)' /\ Settled(p)' /\ SendsRight(p)'
    <2>1. Entering(p)'
      BY <1>2, <1>5, <1>6 DEF Entering
    <2>2. Settled(p)'
      BY <1>2, <1>3 DEF Plain, Settled
    <2> QED
      BY <1>2, <1>5, <2>1, <2>2 DEF SendsRight, Holds
  <1>8. KeysRight(p)' /\ RelaysRight(p)' /\ MailRight(p)'
    <2>1. RelaysRight(p)' /\ MailRight(p)'
      BY <1>1, <1>2, <1>3, <1>4, PlainSteady
    <2> QED
      BY <1>2, <1>3, <1>5, <2>1 DEF Plain, KeysRight, Holds
  <1>9. Plain(q)'
    <2>1. Settled(q)'
      BY <1>2, <1>3 DEF Plain, Settled
    <2> QED
      BY <1>1, <1>2, <1>3, <1>4, <2>1, PlainSteady DEF Plain
  <1>10. Plain(p)'
    BY <1>7, <1>8 DEF Plain
  <1> QED
    BY <1>1, <1>9, <1>10

LEMMA PlainEnter ==
  ASSUME Base, Smooth, NEW p \in Party, EnterRoom(p)
  PROVE  \A r \in Party : Plain(r)'
  <1>1. PICK q \in Party : q = Other(p) /\ Other(q) = p /\ q # p /\ \A r \in Party : r = p \/ r = q
    BY ThePeer
  <1>2. /\ joining[p].step = "check" /\ room' = room \cup {p}
        /\ IF p \in away THEN joining'[p].step = "sync" ELSE joining'[p] = NoJoin
        /\ joining'[q] = joining[q] /\ down'[q] = down[q]
        /\ IF p \in away \/ keys[q] = None THEN down'[p] = down[p]
           ELSE /\ KeyOffer(keys[q]) \in DownEvent
                /\ down'[p] = Append(down[p], KeyOffer(keys[q]))
        /\ UNCHANGED <<app, up, sock, keys, relayq>>
    BY <1>1, EnterFacts
  <1>3. Plain(p) /\ Plain(q) /\ p \notin away
    BY DEF Smooth, Order, Calm
  <1>4. Steady(p) /\ Steady(q)
    BY <1>2 DEF Steady
  <1>5. /\ app[p].screen = "ready" /\ Without(up[p], "join") /\ joining'[p] = NoJoin
        /\ p \notin room /\ ~Holds(p) /\ keys[p] = None
    <2>1. joining[p] # NoJoin
      BY <1>2 DEF NoJoin
    <2> QED
      BY <1>2, <1>3, <2>1 DEF Plain, Entering, KeysRight
  <1>6. Plain(q)'
    <2>1. q \in room' <=> q \in room
      BY <1>1, <1>2
    <2>2. Settled(q)'
      BY <1>2, <1>3 DEF Plain, Settled
    <2> QED
      BY <1>1, <1>2, <1>3, <1>4, <2>1, <2>2, PlainSteady DEF Plain
  <1>7. Entering(p)' /\ SendsRight(p)'
    <2>1. Entering(p)'
      BY <1>2, <1>3, <1>5 DEF Plain, Entering
    <2> QED
      BY <1>1, <1>2, <1>3, <1>4, <2>1, PlainSteady
  <1>8. CASE keys[q] = None
    <2>1. down'[p] = down[p]
      BY <1>2, <1>8
    <2>2. Settled(p)'
      BY <1>2, <1>3, <1>5, <2>1 DEF Plain, Settled, NoJoin
    <2>3. KeysRight(p)' /\ RelaysRight(p)' /\ MailRight(p)'
      BY <1>1, <1>2, <1>3, <1>4, <2>1, PlainSteady
    <2> QED
      BY <1>1, <1>6, <1>7, <2>2, <2>3 DEF Plain
  <1>9. CASE keys[q] # None
    <2>1. PICK e \in DownEvent : e = KeyOffer(keys[q]) /\ down'[p] = Append(down[p], e)
      BY <1>2, <1>3, <1>9
    <2>2. e.kind = "key" /\ e.key = keys[q] /\ down[p] \in Seq(DownEvent)
      BY <2>1 DEF KeyOffer, Base, Queues
    <2>3. keys[q] = app[q].key /\ q \in room
      BY <1>3, <1>9 DEF Plain, KeysRight
    <2>4. /\ \A kind : Without(down'[p], kind) <=> Without(down[p], kind) /\ e.kind # kind
          /\ KeysOf(down[p], app[q].key) => KeysOf(down'[p], app[q].key)
          /\ Behind(down[p]) => Behind(down'[p])
      BY <2>1, <2>2, <2>3, Appended, Pushes
    <2>5. Settled(p)'
      BY <1>2, <1>3, <1>5, <2>2, <2>4 DEF Plain, Settled, NoJoin
    <2>6. RelaysRight(p)'
      BY <1>1, <1>2, <1>3, <1>4, <2>2, <2>4, PlainSteady
    <2>7. KeysRight(p)'
      BY <1>1, <1>2, <1>3, <1>5, <2>3, <2>4 DEF Plain, KeysRight, Holds
    <2>8. MailRight(p)'
      <3>1. \A i \in DOMAIN down'[p] :
              (i \in DOMAIN down[p] /\ down'[p][i] = down[p][i]) \/ down'[p][i] = e
        BY <2>1, <2>2, OneMore
      <3> QED
        BY <1>1, <1>2, <1>3, <2>2, <2>4, <3>1 DEF Plain, MailRight, Holds
    <2> QED
      BY <1>1, <1>6, <1>7, <2>5, <2>6, <2>7, <2>8 DEF Plain
  <1> QED
    BY <1>8, <1>9

LEMMA PlainHandleKey ==
  ASSUME Base, Smooth, mishaps' = {}, NEW p \in Party, HandleKey(p)
  PROVE  \A r \in Party : Plain(r)'
  <1>1. PICK q \in Party : q = Other(p) /\ Other(q) = p /\ q # p /\ \A r \in Party : r = p \/ r = q
    BY ThePeer
  <1>2. /\ Pops(p) /\ Head(up[p]).kind = "key"
        /\ p \notin room => UNCHANGED <<keys, down>>
        /\ p \in room =>
             /\ keys'[p] = Head(up[p]).key /\ keys'[q] = keys[q] /\ down'[p] = down[p]
             /\ KeyOffer(Head(up[p]).key) \in DownEvent
             /\ IF q \in room THEN down'[q] = Append(down[q], KeyOffer(Head(up[p]).key))
                ELSE down'[q] = down[q]
        /\ UNCHANGED <<app, sock, joining, room, relayq>>
    BY <1>1, HandleKeyFacts
  <1>3. Plain(p) /\ Plain(q) /\ up'[q] = up[q]
    BY <1>1, <1>2 DEF Smooth, Pops
  <1>4. Steady(p) /\ Steady(q)
    BY <1>2 DEF Steady
  <1>5. /\ Without(up'[p], "join") /\ JoinFirst(up'[p]) /\ KeysOf(up'[p], app[p].key)
        /\ KeyFirst(up'[p]) /\ app[p].screen = "ready" /\ Head(up[p]).key = app[p].key
        /\ \A i \in DOMAIN up'[p] : up'[p][i].kind = "send" =>
             Holds(p) /\ up'[p][i].m.from = p /\ up'[p][i].m.secret = app[p].secret
    BY <1>2, EventTaken
  <1>6. /\ down'[p] = down[p]
        /\ keys'[p] = keys[p] \/ (keys'[p] = app[p].key /\ p \in room)
        /\ keys'[q] = keys[q]
    BY <1>2, <1>5
  <1>7. Plain(p)'
    <2>1. Entering(p)'
      BY <1>2, <1>3, <1>5 DEF Plain, Entering
    <2>2. Settled(p)'
      BY <1>2, <1>3, <1>6 DEF Plain, Settled
    <2>3. SendsRight(p)'
      BY <1>2, <1>5 DEF SendsRight, Holds
    <2>4. KeysRight(p)'
      BY <1>2, <1>3, <1>5, <1>6 DEF Plain, KeysRight, Holds
    <2>5. RelaysRight(p)' /\ MailRight(p)'
      BY <1>1, <1>2, <1>3, <1>4, <1>6, PlainSteady
    <2> QED
      BY <2>1, <2>2, <2>3, <2>4, <2>5 DEF Plain
  <1>8. CASE down'[q] = down[q]
    <2>1. Settled(q)'
      BY <1>2, <1>3, <1>8 DEF Plain, Settled
    <2>2. Plain(q)'
      BY <1>1, <1>2, <1>3, <1>4, <1>6, <1>8, <2>1, PlainSteady DEF Plain
    <2> QED
      BY <1>1, <1>7, <2>2
  <1>9. CASE p \in room /\ q \in room
    <2>1. PICK e \in DownEvent : e = KeyOffer(app[p].key) /\ down'[q] = Append(down[q], e)
      BY <1>2, <1>5, <1>9
    <2>2. e.kind = "key" /\ e.key = app[p].key /\ down[q] \in Seq(DownEvent)
      BY <2>1 DEF KeyOffer, Base, Queues
    <2>3. /\ \A kind : Without(down'[q], kind) <=> Without(down[q], kind) /\ e.kind # kind
          /\ KeysOf(down[q], app[p].key) => KeysOf(down'[q], app[p].key)
          /\ Behind(down[q]) => Behind(down'[q])
      BY <2>1, <2>2, Appended, Pushes
    <2>4. Settled(q)'
      BY <1>2, <1>3, <2>2, <2>3 DEF Plain, Settled
    <2>5. Entering(q)' /\ SendsRight(q)' /\ RelaysRight(q)'
      BY <1>1, <1>2, <1>3, <1>4, <2>2, <2>3, PlainSteady
    <2>6. KeysRight(q)'
      BY <1>1, <1>2, <1>3, <1>6, <1>9, <2>3 DEF Plain, KeysRight, Holds
    <2>7. MailRight(q)'
      <3>1. \A i \in DOMAIN down'[q] :
              (i \in DOMAIN down[q] /\ down'[q][i] = down[q][i]) \/ down'[q][i] = e
        BY <2>1, <2>2, OneMore
      <3> QED
        BY <1>1, <1>2, <1>3, <2>2, <2>3, <3>1 DEF Plain, MailRight, Holds
    <2> QED
      BY <1>1, <1>7, <2>4, <2>5, <2>6, <2>7 DEF Plain
  <1> QED
    BY <1>2, <1>8, <1>9

LEMMA PlainBuffer ==
  ASSUME Base, Smooth, NEW p \in Party, BufferMessage(p)
  PROVE  \A r \in Party : Plain(r)'
  <1>1. PICK q \in Party : q = Other(p) /\ Other(q) = p /\ q # p /\ \A r \in Party : r = p \/ r = q
    BY ThePeer
  <1>2. /\ Pops(p) /\ Head(up[p]).kind = "send"
        /\ UNCHANGED <<app, down, sock, joining, room, keys>>
        /\ p \in room => \E r \in Relayed : /\ r.m = Head(up[p]).m
                                            /\ relayq' = Append(relayq, r)
    BY BufferFacts
  <1>3. Plain(p) /\ Plain(q) /\ up'[q] = up[q]
    BY <1>1, <1>2 DEF Smooth, Pops
  <1>4. Steady(p) /\ Steady(q)
    BY <1>2 DEF Steady
  <1>5. /\ Without(up'[p], "join") /\ JoinFirst(up'[p]) /\ KeysOf(up'[p], app[p].key)
        /\ KeyFirst(up'[p]) /\ app[p].screen = "ready" /\ Holds(p)
        /\ Head(up[p]).m.from = p /\ Head(up[p]).m.secret = app[p].secret
        /\ Without(up[p], "key")
        /\ \A i \in DOMAIN up'[p] : up'[p][i].kind = "send" =>
             Holds(p) /\ up'[p][i].m.from = p /\ up'[p][i].m.secret = app[p].secret
    BY <1>2, EventTaken
  <1>6. p \in room /\ q \in room
    BY <1>1, <1>3, <1>5 DEF Plain, KeysRight
  <1>7. Holds(q) \/ ~Without(down[q], "key")
    <2>1. Offered(p)
      BY <1>3, <1>5, <1>6 DEF Offered, Ready, Plain, Settled, Base, Server
    <2>2. Entered(q)
      BY <1>3, <1>6 DEF Entered, Ready, Plain, Settled, Entering, Base, Server, NoJoin
    <2> QED
      BY <1>1, <2>1, <2>2 DEF Smooth, Order, Handed, Holds
  <1>8. PICK r \in Relayed : r.m = Head(up[p]).m /\ relayq' = Append(relayq, r)
    BY <1>2, <1>6
  <1>9. \A i \in DOMAIN relayq' : (i \in DOMAIN relayq /\ relayq'[i] = relayq[i]) \/ relayq'[i] = r
    BY <1>8, OneMore DEF Base, Queues
  <1>10. RelaysRight(p)'
    BY <1>1, <1>2, <1>3, <1>5, <1>8, <1>9 DEF Plain, RelaysRight, Holds
  <1>11. RelaysRight(q)'
    BY <1>1, <1>2, <1>3, <1>5, <1>7, <1>8, <1>9 DEF Plain, RelaysRight, Holds
  <1>12. Plain(p)'
    <2>1. Entering(p)'
      BY <1>2, <1>3, <1>5 DEF Plain, Entering
    <2>2. Settled(p)'
      BY <1>2, <1>3 DEF Plain, Settled
    <2>3. SendsRight(p)'
      BY <1>2, <1>5 DEF SendsRight, Holds
    <2>4. KeysRight(p)'
      BY <1>2, <1>3, <1>5 DEF Plain, KeysRight, Holds
    <2>5. MailRight(p)'
      BY <1>1, <1>2, <1>3, <1>4, PlainSteady
    <2> QED
      BY <1>10, <2>1, <2>2, <2>3, <2>4, <2>5 DEF Plain
  <1>13. Plain(q)'
    <2>1. Settled(q)'
      BY <1>2, <1>3 DEF Plain, Settled
    <2> QED
      BY <1>1, <1>2, <1>3, <1>4, <1>11, <2>1, PlainSteady DEF Plain
  <1> QED
    BY <1>1, <1>12, <1>13

LEMMA PlainRelay ==
  ASSUME Base, Smooth, RelayMessage
  PROVE  \A r \in Party : Plain(r)'
  <1> DEFINE h == Head(relayq)
  <1>1. /\ UNCHANGED <<app, up, sock, joining, room, keys>>
        /\ relayq # <<>> /\ relayq' = Tail(relayq) /\ relayq \in Seq(Relayed)
        /\ h.m.from \in Party
    BY RelayFacts DEF Base, Queues
  <1>2. PICK q \in Party : q = h.m.from
    BY <1>1
  <1>3. PICK p \in Party : p = Other(q) /\ Other(p) = q /\ p # q /\ \A r \in Party : r = p \/ r = q
    BY ThePeer
  <1>4. Plain(p) /\ Plain(q) /\ Steady(p) /\ Steady(q)
    BY <1>1 DEF Smooth, Steady
  <1>5. 1 \in DOMAIN relayq /\ h = relayq[1]
    BY <1>1, HeadTailProperties, LenProperties
  <1>6. /\ Holds(q) /\ h.m.secret = app[q].secret
        /\ Holds(p) \/ ~Without(down[p], "key")
    BY <1>2, <1>3, <1>4, <1>5 DEF Plain, RelaysRight
  <1>7. p \in room
    BY <1>3, <1>4, <1>6 DEF Plain, KeysRight
  <1>8. PICK e \in DownEvent : e.kind = "message" /\ e.m = h.m /\ down'[p] = Append(down[p], e)
    BY <1>2, <1>3, <1>7, RelayFacts
  <1>9. \A i \in DOMAIN relayq' : i + 1 \in DOMAIN relayq /\ relayq'[i] = relayq[i + 1]
    BY <1>1, StillThere
  <1> HIDE DEF h
  <1>10. down[p] \in Seq(DownEvent) /\ down[q] \in Seq(DownEvent)
    BY DEF Base, Queues
  <1>11. /\ \A kind : Without(down'[p], kind) <=> Without(down[p], kind) /\ e.kind # kind
         /\ KeysOf(down[p], app[q].key) => KeysOf(down'[p], app[q].key)
         /\ Behind(down[p]) /\ ~Without(down[p], "key") => Behind(down'[p])
    BY <1>8, <1>10, Appended, Pushes
  <1>12. Plain(p)'
    <2>1. Settled(p)'
      BY <1>1, <1>4, <1>8, <1>11 DEF Plain, Settled
    <2>2. Entering(p)' /\ SendsRight(p)'
      BY <1>1, <1>3, <1>4, PlainSteady
    <2>3. KeysRight(p)'
      BY <1>1, <1>3, <1>4, <1>8, <1>11 DEF Plain, KeysRight, Holds
    <2>4. RelaysRight(p)'
      BY <1>1, <1>3, <1>4, <1>8, <1>9, <1>11 DEF Plain, RelaysRight, Holds
    <2>5. MailRight(p)'
      <3>1. \A i \in DOMAIN down'[p] :
              (i \in DOMAIN down[p] /\ down'[p][i] = down[p][i]) \/ down'[p][i] = e
        BY <1>8, <1>10, OneMore
      <3>2. Holds(p) \/ Behind(down'[p])
        BY <1>4, <1>6, <1>11 DEF Plain, MailRight
      <3>3. e.m.from = q /\ e.m.secret = app[q].secret /\ Holds(q)
        BY <1>2, <1>6, <1>8
      <3>4. \A i \in DOMAIN down[p] : down[p][i].kind = "message" =>
              down[p][i].m.from = q /\ down[p][i].m.secret = app[q].secret
        BY <1>3, <1>4 DEF Plain, MailRight
      <3>5. ASSUME NEW i \in DOMAIN down'[p], down'[p][i].kind = "message"
            PROVE  down'[p][i].m.from = q /\ down'[p][i].m.secret = app[q].secret
        BY <3>1, <3>3, <3>4, <3>5
      <3> QED
        BY <1>1, <1>3, <3>2, <3>3, <3>5 DEF MailRight, Holds
    <2> QED
      BY <2>1, <2>2, <2>3, <2>4, <2>5 DEF Plain
  <1>13. RelaysRight(q)' /\ Settled(q)' /\ KeysRight(q)' /\ MailRight(q)'
    <2>1. CASE down'[q] = down[q]
      <3>1. Settled(q)' /\ KeysRight(q)' /\ MailRight(q)'
        BY <1>1, <1>3, <1>4, <2>1, PlainSteady DEF Plain, Settled
      <3>2. RelaysRight(q)'
        BY <1>1, <1>3, <1>4, <1>9, <2>1 DEF Plain, RelaysRight, Holds
      <3> QED
        BY <3>1, <3>2
    <2>2. ASSUME NEW a \in DownEvent, a.kind = "ack", down'[q] = Append(down[q], a)
          PROVE  RelaysRight(q)' /\ Settled(q)' /\ KeysRight(q)' /\ MailRight(q)'
      <3>1. /\ \A kind : Without(down'[q], kind) <=> Without(down[q], kind) /\ a.kind # kind
            /\ KeysOf(down[q], app[p].key) => KeysOf(down'[q], app[p].key)
            /\ Behind(down[q]) => Behind(down'[q])
        BY <1>10, <2>2, Appended, Pushes
      <3>2. \A i \in DOMAIN down'[q] :
              (i \in DOMAIN down[q] /\ down'[q][i] = down[q][i]) \/ down'[q][i] = a
        BY <1>10, <2>2, OneMore
      <3>3. Settled(q)' /\ KeysRight(q)'
        BY <1>1, <1>3, <1>4, <2>2, <3>1 DEF Plain, Settled, KeysRight, Holds
      <3>4. MailRight(q)'
        BY <1>1, <1>3, <1>4, <2>2, <3>1, <3>2 DEF Plain, MailRight, Holds
      <3>5. RelaysRight(q)'
        BY <1>1, <1>3, <1>4, <1>9, <2>2, <3>1 DEF Plain, RelaysRight, Holds
      <3> QED
        BY <3>3, <3>4, <3>5
    <2> QED
      BY <1>2, <2>1, <2>2, RelayFacts DEF h
  <1>14. Entering(q)' /\ SendsRight(q)'
    BY <1>1, <1>3, <1>4, PlainSteady
  <1> QED
    BY <1>3, <1>12, <1>13, <1>14 DEF Plain

LEMMA PlainInit == Init => \A p \in Party : Plain(p)
  <1> SUFFICES ASSUME Init, NEW p \in Party PROVE Plain(p)
    OBVIOUS
  <1>1. PICK q \in Party : q = Other(p)
    BY Constants
  <1>2. /\ app[p] = Closed(0) /\ app[q] = Closed(0) /\ up[p] = <<>> /\ down[p] = <<>>
        /\ joining[p] = NoJoin /\ room = {} /\ keys[p] = None /\ relayq = <<>>
    BY DEF Init
  <1>3. /\ app[p].screen = "closed" /\ ~app[p].rerun /\ app[p].key = None
        /\ app[p].secret = None /\ app[p].pending = <<>> /\ joining[p].step = "none"
    BY <1>2 DEF Closed, NoJoin
  <1>4. /\ \A kind : Without(<<>>, kind)
        /\ \A k : KeysOf(<<>>, k)
        /\ JoinFirst(<<>>) /\ KeyFirst(<<>>) /\ Behind(<<>>)
    BY NothingYet DEF Without
  <1>5. Settled(p) /\ Entering(p) /\ KeysRight(p) /\ SendsRight(p)
    BY <1>2, <1>3, <1>4 DEF Settled, Entering, KeysRight, SendsRight, Without, Holds
  <1>6. RelaysRight(p) /\ MailRight(p)
    BY <1>2, <1>4 DEF RelaysRight, MailRight, Without
  <1> QED
    BY <1>5, <1>6 DEF Plain

-----------------------------------------------------------------------------
(* ... and the messages                                                    *)

Sends == {e \in UpEvent : e.kind = "send"}
SendId == [e \in Sends |-> e.m.id]
Comes == {e \in DownEvent : e.kind = "message"}
ComeId == [e \in Comes |-> e.m.id]
Relays(p) == {r \in Relayed : r.m.from = p}
RelayId(p) == [r \in Relays(p) |-> r.m.id]
Mails(p) == {m \in Message : m.from = p}
MailId(p) == [m \in Mails(p) |-> m.id]

(* The numbers on their way from p to the gateway, from there to p, of p's *)
(* messages that are taken and not yet relayed, of those that were taken,  *)
(* and of what p's screen shows.                                           *)
Sent(p) == Numbers(up[p], Sends, SendId)
Coming(p) == Numbers(down[p], Comes, ComeId)
Passing(p) == Numbers(relayq, Relays(p), RelayId(p))
Logged(p) == Numbers(log, Mails(p), MailId(p))
Shows(p) == {app[p].shown[i] : i \in DOMAIN app[p].shown}

Ahead(A, B) == \A a \in A, b \in B : a < b

(* T is shown; of the peer's messages L is taken, of which D comes, R is   *)
(* to be relayed and the rest shown, and U is sent; M and V are the own    *)
(* ones; n were typed.                                                     *)
Flows(T, D, R, L, U, M, V, n) ==
  /\ L = (T \cap L) \cup D \cup R
  /\ Ahead(T \cap L, D) /\ Ahead(T \cap L, R) /\ Ahead(D, R) /\ Ahead(L, U)
  /\ T \subseteq L \cup M \cup V
  /\ (M \cup V) \cap (L \cup U) = {}
  /\ \A x \in L \cup U \cup M \cup V \cup T : x \in Nat /\ x <= n
  /\ n \in Nat

Ordered(s, X) == \A i, j \in DOMAIN s : s[i] \in X /\ s[j] \in X /\ i < j => s[i] < s[j]

Flow(p) ==
  LET q == Other(p) IN
  /\ Flows(Shows(p), Coming(p), Passing(q), Logged(q), Sent(q), Logged(p), Sent(p), typed)
  /\ Rising(up[p], Sends, SendId) /\ Rising(down[p], Comes, ComeId)
  /\ Rising(relayq, Relays(p), RelayId(p)) /\ Rising(log, Mails(p), MailId(p))
  /\ Ordered(app[p].shown, Logged(q)) /\ IsInjective(app[p].shown)

LEMMA IdTypes ==
  /\ SendId \in [Sends -> Nat] /\ ComeId \in [Comes -> Nat]
  /\ \A p : RelayId(p) \in [Relays(p) -> Nat] /\ MailId(p) \in [Mails(p) -> Nat]
  <1>1. \A m \in Message : m.id \in Nat
    BY Constants DEF Message
  <1>2. \A e \in Sends : e.m \in Message
    BY DEF Sends, UpEvent
  <1>3. \A e \in Comes : e.m \in Message
    BY DEF Comes, DownEvent
  <1>4. \A p : (\A r \in Relays(p) : r.m \in Message) /\ \A m \in Mails(p) : m \in Message
    BY DEF Relays, Relayed, Mails
  <1>5. SendId \in [Sends -> Nat]
    BY <1>1, <1>2 DEF SendId
  <1>6. ComeId \in [Comes -> Nat]
    BY <1>1, <1>3 DEF ComeId
  <1>7. ASSUME NEW p PROVE RelayId(p) \in [Relays(p) -> Nat] /\ MailId(p) \in [Mails(p) -> Nat]
    BY <1>1, <1>4 DEF RelayId, MailId
  <1> QED
    BY <1>5, <1>6, <1>7

(* What the steps do to the flow, number by number. *)
LEMMA FlowsTyped ==
  ASSUME NEW T, NEW D, NEW R, NEW L, NEW U, NEW M, NEW V, NEW n,
         Flows(T, D, R, L, U, M, V, n)
  PROVE  /\ Flows(T \cup {n + 1}, D, R, L, U, M, V \cup {n + 1}, n + 1)
         /\ Flows(T, D, R, L, U \cup {n + 1}, M, V, n + 1)
         /\ n + 1 \notin T /\ n + 1 \notin L
         /\ \A x \in U \cup V : x < n + 1
  BY DEF Flows, Ahead

LEMMA FlowsOwnTaken ==
  ASSUME NEW T, NEW D, NEW R, NEW L, NEW U, NEW M, NEW V, NEW n, NEW x,
         Flows(T, D, R, L, U, M, V \cup {x}, n)
  PROVE  Flows(T, D, R, L, U, M \cup {x}, V, n)
  BY DEF Flows, Ahead

LEMMA FlowsRelayed ==
  ASSUME NEW T, NEW D, NEW R, NEW L, NEW U, NEW M, NEW V, NEW n, NEW x,
         Flows(T, D, R \cup {x}, L, U, M, V, n), \A y \in R : x < y
  PROVE  Flows(T, D \cup {x}, R, L, U, M, V, n) /\ \A y \in D : y < x
  BY DEF Flows, Ahead

LEMMA FlowsReceived ==
  ASSUME NEW T, NEW D, NEW R, NEW L, NEW U, NEW M, NEW V, NEW n, NEW x,
         Flows(T, D \cup {x}, R, L, U, M, V, n), \A y \in D : x < y
  PROVE  /\ Flows(T \cup {x}, D, R, L, U, M, V, n)
         /\ x \notin T /\ x \in L /\ \A y \in T \cap L : y < x
  BY DEF Flows, Ahead

(* A number more on a screen. *)
LEMMA ShownMore ==
  ASSUME NEW s \in Seq(1..MessageBound), NEW x \in 1..MessageBound, NEW X,
         Ordered(s, X), IsInjective(s), x \notin {s[i] : i \in DOMAIN s},
         x \in X => \A y \in {s[i] : i \in DOMAIN s} \cap X : y < x
  PROVE  LET t == Append(s, x)
         IN /\ Ordered(t, X) /\ IsInjective(t)
            /\ {t[i] : i \in DOMAIN t} = {s[i] : i \in DOMAIN s} \cup {x}
  <1> DEFINE t == Append(s, x)
  <1>1. /\ Len(s) \in Nat /\ DOMAIN s = 1..Len(s) /\ DOMAIN t = 1..(Len(s) + 1)
        /\ \A i \in 1..Len(s) : t[i] = s[i]
        /\ t[Len(s) + 1] = x
    BY AppendProperties, LenProperties
  <1> HIDE DEF t
  <1>2. \A i \in DOMAIN t : (i \in DOMAIN s /\ t[i] = s[i]) \/ (i = Len(s) + 1 /\ t[i] = x)
    BY <1>1
  <1>3. Ordered(t, X)
    <2>1. SUFFICES ASSUME NEW i \in DOMAIN t, NEW j \in DOMAIN t, t[i] \in X, t[j] \in X, i < j
                   PROVE  t[i] < t[j]
      BY DEF Ordered
    <2>2. i \in DOMAIN s /\ t[i] = s[i]
      BY <1>1, <2>1
    <2>3. CASE j \in DOMAIN s
      BY <1>1, <2>1, <2>2, <2>3 DEF Ordered
    <2>4. CASE t[j] = x
      BY <2>1, <2>2, <2>4
    <2> QED
      BY <1>2, <2>3, <2>4
  <1>4. IsInjective(t)
    <2>1. SUFFICES ASSUME NEW i \in DOMAIN t, NEW j \in DOMAIN t, t[i] = t[j]
                   PROVE  i = j
      BY DEF IsInjective
    <2> QED
      BY <1>2, <2>1 DEF IsInjective
  <1>5. {t[i] : i \in DOMAIN t} = {s[i] : i \in DOMAIN s} \cup {x}
    <2>1. \A i \in DOMAIN s : i \in DOMAIN t /\ t[i] = s[i]
      BY <1>1
    <2>2. Len(s) + 1 \in DOMAIN t /\ t[Len(s) + 1] = x
      BY <1>1
    <2> QED
      BY <1>2, <2>1, <2>2
  <1> QED
    BY <1>3, <1>4, <1>5 DEF t

LEMMA OrderedMore ==
  ASSUME NEW s, NEW X, NEW x, Ordered(s, X), x \notin {s[i] : i \in DOMAIN s}
  PROVE  Ordered(s, X \cup {x})
  BY DEF Ordered

(* The queues that a step leaves alone, or whose messages it does. *)
SentStays(p) ==
  Sent(p)' = Sent(p) /\ (Rising(up[p], Sends, SendId) => Rising(up'[p], Sends, SendId))
ComingStays(p) ==
  Coming(p)' = Coming(p) /\ (Rising(down[p], Comes, ComeId) => Rising(down'[p], Comes, ComeId))

LEMMA SentAlike ==
  ASSUME Base, NEW p \in Party,
         \/ up'[p] = up[p]
         \/ Pops(p) /\ Head(up[p]).kind # "send"
         \/ Offering(p)
  PROVE  SentStays(p)
  <1>1. up[p] \in Seq(UpEvent) /\ SendId \in [Sends -> Nat]
    BY IdTypes DEF Base, Queues
  <1>2. CASE up'[p] = up[p]
    BY <1>2 DEF SentStays, Sent
  <1>3. CASE Pops(p) /\ Head(up[p]).kind # "send"
    <2>1. Head(up[p]) \notin Sends /\ up[p] # <<>> /\ up'[p] = Tail(up[p])
      BY <1>3 DEF Sends, Pops
    <2> QED
      BY <1>1, <2>1, Shortened DEF SentStays, Sent
  <1>4. CASE Offering(p)
    <2>1. PICK k \in KeyPair : up'[p] = Append(Append(up[p], Join(None)), KeyOffer(k))
      BY <1>4 DEF Offering
    <2>2. /\ Join(None) \in UpEvent /\ KeyOffer(k) \in UpEvent
          /\ Join(None) \notin Sends /\ KeyOffer(k) \notin Sends
      BY DEF Join, KeyOffer, UpEvent, Sends
    <2>3. PICK u \in Seq(UpEvent) : u = Append(up[p], Join(None))
      BY <1>1, <2>2, AppendProperties
    <2>4. /\ Numbers(u, Sends, SendId) = Numbers(up[p], Sends, SendId)
          /\ Rising(up[p], Sends, SendId) => Rising(u, Sends, SendId)
      BY <1>1, <2>2, <2>3, Lengthened
    <2>5. PICK e \in UpEvent : e = KeyOffer(k) /\ e \notin Sends
      BY <2>2
    <2>6. PICK v : v = Append(u, e)
      OBVIOUS
    <2>7. /\ Numbers(v, Sends, SendId) = Numbers(u, Sends, SendId)
          /\ Rising(u, Sends, SendId) => Rising(v, Sends, SendId)
      BY <1>1, <2>5, <2>6, Lengthened
    <2>8. up'[p] = v
      BY <2>1, <2>3, <2>5, <2>6
    <2> QED
      BY <2>4, <2>7, <2>8 DEF SentStays, Sent
  <1> QED
    BY <1>2, <1>3, <1>4

LEMMA ComingAlike ==
  ASSUME Base, NEW p \in Party,
         \/ down'[p] = down[p]
         \/ \E e \in DownEvent : e.kind # "message" /\ down'[p] = Append(down[p], e)
         \/ down[p] # <<>> /\ down'[p] = Tail(down[p]) /\ Head(down[p]).kind # "message"
  PROVE  ComingStays(p)
  <1>1. down[p] \in Seq(DownEvent) /\ ComeId \in [Comes -> Nat]
    BY IdTypes DEF Base, Queues
  <1>2. CASE down'[p] = down[p]
    BY <1>2 DEF ComingStays, Coming
  <1>3. ASSUME NEW e \in DownEvent, e.kind # "message", down'[p] = Append(down[p], e)
        PROVE  ComingStays(p)
    <2>1. e \notin Comes
      BY <1>3 DEF Comes
    <2> QED
      BY <1>1, <1>3, <2>1, Lengthened DEF ComingStays, Coming
  <1>4. CASE down[p] # <<>> /\ down'[p] = Tail(down[p]) /\ Head(down[p]).kind # "message"
    <2>1. Head(down[p]) \notin Comes
      BY <1>4 DEF Comes
    <2> QED
      BY <1>1, <1>4, <2>1, Shortened DEF ComingStays, Coming
  <1> QED
    BY <1>2, <1>3, <1>4

(* A step that moves no message. *)
LEMMA FlowStays ==
  ASSUME Base, NEW p \in Party, NEW q \in Party, q = Other(p), Flow(p),
         SentStays(p), SentStays(q), ComingStays(p), app'[p].shown = app[p].shown,
         UNCHANGED <<relayq, log, typed>>
  PROVE  Flow(p)'
  <1>1. /\ Sent(p)' = Sent(p) /\ Sent(q)' = Sent(q) /\ Coming(p)' = Coming(p)
        /\ Passing(q)' = Passing(q) /\ Passing(p)' = Passing(p)
        /\ Logged(p)' = Logged(p) /\ Logged(q)' = Logged(q) /\ Shows(p)' = Shows(p)
    BY DEF SentStays, ComingStays, Passing, Logged, Shows
  <1>2. Rising(up'[p], Sends, SendId) /\ Rising(down'[p], Comes, ComeId)
    BY DEF SentStays, ComingStays, Flow
  <1> QED
    BY <1>1, <1>2 DEF Flow

Flowing == \A p \in Party : Flow(p)

LEMMA FlowSend ==
  ASSUME Base, Smooth, Flowing, NEW p \in Party, SendMessage(p)
  PROVE  Flowing'
  <1>1. PICK q \in Party : q = Other(p) /\ Other(q) = p /\ q # p /\ \A r \in Party : r = p \/ r = q
    BY ThePeer
  <1>2. /\ UNCHANGED <<down, relayq, log>> /\ up'[q] = up[q] /\ app'[q] = app[q]
        /\ app'[p].shown = Append(app[p].shown, typed + 1)
        /\ typed' = typed + 1 /\ typed \in Nat
    BY <1>1, SendFacts DEF AppIs, TextsAre, SendMessage, serverVars
  <1>3. PICK e \in UpEvent : /\ e.kind = "send" /\ e.m = Typing(p) /\ e.m \in Message
                             /\ up'[p] = Append(up[p], e)
    BY SendFacts
  <1>4. e \in Sends /\ SendId[e] = typed + 1 /\ typed + 1 \in 1..MessageBound
    BY <1>3 DEF Sends, SendId, Typing, Message
  <1>5. Flow(p) /\ Flow(q)
    BY DEF Flowing
  <1>6. /\ Sent(q)' = Sent(q) /\ Coming(p)' = Coming(p) /\ Coming(q)' = Coming(q)
        /\ Passing(q)' = Passing(q) /\ Passing(p)' = Passing(p)
        /\ Logged(p)' = Logged(p) /\ Logged(q)' = Logged(q) /\ Shows(q)' = Shows(q)
    BY <1>2 DEF Sent, Coming, Passing, Logged, Shows
  <1>7. Flows(Shows(p), Coming(p), Passing(q), Logged(q), Sent(q), Logged(p), Sent(p), typed)
    BY <1>1, <1>5 DEF Flow
  <1>8. Flows(Shows(q), Coming(q), Passing(p), Logged(p), Sent(p), Logged(q), Sent(q), typed)
    BY <1>1, <1>5 DEF Flow
  <1>9. /\ Flows(Shows(p) \cup {typed + 1}, Coming(p), Passing(q), Logged(q), Sent(q), Logged(p),
                 Sent(p) \cup {typed + 1}, typed + 1)
        /\ typed + 1 \notin Shows(p) /\ typed + 1 \notin Logged(q)
        /\ \A x \in Sent(p) : x < typed + 1
    BY <1>7, FlowsTyped
  <1>10. Flows(Shows(q), Coming(q), Passing(p), Logged(p), Sent(p) \cup {typed + 1}, Logged(q),
               Sent(q), typed + 1)
    BY <1>8, FlowsTyped
  <1>11. /\ Sent(p)' = Sent(p) \cup {typed + 1}
         /\ Rising(up'[p], Sends, SendId)
    <2>1. up[p] \in Seq(UpEvent) /\ SendId \in [Sends -> Nat] /\ Rising(up[p], Sends, SendId)
      BY <1>5, IdTypes DEF Base, Queues, Flow
    <2>2. \A x \in Numbers(up[p], Sends, SendId) : x < SendId[e]
      BY <1>4, <1>9 DEF Sent
    <2> QED
      BY <1>3, <1>4, <2>1, <2>2, Lengthened DEF Sent
  <1>12. /\ Shows(p)' = Shows(p) \cup {typed + 1}
         /\ Ordered(app'[p].shown, Logged(q)) /\ IsInjective(app'[p].shown)
    <2>1. app[p].shown \in Seq(1..MessageBound)
      BY DEF Base, Apps, AppOK
    <2>2. Ordered(app[p].shown, Logged(q)) /\ IsInjective(app[p].shown)
      BY <1>1, <1>5 DEF Flow
    <2>3. PICK x \in 1..MessageBound : x = typed + 1
      BY <1>4
    <2>4. PICK s \in Seq(1..MessageBound) : s = app[p].shown
      BY <2>1
    <2>5. PICK t : t = Append(s, x)
      OBVIOUS
    <2>6. PICK X : X = Logged(q)
      OBVIOUS
    <2>7. /\ Ordered(s, X) /\ IsInjective(s)
          /\ x \notin {s[i] : i \in DOMAIN s}
          /\ x \in X => \A y \in {s[i] : i \in DOMAIN s} \cap X : y < x
      BY <1>9, <2>2, <2>3, <2>4, <2>6 DEF Shows
    <2>8. /\ Ordered(t, X) /\ IsInjective(t)
          /\ {t[i] : i \in DOMAIN t} = {s[i] : i \in DOMAIN s} \cup {x}
      BY <2>5, <2>7, ShownMore
    <2>9. app'[p].shown = t
      BY <1>2, <2>3, <2>4, <2>5
    <2> QED
      BY <2>3, <2>4, <2>6, <2>8, <2>9 DEF Shows
  <1>13. Flow(p)'
    BY <1>1, <1>2, <1>5, <1>6, <1>9, <1>11, <1>12 DEF Flow
  <1>14. Flow(q)'
    BY <1>1, <1>2, <1>5, <1>6, <1>10, <1>11 DEF Flow
  <1> QED
    BY <1>1, <1>13, <1>14 DEF Flowing

LEMMA FlowBuffer ==
  ASSUME Base, Smooth, Flowing, NEW p \in Party, BufferMessage(p)
  PROVE  Flowing'
  <1> DEFINE e == Head(up[p])
             m == e.m
             x == m.id
  <1>1. PICK q \in Party : q = Other(p) /\ Other(q) = p /\ q # p /\ \A r \in Party : r = p \/ r = q
    BY ThePeer
  <1>2. /\ Pops(p) /\ e.kind = "send" /\ m \in Message
        /\ UNCHANGED <<app, down, typed>>
        /\ p \in room => /\ log' = Append(log, m)
                         /\ \E r \in Relayed : r.m = m /\ relayq' = Append(relayq, r)
    BY BufferFacts
  <1>3. m.from = p /\ p \in room
    <2>1. m.from = p /\ Holds(p)
      BY <1>2, EventTaken
    <2> QED
      BY <2>1 DEF Smooth, Plain, KeysRight
  <1>4. PICK r \in Relayed : r.m = m /\ relayq' = Append(relayq, r)
    BY <1>2, <1>3
  <1>5. /\ up[p] \in Seq(UpEvent) /\ up[p] # <<>> /\ up'[p] = Tail(up[p]) /\ up'[q] = up[q]
        /\ e \in UpEvent /\ log \in Seq(Message) /\ relayq \in Seq(Relayed)
        /\ log' = Append(log, m)
    BY <1>1, <1>2, <1>3, HeadTailProperties DEF Pops, Base, Queues
  <1>6. e \in Sends /\ SendId[e] = x
    BY <1>2, <1>5 DEF Sends, SendId
  <1>7. m \in Mails(p) /\ MailId(p)[m] = x /\ m \notin Mails(q)
    BY <1>1, <1>2, <1>3 DEF Mails, MailId
  <1>8. r \in Relays(p) /\ RelayId(p)[r] = x /\ r \notin Relays(q)
    BY <1>1, <1>3, <1>4 DEF Relays, RelayId
  <1> HIDE DEF e, m, x
  <1>9. Flow(p) /\ Flow(q)
    BY DEF Flowing
  <1>10. /\ Sent(q)' = Sent(q) /\ Coming(p)' = Coming(p) /\ Coming(q)' = Coming(q)
         /\ Shows(p)' = Shows(p) /\ Shows(q)' = Shows(q)
    BY <1>2, <1>5 DEF Sent, Coming, Shows
  <1>11. /\ Sent(p) = Sent(p)' \cup {x} /\ \A y \in Sent(p)' : x < y
         /\ Rising(up'[p], Sends, SendId)
    BY <1>5, <1>6, <1>9, IdTypes, Shortened DEF e, Sent, Flow
  <1>12. /\ Logged(q)' = Logged(q) /\ Rising(log', Mails(q), MailId(q))
    BY <1>2, <1>5, <1>7, <1>9, IdTypes, Lengthened DEF Logged, Flow
  <1>13. /\ Passing(q)' = Passing(q) /\ Rising(relayq', Relays(q), RelayId(q))
    BY <1>4, <1>5, <1>8, <1>9, IdTypes, Lengthened DEF Passing, Flow
  <1>14. Logged(p)' = Logged(p) \cup {x}
    <2>1. Numbers(log', Mails(p), MailId(p)) = Numbers(log, Mails(p), MailId(p)) \cup {MailId(p)[m]}
      <3>1. PICK l : l = Append(log, m)
        OBVIOUS
      <3>2. m \in Message /\ m \in Mails(p) /\ log \in Seq(Message) /\ MailId(p) \in [Mails(p) -> Nat]
        BY <1>2, <1>5, <1>7, IdTypes
      <3>3. Numbers(l, Mails(p), MailId(p)) = Numbers(log, Mails(p), MailId(p)) \cup {MailId(p)[m]}
        BY <3>1, <3>2, Lengthened
      <3> QED
        BY <1>5, <3>1, <3>3
    <2> QED
      BY <1>7, <2>1 DEF Logged
  <1>15. Passing(p)' = Passing(p) \cup {x}
    BY <1>4, <1>5, <1>8, IdTypes, Lengthened DEF Passing
  <1>16. Flows(Shows(q), Coming(q), Passing(p), Logged(p), Sent(p)' \cup {x}, Logged(q), Sent(q), typed)
    BY <1>1, <1>9, <1>11 DEF Flow
  <1>17. Flows(Shows(p), Coming(p), Passing(q), Logged(q), Sent(q), Logged(p), Sent(p)' \cup {x}, typed)
    BY <1>1, <1>9, <1>11 DEF Flow
  <1>18. /\ Flows(Shows(q), Coming(q), Passing(p) \cup {x}, Logged(p) \cup {x}, Sent(p)', Logged(q),
                  Sent(q), typed)
         /\ x \notin Shows(q) /\ (\A y \in Passing(p) : y < x) /\ (\A y \in Logged(p) : y < x)
    <2>1. PICK U : U = Sent(p)'
      OBVIOUS
    <2>2. PICK y : y = x
      OBVIOUS
    <2>3. PICK R : R = Passing(p)
      OBVIOUS
    <2>4. PICK L : L = Logged(p)
      OBVIOUS
    <2>5. Flows(Shows(q), Coming(q), R, L, U \cup {y}, Logged(q), Sent(q), typed)
      BY <1>16, <2>1, <2>2, <2>3, <2>4
    <2>6. \A z \in U : y < z
      BY <1>11, <2>1, <2>2
    <2>7. /\ Flows(Shows(q), Coming(q), R \cup {y}, L \cup {y}, U, Logged(q), Sent(q), typed)
          /\ y \notin Shows(q) /\ (\A z \in R : z < y) /\ (\A z \in L : z < y)
      BY <2>5, <2>6 DEF Flows, Ahead
    <2> QED
      BY <2>1, <2>2, <2>3, <2>4, <2>7
  <1>19. Flows(Shows(p), Coming(p), Passing(q), Logged(q), Sent(q), Logged(p) \cup {x}, Sent(p)', typed)
    BY <1>17, FlowsOwnTaken
  <1>20. Rising(log', Mails(p), MailId(p))
    BY <1>2, <1>5, <1>7, <1>9, <1>18, IdTypes, Lengthened DEF Logged, Flow
  <1>21. Rising(relayq', Relays(p), RelayId(p))
    BY <1>4, <1>5, <1>8, <1>9, <1>18, IdTypes, Lengthened DEF Passing, Flow
  <1>22. Ordered(app'[q].shown, Logged(p)') /\ Ordered(app'[p].shown, Logged(q)')
    <2>1. Ordered(app[q].shown, Logged(p)) /\ Ordered(app[p].shown, Logged(q))
      BY <1>1, <1>9 DEF Flow
    <2>2. x \notin {app[q].shown[i] : i \in DOMAIN app[q].shown}
      BY <1>18 DEF Shows
    <2>3. Ordered(app[q].shown, Logged(p) \cup {x})
      BY <2>1, <2>2, OrderedMore
    <2> QED
      BY <1>2, <1>12, <1>14, <2>1, <2>3
  <1>23. Flow(p)'
    BY <1>1, <1>2, <1>9, <1>10, <1>11, <1>12, <1>13, <1>14, <1>19, <1>20, <1>21, <1>22 DEF Flow
  <1>24. Flow(q)'
    BY <1>1, <1>2, <1>5, <1>9, <1>10, <1>12, <1>13, <1>14, <1>15, <1>18, <1>22 DEF Flow
  <1> QED
    BY <1>1, <1>23, <1>24 DEF Flowing

LEMMA FlowRelay ==
  ASSUME Base, Smooth, Flowing, RelayMessage
  PROVE  Flowing'
  <1> DEFINE h == Head(relayq)
             x == h.m.id
  <1>1. /\ UNCHANGED <<app, up, log, typed>>
        /\ relayq # <<>> /\ relayq' = Tail(relayq) /\ relayq \in Seq(Relayed)
        /\ h \in Relayed /\ h.m \in Message /\ h.m.from \in Party
    BY RelayFacts DEF Base, Queues
  <1>2. PICK q \in Party : q = h.m.from
    BY <1>1
  <1>3. PICK p \in Party : p = Other(q) /\ Other(p) = q /\ p # q /\ \A r \in Party : r = p \/ r = q
    BY ThePeer
  <1>4. p \in room
    <2>1. 1 \in DOMAIN relayq /\ h = relayq[1]
      BY <1>1, HeadTailProperties, LenProperties
    <2>2. Holds(q)
      BY <1>2, <1>3, <2>1 DEF Smooth, Plain, RelaysRight
    <2> QED
      BY <1>3, <2>2 DEF Smooth, Plain, KeysRight
  <1>5. PICK e \in DownEvent : e.kind = "message" /\ e.m = h.m /\ down'[p] = Append(down[p], e)
    BY <1>2, <1>3, <1>4, RelayFacts
  <1>6. e \in Comes /\ ComeId[e] = x /\ down[p] \in Seq(DownEvent)
    BY <1>5 DEF Comes, ComeId, Base, Queues
  <1>7. h \in Relays(q) /\ RelayId(q)[h] = x /\ h \notin Relays(p)
    BY <1>1, <1>2, <1>3 DEF Relays, RelayId
  <1>8. ComingStays(q) /\ SentStays(p) /\ SentStays(q)
    <2>1. \/ down'[q] = down[q]
          \/ \E a \in DownEvent : a.kind # "message" /\ down'[q] = Append(down[q], a)
      BY <1>2, RelayFacts
    <2> QED
      BY <1>1, <2>1, ComingAlike, SentAlike
  <1>9. Flow(p) /\ Flow(q)
    BY DEF Flowing
  <1> HIDE DEF h, x
  <1>10. /\ Sent(p)' = Sent(p) /\ Sent(q)' = Sent(q) /\ Logged(p)' = Logged(p)
         /\ Logged(q)' = Logged(q) /\ Shows(p)' = Shows(p) /\ Shows(q)' = Shows(q)
         /\ Coming(q)' = Coming(q)
    BY <1>1, <1>8 DEF SentStays, ComingStays, Logged, Shows
  <1>11. /\ Passing(q) = Passing(q)' \cup {x} /\ \A y \in Passing(q)' : x < y
         /\ Rising(relayq', Relays(q), RelayId(q))
    BY <1>1, <1>7, <1>9, IdTypes, Shortened DEF h, Passing, Flow
  <1>12. Passing(p)' = Passing(p) /\ Rising(relayq', Relays(p), RelayId(p))
    BY <1>1, <1>7, <1>9, IdTypes, Shortened DEF h, Passing, Flow
  <1>13. Flows(Shows(p), Coming(p), Passing(q)' \cup {x}, Logged(q), Sent(q), Logged(p), Sent(p), typed)
    BY <1>3, <1>9, <1>11 DEF Flow
  <1>14. /\ Flows(Shows(p), Coming(p) \cup {x}, Passing(q)', Logged(q), Sent(q), Logged(p), Sent(p), typed)
         /\ \A y \in Coming(p) : y < x
    BY <1>11, <1>13, FlowsRelayed
  <1>15. /\ Coming(p)' = Coming(p) \cup {x}
         /\ Rising(down'[p], Comes, ComeId)
    <2>1. Rising(down[p], Comes, ComeId) /\ \A y \in Numbers(down[p], Comes, ComeId) : y < ComeId[e]
      BY <1>6, <1>9, <1>14 DEF Coming, Flow
    <2>2. /\ Numbers(down'[p], Comes, ComeId) = Numbers(down[p], Comes, ComeId) \cup {ComeId[e]}
          /\ Rising(down'[p], Comes, ComeId)
      BY <1>5, <1>6, <2>1, IdTypes, Lengthened
    <2> QED
      BY <1>6, <2>2 DEF Coming
  <1>16. Flow(p)'
    BY <1>1, <1>3, <1>9, <1>10, <1>11, <1>12, <1>14, <1>15 DEF Flow
  <1>17. Rising(down'[q], Comes, ComeId)
    BY <1>8, <1>9 DEF ComingStays, Flow
  <1>18. Flow(q)'
    BY <1>1, <1>3, <1>9, <1>10, <1>11, <1>12, <1>17 DEF Flow
  <1> QED
    BY <1>3, <1>16, <1>18 DEF Flowing

LEMMA FlowReceive ==
  ASSUME Base, Smooth, Flowing, NEW p \in Party, Receive(p)
  PROVE  Flowing'
  <1> DEFINE e == Head(down[p])
             x == e.m.id
  <1>1. PICK q \in Party : q = Other(p) /\ Other(q) = p /\ q # p /\ \A r \in Party : r = p \/ r = q
    BY ThePeer
  <1>2. /\ UNCHANGED <<up, relayq, log, typed>>
        /\ down[p] # <<>> /\ down'[p] = Tail(down[p]) /\ down[p] \in Seq(DownEvent)
        /\ e \in DownEvent /\ down'[q] = down[q] /\ app'[q] = app[q] /\ Reading(p, e)
    BY <1>1, ReceiveFacts DEF serverVars, AppIs, Base, Queues
  <1>3. Flow(p) /\ Flow(q) /\ Plain(p) /\ Plain(q)
    BY DEF Flowing, Smooth
  <1>4. SentStays(p) /\ SentStays(q) /\ ComingStays(q)
    BY <1>2, SentAlike, ComingAlike
  <1>5. Flow(q)'
    BY <1>1, <1>2, <1>3, <1>4, FlowStays
  <1>6. CASE e.kind # "message"
    <2>1. e.kind # "sync"
      BY <1>2, <1>3, Taken DEF Plain, Settled
    <2>2. app'[p].shown = app[p].shown
      BY <1>2, <1>3, <1>6, <2>1 DEF Reading, TextsAre, Plain, Settled
    <2>3. ComingStays(p)
      BY <1>2, <1>6, ComingAlike
    <2>4. Flow(p)'
      BY <1>1, <1>2, <1>3, <1>4, <2>2, <2>3, FlowStays
    <2> QED
      BY <1>1, <1>5, <2>4 DEF Flowing
  <1>7. CASE e.kind = "message"
    <2>1. 1 \in DOMAIN down[p] /\ e = down[p][1]
      BY <1>2, HeadTailProperties, LenProperties
    <2>2. Holds(p) /\ Holds(q) /\ e.m.secret = app[q].secret
      BY <1>1, <1>2, <1>3, <1>7, <2>1, Pulls DEF Plain, MailRight
    <2>3. e.m.secret = app[p].secret
      BY <1>1, <1>3, <2>2 DEF Plain, KeysRight
    <2>4. app'[p].shown = Append(app[p].shown, x)
      BY <1>2, <1>7, <2>2, <2>3 DEF Reading, TextsAre, Holds
    <2>5. e \in Comes /\ ComeId[e] = x /\ x \in 1..MessageBound
      BY <1>2, <1>7 DEF Comes, ComeId, DownEvent, Message
    <2> HIDE DEF x
    <2>6. /\ Coming(p) = Coming(p)' \cup {x} /\ \A y \in Coming(p)' : x < y
          /\ Rising(down'[p], Comes, ComeId)
      BY <1>2, <1>3, <2>5, IdTypes, Shortened DEF Coming, Flow
    <2>7. /\ Sent(p)' = Sent(p) /\ Sent(q)' = Sent(q)
          /\ Passing(q)' = Passing(q) /\ Passing(p)' = Passing(p)
          /\ Logged(p)' = Logged(p) /\ Logged(q)' = Logged(q)
      BY <1>2, <1>4 DEF SentStays, Passing, Logged
    <2>8. Flows(Shows(p), Coming(p)' \cup {x}, Passing(q), Logged(q), Sent(q), Logged(p), Sent(p), typed)
      BY <1>1, <1>3, <2>6 DEF Flow
    <2>9. /\ Flows(Shows(p) \cup {x}, Coming(p)', Passing(q), Logged(q), Sent(q), Logged(p), Sent(p), typed)
          /\ x \notin Shows(p) /\ x \in Logged(q) /\ \A y \in Shows(p) \cap Logged(q) : y < x
      <3>1. PICK D : D = Coming(p)'
        OBVIOUS
      <3>2. Flows(Shows(p), D \cup {x}, Passing(q), Logged(q), Sent(q), Logged(p), Sent(p), typed)
            /\ \A y \in D : x < y
        BY <2>6, <2>8, <3>1
      <3>3. /\ Flows(Shows(p) \cup {x}, D, Passing(q), Logged(q), Sent(q), Logged(p), Sent(p), typed)
            /\ x \notin Shows(p) /\ x \in Logged(q) /\ \A y \in Shows(p) \cap Logged(q) : y < x
        BY <3>2, FlowsReceived
      <3> QED
        BY <3>1, <3>3
    <2>10. /\ Shows(p)' = Shows(p) \cup {x}
           /\ Ordered(app'[p].shown, Logged(q)) /\ IsInjective(app'[p].shown)
      <3>1. app[p].shown \in Seq(1..MessageBound)
        BY DEF Base, Apps, AppOK
      <3>2. Ordered(app[p].shown, Logged(q)) /\ IsInjective(app[p].shown)
        BY <1>1, <1>3 DEF Flow
      <3>3. PICK s, X : s = app[p].shown /\ X = Logged(q)
        OBVIOUS
      <3>4. Shows(p) = {s[i] : i \in DOMAIN s}
        BY <3>3 DEF Shows
      <3>5. PICK t : t = Append(s, x)
        OBVIOUS
      <3>6. app'[p].shown = t
        BY <2>4, <3>3, <3>5
      <3>7. s \in Seq(1..MessageBound) /\ Ordered(s, X) /\ IsInjective(s)
        BY <3>1, <3>2, <3>3
      <3>8. /\ x \notin {s[i] : i \in DOMAIN s}
            /\ x \in X => \A y \in {s[i] : i \in DOMAIN s} \cap X : y < x
        BY <2>9, <3>3, <3>4
      <3>9. /\ Ordered(t, X) /\ IsInjective(t)
            /\ {t[i] : i \in DOMAIN t} = {s[i] : i \in DOMAIN s} \cup {x}
        BY <2>5, <3>5, <3>7, <3>8, ShownMore
      <3>10. Shows(p)' = {t[i] : i \in DOMAIN t}
        BY <3>6 DEF Shows
      <3> QED
        BY <3>3, <3>4, <3>6, <3>9, <3>10
    <2>11. Flow(p)'
      BY <1>1, <1>2, <1>3, <2>6, <2>7, <2>9, <2>10 DEF Flow
    <2> QED
      BY <1>1, <1>5, <2>11 DEF Flowing
  <1> QED
    BY <1>6, <1>7

LEMMA FlowInit == Init => Flowing
  <1> SUFFICES ASSUME Init, NEW p \in Party PROVE Flow(p)
    BY DEF Flowing
  <1>1. PICK q \in Party : q = Other(p)
    BY Constants
  <1>2. /\ app[p] = Closed(0) /\ up[p] = <<>> /\ up[q] = <<>> /\ down[p] = <<>>
        /\ relayq = <<>> /\ log = <<>> /\ typed = 0
    BY DEF Init
  <1>3. app[p].shown = <<>>
    BY <1>2 DEF Closed
  <1>4. DOMAIN <<>> = {}
    OBVIOUS
  <1>5. \A E, num : Numbers(<<>>, E, num) = {} /\ Rising(<<>>, E, num)
    BY <1>4 DEF Numbers, Rising, At
  <1>6. /\ Shows(p) = {} /\ Coming(p) = {} /\ Passing(q) = {} /\ Logged(q) = {} /\ Sent(q) = {}
        /\ Logged(p) = {} /\ Sent(p) = {}
    BY <1>2, <1>3, <1>4, <1>5 DEF Shows, Coming, Passing, Logged, Sent
  <1>7. Flows({}, {}, {}, {}, {}, {}, {}, 0)
    BY DEF Flows, Ahead
  <1>8. \A X : Ordered(<<>>, X)
    BY <1>4 DEF Ordered
  <1>9. IsInjective(<<>>)
    BY <1>4 DEF IsInjective
  <1> QED
    BY <1>1, <1>2, <1>3, <1>5, <1>6, <1>7, <1>8, <1>9 DEF Flow

AllSmooth == mishaps = {} => \A p \in Party : Plain(p) /\ Flow(p)

(* A step that moves no message keeps the flow of both. *)
LEMMA FlowingStays ==
  ASSUME Base, Flowing, UNCHANGED <<relayq, log, typed>>,
         \A p \in Party : SentStays(p) /\ ComingStays(p) /\ app'[p].shown = app[p].shown
  PROVE  Flowing'
  <1> SUFFICES ASSUME NEW p \in Party PROVE Flow(p)'
    BY DEF Flowing
  <1> QED
    BY Constants, FlowStays DEF Flowing

LEMMA SmoothPartyStep ==
  ASSUME Base, Smooth, Flowing, mishaps' = {}, NEW p \in Party, PartyStep(p)
  PROVE  (\A r \in Party : Plain(r)') /\ Flowing'
  <1>1. \A r \in Party : r # p /\ up'[r] = up[r] => SentStays(r)
    BY SentAlike
  <1>2. up'[p] = up[p] => SentStays(p)
    BY SentAlike
  <1>3. \A r \in Party : down'[r] = down[r] => ComingStays(r)
    BY ComingAlike
  <1>4. Plain(p)
    BY DEF Smooth
  <1>5. CASE OpenChat(p)
    <2>1. /\ AppIs(p, "reading", app[p].rerun, None, None)
          /\ TextsAre(p, app[p].pending, app[p].shown)
          /\ UNCHANGED <<up, down, relayq, log, typed>>
      BY <1>5, OpenFacts DEF OpenChat, serverVars
    <2>2. Flowing'
      BY <1>1, <1>2, <1>3, <2>1, FlowingStays DEF AppIs, TextsAre
    <2> QED
      BY <1>5, <2>2, PlainOpen
  <1>6. CASE RerunEffect(p)
    BY <1>4, <1>6 DEF RerunEffect, Plain, Settled
  <1>7. CASE ReadKey(p)
    <2>1. /\ UNCHANGED <<down, relayq, log, typed>>
          /\ TextsAre(p, app[p].pending, app[p].shown)
          /\ \/ Offering(p)
             \/ up' = up /\ \E k \in KeyPair : AppIs(p, "writing", app[p].rerun, k, app[p].secret)
      BY <1>7, ReadFacts DEF serverVars
    <2>2. SentStays(p) /\ \A r \in Party : r # p => app'[r] = app[r] /\ up'[r] = up[r]
      BY <1>2, <2>1, SentAlike DEF Offering, AppIs
    <2>3. Flowing'
      BY <1>1, <1>3, <2>1, <2>2, FlowingStays DEF TextsAre
    <2> QED
      BY <1>7, <2>3, PlainRead
  <1>8. CASE JoinRoom(p)
    <2>1. /\ UNCHANGED <<down, relayq, log, typed>>
          /\ TextsAre(p, app[p].pending, app[p].shown) /\ Offering(p)
      BY <1>8, JoinFacts DEF serverVars
    <2>2. SentStays(p) /\ \A r \in Party : r # p => app'[r] = app[r] /\ up'[r] = up[r]
      BY <2>1, SentAlike DEF Offering, AppIs
    <2>3. Flowing'
      BY <1>1, <1>3, <2>1, <2>2, FlowingStays DEF TextsAre
    <2> QED
      BY <1>8, <2>3, PlainJoin
  <1>9. CASE SendMessage(p)
    BY <1>9, PlainSend, FlowSend
  <1>10. CASE Receive(p)
    BY <1>10, PlainReceive, FlowReceive
  <1>11. CASE LeaveChat(p)
    BY <1>11 DEF LeaveChat, Happens
  <1>12. CASE HandleJoin(p)
    <2>1. /\ Pops(p) /\ Head(up[p]).kind = "join" /\ UNCHANGED <<app, down, relayq, log, typed>>
      BY <1>12, HandleJoinFacts
    <2>2. Flowing'
      BY <1>1, <1>3, <2>1, SentAlike, FlowingStays DEF Pops
    <2> QED
      BY <1>12, <2>2, PlainHandleJoin
  <1>13. CASE EnterRoom(p)
    <2>1. /\ UNCHANGED <<app, up, relayq, log, typed>>
          /\ \A r \in Party : r # p => down'[r] = down[r]
          /\ \/ down'[p] = down[p]
             \/ \E e \in DownEvent : e.kind = "key" /\ down'[p] = Append(down[p], e)
      <3>1. KeyOffer(keys[Other(p)]).kind = "key"
        BY DEF KeyOffer
      <3> QED
        BY <1>13, <3>1, EnterFacts
    <2>2. ComingStays(p)
      BY <2>1, ComingAlike
    <2>3. Flowing'
      BY <1>1, <1>2, <1>3, <2>1, <2>2, FlowingStays
    <2> QED
      BY <1>13, <2>3, PlainEnter
  <1>14. CASE SyncMissed(p)
    BY <1>4, <1>14 DEF SyncMissed, Plain, Settled
  <1>15. CASE HandleKey(p)
    <2>1. /\ Pops(p) /\ Head(up[p]).kind = "key" /\ UNCHANGED <<app, relayq, log, typed>>
          /\ \A r \in Party : \/ down'[r] = down[r]
                              \/ \E e \in DownEvent : e.kind = "key" /\ down'[r] = Append(down[r], e)
      <3>1. \A k : KeyOffer(k).kind = "key"
        BY DEF KeyOffer
      <3>2. \A r \in Party : r = p \/ r = Other(p)
        BY Constants
      <3> QED
        BY <1>15, <3>1, <3>2, HandleKeyFacts
    <2>2. \A r \in Party : ComingStays(r)
      BY <2>1, ComingAlike
    <2>3. Flowing'
      BY <1>1, <2>1, <2>2, SentAlike, FlowingStays DEF Pops
    <2> QED
      BY <1>15, <2>3, PlainHandleKey
  <1>16. CASE BufferMessage(p)
    BY <1>16, PlainBuffer, FlowBuffer
  <1>17. CASE Authenticate(p)
    <2>1. UNCHANGED <<app, up, down, joining, room, keys, relayq, log, typed>>
      BY <1>17, AuthenticateFacts DEF serverVars
    <2>2. Flowing'
      BY <1>1, <1>2, <1>3, <2>1, FlowingStays
    <2>3. \A r \in Party : Steady(r)
      BY <2>1 DEF Steady
    <2>4. ASSUME NEW r \in Party PROVE Plain(r)'
      <3>1. PICK q \in Party : q = Other(r) /\ Other(q) = r
        BY ThePeer
      <3> QED
        BY <2>1, <2>3, <3>1, PlainStays DEF Smooth
    <2> QED
      BY <2>2, <2>4
  <1>18. CASE RejectEarly(p) \/ Drop(p) \/ RefreshToken(p) \/ KillApp(p)
    BY <1>18 DEF RejectEarly, Drop, RefreshToken, KillApp, Happens
  <1>19. CASE Connect(p)
    BY <1>19, ConnectFacts DEF Smooth, Order, Calm
  <1> QED
    BY <1>5, <1>6, <1>7, <1>8, <1>9, <1>10, <1>11, <1>12, <1>13, <1>14, <1>15, <1>16, <1>17,
       <1>18, <1>19 DEF PartyStep, AppStep, GatewayStep

LEMMA SmoothNext ==
  ASSUME Base, AllOrder, AllKnown, AllSmooth, [Next]_vars
  PROVE  AllSmooth'
  <1> SUFFICES ASSUME mishaps' = {} PROVE (\A r \in Party : Plain(r)') /\ Flowing'
    BY DEF AllSmooth, Flowing
  <1>1. mishaps = {}
    BY MishapsStay
  <1>2. /\ Smooth /\ Flowing
        /\ \A p \in Party : over = "no"
    <2>1. \A p \in Party : Order(p) /\ Plain(p) /\ Flow(p)
      BY <1>1 DEF AllOrder, Fair, AllSmooth
    <2>2. \A p \in Party : over = "no"
      BY <2>1 DEF Order, Calm
    <2>3. \A p \in Party : Known(p)
      BY <2>2 DEF AllKnown
    <2> QED
      BY <1>1, <2>1, <2>2, <2>3 DEF Smooth, Flowing
  <1>3. ASSUME NEW p \in Party, PartyStep(p) PROVE (\A r \in Party : Plain(r)') /\ Flowing'
    BY <1>2, <1>3, SmoothPartyStep
  <1>4. CASE RelayMessage
    BY <1>2, <1>4, PlainRelay, FlowRelay
  <1>5. CASE EndSession
    BY <1>5 DEF EndSession, Happens
  <1>6. CASE Purge
    BY <1>2, <1>6, RelayConstants DEF Purge
  <1>7. CASE UNCHANGED vars
    <2>1. UNCHANGED <<app, up, down, joining, room, keys, relayq, log, typed>>
      BY <1>7 DEF vars
    <2>2. \A r \in Party : Steady(r) /\ SentStays(r) /\ ComingStays(r)
      BY <2>1, SentAlike, ComingAlike DEF Steady
    <2>3. Flowing'
      BY <1>2, <2>1, <2>2, FlowingStays
    <2>4. ASSUME NEW r \in Party PROVE Plain(r)'
      <3>1. PICK q \in Party : q = Other(r) /\ Other(q) = r
        BY ThePeer
      <3> QED
        BY <1>2, <2>1, <2>2, <3>1, PlainStays DEF Smooth
    <2> QED
      BY <2>3, <2>4
  <1> QED
    BY <1>3, <1>4, <1>5, <1>6, <1>7, NextIs

LEMMA SmoothInit == Init => AllSmooth
  BY PlainInit, FlowInit DEF AllSmooth, Flowing

LEMMA PrefixOf ==
  ASSUME NEW S, NEW s \in Seq(S), NEW t \in Seq(S), Len(s) <= Len(t),
         \A i \in 1..Len(s) : s[i] = t[i]
  PROVE  IsPrefix(s, t) /\ (Len(s) = Len(t) => s = t)
  <1>1. Len(s) \in Nat /\ Len(t) \in Nat /\ DOMAIN t = 1..Len(t)
    BY LenProperties
  <1>2. SubSeq(s, 1, Len(s)) = s
    BY SubSeqFull
  <1>3. \A i \in 1..Len(s) : t[i] \in S
    BY <1>1, ElementOfSeq
  <1>4. PICK u : u = SubSeq(t, 1, Len(s))
    OBVIOUS
  <1>5. /\ SubSeq(t, 1, Len(s)) \in Seq(S)
        /\ Len(SubSeq(t, 1, Len(s))) = IF 1 <= Len(s) THEN Len(s) - 1 + 1 ELSE 0
        /\ \A i \in 1..(Len(s) - 1 + 1) : SubSeq(t, 1, Len(s))[i] = t[1 + i - 1]
    BY <1>1, <1>3, SubSeqProperties
  <1>6. u \in Seq(S) /\ Len(u) = Len(s) /\ \A i \in 1..Len(s) : s[i] = u[i]
    <2>1. u \in Seq(S) /\ Len(u) = Len(s)
      BY <1>1, <1>4, <1>5
    <2>2. ASSUME NEW i \in 1..Len(s) PROVE s[i] = u[i]
      <3>1. i \in 1..(Len(s) - 1 + 1) /\ 1 + i - 1 = i
        BY <1>1
      <3>2. u[i] = t[i]
        BY <1>4, <1>5, <3>1
      <3> QED
        BY <3>2
    <2> QED
      BY <2>1, <2>2
  <1>7. s = u
    BY <1>6, SeqEqual
  <1>8. Len(s) = Len(t) => s = t
    BY SeqEqual
  <1> QED
    BY <1>2, <1>4, <1>7, <1>8 DEF IsPrefix

(* What is shown of what was taken is its beginning. *)
LEMMA FlowsFirst ==
  ASSUME NEW T, NEW D, NEW R, NEW L, NEW U, NEW M, NEW V, NEW n, Flows(T, D, R, L, U, M, V, n)
  PROVE  /\ T \cap L \in SUBSET L
         /\ \A x \in T \cap L, y \in L : y <= x => y \in T \cap L
         /\ D = {} /\ R = {} => T \cap L = L
  <1>1. ASSUME NEW x \in T \cap L, NEW y \in L, y <= x, y \notin T \cap L PROVE FALSE
    <2>1. y \in D \/ y \in R
      BY <1>1 DEF Flows
    <2>2. x < y
      BY <2>1 DEF Flows, Ahead
    <2>3. x \in Nat /\ y \in Nat
      BY DEF Flows
    <2> QED
      BY <1>1, <2>2, <2>3
  <1>2. D = {} /\ R = {} => T \cap L = L
    BY DEF Flows
  <1> QED
    BY <1>1, <1>2

(* The numbers of the peer's messages on a screen are the first of what    *)
(* was taken ...                                                           *)
LEMMA ShownFirst ==
  ASSUME Base, NEW p \in Party, NEW q \in Party, q = Other(p), Flow(p), Flow(q)
  PROVE  LET X == Logged(q)
             s == app[p].shown
             I == At(s, X)
             W == Shows(p) \cap X
         IN /\ X \in SUBSET Nat /\ IsFiniteSet(X) /\ Cardinality(X) \in Nat
            /\ Cardinality(I) \in Nat /\ Cardinality(I) <= Cardinality(X)
            /\ \A n \in 1..Cardinality(I) : s[Nth(I, n)] = Nth(X, n)
            /\ Coming(p) = {} /\ Passing(q) = {} => Cardinality(I) = Cardinality(X)
  <1> DEFINE J == At(log, Mails(q))
  <1>1. PICK X : X = Logged(q)
    OBVIOUS
  <1>2. PICK s \in Seq(1..MessageBound) : s = app[p].shown
    BY DEF Base, Apps, AppOK
  <1>3. PICK W : W = Shows(p) \cap X
    OBVIOUS
  <1>4. PICK I : I = At(s, X)
    OBVIOUS
  <1>5. X \in SUBSET Nat /\ IsFiniteSet(X)
    <2>1. log \in Seq(Message) /\ MailId(q) \in [Mails(q) -> Nat]
      BY IdTypes DEF Base, Queues
    <2>2. Rising(log, Mails(q), MailId(q))
      BY DEF Flow
    <2> QED
      BY <1>1, <2>1, <2>2, Counted DEF Logged
  <1>6. PICK num : num = [n \in X |-> n]
    OBVIOUS
  <1>7. num \in [X -> Nat] /\ \A n \in X : num[n] = n
    BY <1>5, <1>6
  <1>8. Rising(s, X, num)
    <2>1. Ordered(s, X)
      BY <1>1, <1>2 DEF Flow
    <2> QED
      BY <1>7, <2>1 DEF Rising, Ordered, At
  <1>9. Numbers(s, X, num) = W
    <2>1. Numbers(s, X, num) = {s[i] : i \in I}
      <3>1. \A i \in I : s[i] \in X
        BY <1>4 DEF At
      <3> QED
        BY <1>4, <1>7, <3>1 DEF Numbers
    <2>2. W = {s[i] : i \in DOMAIN s} \cap X
      BY <1>2, <1>3 DEF Shows
    <2>3. \A i : i \in I <=> i \in DOMAIN s /\ s[i] \in X
      BY <1>4 DEF At
    <2> QED
      BY <2>1, <2>2, <2>3
  <1>10. Cardinality(W) = Cardinality(I)
         /\ \A n \in 1..Cardinality(I) : num[s[Nth(I, n)]] = Nth(W, n)
    BY <1>4, <1>7, <1>8, <1>9, Counted
  <1>11. Flows(Shows(p), Coming(p), Passing(q), X, Sent(q), Logged(p), Sent(p), typed)
    BY <1>1 DEF Flow
  <1>12. /\ W \in SUBSET X /\ \A x \in W, y \in X : y <= x => y \in W
         /\ Coming(p) = {} /\ Passing(q) = {} => W = X
    BY <1>3, <1>11, FlowsFirst
  <1>13. /\ Cardinality(W) \in Nat /\ Cardinality(X) \in Nat
         /\ Cardinality(W) <= Cardinality(X)
         /\ \A n \in 1..Cardinality(W) : Nth(W, n) = Nth(X, n)
    BY <1>5, <1>12, First
  <1>14. \A n \in 1..Cardinality(I) : s[Nth(I, n)] \in X
    <2>1. I \in SUBSET (DOMAIN s) /\ \A i \in I : s[i] \in X
      BY <1>4 DEF At
    <2> QED
      BY <2>1, KeptSeq
  <1>15. \A n \in 1..Cardinality(I) : s[Nth(I, n)] = Nth(X, n)
    BY <1>7, <1>10, <1>13, <1>14
  <1> QED
    BY <1>1, <1>2, <1>4, <1>5, <1>10, <1>12, <1>13, <1>15

(* ... as is what FromPeer keeps of them, of what From keeps of the log.   *)
LEMMA FlowDelivers ==
  ASSUME Base, NEW p \in Party, Plain(p), \A r \in Party : Flow(r)
  PROVE  /\ IsInjective(app[p].shown)
         /\ LET got == FromPeer(p, app[p].shown) \o Ids(app[p].pending)
                all == Ids(From(Other(p), log))
            IN IsPrefix(got, all) /\ (Quiet => got = all)
  <1>1. PICK q \in Party : q = Other(p) /\ Other(q) = p /\ q # p /\ \A r \in Party : r = p \/ r = q
    BY ThePeer
  <1>2. PICK s \in Seq(1..MessageBound) : s = app[p].shown
    BY DEF Base, Apps, AppOK
  <1>3. PICK X : X = Logged(q)
    OBVIOUS
  <1>4. PICK I : I = At(s, X)
    OBVIOUS
  <1>5. PICK J : J = At(log, Mails(q))
    OBVIOUS
  <1>6. log \in Seq(Message) /\ MailId(q) \in [Mails(q) -> Nat]
    BY IdTypes DEF Base, Queues
  <1>7. \A j \in DOMAIN log : /\ log[j] \in Message /\ log[j].from \in Party
                              /\ log[j].id \in 1..MessageBound
                              /\ log[j] \in Mails(q) <=> log[j].from = q
    <2>1. \A j \in DOMAIN log : log[j] \in Message
      BY <1>6, LenProperties, ElementOfSeq
    <2> QED
      BY <2>1 DEF Mails, Message
  <1>8. {i \in DOMAIN log : log[i].from = q} = J
    BY <1>5, <1>7 DEF At
  <1>9. \A j \in J : j \in DOMAIN log /\ MailId(q)[log[j]] = log[j].id
    BY <1>5 DEF At, MailId
  <1>10. X = {log[j].id : j \in J}
    BY <1>3, <1>5, <1>9 DEF Logged, Numbers
  <1>11. {i \in DOMAIN s : \E j \in DOMAIN log : log[j].id = s[i] /\ log[j].from # p} = I
    <2>1. \A n : (\E j \in DOMAIN log : log[j].id = n /\ log[j].from # p) <=> n \in X
      <3>1. \A j : j \in J <=> j \in DOMAIN log /\ log[j].from # p
        BY <1>1, <1>7, <1>8
      <3> QED
        BY <1>10, <3>1
    <2> QED
      BY <1>4, <2>1 DEF At
  <1>12. Cardinality(X) = Cardinality(J)
         /\ \A n \in 1..Cardinality(J) : MailId(q)[log[Nth(J, n)]] = Nth(X, n)
    <2>1. Rising(log, Mails(q), MailId(q))
      BY DEF Flow
    <2> QED
      BY <1>3, <1>5, <1>6, <2>1, Counted DEF Logged
  <1>13. /\ X \in SUBSET Nat /\ IsFiniteSet(X) /\ Cardinality(X) \in Nat
         /\ Cardinality(I) \in Nat /\ Cardinality(I) <= Cardinality(X)
         /\ \A n \in 1..Cardinality(I) : s[Nth(I, n)] = Nth(X, n)
         /\ Coming(p) = {} /\ Passing(q) = {} => Cardinality(I) = Cardinality(X)
    BY <1>1, <1>2, <1>3, <1>4, ShownFirst
  <1>14. PICK got : got = FromPeer(p, s)
    OBVIOUS
  <1>15. /\ got \in Seq(1..MessageBound) /\ Len(got) = Cardinality(I)
         /\ \A n \in 1..Cardinality(I) : got[n] = Nth(X, n)
    <2>1. I \in SUBSET (DOMAIN s)
      BY <1>4 DEF At
    <2>2. got = Kept(s, I)
      BY <1>11, <1>14 DEF FromPeer
    <2> QED
      BY <1>13, <2>1, <2>2, KeptSeq
  <1>16. PICK kept : kept = Kept(log, J)
    OBVIOUS
  <1>17. /\ kept \in Seq(Message) /\ Len(kept) = Cardinality(X) /\ DOMAIN kept = 1..Cardinality(X)
         /\ \A n \in 1..Cardinality(X) : kept[n].id = Nth(X, n) /\ kept[n].id \in 1..MessageBound
    <2>1. J \in SUBSET (DOMAIN log)
      BY <1>9
    <2>2. /\ kept \in Seq(Message) /\ Len(kept) = Cardinality(J)
          /\ \A n \in 1..Cardinality(J) : Nth(J, n) \in J /\ kept[n] = log[Nth(J, n)]
      BY <1>6, <1>16, <2>1, KeptSeq
    <2>3. DOMAIN kept = 1..Cardinality(X)
      BY <1>12, <2>2, LenProperties
    <2> QED
      BY <1>7, <1>9, <1>12, <2>2, <2>3
  <1>18. PICK all : all = Ids(kept)
    OBVIOUS
  <1>19. /\ all \in Seq(1..MessageBound) /\ Len(all) = Cardinality(X)
         /\ \A n \in 1..Cardinality(X) : all[n] = Nth(X, n)
    <2>1. all = [n \in 1..Cardinality(X) |-> kept[n].id]
      BY <1>17, <1>18 DEF Ids
    <2>2. \A n \in 1..Cardinality(X) : kept[n].id \in 1..MessageBound /\ kept[n].id = Nth(X, n)
      BY <1>17
    <2>3. PICK c \in Nat : c = Cardinality(X)
      BY <1>13
    <2>4. all = [n \in 1..c |-> kept[n].id] /\ \A n \in 1..c : kept[n].id \in 1..MessageBound
      BY <2>1, <2>2, <2>3
    <2>5. all \in [1..c -> 1..MessageBound]
      BY <2>4
    <2>6. all \in Seq(1..MessageBound)
      BY <2>3, <2>5, SeqDef
    <2>7. Len(all) = c
      BY <2>3, <2>5, <2>6, LenProperties
    <2> QED
      BY <2>1, <2>2, <2>3, <2>6, <2>7
  <1>20. IsPrefix(got, all) /\ (Len(got) = Len(all) => got = all)
    <2>1. Len(got) <= Len(all)
      BY <1>13, <1>15, <1>19
    <2>2. \A n \in 1..Len(got) : n \in 1..Cardinality(I) /\ n \in 1..Cardinality(X)
      BY <1>13, <1>15
    <2>3. \A n \in 1..Len(got) : got[n] = all[n]
      BY <1>15, <1>19, <2>2
    <2> QED
      BY <1>15, <1>19, <2>1, <2>3, PrefixOf
  <1>21. Quiet => Len(got) = Len(all)
    <2> SUFFICES ASSUME Quiet PROVE Cardinality(I) = Cardinality(X)
      BY <1>15, <1>19
    <2>1. down[p] = <<>> /\ relayq = <<>>
      BY DEF Quiet
    <2>2. Coming(p) = {} /\ Passing(q) = {}
      BY <2>1 DEF Coming, Passing, Numbers, At
    <2> QED
      BY <1>13, <2>2
  <1>22. FromPeer(p, app[p].shown) \o Ids(app[p].pending) = got
    <2>1. app[p].pending = <<>>
      BY DEF Plain, Settled
    <2>2. Ids(<<>>) = <<>>
      BY DEF Ids
    <2>3. got \o <<>> = got
      BY <1>15, ConcatEmptySeq
    <2> QED
      BY <1>2, <1>14, <2>1, <2>2, <2>3
  <1>23. Ids(From(Other(p), log)) = all
    BY <1>1, <1>8, <1>16, <1>18 DEF From
  <1>24. IsInjective(app[p].shown)
    BY DEF Flow
  <1> QED
    BY <1>20, <1>21, <1>22, <1>23, <1>24


-----------------------------------------------------------------------------
(* The theorems                                                            *)

(* The types of the apps, the queues and the gateway's state hold in every *)
(* behaviour; the message buffer never outgrows MAX_SESSION_MESSAGES, and  *)
(* a socket that is not connected is not in the room.                      *)
THEOREM RelayTyped == Spec => []TypeOK
  <1>1. Base /\ [Next]_vars => Base'
    BY BaseNext
  <1>2. Base => TypeOK
    BY BaseTypes
  <1> QED
    BY <1>1, <1>2, BaseInit, PTL DEF Spec

(* useChat and key:exchange never leave the two apps with different        *)
(* secrets: once nothing is on its way and the stored keys are those in    *)
(* use, an app that has a secret has the one of these two keys, whatever   *)
(* was lost, repeated or restarted before.                                 *)
THEOREM RelaySecretsAgree == Spec => []SecretsAgree
  <1>1. Init => Base /\ AllKnown
    BY BaseInit, KnownInit
  <1>2. Base /\ AllKnown /\ [Next]_vars => Base' /\ AllKnown'
    BY BaseNext, KnownNext
  <1>3. Base /\ AllKnown => SecretsAgree
    BY KnownAgree
  <1> QED
    BY <1>1, <1>2, <1>3, PTL DEF Spec

(* After a chat that was left, or a connection that was lost and is back,  *)
(* the handlers of room:join and key:exchange have given each app the      *)
(* other's key once nothing is on its way.                                 *)
THEOREM RelayKeysReachBoth == Spec => []KeysReachBoth
  <1>1. Init => Base /\ AllOrder
    BY BaseInit, OrderInit
  <1>2. Base /\ AllOrder /\ [Next]_vars => Base' /\ AllOrder'
    BY BaseNext, OrderNext
  <1>3. AllOrder => KeysReachBoth
    BY OrderReaches
  <1> QED
    BY <1>1, <1>2, <1>3, PTL DEF Spec

(* As long as nothing goes wrong, buffering, relaying and useChat's        *)
(* handlers show each app what the gateway took of the other's messages,   *)
(* in that order, nothing twice and, once nothing is on its way, all.      *)
THEOREM RelayDeliveredInOrder == Spec => []DeliveredInOrder
  <1> DEFINE IInv == Base /\ AllKnown /\ AllOrder /\ AllSmooth
  <1>1. Init => IInv
    BY BaseInit, KnownInit, OrderInit, SmoothInit
  <1>2. IInv /\ [Next]_vars => IInv'
    BY BaseNext, KnownNext, OrderNext, SmoothNext
  <1>3. IInv => DeliveredInOrder
    <2> SUFFICES ASSUME IInv, mishaps = {}, NEW p \in Party
                 PROVE  /\ IsInjective(app[p].shown)
                        /\ LET got == FromPeer(p, app[p].shown) \o Ids(app[p].pending)
                               all == Ids(From(Other(p), log))
                           IN IsPrefix(got, all) /\ (Quiet => got = all)
      BY DEF DeliveredInOrder
    <2>1. Plain(p) /\ \A r \in Party : Flow(r)
      BY DEF AllSmooth
    <2> QED
      BY <2>1, FlowDelivers
  <1> QED
    BY <1>1, <1>2, <1>3, PTL DEF Spec

=============================================================================
