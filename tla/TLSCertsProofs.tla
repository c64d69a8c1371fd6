--------------------------- MODULE TLSCertsProofs ---------------------------
(***************************************************************************)
(* Proofs about the TLS certificates, for every set of nodes, all sizes    *)
(* and every bound.                                                        *)
(***************************************************************************)
EXTENDS TLSCerts, TLAPS, FiniteSetTheorems

-----------------------------------------------------------------------------
(* Names in their order *)

LEMMA MinIn ==
  ASSUME NEW s \in SUBSET Nat, s # {}
  PROVE  Min(s) \in s /\ \A x \in s : Min(s) <= x
<1>1. PICK x \in s : \A y \in s : <<y, x>> \notin OpToRel(<, Nat)
  BY NatLessThanWellFounded, WFMin
<1>2. \A y \in s : ~(y < x)
  BY <1>1 DEF OpToRel
<1>3. \A y \in s : x <= y
  BY <1>2
<1> QED BY <1>3 DEF Min

\* A finite set of names has a last one: without the one that is taken away
\* it has one, or nothing is left.
LEMMA FiniteMax ==
  ASSUME NEW s \in SUBSET Nat, s # {}, IsFiniteSet(s)
  PROVE  \E m \in s : \A x \in s : m >= x
<1> DEFINE HasMax(u) == u # {} => \E m \in u : \A x \in u : m >= x
           T == {k \in Nat : \E u \in SUBSET Nat :
                               IsFiniteSet(u) /\ Cardinality(u) = k /\ ~HasMax(u)}
<1>1. T = {}
  <2> SUFFICES ASSUME T # {} PROVE FALSE
    OBVIOUS
  <2>1. T \in SUBSET Nat
    OBVIOUS
  <2>2. PICK k \in T : \A j \in T : k <= j
    <3> HIDE DEF T
    <3> QED BY <2>1, MinIn
  <2>3. PICK u \in SUBSET Nat : IsFiniteSet(u) /\ Cardinality(u) = k /\ ~HasMax(u)
    BY <2>2
  <2>4. PICK x \in u : TRUE
    BY <2>3
  <2>5. /\ u \ {x} \in SUBSET Nat /\ IsFiniteSet(u \ {x})
        /\ Cardinality(u \ {x}) = k - 1 /\ k - 1 \in Nat
    <3>1. IsFiniteSet(u \ {x}) /\ Cardinality(u \ {x}) = Cardinality(u) - 1
      BY <2>3, <2>4, FS_RemoveElement
    <3>2. Cardinality(u \ {x}) \in Nat
      BY <3>1, FS_CardinalityType
    <3> QED BY <2>3, <3>1, <3>2
  <2>6. HasMax(u \ {x})
    <3>1. k - 1 \notin T
      <4> HIDE DEF T
      <4> QED BY <2>1, <2>2, <2>5
    <3> HIDE DEF HasMax
    <3> QED BY <2>5, <3>1
  <2>7. CASE u \ {x} = {}
    <3>1. \A y \in u : y = x
      BY <2>7
    <3> QED BY <2>3, <2>4, <3>1
  <2>8. CASE u \ {x} # {}
    <3>1. PICK y \in u \ {x} : \A z \in u \ {x} : y >= z
      BY <2>6, <2>8
    <3>2. x \in Nat /\ y \in Nat
      BY <2>3, <2>4, <3>1
    <3>3. CASE x >= y
      <4>1. \A z \in u : x >= z
        BY <2>3, <3>1, <3>2, <3>3
      <4> QED BY <2>3, <2>4, <4>1
    <3>4. CASE y >= x
      <4>1. \A z \in u : y >= z
        BY <3>1, <3>4
      <4> QED BY <2>3, <3>1, <4>1
    <3> QED BY <3>2, <3>3, <3>4
  <2> QED BY <2>7, <2>8
<1>2. HasMax(s)
  <2> HIDE DEF HasMax
  <2> QED BY <1>1, FS_CardinalityType
<1> QED BY <1>2

LEMMA MaxIn ==
  ASSUME NEW s \in SUBSET Nat, s # {}, IsFiniteSet(s)
  PROVE  Max(s) \in s
BY FiniteMax DEF Max

\* A name after all others is the largest.
LEMMA MaxLast ==
  ASSUME NEW s \in SUBSET Nat, NEW n \in Nat, \A x \in s : x < n
  PROVE  Max(s \cup {n}) = n
<1> DEFINE u == s \cup {n}
<1>1. \E x \in u : \A y \in u : x >= y
  OBVIOUS
<1>2. \A x \in u : x >= n => x = n
  OBVIOUS
<1>3. n \in u
  OBVIOUS
<1> HIDE DEF u
<1>4. Max(u) \in u /\ \A y \in u : Max(u) >= y
  BY <1>1 DEF Max
<1>5. Max(u) = n
  BY <1>2, <1>3, <1>4
<1> QED BY <1>5 DEF u

-----------------------------------------------------------------------------
(* The size of a set of certificates *)

Sized(c) ==
  /\ IsFiniteSet(DOMAIN c) /\ DOMAIN c \subseteq Nat
  /\ \A n \in DOMAIN c : c[n].size \in Nat \ {0}

\* The recursion of TotalSize.
IsSum(f, c) ==
  f = [t \in SUBSET DOMAIN c |->
         IF t = {} THEN 0 ELSE f[t \ {Max(t)}] + c[Max(t)].size]

\* It has a solution: one for the sets of at most m names gives one for m + 1.
LEMMA SumExists ==
  ASSUME NEW c, Sized(c)
  PROVE  \E f \in [SUBSET DOMAIN c -> Nat] : IsSum(f, c)
<1> DEFINE D == DOMAIN c
           F == [SUBSET D -> Nat]
           Body(f, t) == IF t = {} THEN 0 ELSE f[t \ {Max(t)}] + c[Max(t)].size
           UpTo(m) == \E f \in F : \A t \in SUBSET D : Cardinality(t) <= m => f[t] = Body(f, t)
           T == {m \in Nat : ~UpTo(m)}
<1>1. \A t \in SUBSET D :
        /\ IsFiniteSet(t) /\ Cardinality(t) \in Nat /\ Cardinality(t) <= Cardinality(D)
        /\ Cardinality(t) = 0 <=> t = {}
        /\ t # {} => Max(t) \in t /\ Cardinality(t \ {Max(t)}) = Cardinality(t) - 1
  BY FS_Subset, FS_CardinalityType, FS_EmptySet, FS_RemoveElement, MaxIn DEF Sized
<1>2. \A f \in F, t \in SUBSET D : Body(f, t) \in Nat
  <2> TAKE f \in F, t \in SUBSET D
  <2>1. CASE t = {}
    BY <2>1
  <2>2. CASE t # {}
    <3>1. t \ {Max(t)} \in SUBSET D /\ Max(t) \in DOMAIN c
      BY <1>1, <2>2
    <3>2. f[t \ {Max(t)}] \in Nat /\ c[Max(t)].size \in Nat
      BY <3>1 DEF Sized
    <3> QED BY <2>2, <3>2
  <2> QED BY <2>1, <2>2
<1>3. UpTo(0)
  <2>1. [t \in SUBSET D |-> 0] \in F
    OBVIOUS
  <2>2. ASSUME NEW t \in SUBSET D, Cardinality(t) <= 0
        PROVE  t = {}
    <3>0. Cardinality(t) \in Nat
      BY <1>1
    <3>1. Cardinality(t) = 0
      BY <2>2, <3>0
    <3> QED BY <1>1, <3>1
  <2> QED BY <2>1, <2>2
<1>4. ASSUME NEW k \in Nat, UpTo(k) PROVE UpTo(k + 1)
  <2>1. PICK f \in F : \A t \in SUBSET D : Cardinality(t) <= k => f[t] = Body(f, t)
    BY <1>4
  <2> DEFINE g == [t \in SUBSET D |-> Body(f, t)]
  <2>2. g \in F
    BY <1>2
  <2>3. ASSUME NEW t \in SUBSET D, Cardinality(t) <= k + 1
        PROVE  g[t] = Body(g, t)
    <3>1. CASE t = {}
      BY <3>1
    <3>2. CASE t # {}
      <4>1. t \ {Max(t)} \in SUBSET D /\ Cardinality(t \ {Max(t)}) <= k
        BY <1>1, <2>3, <3>2
      <4>2. g[t \ {Max(t)}] = f[t \ {Max(t)}]
        BY <2>1, <4>1
      <4> QED BY <3>2, <4>2
    <3> QED BY <3>1, <3>2
  <2> HIDE DEF g
  <2> QED BY <2>2, <2>3
<1>5. T = {}
  <2> SUFFICES ASSUME T # {} PROVE FALSE
    OBVIOUS
  <2>1. T \in SUBSET Nat
    OBVIOUS
  <2> HIDE DEF UpTo
  <2>2. Min(T) \in T /\ \A x \in T : Min(T) <= x
    <3> HIDE DEF T
    <3> QED BY <2>1, MinIn
  <2> DEFINE m == Min(T)
  <2>3. m \in Nat /\ ~UpTo(m) /\ \A x \in Nat : x < m => UpTo(x)
    <3>1. \A x \in T : ~(x < m)
      BY <2>2
    <3> QED BY <2>2, <3>1
  <2> HIDE DEF m
  <2>4. m # 0 /\ m - 1 \in Nat /\ (m - 1) + 1 = m
    BY <1>3, <2>3
  <2> QED BY <1>4, <2>3, <2>4
<1>6. Cardinality(D) \in Nat
  BY FS_CardinalityType DEF Sized
<1>7. UpTo(Cardinality(D))
  <2> HIDE DEF UpTo
  <2> QED BY <1>5, <1>6
<1>8. PICK f \in F : \A t \in SUBSET D : Cardinality(t) <= Cardinality(D) => f[t] = Body(f, t)
  BY <1>7
<1>9. \A t \in SUBSET D : f[t] = Body(f, t)
  BY <1>1, <1>8
<1>10. f = [t \in SUBSET D |-> Body(f, t)]
  BY <1>9
<1> QED BY <1>10 DEF IsSum

SumOf(c) == CHOOSE f : IsSum(f, c)

LEMMA TotalIsSum == \A s : TotalSize(s) = SumOf(certsData)[s]
BY DEF TotalSize, SumOf, IsSum

LEMMA TotalFacts ==
  ASSUME NEW c, Sized(c)
  PROVE  /\ SumOf(c)[{}] = 0
         /\ \A s \in SUBSET DOMAIN c : SumOf(c)[s] \in Nat
         /\ \A s \in SUBSET DOMAIN c, n \in DOMAIN c :
              (\A x \in s : x < n) => SumOf(c)[s \cup {n}] = SumOf(c)[s] + c[n].size
<1> DEFINE f == SumOf(c)
<1>1. IsSum(f, c)
  BY SumExists DEF SumOf
<1> HIDE DEF f
<1>2. \A t \in SUBSET DOMAIN c :
        f[t] = IF t = {} THEN 0 ELSE f[t \ {Max(t)}] + c[Max(t)].size
  BY <1>1 DEF IsSum
<1>3. f[{}] = 0
  BY <1>2
<1>4. ASSUME NEW s \in SUBSET DOMAIN c, NEW n \in DOMAIN c, \A x \in s : x < n
      PROVE  f[s \cup {n}] = f[s] + c[n].size
  <2>0. s \in SUBSET Nat /\ n \in Nat
    BY DEF Sized
  <2>1. Max(s \cup {n}) = n /\ n \notin s
    BY <1>4, <2>0, MaxLast
  <2>2. (s \cup {n}) \ {n} = s /\ s \cup {n} \in SUBSET DOMAIN c /\ s \cup {n} # {}
    BY <2>1
  <2> QED BY <1>2, <2>1, <2>2
<1>5. \A s \in SUBSET DOMAIN c : f[s] \in Nat
  <2> DEFINE T == {k \in Nat : \E s \in SUBSET DOMAIN c : Cardinality(s) = k /\ f[s] \notin Nat}
  <2>1. T = {}
    <3> SUFFICES ASSUME T # {} PROVE FALSE
      OBVIOUS
    <3>1. T \in SUBSET Nat
      OBVIOUS
    <3>2. PICK k \in T : \A j \in T : k <= j
      <4> HIDE DEF T
      <4> QED BY <3>1, MinIn
    <3>3. PICK s \in SUBSET DOMAIN c : Cardinality(s) = k /\ f[s] \notin Nat
      BY <3>2
    <3>4. s # {} /\ IsFiniteSet(s) /\ s \in SUBSET Nat
      <4>1. s # {}
        BY <1>3, <3>3
      <4> QED BY <4>1, FS_Subset DEF Sized
    <3>5. Max(s) \in s /\ s \ {Max(s)} \in SUBSET DOMAIN c
      BY <3>4, MaxIn
    <3>6. IsFiniteSet(s \ {Max(s)}) /\ Cardinality(s \ {Max(s)}) = k - 1
      BY <3>3, <3>4, <3>5, FS_RemoveElement
    <3>7. k - 1 \in Nat /\ k \in Nat
      BY <3>2, <3>6, FS_CardinalityType
    <3>8. f[s \ {Max(s)}] \in Nat
      <4>1. k - 1 \notin T
        <5> HIDE DEF T
        <5> QED BY <3>2, <3>7
      <4> QED BY <3>5, <3>6, <3>7, <4>1
    <3>9. c[Max(s)].size \in Nat
      BY <3>5 DEF Sized
    <3>10. f[s] = f[s \ {Max(s)}] + c[Max(s)].size
      BY <1>2, <3>4
    <3> QED BY <3>3, <3>8, <3>9, <3>10
  <2>2. \A s \in SUBSET DOMAIN c : Cardinality(s) \in Nat
    BY FS_Subset, FS_CardinalityType DEF Sized
  <2> QED BY <2>1, <2>2
<1> QED BY <1>3, <1>4, <1>5 DEF f

LEMMA AddTotal ==
  ASSUME NEW c, Sized(c), NEW s \in SUBSET DOMAIN c, NEW n \in DOMAIN c, \A x \in s : x < n
  PROVE  SumOf(c)[s \cup {n}] = SumOf(c)[s] + c[n].size /\ SumOf(c)[s] \in Nat
BY TotalFacts

-----------------------------------------------------------------------------
(* The packing *)

\* What the packing promises of the secrets so far.
WellPacked(c, q) ==
  /\ q \in Seq(SUBSET DOMAIN c)
  /\ \A j, k \in DOMAIN q : j < k => \A a \in q[j], b \in q[k] : a < b
  /\ \A k \in DOMAIN q :
       /\ q[k] # {}
       /\ SumOf(c)[q[k]] <= SecretMaxSize \/ Cardinality(q[k]) = 1
       /\ k > 1 => SumOf(c)[q[k - 1] \cup {Min(q[k])}] > SecretMaxSize

\* The nodes that are left come after those that are packed.
InOrder(c, q) ==
  \A k \in DOMAIN q : \A a \in q[k], b \in DOMAIN c \ UNION Range(q) : a < b

Counted(c, q, t) == t = IF q = << >> THEN SecretMaxSize ELSE SumOf(c)[q[Len(q)]]

LEMMA NothingPacked ==
  ASSUME NEW c
  PROVE  WellPacked(c, << >>) /\ InOrder(c, << >>) /\ Counted(c, << >>, SecretMaxSize)
BY DEF WellPacked, InOrder, Counted

LEMMA PackedSeq ==
  ASSUME NEW c, NEW q, Sized(c), WellPacked(c, q)
  PROVE  /\ q \in Seq(SUBSET DOMAIN c) /\ Len(q) \in Nat /\ DOMAIN q = 1..Len(q)
         /\ \A k \in 1..Len(q) : q[k] \in SUBSET DOMAIN c /\ q[k] \in SUBSET Nat /\ q[k] # {}
<1>1. q \in Seq(SUBSET DOMAIN c) /\ \A k \in DOMAIN q : q[k] # {}
  BY DEF WellPacked
<1>2. Len(q) \in Nat /\ DOMAIN q = 1..Len(q) /\ \A k \in 1..Len(q) : q[k] \in SUBSET DOMAIN c
  BY <1>1
<1>3. DOMAIN c \subseteq Nat
  BY DEF Sized
<1> QED BY <1>1, <1>2, <1>3

LEMMA LastUpdated ==
  ASSUME NEW S, NEW q \in Seq(S), q # << >>, NEW v \in S
  PROVE  /\ [q EXCEPT ![Len(q)] = v] \in Seq(S)
         /\ Len([q EXCEPT ![Len(q)] = v]) = Len(q)
         /\ DOMAIN [q EXCEPT ![Len(q)] = v] = 1..Len(q)
         /\ Len(q) \in 1..Len(q)
         /\ [q EXCEPT ![Len(q)] = v][Len(q)] = v
         /\ \A k \in 1..Len(q) : k # Len(q) => [q EXCEPT ![Len(q)] = v][k] = q[k]
OBVIOUS

\* What is known when the next node is packed.
LEMMA NextNode ==
  ASSUME NEW c, NEW q, Sized(c), WellPacked(c, q), InOrder(c, q),
         NEW L, L = DOMAIN c \ UNION Range(q), L # {}
  PROVE  /\ Min(L) \in L /\ Min(L) \in DOMAIN c /\ Min(L) \in Nat
         /\ \A b \in L : b # Min(L) => Min(L) < b
         /\ \A k \in DOMAIN q : \A a \in q[k] : a < Min(L)
         /\ Range(q) = {q[k] : k \in 1..Len(q)} /\ Len(q) \in Nat /\ DOMAIN q = 1..Len(q)
<1>1. L \in SUBSET Nat
  BY DEF Sized
<1>2. Min(L) \in L /\ \A b \in L : Min(L) <= b
  BY <1>1, MinIn
<1>3. ASSUME NEW b \in L, b # Min(L) PROVE Min(L) < b
  <2>1. b \in Nat /\ Min(L) \in Nat /\ Min(L) <= b
    BY <1>1, <1>2
  <2> QED BY <1>3, <2>1
<1>4. Range(q) = {q[k] : k \in 1..Len(q)} /\ Len(q) \in Nat /\ DOMAIN q = 1..Len(q)
  BY DEF WellPacked, Range
<1> QED BY <1>1, <1>2, <1>3, <1>4 DEF InOrder

\* The next node begins a secret.
LEMMA BeginSecret ==
  ASSUME NEW c, NEW q, NEW L, NEW t, Sized(c), WellPacked(c, q), InOrder(c, q), Counted(c, q, t),
         L = DOMAIN c \ UNION Range(q), L # {}, t + c[Min(L)].size > SecretMaxSize
  PROVE  /\ WellPacked(c, Append(q, {Min(L)})) /\ InOrder(c, Append(q, {Min(L)}))
         /\ Counted(c, Append(q, {Min(L)}), c[Min(L)].size)
<1> DEFINE n == Min(L)
           r == Append(q, {n})
<1>1. /\ n \in L /\ n \in DOMAIN c /\ n \in Nat
      /\ \A b \in L : b # n => n < b
      /\ \A k \in DOMAIN q : \A a \in q[k] : a < n
      /\ Range(q) = {q[k] : k \in 1..Len(q)} /\ Len(q) \in Nat /\ DOMAIN q = 1..Len(q)
  BY NextNode
<1> HIDE DEF n
<1>2. /\ r \in Seq(SUBSET DOMAIN c) /\ Len(r) = Len(q) + 1 /\ DOMAIN r = 1..(Len(q) + 1)
      /\ r[Len(q) + 1] = {n} /\ \A k \in 1..Len(q) : r[k] = q[k]
  BY <1>1 DEF WellPacked
<1>3. /\ SumOf(c)[{n}] = c[n].size /\ Cardinality({n}) = 1 /\ Min({n}) = n
  <2>1. SumOf(c)[{} \cup {n}] = SumOf(c)[{}] + c[n].size
    BY <1>1, TotalFacts
  <2>2. SumOf(c)[{n}] = c[n].size
    BY <1>1, <2>1, TotalFacts DEF Sized
  <2>3. Min({n}) = n
    BY <1>1 DEF Min
  <2> QED BY <2>2, <2>3, FS_Singleton
<1> HIDE DEF r
<1>4. ASSUME Len(q) >= 1
      PROVE  SumOf(c)[r[Len(q)] \cup {n}] > SecretMaxSize
  <2>1. r[Len(q)] = q[Len(q)] /\ q[Len(q)] \in SUBSET DOMAIN c /\ q # << >>
    BY <1>1, <1>2, <1>4 DEF WellPacked
  <2>2. SumOf(c)[q[Len(q)] \cup {n}] = SumOf(c)[q[Len(q)]] + c[n].size
    <3>1. \A x \in q[Len(q)] : x < n
      BY <1>1, <1>4
    <3> QED BY <1>1, <2>1, <3>1, AddTotal
  <2>3. t = SumOf(c)[q[Len(q)]]
    BY <2>1 DEF Counted
  <2> QED BY <2>1, <2>2, <2>3 DEF n
<1>5. WellPacked(c, r)
  <2>1. ASSUME NEW j \in DOMAIN r, NEW k \in DOMAIN r, j < k, NEW a \in r[j], NEW b \in r[k]
        PROVE  a < b
    BY <1>1, <1>2, <2>1 DEF WellPacked
  <2>2. ASSUME NEW k \in DOMAIN r
        PROVE  /\ r[k] # {}
               /\ SumOf(c)[r[k]] <= SecretMaxSize \/ Cardinality(r[k]) = 1
               /\ k > 1 => SumOf(c)[r[k - 1] \cup {Min(r[k])}] > SecretMaxSize
    <3>1. CASE k = Len(q) + 1
      <4>1. r[k] = {n} /\ (k > 1 => Len(q) >= 1 /\ k - 1 = Len(q))
        BY <1>1, <1>2, <3>1
      <4> QED BY <1>3, <1>4, <4>1
    <3>2. CASE k \in 1..Len(q)
      <4>1. r[k] = q[k] /\ (k > 1 => r[k - 1] = q[k - 1])
        BY <1>1, <1>2, <3>2
      <4> QED BY <1>1, <3>2, <4>1 DEF WellPacked
    <3> QED BY <1>1, <1>2, <3>1, <3>2
  <2> QED BY <1>2, <2>1, <2>2 DEF WellPacked
<1>6. InOrder(c, r)
  <2>1. ASSUME NEW b \in DOMAIN c \ UNION Range(r)
        PROVE  b \in L /\ b # n
    BY <1>1, <1>2 DEF Range
  <2> QED BY <1>1, <1>2, <2>1 DEF InOrder
<1>7. Counted(c, r, c[n].size)
  BY <1>1, <1>2, <1>3 DEF Counted
<1> QED BY <1>5, <1>6, <1>7 DEF r, n

\* The next node fits into the last secret.
LEMMA FillSecret ==
  ASSUME NEW c, NEW q, NEW L, NEW t, Sized(c), WellPacked(c, q), InOrder(c, q), Counted(c, q, t),
         SecretMaxSize \in Nat,
         L = DOMAIN c \ UNION Range(q), L # {}, ~(t + c[Min(L)].size > SecretMaxSize)
  PROVE  LET r == [q EXCEPT ![Len(q)] = @ \cup {Min(L)}]
         IN  /\ WellPacked(c, r) /\ InOrder(c, r)
             /\ Counted(c, r, t + c[Min(L)].size)
<1> DEFINE n == Min(L)
           l == Len(q)
           r == [q EXCEPT ![l] = @ \cup {n}]
<1>1. /\ n \in L /\ n \in DOMAIN c /\ n \in Nat
      /\ \A b \in L : b # n => n < b
      /\ \A k \in DOMAIN q : \A a \in q[k] : a < n
      /\ Range(q) = {q[k] : k \in 1..Len(q)} /\ Len(q) \in Nat /\ DOMAIN q = 1..Len(q)
  BY NextNode
<1>2. c[n].size \in Nat \ {0} /\ ~(t + c[n].size > SecretMaxSize)
  BY <1>1 DEF Sized
<1> HIDE DEF n
<1>3. q # << >> /\ l >= 1 /\ t = SumOf(c)[q[l]]
  BY <1>1, <1>2 DEF Counted, WellPacked
<1>4. q[l] \in SUBSET DOMAIN c /\ q[l] # {} /\ q[l] \in SUBSET Nat
  <2>1. l \in 1..Len(q)
    BY <1>1, <1>3
  <2> QED BY <2>1, PackedSeq
<1>5. /\ r \in Seq(SUBSET DOMAIN c) /\ Len(r) = l /\ DOMAIN r = 1..l /\ l \in 1..l
      /\ r[l] = q[l] \cup {n} /\ \A k \in 1..l : k # l => r[k] = q[k]
  <2>1. q[l] \cup {n} \in SUBSET DOMAIN c
    BY <1>1, <1>4
  <2> QED BY <1>3, <2>1, PackedSeq, LastUpdated
<1>6. SumOf(c)[r[l]] = t + c[n].size /\ t \in Nat
  <2>1. \A x \in q[l] : x < n
    BY <1>1, <1>5
  <2>2. SumOf(c)[q[l] \cup {n}] = SumOf(c)[q[l]] + c[n].size /\ SumOf(c)[q[l]] \in Nat
    BY <1>1, <1>4, <2>1, AddTotal
  <2> QED BY <1>3, <1>5, <2>2
<1>7. Min(r[l]) = Min(q[l])
  <2>1. Min(q[l]) \in q[l] /\ \A x \in q[l] : Min(q[l]) <= x
    BY <1>4, MinIn
  <2>2. Min(q[l]) < n /\ Min(q[l]) \in Nat
    BY <1>1, <1>5, <1>4, <2>1
  <2>3. Min(r[l]) \in r[l] /\ \A x \in r[l] : Min(r[l]) <= x
    <3>1. r[l] \in SUBSET Nat /\ r[l] # {}
      BY <1>1, <1>5, <1>4
    <3> QED BY <3>1, MinIn
  <2>4. Min(r[l]) \in q[l]
    <3>1. Min(r[l]) <= Min(q[l])
      BY <1>5, <2>1, <2>3
    <3>2. Min(r[l]) # n
      BY <1>1, <2>2, <3>1
    <3> QED BY <1>5, <2>3, <3>2
  <2>5. Min(r[l]) <= Min(q[l]) /\ Min(q[l]) <= Min(r[l]) /\ Min(r[l]) \in Nat
    BY <1>5, <1>4, <2>1, <2>3, <2>4
  <2> QED BY <2>2, <2>5
<1> HIDE DEF r, l
<1>8. WellPacked(c, r)
  <2>1. ASSUME NEW j \in DOMAIN r, NEW k \in DOMAIN r, j < k, NEW a \in r[j], NEW b \in r[k]
        PROVE  a < b
    <3>0. l \in Nat /\ j \in 1..l /\ k \in 1..l /\ j \in DOMAIN q /\ k \in DOMAIN q
      BY <1>1, <1>5 DEF l
    <3>1. j # l /\ r[j] = q[j] /\ j \in DOMAIN q /\ k \in DOMAIN q
      BY <1>5, <2>1, <3>0
    <3>2. CASE b \in q[k]
      BY <2>1, <3>1, <3>2 DEF WellPacked
    <3>3. CASE b = n
      BY <1>1, <3>1, <3>3
    <3> QED BY <1>5, <3>2, <3>3
  <2>2. ASSUME NEW k \in DOMAIN r
        PROVE  /\ r[k] # {}
               /\ SumOf(c)[r[k]] <= SecretMaxSize \/ Cardinality(r[k]) = 1
               /\ k > 1 => SumOf(c)[r[k - 1] \cup {Min(r[k])}] > SecretMaxSize
    <3>0. k \in DOMAIN q /\ k \in 1..l /\ l \in Nat
      BY <1>1, <1>5 DEF l
    <3>1. k > 1 => r[k - 1] = q[k - 1]
      BY <1>5, <3>0
    <3>2. Min(r[k]) = Min(q[k])
      BY <1>5, <1>7, <3>0
    <3>3. SumOf(c)[r[l]] <= SecretMaxSize
      BY <1>2, <1>6
    <3>4. r[k] # {} /\ (SumOf(c)[r[k]] <= SecretMaxSize \/ Cardinality(r[k]) = 1)
      BY <1>5, <3>0, <3>3 DEF WellPacked
    <3> QED BY <3>0, <3>1, <3>2, <3>4 DEF WellPacked
  <2> QED BY <1>5, <2>1, <2>2 DEF WellPacked
<1>9. InOrder(c, r)
  <2>1. ASSUME NEW b \in DOMAIN c \ UNION Range(r)
        PROVE  b \in L /\ b # n
    <3>1. \A k \in DOMAIN q : q[k] \subseteq r[k] /\ k \in DOMAIN r
      BY <1>1, <1>5 DEF l
    <3>2. n \in r[l] /\ l \in DOMAIN r
      BY <1>5
    <3> QED BY <1>1, <3>1, <3>2 DEF Range
  <2>2. ASSUME NEW k \in DOMAIN r, NEW a \in r[k] PROVE a = n \/ a < n
    BY <1>1, <1>5 DEF l
  <2>3. ASSUME NEW k \in DOMAIN r, NEW a \in r[k], NEW b \in DOMAIN c \ UNION Range(r)
        PROVE  a < b
    <3>1. a \in Nat /\ b \in Nat /\ n < b
      BY <1>1, <1>5, <2>1 DEF Sized
    <3> QED BY <1>1, <2>2, <3>1
  <2> QED BY <2>3 DEF InOrder
<1>10. Counted(c, r, t + c[n].size)
  BY <1>3, <1>5, <1>6 DEF Counted, l
<1> QED BY <1>8, <1>9, <1>10 DEF r, n, l

\* There are no more secrets than nodes.
LEMMA FewSecrets ==
  ASSUME NEW c, NEW q, Sized(c), WellPacked(c, q), DOMAIN c \subseteq Nodes
  PROVE  Len(q) <= Cardinality(Nodes)
<1> DEFINE f == [k \in 1..Len(q) |-> Min(q[k])]
<1>1. /\ Len(q) \in Nat /\ DOMAIN q = 1..Len(q)
      /\ \A k \in 1..Len(q) : q[k] \in SUBSET Nat /\ q[k] # {} /\ q[k] \subseteq DOMAIN c
  BY PackedSeq
<1>2. \A k \in 1..Len(q) : Min(q[k]) \in q[k]
  BY <1>1, MinIn
<1>3. ASSUME NEW j \in 1..Len(q), NEW k \in 1..Len(q), j < k PROVE Min(q[j]) # Min(q[k])
  <2>1. Min(q[j]) < Min(q[k]) /\ Min(q[j]) \in Nat
    BY <1>1, <1>2, <1>3 DEF WellPacked
  <2> QED BY <2>1
<1>4. f \in Injection(1..Len(q), Nodes)
  <2>1. f \in [1..Len(q) -> Nodes]
    BY <1>1, <1>2
  <2>2. \A j, k \in 1..Len(q) : f[j] = f[k] => j = k
    <3> TAKE j \in 1..Len(q), k \in 1..Len(q)
    <3>1. j < k \/ k < j \/ j = k
      BY <1>1
    <3> QED BY <1>3, <3>1
  <2> HIDE DEF f
  <2> QED BY <2>1, <2>2 DEF Injection, IsInjective
<1>5. Cardinality(1..Len(q)) <= Cardinality(Nodes)
  <2> HIDE DEF f
  <2> QED BY <1>4, FS_Injection, NodesAssumption
<1>6. Cardinality(1..Len(q)) = Len(q)
  BY <1>1, FS_Interval
<1> QED BY <1>5, <1>6

-----------------------------------------------------------------------------
(* The inductive invariant for types and the packing *)

StoreOK ==
  /\ nodes \subseteq Nodes /\ requested \subseteq Nodes
  /\ history \in Seq(Snapshot) /\ Len(history) \in 1..(MaxLag + 1)
  /\ pending \in BOOLEAN /\ mounts \in 0..Cardinality(Nodes)
  /\ edits \in 0..MaxEdits /\ renewals \in 0..MaxRenewals /\ faults \in 0..MaxFaults

\* A certificate has been renewed no more often than all of them together.
Renewed(h, r) == \A n \in Nodes : h.issued[n].version <= r + 1

Versions == \A k \in DOMAIN history : Renewed(history[k], renewals)

CertsOK ==
  /\ DOMAIN certsData \subseteq Nodes /\ \A n \in DOMAIN certsData : certsData[n] \in Cert

WorkerOK ==
  /\ pc \in {"idle", "certs", "write", "mount"}
  /\ todo \subseteq Nodes /\ CertsOK /\ totalSize \in Nat
  /\ i \in 1..(Len(ci) + 1) /\ fresh \in BOOLEAN

PackInv ==
  /\ WellPacked(certsData, ci) /\ InOrder(certsData, ci) /\ Counted(certsData, ci, totalSize)
  /\ pc = "idle" \/ todo # {} => ci = << >>
  /\ pc \in {"write", "mount"} => Unpacked = {}

TypeInv == StoreOK /\ Versions /\ WorkerOK /\ PackInv

LEMMA CardNodes == Cardinality(Nodes) \in Nat
BY NodesAssumption, FS_CardinalityType

LEMMA CertsSized ==
  ASSUME CertsOK
  PROVE  Sized(certsData)
<1>1. IsFiniteSet(DOMAIN certsData) /\ DOMAIN certsData \subseteq Nat
  BY NodesAssumption, FS_Subset DEF CertsOK
<1>2. \A n \in DOMAIN certsData : certsData[n].size \in Nat \ {0}
  BY SizesAssumption DEF CertsOK, Cert
<1> QED BY <1>1, <1>2 DEF Sized

LEMMA HistoryFacts ==
  ASSUME StoreOK
  PROVE  /\ Cached \in Snapshot /\ Stored \in Snapshot
         /\ Cached = history[1] /\ Stored = history[Len(history)]
         /\ DOMAIN history = 1..Len(history) /\ 1 \in DOMAIN history
         /\ Len(history) \in DOMAIN history
<1>1. history \in Seq(Snapshot) /\ Len(history) \in Nat /\ Len(history) >= 1
  BY BoundsAssumption DEF StoreOK
<1>2. /\ DOMAIN history = 1..Len(history) /\ 1 \in DOMAIN history
      /\ Len(history) \in DOMAIN history
      /\ history[1] \in Snapshot /\ history[Len(history)] \in Snapshot
  BY <1>1
<1>3. Cached = history[1] /\ Stored = history[Len(history)]
  BY <1>1 DEF Cached, Stored, Last
<1> QED BY <1>2, <1>3

LEMMA Appended ==
  ASSUME NEW S, NEW q \in Seq(S), NEW v \in S
  PROVE  /\ Append(q, v) \in Seq(S) /\ Len(Append(q, v)) = Len(q) + 1
         /\ DOMAIN Append(q, v) = 1..(Len(q) + 1)
         /\ \A k \in 1..(Len(q) + 1) :
              Append(q, v)[k] = IF k = Len(q) + 1 THEN v ELSE q[k]
OBVIOUS

LEMMA Dropped ==
  ASSUME NEW S, NEW q \in Seq(S), Len(q) > 1
  PROVE  /\ Tail(q) \in Seq(S) /\ Len(Tail(q)) = Len(q) - 1
         /\ DOMAIN Tail(q) = 1..(Len(q) - 1)
         /\ \A k \in 1..(Len(q) - 1) : Tail(q)[k] = q[k + 1] /\ k + 1 \in 1..Len(q)
OBVIOUS

\* The ways in which the history moves.
HistoryMove ==
  \/ UNCHANGED history
  \/ \E h \in Snapshot : Store(h) /\ Renewed(h, renewals')
  \/ Len(history) > 1 /\ history' = Tail(history)
  \/ history' = <<Stored>>

LEMMA HistoryMoves ==
  ASSUME StoreOK, Versions, renewals' \in {renewals, renewals + 1}, HistoryMove
  PROVE  /\ history' \in Seq(Snapshot) /\ Len(history') \in 1..(MaxLag + 1)
         /\ Versions'
<1>0. /\ history \in Seq(Snapshot) /\ Len(history) \in 1..(MaxLag + 1) /\ MaxLag \in Nat
      /\ Stored \in Snapshot /\ Stored = history[Len(history)]
      /\ DOMAIN history = 1..Len(history) /\ Len(history) \in DOMAIN history
      /\ renewals \in Nat
  BY HistoryFacts, BoundsAssumption DEF StoreOK
<1>1. ASSUME NEW k \in 1..Len(history) PROVE Renewed(history[k], renewals')
  <2>1. history[k] \in Snapshot /\ Renewed(history[k], renewals)
    BY <1>0 DEF Versions
  <2>2. \A m \in Nodes : history[k].issued[m].version \in Nat
    BY <2>1, BoundsAssumption DEF Snapshot, Cert, NoCert
  <2> QED BY <1>0, <2>1, <2>2 DEF Renewed
<1>2. CASE UNCHANGED history
  BY <1>0, <1>1, <1>2 DEF Versions
<1>3. CASE \E h \in Snapshot : Store(h) /\ Renewed(h, renewals')
  <2>1. PICK h \in Snapshot : Store(h) /\ Renewed(h, renewals')
    BY <1>3
  <2>2. history' = Append(history, h) /\ Len(history) <= MaxLag
    BY <2>1 DEF Store
  <2>3. /\ history' \in Seq(Snapshot) /\ Len(history') = Len(history) + 1
        /\ DOMAIN history' = 1..(Len(history) + 1)
        /\ \A k \in 1..(Len(history) + 1) :
             history'[k] = IF k = Len(history) + 1 THEN h ELSE history[k]
    BY <1>0, <2>2, Appended
  <2>4. ASSUME NEW k \in 1..(Len(history) + 1) PROVE Renewed(history'[k], renewals')
    <3>1. CASE k = Len(history) + 1
      BY <2>1, <2>3, <3>1
    <3>2. CASE k \in 1..Len(history)
      <4>1. history'[k] = history[k]
        BY <1>0, <2>3, <3>2
      <4> QED BY <1>1, <3>2, <4>1
    <3>3. k \in 1..Len(history) \/ k = Len(history) + 1
      BY <1>0
    <3> QED BY <3>1, <3>2, <3>3
  <2>5. Len(history') \in 1..(MaxLag + 1)
    BY <1>0, <2>2, <2>3
  <2>6. Versions'
    BY <2>3, <2>4 DEF Versions
  <2> QED BY <2>3, <2>5, <2>6
<1>4. CASE Len(history) > 1 /\ history' = Tail(history)
  <2>1. /\ history' \in Seq(Snapshot) /\ Len(history') = Len(history) - 1
        /\ DOMAIN history' = 1..(Len(history) - 1)
        /\ \A k \in 1..(Len(history) - 1) :
             history'[k] = history[k + 1] /\ k + 1 \in 1..Len(history)
    BY <1>0, <1>4, Dropped
  <2>2. Len(history') \in 1..(MaxLag + 1)
    BY <1>0, <1>4, <2>1
  <2>3. Versions'
    BY <1>1, <2>1 DEF Versions
  <2> QED BY <2>1, <2>2, <2>3
<1>5. CASE history' = <<Stored>>
  <2>1. /\ history' \in Seq(Snapshot) /\ Len(history') = 1 /\ DOMAIN history' = {1}
        /\ history'[1] = Stored
    BY <1>0, <1>5
  <2>2. Renewed(Stored, renewals')
    BY <1>0, <1>1
  <2>3. Versions'
    BY <2>1, <2>2 DEF Versions
  <2> QED BY <1>0, <2>1, <2>3
<1> QED BY <1>2, <1>3, <1>4, <1>5 DEF HistoryMove

-----------------------------------------------------------------------------
(* Steps *)

LEMMA TypeInvInit == Init => TypeInv
<1> SUFFICES ASSUME Init PROVE TypeInv
  OBVIOUS
<1>1. /\ history \in Seq(Snapshot) /\ Len(history) = 1 /\ DOMAIN history = {1}
      /\ history[1].issued = [n \in Nodes |-> NoCert]
  <2>1. NoSecret \in Secret
    BY CardNodes DEF NoSecret, Secret
  <2>2. [issued |-> [n \in Nodes |-> NoCert], secrets |-> [k \in Indices |-> NoSecret]] \in Snapshot
    BY <2>1 DEF Snapshot
  <2> QED BY <2>2 DEF Init
<1>2. StoreOK
  BY <1>1, CardNodes, BoundsAssumption DEF Init, StoreOK
<1>3. Versions
  BY <1>1 DEF Init, Versions, Renewed, NoCert
<1>4. WorkerOK
  <2>1. CertsOK
    BY DEF Init, CertsOK
  <2>2. i \in 1..(Len(ci) + 1)
    BY DEF Init
  <2> QED BY <2>1, <2>2, SizesAssumption DEF Init, WorkerOK
<1>5. PackInv
  BY NothingPacked DEF Init, PackInv
<1> QED BY <1>2, <1>3, <1>4, <1>5 DEF TypeInv

LEMMA IdleWorker == ASSUME Idle PROVE WorkerOK' /\ PackInv'
<1>1. WorkerOK'
  <2>1. CertsOK'
    BY DEF Idle, CertsOK
  <2>2. i' \in 1..(Len(ci') + 1)
    BY DEF Idle
  <2> QED BY <2>1, <2>2, SizesAssumption DEF Idle, WorkerOK
<1>2. PackInv'
  BY NothingPacked DEF Idle, PackInv
<1> QED BY <1>1, <1>2

LEMMA SameWorker == ASSUME WorkerOK, PackInv, UNCHANGED worker PROVE WorkerOK' /\ PackInv'
BY DEF worker, WorkerOK, PackInv, CertsOK, Unpacked

\* The secret that is written is one.
LEMMA WantedType ==
  ASSUME TypeInv, Writing
  PROVE  /\ i \in Indices /\ i \in DOMAIN ci /\ Wanted \in Secret /\ Exists(Wanted)
<1>1. /\ Len(ci) \in Nat /\ DOMAIN ci = 1..Len(ci) /\ Len(ci) <= Cardinality(Nodes)
      /\ \A k \in 1..Len(ci) : ci[k] \in SUBSET DOMAIN certsData
  BY CertsSized, PackedSeq, FewSecrets DEF TypeInv, WorkerOK, CertsOK, PackInv
<1>2. i \in 1..Len(ci)
  BY <1>1 DEF Writing, TypeInv, WorkerOK
<1>3. Len(ci) \in 0..Cardinality(Nodes) /\ i \in Indices /\ Len(ci) > 0
  BY <1>1, <1>2, CardNodes DEF Indices
<1>4. [n \in Nodes |-> IF n \in ci[i] THEN certsData[n] ELSE NoCert]
        \in [Nodes -> Cert \cup {NoCert}]
  BY <1>1, <1>2 DEF TypeInv, WorkerOK, CertsOK
<1> QED BY <1>1, <1>2, <1>3, <1>4 DEF Wanted, Secret, Exists

LEMMA WriteMove ==
  ASSUME TypeInv, WriteSecret
  PROVE  HistoryMove
<1>1. Writing /\ UNCHANGED renewals
  BY DEF WriteSecret, bounds
<1>2. i \in Indices /\ Wanted \in Secret
  BY <1>1, WantedType
<1>3. Cached \in Snapshot /\ Stored \in Snapshot /\ Len(history) \in DOMAIN history
      /\ Stored = history[Len(history)]
  BY HistoryFacts DEF TypeInv
<1> DEFINE new == Written(Cached.secrets[i], Stored.secrets[i])
<1>4. new \in Secret
  <2>1. Cached.secrets[i] \in Secret /\ Stored.secrets[i] \in Secret
    BY <1>2, <1>3 DEF Snapshot
  <2> QED BY <1>2, <2>1 DEF Written, Merge, Secret
<1> HIDE DEF new
<1> DEFINE h == [Stored EXCEPT !.secrets[i] = new]
<1>5. h \in Snapshot /\ h.issued = Stored.issued
  BY <1>2, <1>3, <1>4 DEF Snapshot
<1>6. Store(h)
  BY DEF WriteSecret, new
<1> HIDE DEF h
<1>7. Renewed(h, renewals')
  BY <1>1, <1>3, <1>5 DEF TypeInv, Versions, Renewed
<1> QED BY <1>5, <1>6, <1>7 DEF HistoryMove

\* A certificate is issued or renewed.
LEMMA CertMove ==
  ASSUME TypeInv, NEW n \in Nodes, Issue(n) \/ Renew(n)
  PROVE  HistoryMove
<1>0. /\ Stored \in Snapshot /\ Stored = history[Len(history)]
      /\ Renewed(Stored, renewals) /\ renewals \in Nat /\ MaxRenewals \in Nat
  BY HistoryFacts, BoundsAssumption DEF TypeInv, StoreOK, Versions
<1>1. PICK c \in Cert :
        /\ Store([Stored EXCEPT !.issued[n] = c])
        /\ c.version <= renewals' + 1 /\ renewals' \in {renewals, renewals + 1}
  <2>1. CASE Issue(n)
    <3>1. PICK z \in Sizes : Store([Stored EXCEPT !.issued[n] = [version |-> 1, size |-> z]])
      BY <2>1 DEF Issue
    <3> DEFINE c == [version |-> 1, size |-> z]
    <3>2. c \in Cert /\ c.version = 1
      BY <1>0 DEF Cert
    <3>3. UNCHANGED renewals
      BY <2>1 DEF Issue, bounds
    <3>4. Store([Stored EXCEPT !.issued[n] = c])
      BY <3>1
    <3> HIDE DEF c
    <3>5. c.version <= renewals' + 1 /\ renewals' \in {renewals, renewals + 1}
      BY <1>0, <3>2, <3>3
    <3> QED BY <3>2, <3>4, <3>5
  <2>2. CASE Renew(n)
    <3>1. PICK z \in Sizes :
            Store([Stored EXCEPT !.issued[n] = [version |-> @.version + 1, size |-> z]])
      BY <2>2 DEF Renew
    <3> DEFINE c == [version |-> Stored.issued[n].version + 1, size |-> z]
    <3>2. Stored.issued[n] \in Cert /\ Stored.issued[n].version <= renewals + 1
      BY <1>0, <2>2 DEF Renew, Snapshot, Renewed
    <3>3. renewals < MaxRenewals /\ renewals' = renewals + 1
      BY <2>2 DEF Renew
    <3>4. /\ Stored.issued[n].version \in Nat /\ Stored.issued[n].version >= 1
      BY <1>0, <3>2 DEF Cert
    <3>5. c \in Cert /\ c.version <= renewals' + 1
      BY <1>0, <3>2, <3>3, <3>4 DEF Cert
    <3>6. Store([Stored EXCEPT !.issued[n] = c])
      BY <3>1
    <3> QED BY <3>3, <3>5, <3>6
  <2> QED BY <2>1, <2>2
<1> DEFINE h == [Stored EXCEPT !.issued[n] = c]
<1>2. h \in Snapshot /\ \A m \in Nodes : h.issued[m] = IF m = n THEN c ELSE Stored.issued[m]
  BY <1>0, <1>1 DEF Snapshot
<1>3. \A m \in Nodes : Stored.issued[m].version \in Nat
  BY <1>0 DEF Snapshot, Cert, NoCert
<1> HIDE DEF h
<1>4. Renewed(h, renewals')
  BY <1>0, <1>1, <1>2, <1>3 DEF Renewed
<1> QED BY <1>1, <1>2, <1>4 DEF HistoryMove, h

\* The steps of the worker that keep its certificates.
LEMMA ReadStep ==
  ASSUME TypeInv, NEW n \in Nodes, ReadCert(n)
  PROVE  WorkerOK' /\ PackInv'
<1>1. /\ n \in todo /\ Cached.issued[n] # NoCert /\ todo' = todo \ {n}
      /\ certsData' = [m \in DOMAIN certsData \cup {n} |->
                         IF m = n THEN Cached.issued[n] ELSE certsData[m]]
      /\ pc = "certs" /\ UNCHANGED <<pc, ci, totalSize, i, fresh>>
  BY DEF ReadCert
<1>2. Cached.issued[n] \in Cert
  BY <1>1, HistoryFacts DEF TypeInv, Snapshot
<1>3. CertsOK'
  BY <1>1, <1>2 DEF CertsOK, TypeInv, WorkerOK
<1>4. WorkerOK'
  BY <1>1, <1>3 DEF TypeInv, WorkerOK
<1>5. ci = << >> /\ ci' = << >> /\ totalSize' = SecretMaxSize
  BY <1>1 DEF TypeInv, PackInv, Counted
<1>6. PackInv'
  BY <1>1, <1>5, NothingPacked DEF PackInv
<1> QED BY <1>4, <1>6

LEMMA PackStep ==
  ASSUME TypeInv, CreateSecretsDataStructure
  PROVE  WorkerOK' /\ PackInv'
<1> DEFINE sz == certsData[Min(Unpacked)].size
<1>1. /\ pc = "certs" /\ todo = {} /\ Unpacked # {}
      /\ UNCHANGED <<pc, todo, certsData, i, fresh>>
      /\ IF totalSize + sz > SecretMaxSize
         THEN ci' = Append(ci, {Min(Unpacked)}) /\ totalSize' = sz
         ELSE /\ ci' = [ci EXCEPT ![Len(ci)] = @ \cup {Min(Unpacked)}]
              /\ totalSize' = totalSize + sz
  BY DEF CreateSecretsDataStructure
<1>2. /\ Sized(certsData) /\ WellPacked(certsData, ci) /\ InOrder(certsData, ci)
      /\ Counted(certsData, ci, totalSize) /\ totalSize \in Nat /\ SecretMaxSize \in Nat
      /\ Unpacked = DOMAIN certsData \ UNION Range(ci)
      /\ CertsOK /\ i \in 1..(Len(ci) + 1) /\ fresh \in BOOLEAN
  BY CertsSized, SizesAssumption DEF TypeInv, WorkerOK, PackInv, Unpacked
<1>3. sz \in Nat /\ Min(Unpacked) \in DOMAIN certsData
  <2>1. Unpacked \in SUBSET Nat
    BY <1>2 DEF Sized
  <2>2. Min(Unpacked) \in DOMAIN certsData
    BY <1>1, <1>2, <2>1, MinIn
  <2> QED BY <1>2, <2>2 DEF Sized
<1>4. Len(ci) \in Nat /\ ci \in Seq(SUBSET DOMAIN certsData)
  BY <1>2, PackedSeq
<1>5. /\ WellPacked(certsData, ci') /\ InOrder(certsData, ci')
      /\ Counted(certsData, ci', totalSize') /\ totalSize' \in Nat /\ Len(ci') >= Len(ci)
  <2>1. CASE totalSize + sz > SecretMaxSize
    <3>1. /\ WellPacked(certsData, Append(ci, {Min(Unpacked)}))
          /\ InOrder(certsData, Append(ci, {Min(Unpacked)}))
          /\ Counted(certsData, Append(ci, {Min(Unpacked)}), sz)
      BY <1>1, <1>2, <2>1, BeginSecret
    <3>2. Len(Append(ci, {Min(Unpacked)})) = Len(ci) + 1
      BY <1>4
    <3>3. ci' = Append(ci, {Min(Unpacked)}) /\ totalSize' = sz
      BY <1>1, <2>1
    <3> HIDE DEF sz
    <3>4. Len(ci') >= Len(ci) /\ totalSize' \in Nat
      BY <1>3, <1>4, <3>2, <3>3
    <3> QED BY <3>1, <3>3, <3>4
  <2>2. CASE ~(totalSize + sz > SecretMaxSize)
    <3>1. LET r == [ci EXCEPT ![Len(ci)] = @ \cup {Min(Unpacked)}]
          IN  /\ WellPacked(certsData, r) /\ InOrder(certsData, r)
              /\ Counted(certsData, r, totalSize + sz)
      BY <1>1, <1>2, <2>2, FillSecret
    <3>2. Len([ci EXCEPT ![Len(ci)] = @ \cup {Min(Unpacked)}]) = Len(ci)
      BY <1>4
    <3>3. ci' = [ci EXCEPT ![Len(ci)] = @ \cup {Min(Unpacked)}] /\ totalSize' = totalSize + sz
      BY <1>1, <2>2
    <3> HIDE DEF sz
    <3>4. Len(ci') >= Len(ci) /\ totalSize' \in Nat
      BY <1>2, <1>3, <1>4, <3>2, <3>3
    <3> QED BY <3>1, <3>3, <3>4
  <2> QED BY <2>1, <2>2
<1>6. Len(ci') \in Nat
  BY <1>2, <1>5, PackedSeq
<1>7. WorkerOK'
  <2>1. i' \in 1..(Len(ci') + 1)
    BY <1>1, <1>2, <1>4, <1>5, <1>6
  <2>2. CertsOK'
    BY <1>1, <1>2 DEF CertsOK
  <2> QED BY <1>1, <1>2, <1>5, <2>1, <2>2 DEF WorkerOK
<1>8. PackInv'
  BY <1>1, <1>5 DEF PackInv
<1> QED BY <1>7, <1>8

\* The other steps of the worker.
LEMMA WorkerSteps ==
  ASSUME TypeInv, Begin \/ Packed \/ SecretUnchanged \/ Ensured
  PROVE  WorkerOK' /\ PackInv'
<1>0. WorkerOK /\ PackInv /\ nodes \subseteq Nodes
  BY DEF TypeInv, StoreOK
<1>1. CASE Begin
  <2>1. /\ pc = "idle" /\ pc' = "certs" /\ todo' = nodes /\ fresh' \in BOOLEAN
        /\ UNCHANGED <<certsData, ci, totalSize, i>>
    BY <1>1 DEF Begin
  <2> QED BY <1>0, <2>1 DEF WorkerOK, PackInv, CertsOK
<1>2. CASE Packed
  <2>1. /\ pc = "certs" /\ pc' = "write" /\ Unpacked = {} /\ todo = {}
        /\ UNCHANGED <<certsData, todo, ci, totalSize, i, fresh>>
    BY <1>2 DEF Packed
  <2> QED BY <1>0, <2>1 DEF WorkerOK, PackInv, CertsOK, Unpacked
<1>3. CASE SecretUnchanged
  <2>1. /\ i <= Len(ci) /\ i' = i + 1 /\ UNCHANGED <<pc, todo, certsData, ci, totalSize, fresh>>
    BY <1>3 DEF SecretUnchanged, Writing
  <2>2. Len(ci) \in Nat
    BY <1>0, CertsSized, PackedSeq DEF WorkerOK, PackInv
  <2>3. i' \in 1..(Len(ci') + 1)
    BY <1>0, <2>1, <2>2 DEF WorkerOK
  <2>4. CertsOK'
    BY <1>0, <2>1 DEF WorkerOK, CertsOK
  <2> QED BY <1>0, <2>1, <2>3, <2>4 DEF WorkerOK, PackInv, Unpacked
<1>4. CASE Ensured
  <2>1. pc = "write" /\ pc' = "mount" /\ UNCHANGED <<certsData, todo, ci, totalSize, i, fresh>>
    BY <1>4 DEF Ensured
  <2> QED BY <1>0, <2>1 DEF WorkerOK, PackInv, CertsOK, Unpacked
<1> QED BY <1>1, <1>2, <1>3, <1>4

LEMMA TypeInvNext == TypeInv /\ [Next]_vars => TypeInv'
<1> SUFFICES ASSUME TypeInv, [Next]_vars PROVE TypeInv'
  OBVIOUS
<1>0. StoreOK /\ Versions /\ WorkerOK /\ PackInv
  BY DEF TypeInv
\* What is to be shown of a step.
<1> DEFINE Kept == /\ HistoryMove /\ renewals' \in {renewals, renewals + 1}
                   /\ nodes' \subseteq Nodes /\ requested' \subseteq Nodes
                   /\ pending' \in BOOLEAN /\ mounts' \in 0..Cardinality(Nodes)
                   /\ edits' \in 0..MaxEdits /\ renewals' \in 0..MaxRenewals
                   /\ faults' \in 0..MaxFaults
                   /\ WorkerOK' /\ PackInv'
<1>1. ASSUME Kept PROVE TypeInv'
  <2>1. /\ history' \in Seq(Snapshot) /\ Len(history') \in 1..(MaxLag + 1)
        /\ Versions'
    BY <1>0, <1>1, HistoryMoves
  <2>2. StoreOK'
    BY <1>1, <2>1 DEF StoreOK
  <2> QED BY <1>1, <2>1, <2>2 DEF TypeInv
<1>2. CASE UNCHANGED vars
  <2>1. UNCHANGED <<nodes, requested, history, pending, mounts, worker, bounds>>
    BY <1>2 DEF vars
  <2> QED BY <1>0, <1>1, <2>1, SameWorker DEF bounds, HistoryMove, StoreOK
<1>3. CASE Begin \/ Packed \/ SecretUnchanged \/ Ensured
  <2>1. UNCHANGED <<nodes, requested, history, pending, mounts, bounds>>
    BY <1>3 DEF Begin, Packed, SecretUnchanged, Ensured
  <2> QED BY <1>0, <1>1, <1>3, <2>1, WorkerSteps DEF bounds, HistoryMove, StoreOK
<1>4. CASE CreateSecretsDataStructure
  <2>1. UNCHANGED <<nodes, requested, history, pending, mounts, bounds>>
    BY <1>4 DEF CreateSecretsDataStructure
  <2> QED BY <1>0, <1>1, <1>4, <2>1, PackStep DEF bounds, HistoryMove, StoreOK
<1>5. CASE WriteSecret
  <2>1. Idle /\ UNCHANGED <<nodes, requested, pending, mounts, bounds>>
    BY <1>5 DEF WriteSecret
  <2> QED BY <1>0, <1>1, <1>5, <2>1, WriteMove, IdleWorker DEF bounds, StoreOK
<1>6. CASE AlreadyExists \/ AddCertMountsError
  <2>1. Idle /\ UNCHANGED <<nodes, requested, history, pending, mounts, bounds>>
    BY <1>6 DEF AlreadyExists, AddCertMountsError
  <2> QED BY <1>0, <1>1, <2>1, IdleWorker DEF bounds, HistoryMove, StoreOK
<1>7. CASE AddCertMounts
  <2>1. /\ Idle /\ UNCHANGED <<nodes, requested, history, bounds>> /\ pending' = FALSE
        /\ 1 \in Indices /\ mounts' = Cached.secrets[1].number
    BY <1>7 DEF AddCertMounts, Mountable
  <2>2. mounts' \in 0..Cardinality(Nodes)
    BY <1>0, <2>1, HistoryFacts DEF Snapshot, Secret
  <2> QED BY <1>0, <1>1, <2>1, <2>2, IdleWorker DEF bounds, HistoryMove, StoreOK
<1>8. ASSUME NEW n \in Nodes, ReadCert(n) PROVE TypeInv'
  <2>1. /\ UNCHANGED <<nodes, history, pending, mounts, bounds>>
        /\ requested' = requested \cup {n}
    BY <1>8 DEF ReadCert
  <2> QED BY <1>0, <1>1, <1>8, <2>1, ReadStep DEF bounds, HistoryMove, StoreOK
<1>9. ASSUME NEW n \in Nodes, AwaitCert(n) PROVE TypeInv'
  <2>1. /\ Idle /\ UNCHANGED <<nodes, history, pending, mounts, bounds>>
        /\ requested' = requested \cup {n}
    BY <1>9 DEF AwaitCert
  <2> QED BY <1>0, <1>1, <2>1, IdleWorker DEF bounds, HistoryMove, StoreOK
<1>10. CASE CallError \/ Crash
  <2>1. /\ Idle /\ UNCHANGED <<nodes, requested, pending, mounts, edits, renewals>>
        /\ HistoryMove /\ faults < MaxFaults /\ faults' = faults + 1
    BY <1>10 DEF CallError, Crash, Fault, HistoryMove
  <2>2. faults' \in 0..MaxFaults
    BY <1>0, <2>1, BoundsAssumption DEF StoreOK
  <2> QED BY <1>0, <1>1, <2>1, <2>2, IdleWorker DEF StoreOK
<1>11. CASE Sync
  <2>1. /\ HistoryMove /\ UNCHANGED <<nodes, requested, pending, mounts, worker, bounds>>
    BY <1>11 DEF Sync, HistoryMove
  <2> QED BY <1>0, <1>1, <2>1, SameWorker DEF bounds, StoreOK
<1>12. CASE Edit
  <2>1. /\ UNCHANGED <<requested, history, pending, mounts, worker, renewals, faults>>
        /\ nodes' \subseteq Nodes /\ edits < MaxEdits /\ edits' = edits + 1
    BY <1>12 DEF Edit
  <2>2. edits' \in 0..MaxEdits
    BY <1>0, <2>1, BoundsAssumption DEF StoreOK
  <2> QED BY <1>0, <1>1, <2>1, <2>2, SameWorker DEF HistoryMove, StoreOK
<1>13. CASE NewDeployment
  <2>1. /\ UNCHANGED <<nodes, requested, history, worker, bounds>>
        /\ pending' = TRUE /\ mounts' = 0
    BY <1>13 DEF NewDeployment
  <2>2. mounts' \in 0..Cardinality(Nodes)
    BY <2>1, CardNodes
  <2> QED BY <1>0, <1>1, <2>1, <2>2, SameWorker DEF bounds, HistoryMove, StoreOK
<1>14. ASSUME NEW n \in Nodes, Issue(n) \/ Renew(n) PROVE TypeInv'
  <2>1. /\ UNCHANGED <<nodes, requested, pending, mounts, worker, edits, faults>>
        /\ renewals' = renewals \/ (renewals < MaxRenewals /\ renewals' = renewals + 1)
    BY <1>14 DEF Issue, Renew, bounds
  <2>2. renewals' \in 0..MaxRenewals
    BY <1>0, <2>1, BoundsAssumption DEF StoreOK
  <2>3. HistoryMove
    BY <1>14, CertMove
  <2> QED BY <1>0, <1>1, <2>1, <2>2, <2>3, SameWorker DEF StoreOK
<1> HIDE DEF Kept
<1> QED
  BY <1>2, <1>3, <1>4, <1>5, <1>6, <1>7, <1>8, <1>9, <1>10, <1>11, <1>12, <1>13, <1>14
  DEF Next, Reconcile

-----------------------------------------------------------------------------
(* Types and packing *)

LEMMA TypeInvType == TypeInv => TypeOK
<1> SUFFICES ASSUME TypeInv PROVE TypeOK
  OBVIOUS
<1>1. StoreOK /\ WorkerOK /\ CertsOK /\ WellPacked(certsData, ci)
  BY DEF TypeInv, WorkerOK, PackInv
<1>2. ci \in Seq(SUBSET Nodes)
  <2>1. ci \in Seq(SUBSET DOMAIN certsData) /\ DOMAIN certsData \subseteq Nodes
    BY <1>1, CertsSized, PackedSeq DEF CertsOK
  <2> QED BY <2>1
<1> QED BY <1>1, <1>2 DEF StoreOK, WorkerOK, CertsOK, TypeOK

LEMMA TypeInvPacking == TypeInv => PackingSound
<1> SUFFICES ASSUME TypeInv, pc \in {"write", "mount"}
             PROVE  /\ UNION Range(ci) = DOMAIN certsData
                    /\ \A j, k \in DOMAIN ci : j < k => \A a \in ci[j], b \in ci[k] : a < b
                    /\ \A k \in DOMAIN ci :
                         /\ ci[k] # {}
                         /\ TotalSize(ci[k]) <= SecretMaxSize \/ Cardinality(ci[k]) = 1
                         /\ k > 1 => TotalSize(ci[k - 1] \cup {Min(ci[k])}) > SecretMaxSize
  BY DEF PackingSound
<1>1. Sized(certsData) /\ WellPacked(certsData, ci) /\ Unpacked = {}
  BY CertsSized DEF TypeInv, WorkerOK, PackInv
<1>2. \A s : TotalSize(s) = SumOf(certsData)[s]
  BY TotalIsSum
<1>3. /\ DOMAIN ci = 1..Len(ci)
      /\ \A k \in 1..Len(ci) : ci[k] \in SUBSET DOMAIN certsData
  BY <1>1, PackedSeq
<1>4. UNION Range(ci) = DOMAIN certsData
  BY <1>1, <1>3 DEF Unpacked, Range
<1> QED BY <1>1, <1>2, <1>4 DEF WellPacked

\* Every variable keeps its type; in particular a certificate's version stays
\* within the renewals, and the packing of EnsureTLSCerts never asks for more
\* secrets than the NodeSet has nodes.
THEOREM TypeCorrect == Spec => []TypeOK
<1>1. Init => TypeInv
  BY TypeInvInit
<1>2. TypeInv /\ [Next]_vars => TypeInv'
  BY TypeInvNext
<1>3. TypeInv => TypeOK
  BY TypeInvType
<1> QED BY <1>1, <1>2, <1>3, PTL DEF Spec

\* For any nodes, sizes and limit, the packing of createSecretsDataStructure
\* puts each node into one secret, in the order of the names, leaves no secret
\* larger than spec.secretMaxSize but one of a single node, and begins none
\* that was not needed.
THEOREM PackingIsSound == Spec => []PackingSound
<1>1. Init => TypeInv
  BY TypeInvInit
<1>2. TypeInv /\ [Next]_vars => TypeInv'
  BY TypeInvNext
<1>3. TypeInv => PackingSound
  BY TypeInvPacking
<1> QED BY <1>1, <1>2, <1>3, PTL DEF Spec

-----------------------------------------------------------------------------
(***************************************************************************)
(* What is mounted.  A reconcile writes no secret and goes on, so while it *)
(* is not idle the secrets stay as they were when it began; if the cache   *)
(* was up to date then, every secret that it passed over is still the one  *)
(* that it wants.                                                          *)
(***************************************************************************)
WantedAt(k) ==
  [data |-> [n \in Nodes |-> IF n \in ci[k] THEN certsData[n] ELSE NoCert],
   number |-> Len(ci)]

SecretsStill == fresh => \A k \in DOMAIN history : history[k].secrets = Cached.secrets

PassedOver == fresh => \A k \in 1..(i - 1) : Cached.secrets[k] = WantedAt(k)

Position ==
  /\ pc \in {"idle", "certs"} => i = 1
  /\ pc = "mount" => i = Len(ci) + 1

FreshInv == SecretsStill /\ PassedOver /\ Position

LEMMA FreshInvInit == Init => FreshInv
BY DEF Init, FreshInv, SecretsStill, PassedOver, Position

LEMMA IdleFresh == ASSUME Idle PROVE FreshInv'
BY DEF Idle, FreshInv, SecretsStill, PassedOver, Position

\* The cache and the certificates move, and the secrets stay.
LEMMA SecretsStay ==
  ASSUME TypeInv, FreshInv, UNCHANGED worker,
         \/ UNCHANGED history
         \/ Sync
         \/ \E h \in Snapshot : Store(h) /\ h.secrets = Stored.secrets
  PROVE  FreshInv'
<1>0. /\ history \in Seq(Snapshot) /\ Len(history) \in Nat /\ Len(history) >= 1
      /\ DOMAIN history = 1..Len(history) /\ Cached = history[1]
      /\ Stored = history[Len(history)]
  BY HistoryFacts DEF TypeInv, StoreOK
<1>s. history \in Seq(Snapshot)
  BY <1>0
<1>l. Len(history) \in Nat /\ Len(history) >= 1
  BY <1>0
<1>w. UNCHANGED <<pc, certsData, ci, i, fresh>>
  BY DEF worker
<1>1. /\ Len(history') \in Nat /\ Len(history') >= 1 /\ DOMAIN history' = 1..Len(history')
      /\ fresh => \A k \in 1..Len(history') : history'[k].secrets = Cached.secrets
  <2>1. CASE UNCHANGED history
    BY <1>0, <2>1 DEF FreshInv, SecretsStill
  <2>2. CASE Sync
    <3>1. Len(history) > 1 /\ history' = Tail(history)
      BY <2>2 DEF Sync
    <3>2. /\ Len(history') = Len(history) - 1 /\ DOMAIN history' = 1..(Len(history) - 1)
          /\ \A k \in 1..(Len(history) - 1) :
               history'[k] = history[k + 1] /\ k + 1 \in 1..Len(history)
      BY <1>s, <3>1, Dropped
    <3>3. Len(history') \in Nat /\ Len(history') >= 1
      BY <1>l, <3>1, <3>2
    <3> QED BY <1>0, <3>2, <3>3 DEF FreshInv, SecretsStill
  <2>3. CASE \E h \in Snapshot : Store(h) /\ h.secrets = Stored.secrets
    <3>1. PICK h \in Snapshot : history' = Append(history, h) /\ h.secrets = Stored.secrets
      BY <2>3 DEF Store
    <3>2. /\ Len(history') = Len(history) + 1 /\ DOMAIN history' = 1..(Len(history) + 1)
          /\ \A k \in 1..(Len(history) + 1) :
               history'[k] = IF k = Len(history) + 1 THEN h ELSE history[k]
      BY <1>s, <3>1, Appended
    <3>3. Len(history') \in Nat /\ Len(history') >= 1
      BY <1>l, <3>2
    <3>4. ASSUME fresh, NEW k \in 1..(Len(history) + 1)
          PROVE  history'[k].secrets = Cached.secrets
      <4>1. \A m \in 1..Len(history) : history[m].secrets = Cached.secrets
        BY <1>0, <3>4 DEF FreshInv, SecretsStill
      <4>2. k = Len(history) + 1 \/ k \in 1..Len(history)
        BY <1>0
      <4>3. Len(history) \in 1..Len(history)
        BY <1>0
      <4> QED BY <1>0, <3>1, <3>2, <4>1, <4>2, <4>3
    <3> QED BY <3>2, <3>3, <3>4
  <2> QED BY <2>1, <2>2, <2>3
<1>2. Cached' = history'[1] /\ 1 \in 1..Len(history')
  BY <1>1 DEF Cached
<1>3. fresh => Cached'.secrets = Cached.secrets
  BY <1>1, <1>2
<1>4. SecretsStill'
  BY <1>w, <1>1, <1>3 DEF SecretsStill
<1>5. PassedOver'
  BY <1>w, <1>3 DEF FreshInv, PassedOver, WantedAt
<1>6. Position'
  BY <1>w DEF FreshInv, Position
<1> QED BY <1>4, <1>5, <1>6 DEF FreshInv

\* The steps of a reconcile that leave the secrets alone.
LEMMA FreshSteps ==
  ASSUME TypeInv, FreshInv,
         \/ Begin \/ Packed \/ SecretUnchanged \/ Ensured
         \/ CreateSecretsDataStructure \/ \E n \in Nodes : ReadCert(n)
  PROVE  FreshInv'
<1>0. /\ DOMAIN history = 1..Len(history) /\ Cached = history[1]
      /\ i \in Nat /\ i >= 1 /\ i \in 1..(Len(ci) + 1)
  BY HistoryFacts DEF TypeInv, WorkerOK
<1>1. UNCHANGED history /\ Cached' = Cached
  BY DEF Begin, Packed, SecretUnchanged, Ensured, CreateSecretsDataStructure, ReadCert, Cached
<1>2. CASE Begin
  <2>1. /\ fresh' = (Len(history) = 1) /\ pc = "idle" /\ pc' = "certs" /\ UNCHANGED i
    BY <1>2 DEF Begin
  <2>2. i' = 1
    BY <2>1 DEF FreshInv, Position
  <2>3. PassedOver' /\ Position'
    BY <2>1, <2>2 DEF PassedOver, Position
  <2>4. SecretsStill'
    <3>1. ASSUME Len(history) = 1, NEW k \in DOMAIN history PROVE history[k] = Cached
      BY <1>0, <3>1
    <3> QED BY <1>1, <2>1, <3>1 DEF SecretsStill
  <2> QED BY <2>3, <2>4 DEF FreshInv
<1>3. CASE CreateSecretsDataStructure \/ \E n \in Nodes : ReadCert(n)
  <2>1. pc = "certs" /\ UNCHANGED <<pc, i, fresh>>
    BY <1>3 DEF CreateSecretsDataStructure, ReadCert
  <2>2. i' = 1
    BY <2>1 DEF FreshInv, Position
  <2> QED BY <1>1, <2>1, <2>2 DEF FreshInv, SecretsStill, PassedOver, Position
<1>4. CASE Packed
  <2>1. pc' = "write" /\ UNCHANGED <<certsData, ci, i, fresh>>
    BY <1>4 DEF Packed
  <2> QED BY <1>1, <2>1 DEF FreshInv, SecretsStill, PassedOver, Position, WantedAt
<1>5. CASE SecretUnchanged
  <2>1. /\ pc = "write" /\ Cached.secrets[i] = WantedAt(i) /\ i' = i + 1
        /\ UNCHANGED <<pc, certsData, ci, fresh>>
    BY <1>5 DEF SecretUnchanged, Writing, Wanted, WantedAt
  <2>2. ASSUME fresh', NEW k \in 1..(i' - 1) PROVE Cached.secrets[k] = WantedAt(k)
    <3>1. k = i \/ k \in 1..(i - 1)
      BY <1>0, <2>1
    <3> QED BY <2>1, <2>2, <3>1 DEF FreshInv, PassedOver
  <2>3. PassedOver'
    <3>1. \A k : WantedAt(k)' = WantedAt(k)
      BY <2>1 DEF WantedAt
    <3> QED BY <1>1, <2>2, <3>1 DEF PassedOver
  <2>4. SecretsStill' /\ Position'
    BY <1>1, <2>1 DEF FreshInv, SecretsStill, Position
  <2> QED BY <2>3, <2>4 DEF FreshInv
<1>6. CASE Ensured
  <2>1. /\ pc' = "mount" /\ i > Len(ci) /\ UNCHANGED <<certsData, ci, i, fresh>>
    BY <1>6 DEF Ensured
  <2>2. Len(ci) \in Nat
    BY CertsSized, PackedSeq DEF TypeInv, WorkerOK, PackInv
  <2>3. i' = Len(ci') + 1
    BY <1>0, <2>1, <2>2
  <2> QED BY <1>1, <2>1, <2>3 DEF FreshInv, SecretsStill, PassedOver, Position, WantedAt
<1> QED BY <1>2, <1>3, <1>4, <1>5, <1>6

LEMMA FreshInvNext == TypeInv /\ FreshInv /\ [Next]_vars => FreshInv'
<1> SUFFICES ASSUME TypeInv, FreshInv, [Next]_vars PROVE FreshInv'
  OBVIOUS
<1>1. CASE UNCHANGED vars \/ Edit \/ NewDeployment
  BY <1>1, SecretsStay DEF vars, Edit, NewDeployment
<1>2. CASE Sync
  BY <1>2, SecretsStay DEF Sync
<1>3. CASE \/ Begin \/ Packed \/ SecretUnchanged \/ Ensured
           \/ CreateSecretsDataStructure \/ \E n \in Nodes : ReadCert(n)
  BY <1>3, FreshSteps
<1>4. CASE WriteSecret \/ AlreadyExists \/ AddCertMounts \/ AddCertMountsError
           \/ CallError \/ Crash \/ \E n \in Nodes : AwaitCert(n)
  <2>1. Idle
    BY <1>4 DEF WriteSecret, AlreadyExists, AddCertMounts, AddCertMountsError, CallError,
                Crash, AwaitCert
  <2> QED BY <2>1, IdleFresh
<1>5. ASSUME NEW n \in Nodes, Issue(n) \/ Renew(n) PROVE FreshInv'
  <2>1. PICK c : Store([Stored EXCEPT !.issued[n] = c])
    BY <1>5 DEF Issue, Renew
  <2>2. UNCHANGED worker
    BY <1>5 DEF Issue, Renew
  <2> DEFINE h == [Stored EXCEPT !.issued[n] = c]
  <2>3. h.secrets = Stored.secrets
    BY HistoryFacts DEF TypeInv, Snapshot
  <2>4. h \in Snapshot
    <3>1. HistoryMove /\ renewals' \in {renewals, renewals + 1}
      BY <1>5, CertMove DEF Issue, Renew, bounds
    <3>2. history' \in Seq(Snapshot)
      BY <3>1, HistoryMoves DEF TypeInv
    <3>3. history' = Append(history, h) /\ history \in Seq(Snapshot)
      BY <2>1 DEF Store, TypeInv, StoreOK
    <3> HIDE DEF h
    <3>4. Len(history') = Len(history) + 1 /\ history'[Len(history) + 1] = h /\ Len(history) \in Nat
      BY <3>3
    <3> QED BY <3>2, <3>4
  <2> QED BY <2>1, <2>2, <2>3, <2>4, SecretsStay
<1> QED BY <1>1, <1>2, <1>3, <1>4, <1>5 DEF Next, Reconcile

\* The step that mounts.
LEMMA MountStep == TypeInv /\ FreshInv /\ [Next]_vars => [MountsAll]_vars
<1> SUFFICES ASSUME TypeInv, FreshInv, Next,
                    fresh, mounts = 0, mounts' > 0, DOMAIN certsData # {}
             PROVE  /\ \A n \in Nodes :
                         {Stored.secrets[k].data[n] : k \in 1..mounts'} \ {NoCert}
                           = IF n \in DOMAIN certsData THEN {certsData[n]} ELSE {}
                    /\ \A j, k \in 1..mounts' :
                         j # k => Holds(Stored.secrets[j]) \cap Holds(Stored.secrets[k]) = {}
  BY DEF MountsAll
<1>1. AddCertMounts
  <2>1. ~(UNCHANGED mounts)
    OBVIOUS
  <2>2. ~NewDeployment
    BY DEF NewDeployment
  <2> QED BY <2>1, <2>2
          DEF Next, Reconcile, Begin, CreateSecretsDataStructure, Packed, SecretUnchanged,
              WriteSecret, AlreadyExists, Ensured, AddCertMountsError, ReadCert, AwaitCert,
              CallError, Crash, Sync, Edit, Issue, Renew
<1>2. pc = "mount" /\ mounts' = Cached.secrets[1].number
  BY <1>1 DEF AddCertMounts
<1>3. /\ WellPacked(certsData, ci) /\ UNION Range(ci) = DOMAIN certsData
      /\ Len(ci) \in Nat /\ DOMAIN ci = 1..Len(ci)
  <2>1. WellPacked(certsData, ci) /\ UNION Range(ci) = DOMAIN certsData
    BY <1>2, TypeInvPacking DEF PackingSound, TypeInv, PackInv
  <2> QED BY <2>1, CertsSized, PackedSeq DEF TypeInv, WorkerOK
<1>4. \A n \in DOMAIN certsData : \E k \in 1..Len(ci) : n \in ci[k]
  BY <1>3 DEF Range
<1>5. Len(ci) >= 1
  BY <1>3, <1>4
<1>6. i - 1 = Len(ci)
  BY <1>2, <1>3 DEF FreshInv, Position
<1>7. \A k \in 1..Len(ci) : Stored.secrets[k] = WantedAt(k) /\ Cached.secrets[k] = WantedAt(k)
  <2>1. Stored.secrets = Cached.secrets
    BY HistoryFacts DEF FreshInv, SecretsStill, TypeInv
  <2> QED BY <1>6, <2>1 DEF FreshInv, PassedOver
<1>w. \A k : /\ WantedAt(k).number = Len(ci)
            /\ \A n \in Nodes :
                 WantedAt(k).data[n] = IF n \in ci[k] THEN certsData[n] ELSE NoCert
  BY DEF WantedAt
<1>8. mounts' = Len(ci)
  BY <1>2, <1>3, <1>5, <1>7, <1>w
<1>9. \A k \in 1..Len(ci), n \in Nodes :
        Stored.secrets[k].data[n] = IF n \in ci[k] THEN certsData[n] ELSE NoCert
  BY <1>7, <1>w
<1>10. \A n \in DOMAIN certsData : certsData[n] # NoCert
  BY DEF TypeInv, WorkerOK, CertsOK, Cert, NoCert
<1>11. \A k \in 1..Len(ci) : ci[k] \subseteq DOMAIN certsData
  BY <1>3 DEF Range
<1>12. ASSUME NEW n \in Nodes
       PROVE  {Stored.secrets[k].data[n] : k \in 1..mounts'} \ {NoCert}
                = IF n \in DOMAIN certsData THEN {certsData[n]} ELSE {}
  BY <1>4, <1>8, <1>9, <1>10, <1>11
<1>13. ASSUME NEW j \in 1..mounts', NEW k \in 1..mounts', j # k,
              NEW n \in Holds(Stored.secrets[j]), n \in Holds(Stored.secrets[k])
       PROVE  FALSE
  <2>1. n \in Nodes /\ n \in ci[j] /\ n \in ci[k] /\ n \in Nat
    BY <1>8, <1>9, <1>13, NodesAssumption DEF Holds
  <2>2. j < k \/ k < j
    BY <1>3, <1>8, <1>13
  <2>3. n < n
    BY <1>3, <1>8, <2>1, <2>2 DEF WellPacked
  <2> QED BY <2>1, <2>3
<1> QED BY <1>12, <1>13

\* What addCertMounts mounts after a reconcile that began with an up to date
\* cache is the certificate of every node as it was read, once, and nothing
\* else, for any node lists, packings and interrupted reconciles before it.
THEOREM MountsAreComplete == Spec => MountsComplete
<1>1. Init => TypeInv /\ FreshInv
  BY TypeInvInit, FreshInvInit
<1>2. TypeInv /\ FreshInv /\ [Next]_vars => (TypeInv /\ FreshInv)'
  BY TypeInvNext, FreshInvNext
<1>3. TypeInv /\ FreshInv /\ [Next]_vars => [MountsAll]_vars
  BY MountStep
<1> QED BY <1>1, <1>2, <1>3, PTL DEF Spec, MountsComplete

=============================================================================
