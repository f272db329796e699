------------------------ MODULE TimelineLegacy_proofs ------------------------
(***************************************************************************)
(* Theorems about timeline semaphores without the scheduler, for every set *)
(* of queues, semaphores, threads, fences, submissions and look-ups.       *)
(***************************************************************************)
EXTENDS MCSemaphores, FiniteSetTheorems, SequenceTheorems, WellFoundedInduction, TLAPS

-----------------------------------------------------------------------------
(* Induction over the natural numbers, by their least element.              *)

Below == {x \in Nat \X Nat : x[1] < x[2]}

LEMMA BelowWellFounded == IsWellFoundedOn(Below, Nat)
BY NatLessThanWellFounded, Zenon DEF OpToRel, Below

LEMMA Least ==
    ASSUME NEW S \in SUBSET Nat, S # {} PROVE \E n \in S : \A m \in S : n <= m
<1>1. PICK n \in S : \A m \in S : ~(<<m, n>> \in Below)
  BY BelowWellFounded, WFMin
<1>2. ASSUME NEW m \in S PROVE n <= m
  <2>1. n \in Nat /\ m \in Nat /\ <<m, n>> \in Nat \X Nat
    OBVIOUS
  <2>2. ~(m < n)
    BY <1>1, <2>1 DEF Below
  <2>. QED  BY <2>1, <2>2
<1>. QED  BY <1>2

\* A set of natural numbers that has 0 and with n its successor up to N has 0 .. N.
LEMMA Upto ==
    ASSUME NEW N \in Nat, NEW S, 0 \in S, \A n \in 0 .. N : n # N /\ n \in S => n + 1 \in S
    PROVE  0 .. N \subseteq S
<1>. SUFFICES ASSUME ~(0 .. N \subseteq S) PROVE FALSE
  OBVIOUS
<1>. DEFINE Bad == {n \in 0 .. N : n \notin S}
<1>1. Bad \in SUBSET Nat /\ Bad # {}
  OBVIOUS
<1>2. PICK n \in Bad : \A m \in Bad : n <= m
  BY <1>1, Least
<1>3. n \in 0 .. N /\ n \notin S /\ n # 0
  BY <1>2
<1>4. n - 1 \in 0 .. N /\ n - 1 # N /\ ~(n <= n - 1)
  BY <1>3
<1>5. n - 1 \in S
  BY <1>2, <1>4
<1>. QED  BY <1>3, <1>4, <1>5

-----------------------------------------------------------------------------
(* Sequences and sets.                                                      *)

LEMMA GreatestUpto ==
    ASSUME NEW S \in SUBSET Nat, NEW N \in Nat, S # {}, \A m \in S : m <= N
    PROVE  \E n \in S : \A m \in S : m <= n
<1>. DEFINE Up == {n \in Nat : \A m \in S : m <= n}
<1>1. Up \in SUBSET Nat /\ N \in Up
  OBVIOUS
<1>2. PICK n \in Up : \A m \in Up : n <= m
  BY <1>1, Least
<1>3. CASE n \in S
  BY <1>2, <1>3
<1>4. CASE n \notin S
  <2>1. \A m \in S : m <= n /\ m # n
    BY <1>2, <1>4
  <2>0. PICK k \in S : TRUE
    OBVIOUS
  <2>2. n # 0
    BY <2>0, <2>1
  <2>3. n - 1 \in Up
    BY <2>1, <2>2
  <2>. QED  BY <1>2, <2>2, <2>3
<1>. QED  BY <1>3, <1>4

LEMMA Bounded ==
    ASSUME NEW q \in Seq(Nat) PROVE \E N \in Nat : \A i \in 1 .. Len(q) : q[i] <= N
<1>. DEFINE S == {n \in 0 .. Len(q) : \E N \in Nat : \A i \in 1 .. n : q[i] <= N}
<1>1. 0 \in S
  OBVIOUS
<1>2. ASSUME NEW n \in 0 .. Len(q), n # Len(q), n \in S PROVE n + 1 \in S
  <2>1. PICK N \in Nat : \A i \in 1 .. n : q[i] <= N
    BY <1>2
  <2>2. q[n + 1] \in Nat /\ n + 1 \in 0 .. Len(q)
    BY <1>2
  <2>3. PICK M \in Nat : N <= M /\ q[n + 1] <= M
    BY <2>2
  <2>4. \A i \in 1 .. n + 1 : q[i] <= M
    BY <2>1, <2>2, <2>3
  <2>. QED  BY <2>2, <2>4
<1>3. Len(q) \in S
  <2>1. Len(q) \in Nat /\ Len(q) \in 0 .. Len(q)
    OBVIOUS
  <2>. HIDE DEF S
  <2>2. \A n \in 0 .. Len(q) : n # Len(q) /\ n \in S => n + 1 \in S
    BY <1>2
  <2>3. 0 .. Len(q) \subseteq S
    BY <1>1, <2>1, <2>2, Upto
  <2>. QED  BY <2>1, <2>3
<1>. QED  BY <1>3

\* Max of a number and of some numbers in a sequence.
LEMMA MaxOf ==
    ASSUME NEW c \in Nat, NEW q \in Seq(Nat), NEW S, S \subseteq {q[i] : i \in 1 .. Len(q)}
    PROVE  /\ Legacy!Max({c} \cup S) \in {c} \cup S
           /\ \A m \in {c} \cup S : m <= Legacy!Max({c} \cup S)
<1>1. PICK N \in Nat : \A i \in 1 .. Len(q) : q[i] <= N
  BY Bounded
<1>2. {c} \cup S \in SUBSET Nat /\ {c} \cup S # {}
  OBVIOUS
<1>3. PICK M \in Nat : c <= M /\ N <= M
  OBVIOUS
<1>4. \A m \in {c} \cup S : m <= M
  BY <1>1, <1>2, <1>3
<1>5. \E n \in {c} \cup S : \A m \in {c} \cup S : m <= n
  BY <1>2, <1>4, GreatestUpto
<1>6. \E n \in {c} \cup S : \A m \in {c} \cup S : n >= m
  BY <1>2, <1>5
<1>. DEFINE x == CHOOSE n \in {c} \cup S : \A m \in {c} \cup S : n >= m
<1>7. x \in {c} \cup S /\ \A m \in {c} \cup S : x >= m
  BY <1>6, Zenon
<1>8. Legacy!Max({c} \cup S) = x
  BY Zenon DEF Legacy!Max
<1>9. \A m \in {c} \cup S : m <= x
  BY <1>2, <1>7
<1>. QED  BY <1>7, <1>8, <1>9, Zenon

Elements(q) == {q[i] : i \in 1 .. Len(q)}

LEMMA ElementsOf ==
    ASSUME NEW S, NEW q \in Seq(S)
    PROVE  /\ Elements(q) \subseteq S
           /\ Legacy!ToSet(q) = Elements(q)
           /\ q = <<>> <=> Elements(q) = {}
           /\ \A e \in S : Append(q, e) \in Seq(S) /\ Elements(Append(q, e)) = Elements(q) \cup {e}
           /\ q # <<>> => /\ Head(q) \in Elements(q) /\ Tail(q) \in Seq(S)
                          /\ Elements(q) = {Head(q)} \cup Elements(Tail(q))
<1>1. Elements(q) \subseteq S /\ DOMAIN q = 1 .. Len(q)
  BY DEF Elements
<1>2. Legacy!ToSet(q) = Elements(q)
  BY <1>1 DEF Legacy!ToSet, Elements
<1>3. q = <<>> <=> Elements(q) = {}
  <2>1. q # <<>> => 1 \in 1 .. Len(q)
    OBVIOUS
  <2>. QED  BY <2>1 DEF Elements
<1>4. ASSUME NEW e \in S PROVE Append(q, e) \in Seq(S) /\ Elements(Append(q, e)) = Elements(q) \cup {e}
  <2>1. Len(Append(q, e)) = Len(q) + 1 /\ Len(q) \in Nat
    OBVIOUS
  <2>2. \A i \in 1 .. Len(q) : Append(q, e)[i] = q[i]
    OBVIOUS
  <2>3. Append(q, e)[Len(q) + 1] = e
    OBVIOUS
  <2>4. \A i \in 1 .. Len(q) + 1 : i \in 1 .. Len(q) \/ i = Len(q) + 1
    BY <2>1
  <2>5. Len(q) + 1 \in 1 .. Len(q) + 1 /\ 1 .. Len(q) \subseteq 1 .. Len(q) + 1
    BY <2>1
  <2>6. Elements(Append(q, e)) = Elements(q) \cup {e}
    BY <2>1, <2>2, <2>3, <2>4, <2>5 DEF Elements
  <2>. QED  BY <2>6
<1>5. ASSUME q # <<>>
      PROVE  /\ Head(q) \in Elements(q) /\ Tail(q) \in Seq(S)
             /\ Elements(q) = {Head(q)} \cup Elements(Tail(q))
  <2>1. Len(q) \in Nat \ {0} /\ Len(Tail(q)) = Len(q) - 1 /\ Head(q) = q[1] /\ Tail(q) \in Seq(S)
    BY <1>5
  <2>2. \A i \in 1 .. Len(q) - 1 : Tail(q)[i] = q[i + 1]
    BY <1>5
  <2>3. \A i \in 1 .. Len(q) : i = 1 \/ i - 1 \in 1 .. Len(q) - 1
    BY <2>1
  <2>4. \A i \in 1 .. Len(q) : i # 1 => q[i] = Tail(q)[i - 1]
    BY <2>1, <2>2, <2>3
  <2>5. 1 \in 1 .. Len(q) /\ \A i \in 1 .. Len(q) - 1 : i + 1 \in 1 .. Len(q)
    BY <2>1
  <2>6. Head(q) \in Elements(q)
    BY <2>1, <2>5 DEF Elements
  <2>7. Elements(q) \subseteq {Head(q)} \cup Elements(Tail(q))
    BY <2>1, <2>3, <2>4 DEF Elements
  <2>8. Elements(Tail(q)) \subseteq Elements(q)
    BY <2>1, <2>2, <2>5 DEF Elements
  <2>. QED  BY <2>1, <2>6, <2>7, <2>8
<1>. QED  BY <1>1, <1>2, <1>3, <1>4, <1>5

LEMMA Removed ==
    ASSUME NEW S, NEW q \in Seq(S), NEW i \in 1 .. Len(q)
    PROVE  /\ Legacy!RemoveAt(q, i) \in Seq(S)
           /\ Elements(Legacy!RemoveAt(q, i)) \subseteq Elements(q)
           /\ Elements(q) \subseteq Elements(Legacy!RemoveAt(q, i)) \cup {q[i]}
<1>. DEFINE a == SubSeq(q, 1, i - 1)
            b == SubSeq(q, i + 1, Len(q))
            r == a \o b
<1>1. Legacy!RemoveAt(q, i) = r
  BY DEF Legacy!RemoveAt
<1>2. /\ i \in Nat /\ Len(q) \in Nat /\ 1 <= i /\ i <= Len(q)
  OBVIOUS
<1>3. a \in Seq(S) /\ Len(a) = i - 1 /\ \A k \in 1 .. i - 1 : a[k] = q[k]
  BY <1>2
<1>4. b \in Seq(S) /\ Len(b) = Len(q) - i /\ \A k \in 1 .. Len(q) - i : b[k] = q[k + i]
  BY <1>2
<1>. HIDE DEF a, b
<1>5. r \in Seq(S) /\ Len(r) = Len(q) - 1
  BY <1>2, <1>3, <1>4
<1>6. \A k \in 1 .. Len(q) - 1 : r[k] = IF k < i THEN q[k] ELSE q[k + 1]
  <2>. SUFFICES ASSUME NEW k \in 1 .. Len(q) - 1 PROVE r[k] = IF k < i THEN q[k] ELSE q[k + 1]
    OBVIOUS
  <2>1. CASE k < i
    BY <1>2, <1>3, <1>4, <2>1
  <2>2. CASE ~(k < i)
    <3>1. r[k] = b[k - Len(a)]
      BY <1>2, <1>3, <1>4, <2>2
    <3>2. k - Len(a) \in 1 .. Len(q) - i /\ k - Len(a) + i = k + 1
      BY <1>2, <1>3, <2>2
    <3>. QED  BY <1>4, <2>2, <3>1, <3>2
  <2>. QED  BY <2>1, <2>2
<1>. HIDE DEF r
<1>7. Elements(r) \subseteq Elements(q)
  BY <1>2, <1>5, <1>6 DEF Elements
<1>8. ASSUME NEW k \in 1 .. Len(q), k # i PROVE q[k] \in Elements(r)
  <2>1. CASE k < i
    <3>1. k \in 1 .. Len(q) - 1 /\ r[k] = q[k]
      BY <1>2, <1>6, <2>1
    <3>. QED  BY <1>5, <3>1 DEF Elements
  <2>2. CASE ~(k < i)
    <3>1. k - 1 \in 1 .. Len(q) - 1 /\ ~(k - 1 < i) /\ k - 1 + 1 = k
      BY <1>2, <1>8, <2>2
    <3>2. r[k - 1] = q[k]
      BY <1>6, <3>1
    <3>. QED  BY <1>5, <3>1, <3>2 DEF Elements
  <2>. QED  BY <2>1, <2>2
<1>. QED  BY <1>1, <1>5, <1>7, <1>8 DEF Elements

-----------------------------------------------------------------------------
(* The sets that become sequences.                                          *)

LEMMA SameCardinality == \A S : Legacy!Cardinality(S) = Cardinality(S)
BY Zenon DEF Legacy!Cardinality, Cardinality, Legacy!IsFiniteSet, IsFiniteSet

LEMMA Enumerated ==
    ASSUME NEW F, NEW S \in SUBSET F, IsFiniteSet(S)
    PROVE  /\ Legacy!SetToSeq(S) \in Seq(F)
           /\ Elements(Legacy!SetToSeq(S)) = S
           /\ \A i, j \in 1 .. Len(Legacy!SetToSeq(S)) :
                 i # j => Legacy!SetToSeq(S)[i] # Legacy!SetToSeq(S)[j]
<1>. DEFINE n == Cardinality(S)
            G == [1 .. n -> S]
<1>1. n \in Nat
  BY FS_CardinalityType
<1>2. ExistsBijection(1 .. n, S)
  BY FS_CardinalityType
<1>3. PICK g \in [1 .. n -> S] : \A i, j \in 1 .. n : g[i] = g[j] => i = j
  BY <1>2 DEF ExistsBijection, Bijection, Injection, IsInjective
<1>4. \E f \in G : Legacy!IsInjective(f)
  <2>1. DOMAIN g = 1 .. n
    OBVIOUS
  <2>. QED  BY <1>3, <2>1 DEF Legacy!IsInjective
<1>. DEFINE e == CHOOSE f \in G : Legacy!IsInjective(f)
<1>5. e \in G /\ Legacy!IsInjective(e)
  <2>. HIDE DEF G
  <2>. QED  BY <1>4, Zenon
<1>6. Legacy!SetToSeq(S) = e
  BY SameCardinality, Zenon DEF Legacy!SetToSeq
<1>. HIDE DEF e
<1>7. e \in [1 .. n -> S] /\ \A i, j \in 1 .. n : e[i] = e[j] => i = j
  BY <1>5 DEF Legacy!IsInjective
<1>8. e \in Seq(S) /\ Len(e) = n
  BY <1>1, <1>7
<1>9. e \in Seq(F)
  BY <1>8
<1>10. Elements(e) = S
  <2>1. e \in Injection(1 .. n, S)
    BY <1>7 DEF Injection, IsInjective
  <2>2. e \in Surjection(1 .. n, S)
    <3>1. IsFiniteSet(1 .. n) /\ Cardinality(1 .. n) = n
      BY <1>1, FS_Interval
    <3>. QED  BY <1>1, <2>1, <3>1, FS_Injection, FS_SameCardinalityBij
  <2>. QED  BY <1>7, <1>8, <2>2 DEF Surjection, Elements
<1>. QED  BY <1>6, <1>7, <1>8, <1>9, <1>10

\* Others is defined, and what it leaves.
OthersUpto(f, q, Q, n) ==
    IF n = 0 THEN <<>> ELSE IF q[n].queue \in Q THEN f[n - 1] ELSE Append(f[n - 1], q[n])

LEMMA OthersExist ==
    ASSUME NEW q \in Seq(Entries), NEW Q
    PROVE  \E f : f = [n \in 0 .. Len(q) |-> OthersUpto(f, q, Q, n)]
<1>. DEFINE S == {n \in 0 .. Len(q) : \E f \in [0 .. n -> Seq(Entries)] :
                                         \A m \in 0 .. n : f[m] = OthersUpto(f, q, Q, m)}
<1>1. 0 \in S
  <2>. DEFINE f == [m \in 0 .. 0 |-> <<>>]
  <2>1. f \in [0 .. 0 -> Seq(Entries)] /\ \A m \in 0 .. 0 : f[m] = OthersUpto(f, q, Q, m)
    BY DEF OthersUpto
  <2>2. 0 \in 0 .. Len(q)
    OBVIOUS
  <2>. HIDE DEF f
  <2>. QED  BY <2>1, <2>2
<1>2. ASSUME NEW n \in 0 .. Len(q), n # Len(q), n \in S PROVE n + 1 \in S
  <2>1. PICK f \in [0 .. n -> Seq(Entries)] : \A m \in 0 .. n : f[m] = OthersUpto(f, q, Q, m)
    BY <1>2
  <2>2. n + 1 \in 0 .. Len(q) /\ n + 1 \in 1 .. Len(q) /\ n + 1 # 0 /\ n + 1 - 1 = n /\ n \in 0 .. n
    BY <1>2
  <2>. DEFINE g == [m \in 0 .. n + 1 |-> IF m = n + 1 THEN OthersUpto(f, q, Q, n + 1) ELSE f[m]]
  <2>3. q[n + 1] \in Entries /\ f[n] \in Seq(Entries)
    BY <2>1, <2>2
  <2>4. OthersUpto(f, q, Q, n + 1) \in Seq(Entries)
    BY <2>2, <2>3 DEF OthersUpto
  <2>5. \A m \in 0 .. n + 1 : m = n + 1 \/ m \in 0 .. n
    BY <1>2
  <2>6. g \in [0 .. n + 1 -> Seq(Entries)]
    BY <2>4, <2>5
  <2>7. \A m \in 0 .. n : m # n + 1 /\ m \in 0 .. n + 1 /\ g[m] = f[m]
    BY <1>2
  <2>8. ASSUME NEW m \in 0 .. n + 1 PROVE g[m] = OthersUpto(g, q, Q, m)
    <3>1. CASE m = n + 1
      <4>1. g[m] = OthersUpto(f, q, Q, n + 1) /\ g[n] = f[n]
        BY <2>2, <2>7, <3>1
      <4>. QED  BY <2>2, <3>1, <4>1 DEF OthersUpto
    <3>2. CASE m # n + 1
      <4>1. m \in 0 .. n /\ g[m] = OthersUpto(f, q, Q, m)
        BY <2>1, <2>5, <2>7, <3>2
      <4>2. m # 0 => m - 1 \in 0 .. n
        BY <4>1
      <4>3. m # 0 => g[m - 1] = f[m - 1]
        BY <2>7, <4>2
      <4>. QED  BY <4>1, <4>3 DEF OthersUpto
    <3>. QED  BY <3>1, <3>2
  <2>. HIDE DEF g
  <2>. QED  BY <2>2, <2>6, <2>8
<1>3. Len(q) \in Nat /\ Len(q) \in 0 .. Len(q)
  OBVIOUS
<1>4. Len(q) \in S
  <2>. HIDE DEF S
  <2>1. \A n \in 0 .. Len(q) : n # Len(q) /\ n \in S => n + 1 \in S
    BY <1>2
  <2>. QED  BY <1>1, <1>3, <2>1, Upto
<1>5. PICK f \in [0 .. Len(q) -> Seq(Entries)] : \A m \in 0 .. Len(q) : f[m] = OthersUpto(f, q, Q, m)
  BY <1>4
<1>6. f = [n \in 0 .. Len(q) |-> OthersUpto(f, q, Q, n)]
  BY <1>5
<1>. QED  BY <1>6

LEMMA OthersOf ==
    ASSUME NEW q \in Seq(Entries), NEW Q
    PROVE  /\ Legacy!Others(q, Q) \in Seq(Entries)
           /\ Elements(Legacy!Others(q, Q)) = {e \in Elements(q) : e.queue \notin Q}
<1>. DEFINE f == CHOOSE f : f = [n \in 0 .. Len(q) |-> OthersUpto(f, q, Q, n)]
<1>1. f = [n \in 0 .. Len(q) |-> OthersUpto(f, q, Q, n)]
  BY OthersExist, Zenon
<1>2. Legacy!Others(q, Q) = f[Len(q)]
  BY Zenon DEF Legacy!Others, OthersUpto
<1>. HIDE DEF f
<1>. DEFINE Kept(n) == {e \in {q[i] : i \in 1 .. n} : e.queue \notin Q}
            S == {n \in 0 .. Len(q) : f[n] \in Seq(Entries) /\ Elements(f[n]) = Kept(n)}
<1>3. \A n \in 0 .. Len(q) : f[n] = OthersUpto(f, q, Q, n)
  BY <1>1
<1>4. 0 \in S
  <2>0. f[0] = OthersUpto(f, q, Q, 0)
    BY <1>3
  <2>1. f[0] = <<>>
    BY <2>0, Zenon DEF OthersUpto
  <2>2. Kept(0) = {} /\ Elements(<<>>) = {} /\ <<>> \in Seq(Entries)
    BY DEF Elements
  <2>3. 0 \in 0 .. Len(q)
    OBVIOUS
  <2>. HIDE DEF Kept
  <2>. QED  BY <2>1, <2>2, <2>3
<1>5. ASSUME NEW n \in 0 .. Len(q), n # Len(q), n \in S PROVE n + 1 \in S
  <2>1. n + 1 \in 0 .. Len(q) /\ n + 1 \in 1 .. Len(q) /\ n + 1 # 0 /\ n + 1 - 1 = n
    BY <1>5
  <2>2. q[n + 1] \in Entries
    BY <2>1
  <2>3. f[n + 1] = IF q[n + 1].queue \in Q THEN f[n] ELSE Append(f[n], q[n + 1])
    BY <1>3, <2>1 DEF OthersUpto
  <2>4. f[n] \in Seq(Entries) /\ Elements(f[n]) = Kept(n)
    BY <1>5
  <2>5. \A i : i \in 1 .. n + 1 <=> i \in 1 .. n \/ i = n + 1
    BY <1>5
  <2>6. Kept(n + 1) = IF q[n + 1].queue \in Q THEN Kept(n) ELSE Kept(n) \cup {q[n + 1]}
    BY <2>5
  <2>. HIDE DEF Kept
  <2>7. CASE q[n + 1].queue \in Q
    BY <2>1, <2>3, <2>4, <2>6, <2>7
  <2>8. CASE q[n + 1].queue \notin Q
    <3>1. f[n + 1] \in Seq(Entries) /\ Elements(f[n + 1]) = Elements(f[n]) \cup {q[n + 1]}
      BY <2>2, <2>3, <2>4, <2>8, ElementsOf
    <3>. QED  BY <2>1, <2>4, <2>6, <2>8, <3>1
  <2>. QED  BY <2>7, <2>8
<1>6. Len(q) \in Nat /\ Len(q) \in 0 .. Len(q)
  OBVIOUS
<1>7. Len(q) \in S
  <2>. HIDE DEF S
  <2>1. \A n \in 0 .. Len(q) : n # Len(q) /\ n \in S => n + 1 \in S
    BY <1>5
  <2>. QED  BY <1>4, <1>6, <2>1, Upto
<1>. QED  BY <1>2, <1>7 DEF Elements

-----------------------------------------------------------------------------
(* The invariant: types and calls.                                          *)

States == [counter : Nat, error : BOOLEAN, pending : Seq(Entries)]
Work == [fence : Fences \cup {Null}, signals : SUBSET Pairs, fences : SUBSET Pairs]
CallRecords ==
    [pc : {"look", "check", "decide", "fence", "submit", "push"}, queue : Queues \cup {Null},
     targets : Seq(Pairs), at : Nat, entry : Nat \ {0}, any : BOOLEAN, met : BOOLEAN, timed : BOOLEAN,
     waits : Seq(Pairs), signals : Seq(Pairs), app : BOOLEAN, fence : Fences \cup {Null},
     then : {"return", "submit"}]
SweepRecords == [pc : {"sweep"}, queue : SUBSET Queues, left : SUBSET Semaphores, fence : {Null}]

LegacyType ==
    /\ state \in [Semaphores -> States \cup {Null}]
    /\ fence \in [Fences -> {"none", "reset", "pending", "signaled"}]
    /\ pool \in Seq(Fences)
    /\ gpu \in [Queues -> Seq(Work)]
    /\ thread \in [Threads -> CallRecords \cup SweepRecords \cup {Legacy!Idle}]
    /\ issued \subseteq Pairs /\ finished \subseteq Pairs /\ hosted \subseteq Pairs /\ fenced \subseteq Pairs
    /\ destroyed \in BOOLEAN

Idles(c) == c.pc = "idle"
Sweeps(c) == c.pc = "sweep"
Working(c) == ~Idles(c) /\ ~Sweeps(c)
\* The queues a call keeps to itself.
QueuesOf(c) == IF Idles(c) THEN {} ELSE IF Sweeps(c) THEN c.queue ELSE {c.queue} \ {Null}
\* What it is to signal once the driver has it.
Owed(c) == IF Working(c) /\ c.pc # "push" THEN Elements(c.signals) ELSE {}
Named(c) == Elements(c.targets) \cup Elements(c.waits) \cup Elements(c.signals)
FenceOf(c) == IF Idles(c) THEN Null ELSE c.fence

\* What a call has at each of its steps.
Shaped(c) ==
    /\ c.pc \in {"look", "check"} => c.at \in 1 .. Len(c.targets)
    /\ c.pc = "decide" => c.targets # <<>> /\ c.at = 1
    /\ c.then = "return" => c.signals = <<>> /\ c.pc \in {"look", "check", "decide"}
    /\ c.then = "submit" => c.queue \in Queues
    /\ c.pc \notin {"submit", "push"} => c.fence = Null
    /\ c.pc = "submit" => (c.fence = Null <=> c.signals = <<>>)
    /\ c.pc = "push" => c.fence # Null /\ c.targets # <<>> /\ Elements(c.signals) \subseteq Elements(c.targets)
CallSound(c) ==
    /\ Working(c) => Shaped(c) /\ \A p \in Named(c) : state[p[1]] # Null
    /\ Sweeps(c) => /\ \A s \in c.left : state[s] # Null
                    /\ \A q \in c.queue : gpu[q] = <<>>

\* No two calls have one queue, one fence or one value to signal.
Apart(c, d) ==
    /\ QueuesOf(c) \cap QueuesOf(d) = {} /\ Owed(c) \cap Owed(d) = {}
    /\ FenceOf(c) # Null => FenceOf(c) # FenceOf(d)

CallsInv ==
    /\ \A t \in Threads : CallSound(thread[t])
    /\ \A t, u \in Threads : t # u => Apart(thread[t], thread[u])
    /\ destroyed => /\ \A t \in Threads : Idles(thread[t])
                    /\ \A s \in Semaphores : state[s] = Null
                    /\ \A q \in Queues : gpu[q] = <<>>
                    /\ \A f \in Fences : fence[f] = "none"

-----------------------------------------------------------------------------
(* The invariant: values and fences.                                        *)

\* A value is issued once: it is finished, with the driver or owed by a call.
ValuesInv ==
    /\ finished \subseteq issued
    /\ \A t \in Threads : Owed(thread[t]) \subseteq issued \ finished
    /\ \A q \in Queues : \A i \in 1 .. Len(gpu[q]) :
           /\ gpu[q][i].signals \subseteq issued \ finished
           /\ \A t \in Threads : gpu[q][i].signals \cap Owed(thread[t]) = {}

\* What the driver will signal is pending, and each value and fence with it once.
WorkInv ==
    \A q \in Queues : \A i \in 1 .. Len(gpu[q]) :
        IF gpu[q][i].fence = Null THEN gpu[q][i].signals = {} ELSE fence[gpu[q][i].fence] = "pending"
Differ(w, x) ==
    w.signals \cap x.signals = {} /\ (w.fence # Null => w.fence # x.fence)
OnceInv ==
    \A q, r \in Queues : \A i \in 1 .. Len(gpu[q]), j \in 1 .. Len(gpu[r]) :
        q # r \/ i # j => Differ(gpu[q][i], gpu[r][j])

\* With fences F, values D done and work G at the driver, the fence f tells of p,
\* which was submitted to the queue q.
Tells(F, D, G, f, q, p) ==
    \/ F[f] = "signaled" /\ p \in D
    \/ F[f] = "pending" /\ \E i \in 1 .. Len(G[q]) : G[q][i].fence = f /\ p \in G[q][i].signals
TellsInv ==
    /\ \A s \in Semaphores : state[s] # Null =>
           \A e \in Elements(state[s].pending) : Tells(fence, finished, gpu, e.fence, e.queue, <<s, e.value>>)
    /\ \A t \in Threads : thread[t].pc = "push" =>
           \A p \in Elements(thread[t].targets) : Tells(fence, finished, gpu, thread[t].fence, thread[t].queue, p)
    /\ \A t \in Threads : thread[t].pc = "submit" /\ thread[t].fence # Null => fence[thread[t].fence] = "reset"

\* Every fence that exists is in the pool or somebody's.
Refers(S, T, f) ==
    \/ \E s \in Semaphores : S[s] # Null /\ \E e \in Elements(S[s].pending) : e.fence = f
    \/ \E t \in Threads : FenceOf(T[t]) = f
PoolInv ==
    /\ \A i, j \in 1 .. Len(pool) : i # j => pool[i] # pool[j]
    /\ \A f \in Elements(pool) : fence[f] = "reset" /\ ~Refers(state, thread, f)
    /\ \A f \in Fences : fence[f] # "none" => f \in Elements(pool) \/ Refers(state, thread, f)

\* What the driver has can be found, unless its call is still to push it; what
\* goes before the application's fence has been pushed.
Found(p) ==
    state[p[1]] # Null =>
        \/ state[p[1]].counter >= p[2] \/ state[p[1]].error
        \/ \E e \in Elements(state[p[1]].pending) : e.value = p[2]
Has(p) == \E q \in Queues : \E i \in 1 .. Len(gpu[q]) : p \in gpu[q][i].signals
Covers(p) == \E q \in Queues : \E i \in 1 .. Len(gpu[q]) : p \in gpu[q][i].fences
Pushing(p) == \E t \in Threads : thread[t].pc = "push" /\ p \in Elements(thread[t].signals)
FoundInv ==
    /\ \A p \in Pairs : p \in finished \/ Has(p) => Found(p) \/ Pushing(p)
    /\ \A p \in Pairs : p \in fenced \/ Covers(p) => Found(p)
    /\ \A t \in Threads : thread[t].pc = "push" =>
           \A p \in Elements(thread[t].targets) : p \in Elements(thread[t].signals) \/ Found(p)

\* While the fence of a call is pending, what the call has pushed is there.
PushedInv ==
    \A t \in Threads : thread[t].pc = "push" =>
        \A p \in Elements(thread[t].targets) :
            \/ p \in Elements(thread[t].signals) \/ fence[thread[t].fence] = "signaled"
            \/ \E e \in Elements(state[p[1]].pending) : e.fence = thread[t].fence /\ e.value = p[2]

\* A counter shows what the host has signalled or the driver has finished.
Honest ==
    \A s \in Semaphores : state[s] # Null =>
        state[s].counter = 0 \/ <<s, state[s].counter>> \in finished \cup hosted

LegacyInv ==
    /\ LegacyType /\ CallsInv /\ ValuesInv /\ WorkInv /\ OnceInv /\ TellsInv
    /\ PoolInv /\ FoundInv /\ PushedInv /\ Honest
-----------------------------------------------------------------------------
(* What a step of one call leaves.                                          *)

LEMMA Typed ==
    ASSUME LegacyType, NEW t \in Threads
    PROVE  /\ Idles(thread[t]) <=> thread[t] = Legacy!Idle
           /\ Sweeps(thread[t]) <=> thread[t] \in SweepRecords
           /\ Working(thread[t]) <=> thread[t] \in CallRecords
           /\ Working(thread[t]) <=> thread[t].pc \in {"look", "check", "decide", "fence", "submit", "push"}
BY DEF LegacyType, CallRecords, SweepRecords, Legacy!Idle, Idles, Sweeps, Working

LEMMA PendingOf ==
    ASSUME LegacyType, NEW s \in Semaphores, state[s] # Null
    PROVE  /\ state[s] \in States /\ state[s].pending \in Seq(Entries)
           /\ Elements(state[s].pending) \subseteq Entries
<1>1. state[s] \in States /\ state[s].pending \in Seq(Entries)
  BY DEF LegacyType, States
<1>. QED  BY <1>1, ElementsOf

LEMMA CallsFrame ==
    ASSUME LegacyType, CallsInv, ~destroyed, ~destroyed',
           \A s \in Semaphores : state'[s] = Null <=> state[s] = Null,
           NEW t \in Threads, NEW r, thread' = [thread EXCEPT ![t] = r], CallSound(r)',
           \A u \in Threads : u # t => Apart(r, thread[u]) /\ \A q \in QueuesOf(thread[u]) : gpu'[q] = gpu[q]
    PROVE  CallsInv'
<1>1. \A u \in Threads : thread'[u] = IF u = t THEN r ELSE thread[u]
  BY DEF LegacyType
<1>2. ASSUME NEW u \in Threads PROVE CallSound(thread[u])'
  <2>1. CASE u = t
    BY <1>1, <2>1 DEF CallSound
  <2>2. CASE u # t
    <3>1. CallSound(thread[u]) /\ thread'[u] = thread[u]
      BY <1>1, <2>2 DEF CallsInv
    <3>2. Working(thread[u]) => \A p \in Named(thread[u]) : p[1] \in Semaphores
      <4>1. Working(thread[u]) => Named(thread[u]) \subseteq Pairs
        BY Typed, ElementsOf DEF Named, CallRecords
      <4>. QED  BY <4>1 DEF Pairs
    <3>3. Sweeps(thread[u]) => thread[u].left \subseteq Semaphores
      BY Typed DEF SweepRecords
    <3>4. Working(thread[u]) => \A p \in Named(thread[u]) : state'[p[1]] # Null
      BY <3>1, <3>2 DEF CallSound
    <3>5. Sweeps(thread[u]) => \A s \in thread[u].left : state'[s] # Null
      BY <3>1, <3>3 DEF CallSound
    <3>6. Sweeps(thread[u]) => \A q \in thread[u].queue : gpu'[q] = <<>>
      BY <2>2, <3>1 DEF CallSound, QueuesOf, Sweeps, Idles
    <3>. QED  BY <3>1, <3>4, <3>5, <3>6 DEF CallSound
  <2>. QED  BY <2>1, <2>2
<1>3. ASSUME NEW u \in Threads, NEW v \in Threads, u # v PROVE Apart(thread[u], thread[v])'
  <2>1. Apart(thread[u], thread[v]) /\ Apart(thread[v], thread[u])
    BY <1>3 DEF CallsInv
  <2>2. CASE u = t
    BY <1>1, <1>3, <2>2 DEF Apart
  <2>3. CASE v = t
    <3>1. Apart(r, thread[u]) /\ thread'[u] = thread[u] /\ thread'[v] = r
      BY <1>1, <1>3, <2>3
    <3>. QED  BY <3>1 DEF Apart
  <2>4. CASE u # t /\ v # t
    BY <1>1, <2>1, <2>4 DEF Apart
  <2>. QED  BY <2>2, <2>3, <2>4
<1>. QED  BY <1>2, <1>3 DEF CallsInv

LEMMA ValuesFrame ==
    ASSUME LegacyType, CallsInv, ValuesInv, finished' = finished,
           NEW t \in Threads, NEW r, thread' = [thread EXCEPT ![t] = r],
           \A q \in Queues : \A i \in 1 .. Len(gpu'[q]) :
               \/ \E j \in 1 .. Len(gpu[q]) : gpu'[q][i] = gpu[q][j]
               \/ gpu'[q][i].signals \subseteq Owed(thread[t]) \ Owed(r),
           issued \ Owed(thread[t]) \subseteq issued', Owed(r) \subseteq issued',
           Owed(r) \cap (issued \ Owed(thread[t])) = {}, Owed(thread[t]) \subseteq issued' \/ gpu' = gpu
    PROVE  ValuesInv'
<1>1. \A u \in Threads : thread'[u] = IF u = t THEN r ELSE thread[u]
  BY DEF LegacyType
<1>2. \A u \in Threads : u # t => Owed(thread[u]) \cap Owed(thread[t]) = {}
  BY DEF CallsInv, Apart
<1>3. finished \subseteq issued \ Owed(thread[t])
  BY DEF ValuesInv
<1>4. ASSUME NEW u \in Threads PROVE Owed(thread'[u]) \subseteq issued' \ finished
  BY <1>1, <1>2, <1>3 DEF ValuesInv
<1>5. ASSUME NEW q \in Queues, NEW i \in 1 .. Len(gpu'[q])
      PROVE  /\ gpu'[q][i].signals \subseteq issued' \ finished
             /\ \A u \in Threads : gpu'[q][i].signals \cap Owed(thread'[u]) = {}
  <2>1. CASE \E j \in 1 .. Len(gpu[q]) : gpu'[q][i] = gpu[q][j]
    <3>1. PICK j \in 1 .. Len(gpu[q]) : gpu'[q][i] = gpu[q][j]
      BY <2>1
    <3>2. /\ gpu[q][j].signals \subseteq issued \ finished
          /\ \A u \in Threads : gpu[q][j].signals \cap Owed(thread[u]) = {}
      BY DEF ValuesInv
    <3>. QED  BY <1>1, <3>1, <3>2
  <2>2. CASE gpu' # gpu /\ gpu'[q][i].signals \subseteq Owed(thread[t]) \ Owed(r)
    <3>1. Owed(thread[t]) \cap finished = {}
      BY <1>3
    <3>. QED  BY <1>1, <1>2, <2>2, <3>1
  <2>. QED  BY <2>1, <2>2
<1>6. \A u \in Threads : Owed(thread[u])' = Owed(thread'[u])
  BY DEF Owed, Working, Idles, Sweeps
<1>. QED  BY <1>3, <1>4, <1>5, <1>6 DEF ValuesInv

LEMMA WorkFrame ==
    ASSUME WorkInv, OnceInv, gpu' = gpu,
           \A q \in Queues : \A i \in 1 .. Len(gpu[q]) :
               gpu[q][i].fence # Null => fence'[gpu[q][i].fence] = fence[gpu[q][i].fence]
    PROVE  WorkInv' /\ OnceInv'
BY DEF WorkInv, OnceInv, Differ

\* What the fences tell that somebody has stays, and what is new is told.
LEMMA TellsFrame ==
    ASSUME LegacyType, CallsInv, TellsInv,
           \A f \in Fences : Refers(state, thread, f) /\ Refers(state', thread', f) =>
               \A q \in Queues : \A p : Tells(fence, finished, gpu, f, q, p) => Tells(fence', finished', gpu', f, q, p),
           \A s \in Semaphores : state'[s] # Null => state[s] # Null /\
               \A e \in Elements(state'[s].pending) : e \in Elements(state[s].pending) \/
                   Tells(fence', finished', gpu', e.fence, e.queue, <<s, e.value>>),
           NEW t \in Threads, NEW r, thread' = [thread EXCEPT ![t] = r],
           r.pc = "push" => \A p \in Elements(r.targets) : Tells(fence', finished', gpu', r.fence, r.queue, p),
           \A u \in Threads : thread[u].pc = "submit" /\ thread[u].fence # Null /\ u # t =>
               fence'[thread[u].fence] = "reset",
           r.pc = "submit" /\ r.fence # Null => fence'[r.fence] = "reset"
    PROVE  TellsInv'
<1>1. \A u \in Threads : thread'[u] = IF u = t THEN r ELSE thread[u]
  BY DEF LegacyType
<1>2. ASSUME NEW s \in Semaphores, state'[s] # Null, NEW e \in Elements(state'[s].pending)
      PROVE  Tells(fence', finished', gpu', e.fence, e.queue, <<s, e.value>>)
  <2>0. SUFFICES ASSUME e \in Elements(state[s].pending)
                 PROVE  Tells(fence', finished', gpu', e.fence, e.queue, <<s, e.value>>)
    BY <1>2
  <2>1. state[s] # Null
    BY <1>2
  <2>2. e.fence \in Fences /\ e.queue \in Queues
    BY <2>0, <2>1, PendingOf DEF Entries
  <2>3. Refers(state, thread, e.fence) /\ Refers(state', thread', e.fence)
    BY <1>2, <2>0, <2>1 DEF Refers
  <2>4. Tells(fence, finished, gpu, e.fence, e.queue, <<s, e.value>>)
    BY <2>0, <2>1 DEF TellsInv
  <2>. QED  BY <2>2, <2>3, <2>4
<1>3. ASSUME NEW u \in Threads, thread'[u].pc = "push", NEW p \in Elements(thread'[u].targets)
      PROVE  Tells(fence', finished', gpu', thread'[u].fence, thread'[u].queue, p)
  <2>1. CASE u = t
    BY <1>1, <1>3, <2>1
  <2>2. CASE u # t
    <3>1. thread[u].pc = "push" /\ thread'[u] = thread[u]
      BY <1>1, <1>3, <2>2
    <3>2. Tells(fence, finished, gpu, thread[u].fence, thread[u].queue, p)
      BY <1>3, <3>1 DEF TellsInv
    <3>3. thread[u].fence \in Fences /\ thread[u].queue \in Queues
      BY <3>1, Typed DEF CallsInv, CallSound, Shaped, CallRecords
    <3>4. Refers(state, thread, thread[u].fence) /\ Refers(state', thread', thread[u].fence)
      BY <3>1 DEF Refers, FenceOf, Idles
    <3>. QED  BY <3>1, <3>2, <3>3, <3>4
  <2>. QED  BY <2>1, <2>2
<1>4. ASSUME NEW u \in Threads, thread'[u].pc = "submit", thread'[u].fence # Null
      PROVE  fence'[thread'[u].fence] = "reset"
  BY <1>1, <1>4
<1>. QED  BY <1>2, <1>3, <1>4 DEF TellsInv, Elements

\* No step of a call hides what can be found.
Keeps ==
    \A s \in Semaphores : state'[s] # Null =>
        /\ state[s] # Null /\ state[s].counter <= state'[s].counter
        /\ state[s].error => state'[s].error
        /\ \A e \in Elements(state[s].pending) :
               e \in Elements(state'[s].pending) \/ e.value <= state'[s].counter

LEMMA FoundKept ==
    ASSUME LegacyType, LegacyType', Keeps, NEW p \in Pairs, Found(p) PROVE Found(p)'
<1>. SUFFICES ASSUME state'[p[1]] # Null
              PROVE  \/ state'[p[1]].counter >= p[2] \/ state'[p[1]].error
                     \/ \E e \in Elements(state'[p[1]].pending) : e.value = p[2]
  BY DEF Found
<1>0. p[1] \in Semaphores /\ p[2] \in Nat
  BY DEF Pairs
<1>1. /\ state[p[1]] # Null /\ state[p[1]].counter <= state'[p[1]].counter
      /\ state[p[1]].error => state'[p[1]].error
      /\ \A e \in Elements(state[p[1]].pending) :
             e \in Elements(state'[p[1]].pending) \/ e.value <= state'[p[1]].counter
  BY <1>0 DEF Keeps
<1>2. state[p[1]].counter \in Nat /\ state'[p[1]].counter \in Nat
  BY <1>0, <1>1 DEF LegacyType, States
<1>3. \/ state[p[1]].counter >= p[2] \/ state[p[1]].error
      \/ \E e \in Elements(state[p[1]].pending) : e.value = p[2]
  BY <1>1 DEF Found
<1>. QED  BY <1>0, <1>1, <1>2, <1>3

LEMMA FoundFrame ==
    ASSUME LegacyType, LegacyType', FoundInv, Keeps,
           \A p \in Pairs : p \in finished' \/ Has(p)' => p \in finished \/ Has(p) \/ Found(p)' \/ Pushing(p)',
           \A p \in Pairs : p \in fenced' \/ Covers(p)' => p \in fenced \/ Covers(p) \/ Found(p)',
           NEW t \in Threads, NEW r, thread' = [thread EXCEPT ![t] = r],
           thread[t].pc = "push" =>
               \A p \in Elements(thread[t].signals) :
                   Found(p)' \/ (r.pc = "push" /\ p \in Elements(r.signals)),
           r.pc = "push" => \A p \in Elements(r.targets) : p \in Elements(r.signals) \/ Found(p)'
    PROVE  FoundInv'
<1>1. \A u \in Threads : thread'[u] = IF u = t THEN r ELSE thread[u]
  BY DEF LegacyType
<1>2. ASSUME NEW p \in Pairs, p \in finished' \/ Has(p)' PROVE Found(p)' \/ Pushing(p)'
  <2>1. Found(p) \/ Pushing(p) \/ Found(p)' \/ Pushing(p)'
    BY <1>2 DEF FoundInv
  <2>2. CASE Found(p)
    BY <2>2, FoundKept
  <2>3. CASE Pushing(p)
    <3>1. PICK u \in Threads : thread[u].pc = "push" /\ p \in Elements(thread[u].signals)
      BY <2>3 DEF Pushing
    <3>2. CASE u = t
      BY <1>1, <3>1, <3>2 DEF Pushing
    <3>3. CASE u # t
      <4>1. thread'[u].pc = "push" /\ p \in Elements(thread'[u].signals)
        BY <1>1, <3>1, <3>3
      <4>. QED  BY <4>1 DEF Pushing, Elements
    <3>. QED  BY <3>2, <3>3
  <2>. QED  BY <2>1, <2>2, <2>3
<1>3. ASSUME NEW p \in Pairs, p \in fenced' \/ Covers(p)' PROVE Found(p)'
  <2>1. Found(p) \/ Found(p)'
    BY <1>3 DEF FoundInv
  <2>. QED  BY <2>1, FoundKept
<1>4. ASSUME NEW u \in Threads, thread'[u].pc = "push", NEW p \in Elements(thread'[u].targets)
      PROVE  p \in Elements(thread'[u].signals) \/ Found(p)'
  <2>1. CASE u = t
    BY <1>1, <1>4, <2>1
  <2>2. CASE u # t
    <3>1. thread[u].pc = "push" /\ thread'[u] = thread[u]
      BY <1>1, <1>4, <2>2
    <3>2. p \in Elements(thread[u].signals) \/ Found(p)
      BY <1>4, <3>1 DEF FoundInv
    <3>3. p \in Pairs
      BY <1>4, <3>1, Typed, ElementsOf DEF CallRecords
    <3>. QED  BY <3>1, <3>2, <3>3, FoundKept
  <2>. QED  BY <2>1, <2>2
<1>. QED  BY <1>2, <1>3, <1>4 DEF FoundInv, Elements

LEMMA PushedFrame ==
    ASSUME LegacyType, CallsInv, PushedInv,
           \A s \in Semaphores : state[s] # Null => state'[s] # Null /\
               \A e \in Elements(state[s].pending) :
                   e \in Elements(state'[s].pending) \/ fence[e.fence] = "signaled",
           \A f \in Fences : Refers(state, thread, f) /\ Refers(state', thread', f) /\ fence[f] = "signaled"
                             => fence'[f] = "signaled",
           NEW t \in Threads, NEW r, thread' = [thread EXCEPT ![t] = r],
           r.pc = "push" =>
               \A p \in Elements(r.targets) : p \in Elements(r.signals) \/ fence'[r.fence] = "signaled" \/
                   \E e \in Elements(state'[p[1]].pending) : e.fence = r.fence /\ e.value = p[2]
    PROVE  PushedInv'
<1>1. \A u \in Threads : thread'[u] = IF u = t THEN r ELSE thread[u]
  BY DEF LegacyType
<1>2. ASSUME NEW u \in Threads, thread'[u].pc = "push", NEW p \in Elements(thread'[u].targets), u # t
      PROVE  \/ p \in Elements(thread'[u].signals) \/ fence'[thread'[u].fence] = "signaled"
             \/ \E e \in Elements(state'[p[1]].pending) : e.fence = thread'[u].fence /\ e.value = p[2]
  <2>1. thread[u].pc = "push" /\ thread'[u] = thread[u]
    BY <1>1, <1>2
  <2>2. thread[u].fence \in Fences /\ p \in Pairs /\ Working(thread[u])
    BY <1>2, <2>1, Typed, ElementsOf DEF CallsInv, CallSound, Shaped, CallRecords
  <2>3. Refers(state, thread, thread[u].fence) /\ Refers(state', thread', thread[u].fence)
    BY <2>1 DEF Refers, FenceOf, Idles
  <2>4. fence[thread[u].fence] = "signaled" => fence'[thread[u].fence] = "signaled"
    BY <2>2, <2>3
  <2>5. p[1] \in Semaphores /\ state[p[1]] # Null
    BY <1>2, <2>1, <2>2 DEF CallsInv, CallSound, Named, Pairs
  <2>6. \/ p \in Elements(thread[u].signals) \/ fence[thread[u].fence] = "signaled"
        \/ \E e \in Elements(state[p[1]].pending) : e.fence = thread[u].fence /\ e.value = p[2]
    BY <1>2, <2>1 DEF PushedInv
  <2>7. CASE \E e \in Elements(state[p[1]].pending) : e.fence = thread[u].fence /\ e.value = p[2]
    BY <2>1, <2>4, <2>5, <2>7
  <2>. QED  BY <2>1, <2>4, <2>6, <2>7
<1>3. ASSUME NEW p \in Elements(r.targets), r.pc = "push"
      PROVE  \/ p \in Elements(thread'[t].signals) \/ fence'[thread'[t].fence] = "signaled"
             \/ \E e \in Elements(state'[p[1]].pending) : e.fence = thread'[t].fence /\ e.value = p[2]
  BY <1>1, <1>3
<1>4. ASSUME NEW u \in Threads, thread'[u].pc = "push", NEW p \in Elements(thread'[u].targets)
      PROVE  \/ p \in Elements(thread'[u].signals) \/ fence'[thread'[u].fence] = "signaled"
             \/ \E e \in Elements(state'[p[1]].pending) : e.fence = thread'[u].fence /\ e.value = p[2]
  <2>1. CASE u = t
    <3>1. thread'[t] = r
      BY <1>1
    <3>. QED  BY <1>3, <1>4, <2>1, <3>1
  <2>2. CASE u # t
    BY <1>2, <1>4, <2>2
  <2>. QED  BY <2>1, <2>2
<1>. QED  BY <1>4 DEF PushedInv, Elements

LEMMA HonestFrame ==
    ASSUME Honest, finished \subseteq finished', hosted \subseteq hosted',
           \A s \in Semaphores : state'[s] # Null => state[s] # Null /\
               (state'[s].counter = state[s].counter \/ <<s, state'[s].counter>> \in finished' \cup hosted')
    PROVE  Honest'
BY DEF Honest


-----------------------------------------------------------------------------
(* Fences that are let go.                                                  *)

AllCalls == CallRecords \cup SweepRecords \cup {Legacy!Idle}

LEMMA RefersAlike ==
    ASSUME NEW S \in [Semaphores -> States \cup {Null}], NEW T \in [Threads -> AllCalls], NEW f \in Fences
    PROVE  Legacy!Refers(S, T, f) <=> Refers(S, T, f)
<1>1. ASSUME NEW s \in Semaphores, S[s] # Null
      PROVE  (\E i \in DOMAIN S[s].pending : S[s].pending[i].fence = f)
             <=> \E e \in Elements(S[s].pending) : e.fence = f
  <2>1. S[s].pending \in Seq(Entries)
    BY <1>1 DEF States
  <2>2. DOMAIN S[s].pending = 1 .. Len(S[s].pending)
    BY <2>1
  <2>. QED  BY <2>2 DEF Elements
<1>2. f # Null
  BY LegacyAssumption
<1>3. \A t \in Threads : T[t].pc # "idle" /\ T[t].fence = f <=> FenceOf(T[t]) = f
  BY <1>2 DEF FenceOf, Idles
<1>. QED  BY <1>1, <1>3, Zenon DEF Legacy!Refers, Refers

\* A fence that the last holder lets go is reset and pooled, or destroyed.
LEMMA Released ==
    ASSUME LegacyType, PoolInv, state' \in [Semaphores -> States \cup {Null}], thread' \in [Threads -> AllCalls],
           NEW dropped \in SUBSET Fences, IsFiniteSet(dropped), Legacy!Releases(state', thread', dropped),
           \A f \in dropped : Refers(state, thread, f),
           \A f \in dropped : fence[f] = "pending" => Refers(state', thread', f),
           \A f \in Fences : Refers(state', thread', f) => Refers(state, thread, f),
           \A f \in Fences : Refers(state, thread, f) => f \in dropped \/ Refers(state', thread', f)
    PROVE  /\ fence' \in [Fences -> {"none", "reset", "pending", "signaled"}]
           /\ pool' \in Seq(Fences)
           /\ PoolInv'
           /\ \A f \in Fences : Refers(state', thread', f) \/ fence[f] = "pending" => fence'[f] = fence[f]
<1>. DEFINE gone == {f \in dropped : ~Refers(state', thread', f)}
<1>1. PICK kept \in {gone, {}} :
          /\ fence' = [f \in Fences |-> IF f \notin gone THEN fence[f] ELSE IF f \in kept THEN "reset" ELSE "none"]
          /\ pool' = pool \o Legacy!SetToSeq(kept)
  <2>1. {f \in dropped : ~Legacy!Refers(state', thread', f)} = gone
    BY RefersAlike
  <2>. QED  BY <2>1, Zenon DEF Legacy!Releases
<1>2. gone \subseteq dropped /\ \A f \in gone : ~Refers(state', thread', f) /\ Refers(state, thread, f)
  OBVIOUS
<1>3. \A f \in Fences : Refers(state, thread, f) => f \in gone \/ Refers(state', thread', f)
  OBVIOUS
<1>4. \A f \in Fences : Refers(state', thread', f) \/ fence[f] = "pending" => f \notin gone
  OBVIOUS
<1>5. kept \subseteq gone /\ kept \in SUBSET Fences /\ IsFiniteSet(kept)
  <2>1. IsFiniteSet(gone)
    BY <1>2, FS_Subset
  <2>. HIDE DEF gone
  <2>. QED  BY <1>2, <2>1, FS_EmptySet
<1>. HIDE DEF gone
<1>. DEFINE add == Legacy!SetToSeq(kept)
<1>6. /\ add \in Seq(Fences) /\ Elements(add) = kept
      /\ \A i, j \in 1 .. Len(add) : i # j => add[i] # add[j]
  BY <1>5, Enumerated
<1>. HIDE DEF add
<1>7. pool \in Seq(Fences) /\ Len(pool) \in Nat /\ Len(add) \in Nat
  BY <1>6 DEF LegacyType
<1>8. pool' \in Seq(Fences) /\ Len(pool') = Len(pool) + Len(add)
  BY <1>1, <1>6, <1>7 DEF add
<1>9. \A i \in 1 .. Len(pool) : pool'[i] = pool[i]
  BY <1>1, <1>6, <1>7 DEF add
<1>10. \A i \in 1 .. Len(pool') : i > Len(pool) => i - Len(pool) \in 1 .. Len(add) /\ pool'[i] = add[i - Len(pool)]
  BY <1>1, <1>6, <1>7, <1>8 DEF add
<1>11. Elements(pool') = Elements(pool) \cup kept
  <2>1. \A i \in 1 .. Len(add) : i + Len(pool) \in 1 .. Len(pool') /\ i + Len(pool) > Len(pool)
                                 /\ i + Len(pool) - Len(pool) = i
    BY <1>7, <1>8
  <2>2. \A i \in 1 .. Len(add) : pool'[i + Len(pool)] = add[i]
    BY <1>10, <2>1
  <2>3. Elements(add) \subseteq Elements(pool')
    BY <2>1, <2>2 DEF Elements
  <2>4. 1 .. Len(pool) \subseteq 1 .. Len(pool')
    BY <1>7, <1>8
  <2>5. Elements(pool) \subseteq Elements(pool')
    BY <1>9, <2>4 DEF Elements
  <2>6. \A i \in 1 .. Len(pool') : i \in 1 .. Len(pool) \/ i > Len(pool)
    BY <1>7, <1>8
  <2>7. Elements(pool') \subseteq Elements(pool) \cup Elements(add)
    BY <1>9, <1>10, <2>6 DEF Elements
  <2>. QED  BY <1>6, <2>3, <2>5, <2>7
<1>12. \A f \in Elements(pool) : f \notin gone
  BY <1>2 DEF PoolInv
<1>13. ASSUME NEW i \in 1 .. Len(pool'), NEW j \in 1 .. Len(pool'), i # j PROVE pool'[i] # pool'[j]
  <2>1. \A k \in 1 .. Len(pool') : k \in 1 .. Len(pool) \/ k > Len(pool)
    BY <1>7, <1>8
  <2>2. \A k \in 1 .. Len(pool) : pool'[k] \in Elements(pool)
    BY <1>9 DEF Elements
  <2>3. \A k \in 1 .. Len(pool') : k > Len(pool) => pool'[k] \in kept
    BY <1>6, <1>10 DEF Elements
  <2>4. CASE i \in 1 .. Len(pool) /\ j \in 1 .. Len(pool)
    BY <1>9, <1>13, <2>4 DEF PoolInv
  <2>5. CASE i > Len(pool) /\ j > Len(pool)
    <3>1. i - Len(pool) # j - Len(pool)
      BY <1>7, <1>13
    <3>. QED  BY <1>6, <1>10, <2>5, <3>1
  <2>6. CASE (i \in 1 .. Len(pool)) # (j \in 1 .. Len(pool))
    BY <1>5, <1>12, <2>1, <2>2, <2>3, <2>6
  <2>. QED  BY <2>1, <2>4, <2>5, <2>6
<1>14. \A f \in Elements(pool') : fence'[f] = "reset" /\ ~Refers(state', thread', f)
  <2>1. Elements(pool) \subseteq Fences
    BY <1>7, ElementsOf
  <2>2. ASSUME NEW f \in Elements(pool) PROVE fence'[f] = "reset" /\ ~Refers(state', thread', f)
    BY <1>1, <1>12, <2>1 DEF PoolInv
  <2>3. ASSUME NEW f \in kept PROVE fence'[f] = "reset" /\ ~Refers(state', thread', f)
    BY <1>1, <1>2, <1>5
  <2>. QED  BY <1>11, <2>2, <2>3
<1>15. \A f \in Fences : fence'[f] # "none" => f \in Elements(pool') \/ Refers(state', thread', f)
  <2>. SUFFICES ASSUME NEW f \in Fences, fence'[f] # "none"
                PROVE  f \in Elements(pool') \/ Refers(state', thread', f)
    OBVIOUS
  <2>1. CASE f \in gone
    BY <1>1, <1>11, <2>1
  <2>2. CASE f \notin gone
    BY <1>1, <1>3, <1>11, <2>2 DEF PoolInv
  <2>. QED  BY <2>1, <2>2
<1>16. fence' \in [Fences -> {"none", "reset", "pending", "signaled"}]
  BY <1>1 DEF LegacyType
<1>17. \A f \in Fences : Refers(state', thread', f) \/ fence[f] = "pending" => fence'[f] = fence[f]
  BY <1>1, <1>4
<1>. QED  BY <1>8, <1>13, <1>14, <1>15, <1>16, <1>17 DEF PoolInv, Elements

-----------------------------------------------------------------------------
(* A step of a call that leaves the driver and what is finished alone.      *)

LEMMA StepOfCall ==
    ASSUME LegacyInv, ~destroyed, destroyed' = destroyed,
           gpu' = gpu, finished' = finished, fenced' = fenced,
           hosted' = hosted \/ (hosted \subseteq hosted' /\ hosted' \subseteq Pairs),
           NEW t \in Threads, NEW r \in AllCalls, thread' = [thread EXCEPT ![t] = r],
           CallSound(r)', \A u \in Threads : u # t => Apart(r, thread[u]),
           state' \in [Semaphores -> States \cup {Null}],
           \A s \in Semaphores : state'[s] = Null <=> state[s] = Null,
           \A s \in Semaphores : state[s] # Null =>
               /\ Elements(state'[s].pending) \subseteq Elements(state[s].pending)
               /\ state[s].counter <= state'[s].counter
               /\ state[s].error => state'[s].error
               /\ \A e \in Elements(state[s].pending) : e \in Elements(state'[s].pending) \/
                      (e.value <= state'[s].counter /\ fence[e.fence] = "signaled")
               /\ state'[s].counter = state[s].counter \/ <<s, state'[s].counter>> \in finished \cup hosted',
           issued' \subseteq Pairs, issued \ Owed(thread[t]) \subseteq issued', Owed(r) \subseteq issued',
           Owed(r) \cap (issued \ Owed(thread[t])) = {},
           fence' \in [Fences -> {"none", "reset", "pending", "signaled"}], pool' \in Seq(Fences), PoolInv',
           \A f \in Fences : (Refers(state, thread, f) /\ Refers(state', thread', f)) \/ fence[f] = "pending"
                             => fence'[f] = fence[f],
           r.pc = "submit" /\ r.fence # Null => fence'[r.fence] = "reset",
           r.pc = "push" => /\ thread[t].pc = "push" /\ r.fence = thread[t].fence
                            /\ r.targets = thread[t].targets /\ r.queue = thread[t].queue
                            /\ r.signals = thread[t].signals,
           thread[t].pc = "push" /\ r.pc # "push" => thread[t].signals = <<>>
    PROVE  LegacyInv'
<1>0. LegacyType /\ CallsInv /\ ValuesInv /\ WorkInv /\ OnceInv /\ TellsInv /\ PoolInv /\ FoundInv
      /\ PushedInv /\ Honest
  BY DEF LegacyInv
<1>1. LegacyType'
  BY <1>0 DEF LegacyType, AllCalls
<1>2. CallsInv'
  BY <1>0, CallsFrame
<1>3. ValuesInv'
  BY <1>0, ValuesFrame
<1>4. WorkInv' /\ OnceInv'
  <2>1. \A q \in Queues : \A i \in 1 .. Len(gpu[q]) : gpu[q][i].fence \in Fences \cup {Null}
    <3>1. ASSUME NEW q \in Queues, NEW i \in 1 .. Len(gpu[q]) PROVE gpu[q][i].fence \in Fences \cup {Null}
      <4>1. gpu[q] \in Seq(Work)
        BY <1>0 DEF LegacyType
      <4>2. gpu[q][i] \in Work
        BY <4>1
      <4>. QED  BY <4>2 DEF Work
    <3>. QED  BY <3>1
  <2>. QED  BY <1>0, <2>1, WorkFrame DEF WorkInv
<1>5. TellsInv'
  <2>1. ASSUME NEW f \in Fences, Refers(state, thread, f), Refers(state', thread', f), NEW q, NEW p,
               Tells(fence, finished, gpu, f, q, p)
        PROVE  Tells(fence', finished', gpu', f, q, p)
    <3>1. fence'[f] = fence[f]
      BY <2>1
    <3>. QED  BY <2>1, <3>1 DEF Tells
  <2>2. r.pc = "push" => \A p \in Elements(r.targets) : Tells(fence', finished', gpu', r.fence, r.queue, p)
    <3>. SUFFICES ASSUME r.pc = "push", NEW p \in Elements(r.targets)
                  PROVE  Tells(fence', finished', gpu', r.fence, r.queue, p)
      OBVIOUS
    <3>1. /\ thread[t].pc = "push" /\ r.fence = thread[t].fence /\ r.targets = thread[t].targets
          /\ r.queue = thread[t].queue
      OBVIOUS
    <3>2. Tells(fence, finished, gpu, r.fence, r.queue, p)
      BY <1>0, <3>1 DEF TellsInv
    <3>3. r.fence \in Fences
      BY <1>0, <3>1, Typed DEF CallsInv, CallSound, Shaped, CallRecords
    <3>4. thread'[t] = r
      BY <1>0 DEF LegacyType
    <3>5. Refers(state, thread, r.fence) /\ Refers(state', thread', r.fence)
      BY <3>1, <3>4 DEF Refers, FenceOf, Idles
    <3>. QED  BY <2>1, <3>2, <3>3, <3>5
  <2>3. ASSUME NEW u \in Threads, thread[u].pc = "submit", thread[u].fence # Null, u # t
        PROVE  fence'[thread[u].fence] = "reset"
    <3>1. thread[u].fence \in Fences
      BY <1>0, <2>3, Typed DEF CallRecords
    <3>2. thread'[u] = thread[u]
      BY <1>0, <2>3 DEF LegacyType
    <3>3. Refers(state, thread, thread[u].fence) /\ Refers(state', thread', thread[u].fence)
      BY <2>3, <3>2 DEF Refers, FenceOf, Idles
    <3>. QED  BY <1>0, <2>3, <3>1, <3>3 DEF TellsInv
  <2>4. \A s \in Semaphores : state'[s] # Null => state[s] # Null /\
               \A e \in Elements(state'[s].pending) : e \in Elements(state[s].pending) \/
                   Tells(fence', finished', gpu', e.fence, e.queue, <<s, e.value>>)
    OBVIOUS
  <2>. QED  BY <1>0, <2>1, <2>2, <2>3, <2>4, TellsFrame
<1>6. Keeps
  BY <1>0 DEF Keeps
<1>7. FoundInv'
  <2>1. thread[t].pc = "push" =>
            \A p \in Elements(thread[t].signals) : Found(p)' \/ (r.pc = "push" /\ p \in Elements(r.signals))
    <3>1. thread[t].pc = "push" /\ r.pc # "push" => Elements(thread[t].signals) = {}
      BY DEF Elements
    <3>. QED  BY <3>1
  <2>2. r.pc = "push" => \A p \in Elements(r.targets) : p \in Elements(r.signals) \/ Found(p)'
    <3>1. r.pc = "push" => \A p \in Elements(r.targets) : p \in Elements(r.signals) \/ Found(p)
      BY <1>0 DEF FoundInv
    <3>2. r.pc = "push" => Elements(r.targets) \subseteq Pairs
      BY <1>0, Typed, ElementsOf DEF CallRecords
    <3>. QED  BY <1>0, <1>1, <1>6, <3>1, <3>2, FoundKept
  <2>3. \A p : (Has(p)' <=> Has(p)) /\ (Covers(p)' <=> Covers(p))
    BY DEF Has, Covers
  <2>. QED  BY <1>0, <1>1, <1>6, <2>1, <2>2, <2>3, FoundFrame
<1>8. PushedInv'
  <2>1. r.pc = "push" =>
               \A p \in Elements(r.targets) : p \in Elements(r.signals) \/ fence'[r.fence] = "signaled" \/
                   \E e \in Elements(state'[p[1]].pending) : e.fence = r.fence /\ e.value = p[2]
    <3>. SUFFICES ASSUME r.pc = "push", NEW p \in Elements(r.targets)
                  PROVE  p \in Elements(r.signals) \/ fence'[r.fence] = "signaled" \/
                         \E e \in Elements(state'[p[1]].pending) : e.fence = r.fence /\ e.value = p[2]
      OBVIOUS
    <3>1. /\ thread[t].pc = "push" /\ r.fence = thread[t].fence /\ r.targets = thread[t].targets
          /\ r.signals = thread[t].signals
      OBVIOUS
    <3>2. \/ p \in Elements(r.signals) \/ fence[r.fence] = "signaled"
          \/ \E e \in Elements(state[p[1]].pending) : e.fence = r.fence /\ e.value = p[2]
      BY <1>0, <3>1 DEF PushedInv
    <3>3. r.fence \in Fences /\ p \in Pairs /\ Working(thread[t])
      BY <1>0, <3>1, Typed, ElementsOf DEF CallsInv, CallSound, Shaped, CallRecords
    <3>4. thread'[t] = r
      BY <1>0 DEF LegacyType
    <3>5. Refers(state, thread, r.fence) /\ Refers(state', thread', r.fence)
      BY <3>1, <3>4 DEF Refers, FenceOf, Idles
    <3>6. fence'[r.fence] = fence[r.fence]
      BY <3>3, <3>5
    <3>7. p[1] \in Semaphores /\ state[p[1]] # Null
      BY <1>0, <3>1, <3>3 DEF CallsInv, CallSound, Named, Pairs
    <3>8. \A e \in Elements(state[p[1]].pending) :
              e \in Elements(state'[p[1]].pending) \/ fence[e.fence] = "signaled"
      BY <3>7
    <3>. QED  BY <3>2, <3>6, <3>8, Zenon
  <2>. QED  BY <1>0, <2>1, PushedFrame
<1>9. Honest'
  BY <1>0, HonestFrame
<1>. QED  BY <1>1, <1>2, <1>3, <1>4, <1>5, <1>7, <1>8, <1>9 DEF LegacyInv

LEMMA NullIsNone == Null \notin Fences /\ Null \notin Queues /\ Null \notin States
BY LegacyAssumption DEF States

\* A step that changes the call alone.
LEMMA Walks ==
    ASSUME LegacyInv, ~destroyed, NEW t \in Threads, NEW r \in AllCalls, Legacy!Goes(t, r),
           state' = state, fence' = fence, pool' = pool, gpu' = gpu, finished' = finished, hosted' = hosted,
           fenced' = fenced, destroyed' = destroyed,
           FenceOf(r) = FenceOf(thread[t]), CallSound(r), \A u \in Threads : u # t => Apart(r, thread[u]),
           issued' \subseteq Pairs, issued \ Owed(thread[t]) \subseteq issued', Owed(r) \subseteq issued',
           Owed(r) \cap (issued \ Owed(thread[t])) = {},
           r.pc = "submit" => r.fence = Null, r.pc # "push", thread[t].pc # "push"
    PROVE  LegacyInv'
<1>0. LegacyType /\ PoolInv
  BY DEF LegacyInv
<1>1. thread' = [thread EXCEPT ![t] = r]
  BY DEF Legacy!Goes
<1>2. \A u \in Threads : FenceOf(thread'[u]) = FenceOf(thread[u])
  BY <1>0, <1>1 DEF LegacyType
<1>3. \A f : Refers(state', thread', f) <=> Refers(state, thread, f)
  BY <1>2 DEF Refers
<1>4. PoolInv'
  BY <1>0, <1>3 DEF PoolInv, Elements
<1>5. CallSound(r)'
  BY DEF CallSound
<1>6. \A s \in Semaphores : state[s] # Null => state[s].counter <= state[s].counter
  BY <1>0 DEF LegacyType, States
<1>7. /\ state' \in [Semaphores -> States \cup {Null}]
      /\ fence' \in [Fences -> {"none", "reset", "pending", "signaled"}] /\ pool' \in Seq(Fences)
  BY <1>0 DEF LegacyType
<1>. QED  BY <1>1, <1>4, <1>5, <1>6, <1>7, StepOfCall

\* The call goes on to look, or to its next part.
LEMMA GoesOn ==
    ASSUME LegacyInv, NEW t \in Threads, Working(thread[t]), NEW r \in CallRecords, Legacy!Goes(t, r),
           state' = state, fence' = fence, pool' = pool, gpu' = gpu, finished' = finished, hosted' = hosted,
           fenced' = fenced, destroyed' = destroyed, issued' = issued,
           r.queue = thread[t].queue, r.signals = thread[t].signals, r.fence = thread[t].fence,
           Named(r) \subseteq Named(thread[t]), Shaped(r),
           r.pc = "submit" => r.fence = Null, r.pc # "push", thread[t].pc # "push"
    PROVE  LegacyInv'
<1>0. LegacyType /\ CallsInv /\ ValuesInv
  BY DEF LegacyInv
<1>1. ~destroyed /\ CallSound(thread[t]) /\ \A u \in Threads : u # t => Apart(thread[t], thread[u])
  BY <1>0 DEF CallsInv, Working
<1>2. Working(r) /\ ~Idles(r) /\ ~Sweeps(r) /\ ~Idles(thread[t]) /\ ~Sweeps(thread[t])
  BY DEF CallRecords, Working, Idles, Sweeps
<1>3. FenceOf(r) = FenceOf(thread[t]) /\ QueuesOf(r) = QueuesOf(thread[t]) /\ Owed(r) = Owed(thread[t])
  BY <1>2 DEF FenceOf, QueuesOf, Owed
<1>4. CallSound(r)
  BY <1>1, <1>2 DEF CallSound
<1>5. \A u \in Threads : u # t => Apart(r, thread[u])
  BY <1>1, <1>3 DEF Apart
<1>6. issued \subseteq Pairs /\ Owed(r) \subseteq issued
  BY <1>0, <1>3 DEF LegacyType, ValuesInv
<1>7. r \in AllCalls
  BY DEF AllCalls
<1>. QED  BY <1>1, <1>3, <1>4, <1>5, <1>6, <1>7, Walks

LEMMA LooksUp ==
    ASSUME LegacyInv, NEW t \in Threads, Legacy!LookUp(t) PROVE LegacyInv'
<1>0. LegacyType /\ CallsInv
  BY DEF LegacyInv
<1>1. /\ ~Legacy!InCall(t) /\ ~destroyed
      /\ state' = state /\ fence' = fence /\ pool' = pool /\ gpu' = gpu /\ issued' = issued /\ finished' = finished
      /\ hosted' = hosted /\ fenced' = fenced /\ destroyed' = destroyed
  BY DEF Legacy!LookUp, Legacy!histories
<1>2. PICK l \in Lookups :
          /\ \A i \in DOMAIN l.targets : l.targets[i][1] \in Legacy!Alive
          /\ Legacy!Goes(t, Legacy!Call(Null, l.targets, l.any, TRUE, <<>>, <<>>, FALSE, "return"))
  BY DEF Legacy!LookUp
<1>. DEFINE r == Legacy!Call(Null, l.targets, l.any, TRUE, <<>>, <<>>, FALSE, "return")
<1>3. l.targets \in Seq(Pairs) /\ l.targets # <<>> /\ l.any \in BOOLEAN
  BY LegacyAssumption
<1>4. /\ r \in CallRecords
      /\ r.pc = "look" /\ r.queue = Null /\ r.targets = l.targets /\ r.at = 1 /\ r.waits = <<>> /\ r.signals = <<>>
      /\ r.fence = Null /\ r.then = "return"
  BY <1>3, NullIsNone DEF Legacy!Call, CallRecords
<1>. HIDE DEF r
<1>5. Elements(<<>>) = {}
  BY DEF Elements
<1>6. Working(r) /\ QueuesOf(r) = {} /\ Owed(r) = {} /\ FenceOf(r) = Null /\ Named(r) = Elements(l.targets)
  BY <1>4, <1>5 DEF Working, Idles, Sweeps, QueuesOf, Owed, FenceOf, Named
<1>7. Shaped(r)
  <2>1. Len(l.targets) \in Nat /\ 1 \in 1 .. Len(l.targets)
    BY <1>3
  <2>. QED  BY <1>4, <2>1 DEF Shaped
<1>8. CallSound(r)
  <2>1. \A p \in Elements(l.targets) : state[p[1]] # Null
    BY <1>2, <1>3 DEF Elements, Legacy!Alive
  <2>2. ~Sweeps(r)
    BY <1>4 DEF Sweeps
  <2>. QED  BY <1>6, <1>7, <2>1, <2>2 DEF CallSound
<1>9. \A u \in Threads : Apart(r, thread[u])
  BY <1>6 DEF Apart
<1>10. thread[t] = Legacy!Idle /\ FenceOf(thread[t]) = Null /\ Owed(thread[t]) = {} /\ thread[t].pc # "push"
  BY <1>0, <1>1, Typed DEF Legacy!InCall, Legacy!Idle, FenceOf, Owed, Idles, Working
<1>11. issued \subseteq Pairs /\ r \in AllCalls
  BY <1>0, <1>4 DEF LegacyType, AllCalls
<1>. QED  BY <1>1, <1>2, <1>4, <1>6, <1>8, <1>9, <1>10, <1>11, Walks DEF r

\* The types of a call's parts.
LEMMA Parts ==
    ASSUME LegacyInv, NEW t \in Threads, Working(thread[t])
    PROVE  LET c == thread[t]
           IN  /\ LegacyType /\ ~destroyed /\ c \in CallRecords /\ Shaped(c)
               /\ \A p \in Named(c) : p \in Pairs /\ p[1] \in Semaphores /\ state[p[1]] # Null
               /\ \A i \in 1 .. Len(c.targets) : c.targets[i] \in Named(c)
<1>1. LegacyType /\ CallsInv
  BY DEF LegacyInv
<1>2. ~destroyed /\ thread[t] \in CallRecords /\ Shaped(thread[t]) /\ \A p \in Named(thread[t]) : state[p[1]] # Null
  BY <1>1, Typed DEF CallsInv, CallSound, Working
<1>3. Named(thread[t]) \subseteq Pairs
  BY <1>2, ElementsOf DEF CallRecords, Named
<1>4. \A i \in 1 .. Len(thread[t].targets) : thread[t].targets[i] \in Named(thread[t])
  BY DEF Named, Elements
<1>. QED  BY <1>1, <1>2, <1>3, <1>4 DEF Pairs

LEMMA Altered ==
    ASSUME NEW c \in CallRecords, NEW n \in Nat \ {0}
    PROVE  /\ [c EXCEPT !.entry = n] \in CallRecords
           /\ [c EXCEPT !.pc = "check", !.entry = n] \in CallRecords
<1>1. [c EXCEPT !.pc = "check"] \in CallRecords
  BY DEF CallRecords
<1>2. [[c EXCEPT !.pc = "check"] EXCEPT !.entry = n] \in CallRecords
  BY <1>1 DEF CallRecords
<1>3. [c EXCEPT !.pc = "check", !.entry = n] = [[c EXCEPT !.pc = "check"] EXCEPT !.entry = n]
  OBVIOUS
<1>4. [c EXCEPT !.entry = n] \in CallRecords
  BY DEF CallRecords
<1>. QED  BY <1>2, <1>3, <1>4

LEMMA NextEntry == ASSUME NEW c \in CallRecords PROVE [c EXCEPT !.entry = c.entry + 1] \in CallRecords
<1>1. c.entry \in Nat \ {0}
  BY DEF CallRecords
<1>2. c.entry + 1 \in Nat \ {0}
  BY <1>1
<1>. QED  BY <1>2, Altered

LEMMA LooksOn ==
    ASSUME LegacyInv, NEW t \in Threads, Legacy!Look(t),
           ~state[thread[t].targets[thread[t].at][1]].error
    PROVE  LegacyInv'
<1>. DEFINE c == thread[t]
            r == [c EXCEPT !.pc = "check", !.entry = 1]
<1>1. /\ c.pc = "look" /\ Legacy!Goes(t, r)
      /\ state' = state /\ fence' = fence /\ pool' = pool /\ gpu' = gpu /\ issued' = issued /\ finished' = finished
      /\ hosted' = hosted /\ fenced' = fenced /\ destroyed' = destroyed
  BY DEF Legacy!Look
<1>2. Working(c)
  BY <1>1 DEF Working, Idles, Sweeps
<1>3. c \in CallRecords /\ Shaped(c)
  BY <1>2, Parts
<1>. HIDE DEF c
<1>4. /\ r.pc = "check" /\ r.queue = c.queue /\ r.signals = c.signals /\ r.fence = c.fence
      /\ r.targets = c.targets /\ r.at = c.at /\ r.waits = c.waits /\ r.then = c.then
  BY <1>3 DEF CallRecords
<1>7. r \in CallRecords
  <2>1. 1 \in Nat \ {0}
    OBVIOUS
  <2>. HIDE DEF CallRecords
  <2>. QED  BY <1>3, <2>1, Altered, Zenon
<1>. HIDE DEF r
<1>5. Shaped(r)
  BY <1>1, <1>3, <1>4 DEF Shaped
<1>6. Named(r) \subseteq Named(c)
  BY <1>4 DEF Named
<1>. QED  BY <1>1, <1>2, <1>4, <1>5, <1>6, <1>7, GoesOn DEF c

\* The entry that a call looks at.
EntryOf(c) == state[c.targets[c.at][1]].pending[c.entry]

LEMMA ChecksEntryOn ==
    ASSUME LegacyInv, NEW t \in Threads, Legacy!CheckEntry(t),
           fence[EntryOf(thread[t]).fence] # "signaled"
    PROVE  LegacyInv'
<1>. DEFINE c == thread[t]
            r == [c EXCEPT !.entry = c.entry + 1]
<1>1. /\ c.pc = "check" /\ Legacy!Goes(t, r)
      /\ state' = state /\ fence' = fence /\ pool' = pool /\ gpu' = gpu /\ issued' = issued /\ finished' = finished
      /\ hosted' = hosted /\ fenced' = fenced /\ destroyed' = destroyed
  BY DEF Legacy!CheckEntry, Legacy!histories, EntryOf
<1>2. Working(c)
  BY <1>1 DEF Working, Idles, Sweeps
<1>3. c \in CallRecords /\ Shaped(c)
  BY <1>2, Parts
<1>. HIDE DEF c
<1>4. /\ r.pc = "check" /\ r.queue = c.queue /\ r.signals = c.signals /\ r.fence = c.fence
      /\ r.targets = c.targets /\ r.at = c.at /\ r.waits = c.waits /\ r.then = c.then
  BY <1>1, <1>3 DEF CallRecords
<1>7. r \in CallRecords
  BY <1>3, NextEntry
<1>. HIDE DEF r
<1>5. Shaped(r)
  BY <1>1, <1>3, <1>4 DEF Shaped
<1>6. Named(r) \subseteq Named(c)
  BY <1>4 DEF Named
<1>. QED  BY <1>1, <1>2, <1>4, <1>5, <1>6, <1>7, GoesOn DEF c

CallPcs == {"look", "check", "decide", "fence", "submit", "push"}

LEMMA Turned ==
    ASSUME NEW c \in CallRecords, NEW pc \in CallPcs, NEW at \in Nat, NEW met \in BOOLEAN
    PROVE  /\ [c EXCEPT !.pc = pc] \in CallRecords
           /\ [c EXCEPT !.pc = pc, !.met = met] \in CallRecords
           /\ [c EXCEPT !.pc = pc, !.at = at, !.met = met] \in CallRecords
<1>1. [c EXCEPT !.pc = pc] \in CallRecords
  BY DEF CallRecords, CallPcs
<1>2. [[c EXCEPT !.pc = pc] EXCEPT !.at = at] \in CallRecords
  BY <1>1 DEF CallRecords
<1>3. [[[c EXCEPT !.pc = pc] EXCEPT !.at = at] EXCEPT !.met = met] \in CallRecords
  BY <1>2 DEF CallRecords
<1>4. [c EXCEPT !.pc = pc, !.at = at, !.met = met] = [[[c EXCEPT !.pc = pc] EXCEPT !.at = at] EXCEPT !.met = met]
  OBVIOUS
<1>5. [[c EXCEPT !.pc = pc] EXCEPT !.met = met] \in CallRecords
  BY <1>1 DEF CallRecords
<1>6. [c EXCEPT !.pc = pc, !.met = met] = [[c EXCEPT !.pc = pc] EXCEPT !.met = met]
  OBVIOUS
<1>. QED  BY <1>1, <1>3, <1>4, <1>5, <1>6

LEMMA ChecksEnd ==
    ASSUME LegacyInv, NEW t \in Threads, Legacy!CheckEnds(t) PROVE LegacyInv'
<1>. DEFINE c == thread[t]
            last == c.at = Len(c.targets)
            reached == state[c.targets[c.at][1]].counter >= c.targets[c.at][2]
            pc == IF last THEN "decide" ELSE "look"
            at == IF last THEN 1 ELSE c.at + 1
            met == IF c.any THEN c.met \/ reached ELSE c.met /\ reached
            r == [c EXCEPT !.pc = pc, !.at = at, !.met = met]
<1>1. /\ c.pc = "check"
      /\ state' = state /\ fence' = fence /\ pool' = pool /\ gpu' = gpu /\ issued' = issued /\ finished' = finished
      /\ hosted' = hosted /\ fenced' = fenced /\ destroyed' = destroyed
  BY DEF Legacy!CheckEnds, Legacy!histories
<1>2. Legacy!Goes(t, r)
  BY DEF Legacy!CheckEnds
<1>3. Working(c)
  BY <1>1 DEF Working, Idles, Sweeps
<1>4. LegacyType /\ c \in CallRecords /\ Shaped(c)
  BY <1>3, Parts
<1>5. c.targets \in Seq(Pairs) /\ c.at \in 1 .. Len(c.targets)
  BY <1>1, <1>4 DEF CallRecords, Shaped
<1>6. pc \in CallPcs /\ at \in Nat
  BY <1>5 DEF CallPcs
<1>7. met \in BOOLEAN
  <2>1. c.met \in BOOLEAN
    BY <1>4 DEF CallRecords
  <2>2. reached \in BOOLEAN
    OBVIOUS
  <2>. QED  BY <2>1, <2>2
<1>8. pc = "decide" => at = 1 /\ c.targets # <<>>
  BY <1>5
<1>9. pc = "look" => at \in 1 .. Len(c.targets)
  BY <1>5
<1>10. pc \in {"decide", "look"}
  OBVIOUS
<1>. HIDE DEF c, pc, at, met
<1>11. /\ r.pc = pc /\ r.queue = c.queue /\ r.signals = c.signals /\ r.fence = c.fence
       /\ r.targets = c.targets /\ r.at = at /\ r.waits = c.waits /\ r.then = c.then
  BY <1>4 DEF CallRecords
<1>12. r \in CallRecords
  BY <1>4, <1>6, <1>7, Turned
<1>. HIDE DEF r
<1>13. Shaped(r)
  BY <1>1, <1>4, <1>8, <1>9, <1>10, <1>11 DEF Shaped
<1>14. Named(r) \subseteq Named(c)
  BY <1>11 DEF Named
<1>. QED  BY <1>1, <1>2, <1>3, <1>10, <1>11, <1>12, <1>13, <1>14, GoesOn DEF c

LEMMA NextWait ==
    ASSUME NEW c \in CallRecords, c.waits # <<>>, NEW r,
           r = [c EXCEPT !.pc = "look", !.met = TRUE, !.targets = <<Head(c.waits)>>, !.waits = Tail(c.waits)]
    PROVE  /\ r \in CallRecords
           /\ r.pc = "look" /\ r.queue = c.queue /\ r.signals = c.signals /\ r.fence = c.fence /\ r.at = c.at
           /\ r.then = c.then /\ r.targets = <<Head(c.waits)>>
           /\ Named(r) \subseteq Named(c)
<1>1. c.waits \in Seq(Pairs)
  BY DEF CallRecords
<1>2. Head(c.waits) \in Pairs /\ Tail(c.waits) \in Seq(Pairs) /\ <<Head(c.waits)>> \in Seq(Pairs)
  BY <1>1
<1>3. [c EXCEPT !.pc = "look", !.met = TRUE] \in CallRecords
  <2>1. "look" \in CallPcs /\ TRUE \in BOOLEAN /\ 0 \in Nat
    BY DEF CallPcs
  <2>. QED  BY <2>1, Turned, Zenon
<1>4. [[c EXCEPT !.pc = "look", !.met = TRUE] EXCEPT !.targets = <<Head(c.waits)>>] \in CallRecords
  BY <1>2, <1>3 DEF CallRecords
<1>5. [[[c EXCEPT !.pc = "look", !.met = TRUE] EXCEPT !.targets = <<Head(c.waits)>>]
          EXCEPT !.waits = Tail(c.waits)] \in CallRecords
  BY <1>2, <1>4 DEF CallRecords
<1>6. r = [[[c EXCEPT !.pc = "look", !.met = TRUE] EXCEPT !.targets = <<Head(c.waits)>>]
          EXCEPT !.waits = Tail(c.waits)]
  OBVIOUS
<1>7. r \in CallRecords
  BY <1>5, <1>6, Zenon
<1>8. /\ r.pc = "look" /\ r.queue = c.queue /\ r.signals = c.signals /\ r.fence = c.fence /\ r.at = c.at
      /\ r.then = c.then /\ r.targets = <<Head(c.waits)>> /\ r.waits = Tail(c.waits)
  BY DEF CallRecords
<1>9. Elements(c.waits) = {Head(c.waits)} \cup Elements(Tail(c.waits))
  BY <1>1, ElementsOf
<1>10. Elements(<<Head(c.waits)>>) = {Head(c.waits)}
  BY DEF Elements
<1>11. Named(r) \subseteq Named(c)
  BY <1>8, <1>9, <1>10 DEF Named
<1>. QED  BY <1>7, <1>8, <1>11

LEMMA DecidesOn ==
    ASSUME LegacyInv, NEW t \in Threads, Legacy!Decide(t), ~Legacy!Returns(t) PROVE LegacyInv'
<1>. DEFINE c == thread[t]
            fencing == [c EXCEPT !.pc = "fence"]
            waiting == [c EXCEPT !.pc = "look", !.met = TRUE, !.targets = <<Head(c.waits)>>, !.waits = Tail(c.waits)]
            again == [c EXCEPT !.pc = "look", !.met = ~c.any]
<1>1. /\ c.pc = "decide" /\ gpu' = gpu /\ issued' = issued /\ finished' = finished
      /\ hosted' = hosted /\ fenced' = fenced /\ destroyed' = destroyed
  BY DEF Legacy!Decide, Legacy!histories
<1>2. /\ state' = state /\ fence' = fence /\ pool' = pool
      /\ \/ c.then # "return" /\ c.waits = <<>> /\ Legacy!Goes(t, fencing)
         \/ c.then # "return" /\ c.waits # <<>> /\ Legacy!Goes(t, waiting)
         \/ Legacy!Goes(t, again)
  BY Zenon DEF Legacy!Decide
<1>3. Working(c)
  BY <1>1 DEF Working, Idles, Sweeps
<1>4. LegacyType /\ c \in CallRecords /\ Shaped(c)
  BY <1>3, Parts
<1>5. c.targets \in Seq(Pairs) /\ c.targets # <<>> /\ c.at = 1 /\ c.fence = Null /\ c.any \in BOOLEAN
  BY <1>1, <1>4 DEF CallRecords, Shaped
<1>6. 1 \in 1 .. Len(c.targets)
  BY <1>5
<1>. HIDE DEF c
<1>7. CASE c.then # "return" /\ c.waits = <<>> /\ Legacy!Goes(t, fencing)
  <2>1. /\ fencing.pc = "fence" /\ fencing.queue = c.queue /\ fencing.signals = c.signals
        /\ fencing.fence = c.fence /\ fencing.then = c.then /\ Named(fencing) = Named(c)
    BY <1>4 DEF CallRecords, Named
  <2>2. fencing \in CallRecords
    BY <1>4 DEF CallRecords
  <2>3. Shaped(fencing)
    BY <1>4, <1>5, <1>7, <2>1 DEF Shaped
  <2>. QED  BY <1>1, <1>2, <1>3, <1>7, <2>1, <2>2, <2>3, GoesOn DEF c
<1>8. CASE c.then # "return" /\ c.waits # <<>> /\ Legacy!Goes(t, waiting)
  <2>. DEFINE w == waiting
  <2>1. /\ w \in CallRecords /\ w.pc = "look" /\ w.queue = c.queue /\ w.signals = c.signals /\ w.fence = c.fence
        /\ w.at = c.at /\ w.then = c.then /\ w.targets = <<Head(c.waits)>> /\ Named(w) \subseteq Named(c)
    BY <1>4, <1>8, NextWait
  <2>. HIDE DEF w
  <2>2. Shaped(w)
    BY <1>4, <1>5, <1>8, <2>1 DEF Shaped
  <2>3. Legacy!Goes(t, w)
    BY <1>8 DEF w
  <2>. QED  BY <1>1, <1>2, <1>3, <2>1, <2>2, <2>3, GoesOn DEF c
<1>9. CASE Legacy!Goes(t, again)
  <2>1. /\ again.pc = "look" /\ again.queue = c.queue /\ again.signals = c.signals /\ again.targets = c.targets
        /\ again.at = c.at /\ again.fence = c.fence /\ again.then = c.then /\ Named(again) = Named(c)
    BY <1>4 DEF CallRecords, Named
  <2>2. again \in CallRecords
    <3>1. "look" \in CallPcs /\ (~c.any) \in BOOLEAN /\ 0 \in Nat
      BY DEF CallPcs
    <3>. QED  BY <1>4, <3>1, Turned, Zenon
  <2>3. Shaped(again)
    BY <1>1, <1>4, <1>5, <1>6, <2>1 DEF Shaped
  <2>. QED  BY <1>1, <1>2, <1>3, <1>9, <2>1, <2>2, <2>3, GoesOn DEF c
<1>. QED  BY <1>2, <1>7, <1>8, <1>9

LEMMA GoesUnfenced ==
    ASSUME LegacyInv, NEW t \in Threads, thread[t].pc = "fence", thread[t].signals = <<>>,
           Legacy!Goes(t, [thread[t] EXCEPT !.pc = "submit"]),
           state' = state, fence' = fence, pool' = pool, gpu' = gpu, finished' = finished, hosted' = hosted,
           fenced' = fenced, destroyed' = destroyed, issued' = issued
    PROVE  LegacyInv'
<1>. DEFINE c == thread[t]
            r == [c EXCEPT !.pc = "submit"]
<1>1. Working(c)
  BY DEF Working, Idles, Sweeps
<1>2. c \in CallRecords /\ Shaped(c)
  BY <1>1, Parts
<1>3. c.fence = Null /\ c.then # "return"
  BY <1>2 DEF Shaped
<1>4. /\ r.pc = "submit" /\ r.queue = c.queue /\ r.signals = c.signals /\ r.fence = c.fence /\ r.then = c.then
      /\ Named(r) = Named(c)
  BY <1>2 DEF CallRecords, Named
<1>5. r \in CallRecords
  BY <1>2 DEF CallRecords
<1>6. Shaped(r)
  BY <1>2, <1>3, <1>4 DEF Shaped
<1>. HIDE DEF r
<1>. QED  BY <1>1, <1>3, <1>4, <1>5, <1>6, GoesOn DEF r

LEMMA Outside ==
    ASSUME LegacyInv, NEW t \in Threads, ~Legacy!InCall(t)
    PROVE  thread[t] = Legacy!Idle /\ FenceOf(thread[t]) = Null /\ Owed(thread[t]) = {} /\ thread[t].pc = "idle"
<1>1. LegacyType
  BY DEF LegacyInv
<1>. QED  BY <1>1, Typed DEF Legacy!InCall, Legacy!Idle, FenceOf, Owed, Idles, Working

LEMMA NobodyOn ==
    ASSUME LegacyInv, NEW q, Legacy!OnQueue(q) = {}, NEW u \in Threads PROVE q \notin QueuesOf(thread[u])
BY DEF Legacy!OnQueue, Legacy!InCall, QueuesOf, Idles, Sweeps

LEMMA IdlesBegin ==
    ASSUME LegacyInv, NEW t \in Threads, Legacy!IdleBegins(t) PROVE LegacyInv'
<1>1. /\ ~Legacy!InCall(t) /\ ~destroyed
      /\ state' = state /\ fence' = fence /\ pool' = pool /\ gpu' = gpu /\ issued' = issued /\ finished' = finished
      /\ hosted' = hosted /\ fenced' = fenced /\ destroyed' = destroyed
  BY DEF Legacy!IdleBegins, Legacy!histories
<1>2. PICK Q \in {{q} : q \in Queues} \cup {Queues} :
          /\ \A q \in Q : gpu[q] = <<>> /\ Legacy!OnQueue(q) = {}
          /\ Legacy!Goes(t, [pc |-> "sweep", queue |-> Q, left |-> Legacy!Alive, fence |-> Null])
  BY DEF Legacy!IdleBegins
<1>. DEFINE r == [pc |-> "sweep", queue |-> Q, left |-> Legacy!Alive, fence |-> Null]
<1>3. Q \subseteq Queues
  OBVIOUS
<1>4. Legacy!Alive \subseteq Semaphores /\ \A s \in Legacy!Alive : state[s] # Null
  BY DEF Legacy!Alive
<1>5. /\ r \in SweepRecords /\ r.pc = "sweep" /\ r.queue = Q /\ r.left = Legacy!Alive /\ r.fence = Null
  BY <1>3, <1>4 DEF SweepRecords
<1>. HIDE DEF r
<1>6. Sweeps(r) /\ ~Working(r) /\ ~Idles(r) /\ QueuesOf(r) = Q /\ Owed(r) = {} /\ FenceOf(r) = Null
  BY <1>5 DEF Sweeps, Working, Idles, QueuesOf, Owed, FenceOf
<1>7. CallSound(r)
  BY <1>2, <1>4, <1>5, <1>6 DEF CallSound
<1>8. \A u \in Threads : Apart(r, thread[u])
  <2>1. \A u \in Threads : \A q \in Q : q \notin QueuesOf(thread[u])
    BY <1>2, NobodyOn
  <2>. QED  BY <1>6, <2>1 DEF Apart
<1>9. issued \subseteq Pairs /\ r \in AllCalls
  BY <1>5 DEF LegacyInv, LegacyType, AllCalls
<1>10. FenceOf(thread[t]) = Null /\ Owed(thread[t]) = {} /\ thread[t].pc # "push"
  BY <1>1, Outside
<1>. QED  BY <1>1, <1>2, <1>5, <1>6, <1>7, <1>8, <1>9, <1>10, Walks DEF r

LEMMA IdlesEnd ==
    ASSUME LegacyInv, NEW t \in Threads, Legacy!IdleEnds(t) PROVE LegacyInv'
<1>. DEFINE r == Legacy!Idle
<1>1. /\ thread[t].pc = "sweep" /\ Legacy!Goes(t, r)
      /\ state' = state /\ fence' = fence /\ pool' = pool /\ gpu' = gpu /\ issued' = issued /\ finished' = finished
      /\ hosted' = hosted /\ fenced' = fenced /\ destroyed' = destroyed
  BY DEF Legacy!IdleEnds, Legacy!histories
<1>2. LegacyType /\ CallsInv
  BY DEF LegacyInv
<1>3. ~destroyed /\ thread[t] \in SweepRecords /\ thread[t].pc # "push"
  BY <1>1, <1>2, Typed DEF CallsInv, Sweeps, Idles
<1>4. FenceOf(thread[t]) = Null /\ Owed(thread[t]) = {}
  BY <1>1, <1>3 DEF FenceOf, SweepRecords, Owed, Working, Idles, Sweeps
<1>5. r.pc = "idle" /\ r \in AllCalls
  BY DEF Legacy!Idle, AllCalls
<1>. HIDE DEF r
<1>6. ~Sweeps(r) /\ ~Working(r) /\ QueuesOf(r) = {} /\ Owed(r) = {} /\ FenceOf(r) = Null
  BY <1>5 DEF Sweeps, Working, Idles, QueuesOf, Owed, FenceOf
<1>7. CallSound(r) /\ \A u \in Threads : Apart(r, thread[u])
  BY <1>6 DEF CallSound, Apart
<1>8. issued \subseteq Pairs
  BY <1>2 DEF LegacyType
<1>. QED  BY <1>1, <1>3, <1>4, <1>5, <1>6, <1>7, <1>8, Walks

LEMMA SubmitsBegin ==
    ASSUME LegacyInv, NEW t \in Threads, NEW q \in Queues, Legacy!SubmitBegins(t, q) PROVE LegacyInv'
<1>1. /\ ~Legacy!InCall(t) /\ ~destroyed /\ Legacy!OnQueue(q) = {}
      /\ state' = state /\ fence' = fence /\ pool' = pool /\ gpu' = gpu /\ finished' = finished
      /\ hosted' = hosted /\ fenced' = fenced /\ destroyed' = destroyed
  BY DEF Legacy!SubmitBegins
<1>. DEFINE Base(c) == Legacy!Call(q, <<>>, FALSE, FALSE, c.waits, c.signals, c.app, "submit")
            Start(c) == IF c.waits = <<>> THEN [Base(c) EXCEPT !.pc = "fence"]
                        ELSE [Base(c) EXCEPT !.targets = <<Head(c.waits)>>, !.waits = Tail(@)]
<1>2. PICK c \in Submissions :
          /\ \A p \in Legacy!ToSet(c.waits) \cup Legacy!ToSet(c.signals) : p[1] \in Legacy!Alive
          /\ \A p \in Legacy!ToSet(c.signals), o \in issued \cup hosted : o[1] = p[1] => o[2] < p[2]
          /\ Legacy!Goes(t, Start(c))
          /\ issued' = issued \cup Legacy!ToSet(c.signals)
  BY Zenon DEF Legacy!SubmitBegins
<1>3. c.waits \in Seq(Pairs) /\ c.signals \in Seq(Pairs) /\ c.app \in BOOLEAN
  BY LegacyAssumption
<1>. DEFINE b == Base(c)
            r == Start(c)
            W == Elements(c.waits)
            S == Elements(c.signals)
<1>4. Legacy!ToSet(c.waits) = W /\ Legacy!ToSet(c.signals) = S /\ W \subseteq Pairs /\ S \subseteq Pairs
  BY <1>3, ElementsOf
<1>5. /\ b \in CallRecords
      /\ b.pc = "look" /\ b.queue = q /\ b.targets = <<>> /\ b.at = 1 /\ b.waits = c.waits /\ b.signals = c.signals
      /\ b.fence = Null /\ b.then = "submit"
  BY <1>3 DEF Legacy!Call, CallRecords
<1>6. Elements(<<>>) = {}
  BY DEF Elements
<1>. HIDE DEF Base
<1>7. /\ r \in CallRecords /\ Shaped(r) /\ r.pc \in {"look", "fence"} /\ r.queue = q /\ r.signals = c.signals
      /\ r.fence = Null /\ Named(r) \subseteq W \cup S
  <2>1. CASE c.waits = <<>>
    <3>1. r = [b EXCEPT !.pc = "fence"]
      BY <2>1
    <3>. HIDE DEF r, b
    <3>2. /\ r.pc = "fence" /\ r.queue = q /\ r.targets = <<>> /\ r.waits = c.waits /\ r.signals = c.signals
          /\ r.fence = Null /\ r.then = "submit" /\ r \in CallRecords
      BY <1>5, <3>1 DEF CallRecords
    <3>3. Named(r) \subseteq W \cup S
      BY <1>6, <3>2 DEF Named
    <3>. QED  BY <3>2, <3>3 DEF Shaped
  <2>2. CASE c.waits # <<>>
    <3>1. r = [b EXCEPT !.targets = <<Head(c.waits)>>, !.waits = Tail(c.waits)]
      BY <1>5, <2>2
    <3>. HIDE DEF r, b
    <3>2. /\ Head(c.waits) \in W /\ Tail(c.waits) \in Seq(Pairs) /\ W = {Head(c.waits)} \cup Elements(Tail(c.waits))
          /\ <<Head(c.waits)>> \in Seq(Pairs)
      BY <1>3, <2>2, ElementsOf
    <3>3. r \in CallRecords
      <4>1. [b EXCEPT !.targets = <<Head(c.waits)>>] \in CallRecords
        BY <1>5, <3>2 DEF CallRecords
      <4>2. [[b EXCEPT !.targets = <<Head(c.waits)>>] EXCEPT !.waits = Tail(c.waits)] \in CallRecords
        BY <3>2, <4>1 DEF CallRecords
      <4>3. r = [[b EXCEPT !.targets = <<Head(c.waits)>>] EXCEPT !.waits = Tail(c.waits)]
        BY <3>1
      <4>. QED  BY <4>2, <4>3, Zenon
    <3>4. /\ r.pc = "look" /\ r.queue = q /\ r.targets = <<Head(c.waits)>> /\ r.at = 1 /\ r.waits = Tail(c.waits)
          /\ r.signals = c.signals /\ r.fence = Null /\ r.then = "submit"
      BY <1>5, <3>1 DEF CallRecords
    <3>5. Elements(r.targets) = {Head(c.waits)}
      BY <3>4 DEF Elements
    <3>6. Named(r) \subseteq W \cup S
      BY <3>2, <3>4, <3>5 DEF Named
    <3>. QED  BY <3>3, <3>4, <3>6 DEF Shaped
  <2>. QED  BY <2>1, <2>2
<1>. HIDE DEF r, b
<1>8. Working(r) /\ ~Sweeps(r) /\ QueuesOf(r) = {q} /\ Owed(r) = S /\ FenceOf(r) = Null
  BY <1>7, NullIsNone DEF Sweeps, Working, Idles, QueuesOf, Owed, FenceOf
<1>9. CallSound(r)
  <2>1. \A p \in W \cup S : state[p[1]] # Null
    BY <1>2, <1>4 DEF Legacy!Alive
  <2>. QED  BY <1>7, <1>8, <2>1 DEF CallSound
<1>10. LegacyType /\ ValuesInv
  BY DEF LegacyInv
<1>11. S \cap issued = {}
  <2>1. \A p \in S : p \in issued => p[2] < p[2]
    BY <1>2, <1>4
  <2>2. \A p \in S : p[2] \in Nat
    BY <1>4 DEF Pairs
  <2>. QED  BY <2>1, <2>2
<1>12. \A u \in Threads : Apart(r, thread[u])
  <2>1. \A u \in Threads : q \notin QueuesOf(thread[u])
    BY <1>1, NobodyOn
  <2>2. \A u \in Threads : Owed(thread[u]) \subseteq issued
    BY <1>10 DEF ValuesInv
  <2>. QED  BY <1>8, <1>11, <2>1, <2>2 DEF Apart
<1>13. FenceOf(thread[t]) = Null /\ Owed(thread[t]) = {} /\ thread[t].pc # "push"
  BY <1>1, Outside
<1>14. r \in AllCalls /\ issued' \subseteq Pairs /\ issued' = issued \cup S
  BY <1>2, <1>4, <1>7, <1>10 DEF AllCalls, LegacyType
<1>15. Legacy!Goes(t, r)
  BY <1>2 DEF r
<1>. QED  BY <1>1, <1>7, <1>8, <1>9, <1>11, <1>12, <1>13, <1>14, <1>15, Walks

-----------------------------------------------------------------------------
(* Steps that let fences go.                                                *)

LEMMA LetsGo ==
    ASSUME LegacyInv, ~destroyed, destroyed' = destroyed,
           gpu' = gpu, finished' = finished, hosted' = hosted, fenced' = fenced,
           NEW t \in Threads, NEW r \in AllCalls, NEW S \in [Semaphores -> States \cup {Null}],
           NEW dropped \in SUBSET Fences, IsFiniteSet(dropped), Legacy!Becomes(S, t, r, dropped),
           CallSound(r)', \A u \in Threads : u # t => Apart(r, thread[u]),
           \A s \in Semaphores : S[s] = Null <=> state[s] = Null,
           \A s \in Semaphores : state[s] # Null =>
               /\ Elements(S[s].pending) \subseteq Elements(state[s].pending)
               /\ state[s].counter <= S[s].counter
               /\ state[s].error => S[s].error
               /\ \A e \in Elements(state[s].pending) : e \in Elements(S[s].pending) \/
                      (e.value <= S[s].counter /\ fence[e.fence] = "signaled" /\ e.fence \in dropped)
               /\ S[s].counter = state[s].counter \/ <<s, S[s].counter>> \in finished,
           \A f \in dropped : Refers(state, thread, f),
           \A f \in dropped : fence[f] = "pending" =>
               \E s \in Semaphores : S[s] # Null /\ \E e \in Elements(S[s].pending) : e.fence = f,
           FenceOf(r) # Null => FenceOf(r) = FenceOf(thread[t]),
           FenceOf(thread[t]) # Null => FenceOf(thread[t]) = FenceOf(r) \/ FenceOf(thread[t]) \in dropped,
           issued' \subseteq Pairs, issued \ Owed(thread[t]) \subseteq issued', Owed(r) \subseteq issued',
           Owed(r) \cap (issued \ Owed(thread[t])) = {},
           r.pc \notin {"submit", "push"}, thread[t].pc = "push" => thread[t].signals = <<>>
    PROVE  LegacyInv'
<1>0. LegacyType /\ PoolInv
  BY DEF LegacyInv
<1>1. state' = S /\ thread' = [thread EXCEPT ![t] = r] /\ Legacy!Releases(state', thread', dropped)
  BY Zenon DEF Legacy!Becomes, Legacy!Goes
<1>2. \A u \in Threads : thread'[u] = IF u = t THEN r ELSE thread[u]
  BY <1>0, <1>1 DEF LegacyType
<1>3. thread' \in [Threads -> AllCalls] /\ state' \in [Semaphores -> States \cup {Null}]
  BY <1>0, <1>1 DEF LegacyType, AllCalls
<1>4. \A f \in Fences : f # Null
  BY NullIsNone
<1>5. ASSUME NEW f \in Fences, Refers(state', thread', f) PROVE Refers(state, thread, f)
  <2>1. CASE \E s \in Semaphores : state'[s] # Null /\ \E e \in Elements(state'[s].pending) : e.fence = f
    <3>1. PICK s \in Semaphores : S[s] # Null /\ \E e \in Elements(S[s].pending) : e.fence = f
      BY <1>1, <2>1
    <3>2. state[s] # Null /\ \E e \in Elements(state[s].pending) : e.fence = f
      BY <3>1
    <3>. QED  BY <3>2 DEF Refers
  <2>2. CASE \E u \in Threads : FenceOf(thread'[u]) = f
    <3>1. \E u \in Threads : FenceOf(thread[u]) = f
      BY <1>2, <1>4, <2>2
    <3>. QED  BY <3>1 DEF Refers
  <2>. QED  BY <1>5, <2>1, <2>2 DEF Refers
<1>6. ASSUME NEW f \in Fences, Refers(state, thread, f) PROVE f \in dropped \/ Refers(state', thread', f)
  <2>1. CASE \E s \in Semaphores : state[s] # Null /\ \E e \in Elements(state[s].pending) : e.fence = f
    <3>1. PICK s \in Semaphores : state[s] # Null /\ \E e \in Elements(state[s].pending) : e.fence = f
      BY <2>1
    <3>2. f \in dropped \/ (S[s] # Null /\ \E e \in Elements(S[s].pending) : e.fence = f)
      BY <3>1
    <3>. QED  BY <1>1, <3>2 DEF Refers
  <2>2. CASE \E u \in Threads : FenceOf(thread[u]) = f
    <3>1. PICK u \in Threads : FenceOf(thread[u]) = f
      BY <2>2
    <3>2. f \in dropped \/ FenceOf(thread'[u]) = f
      BY <1>2, <1>4, <3>1
    <3>. QED  BY <3>2 DEF Refers
  <2>. QED  BY <1>6, <2>1, <2>2 DEF Refers
<1>7. \A f \in dropped : fence[f] = "pending" => Refers(state', thread', f)
  BY <1>1 DEF Refers
<1>8. /\ fence' \in [Fences -> {"none", "reset", "pending", "signaled"}]
      /\ pool' \in Seq(Fences)
      /\ PoolInv'
      /\ \A f \in Fences : Refers(state', thread', f) \/ fence[f] = "pending" => fence'[f] = fence[f]
  BY <1>0, <1>1, <1>3, <1>5, <1>6, <1>7, Released
<1>9. /\ \A s \in Semaphores : state'[s] = Null <=> state[s] = Null
      /\ \A s \in Semaphores : state[s] # Null =>
               /\ Elements(state'[s].pending) \subseteq Elements(state[s].pending)
               /\ state[s].counter <= state'[s].counter
               /\ state[s].error => state'[s].error
               /\ \A e \in Elements(state[s].pending) : e \in Elements(state'[s].pending) \/
                      (e.value <= state'[s].counter /\ fence[e.fence] = "signaled")
               /\ state'[s].counter = state[s].counter \/ <<s, state'[s].counter>> \in finished
  BY <1>1
<1>10. \A f \in Fences : (Refers(state, thread, f) /\ Refers(state', thread', f)) \/ fence[f] = "pending"
                          => fence'[f] = fence[f]
  BY <1>8
<1>11. r.pc # "submit" /\ r.pc # "push"
  OBVIOUS
<1>. QED  BY <1>1, <1>3, <1>8, <1>9, <1>10, <1>11, StepOfCall

\* A call returns; semaphores may be marked as lost.
LEMMA Ends ==
    ASSUME LegacyInv, NEW t \in Threads, Working(thread[t]), destroyed' = destroyed,
           gpu' = gpu, finished' = finished, hosted' = hosted, fenced' = fenced,
           NEW S \in [Semaphores -> States \cup {Null}],
           Legacy!Becomes(S, t, Legacy!Idle, {thread[t].fence} \ {Null}),
           \A s \in Semaphores : S[s] = Null <=> state[s] = Null,
           \A s \in Semaphores : state[s] # Null =>
               /\ S[s].counter = state[s].counter /\ S[s].pending = state[s].pending
               /\ state[s].error => S[s].error,
           issued' \subseteq Pairs, issued \ Owed(thread[t]) \subseteq issued',
           thread[t].pc = "push" => thread[t].signals = <<>>
    PROVE  LegacyInv'
<1>. DEFINE c == thread[t]
            r == Legacy!Idle
            dropped == {c.fence} \ {Null}
<1>1. LegacyType /\ ~destroyed /\ c \in CallRecords /\ Shaped(c)
  BY Parts
<1>2. dropped \in SUBSET Fences /\ IsFiniteSet(dropped)
  <2>1. dropped \subseteq Fences
    BY <1>1 DEF CallRecords
  <2>2. IsFiniteSet({c.fence})
    BY FS_Singleton
  <2>3. IsFiniteSet(dropped)
    BY <2>2, FS_Subset
  <2>. QED  BY <2>1, <2>3
<1>3. r.pc = "idle" /\ r \in AllCalls
  BY DEF Legacy!Idle, AllCalls
<1>4. FenceOf(c) = c.fence
  BY DEF FenceOf, Working
<1>5. \A f \in dropped : f = c.fence /\ f # Null /\ Refers(state, thread, f)
  BY <1>4 DEF Refers
<1>6. ASSUME c.fence # Null, fence[c.fence] = "pending"
      PROVE  \E s \in Semaphores : S[s] # Null /\ \E e \in Elements(S[s].pending) : e.fence = c.fence
  <2>1. c.pc = "push"
    <3>1. c.pc = "submit" => fence[c.fence] = "reset"
      BY <1>6 DEF LegacyInv, TellsInv
    <3>. QED  BY <1>1, <1>6, <3>1 DEF Shaped, CallRecords
  <2>2. c.targets \in Seq(Pairs) /\ c.targets # <<>> /\ Elements(c.signals) = {}
    BY <1>1, <2>1 DEF CallRecords, Shaped, Elements
  <2>3. PICK p \in Elements(c.targets) : TRUE
    BY <2>2, ElementsOf
  <2>4. \E e \in Elements(state[p[1]].pending) : e.fence = c.fence /\ e.value = p[2]
    BY <1>6, <2>1, <2>2, <2>3 DEF LegacyInv, PushedInv
  <2>5. p \in Named(c)
    BY <2>3 DEF Named
  <2>6. p[1] \in Semaphores /\ state[p[1]] # Null
    BY <2>5, Parts
  <2>. QED  BY <2>4, <2>6
<1>. HIDE DEF r
<1>7. ~Sweeps(r) /\ ~Working(r) /\ QueuesOf(r) = {} /\ Owed(r) = {} /\ FenceOf(r) = Null
  BY <1>3 DEF Sweeps, Working, Idles, QueuesOf, Owed, FenceOf
<1>8. CallSound(r)' /\ \A u \in Threads : Apart(r, thread[u])
  BY <1>7 DEF CallSound, Apart
<1>9. \A s \in Semaphores : state[s] # Null => state[s].counter <= S[s].counter
  BY <1>1 DEF LegacyType, States
<1>10. Legacy!Becomes(S, t, r, dropped)
  BY DEF r
<1>11. \A f \in dropped : fence[f] = "pending" =>
               \E s \in Semaphores : S[s] # Null /\ \E e \in Elements(S[s].pending) : e.fence = f
  BY <1>6
<1>12. FenceOf(thread[t]) # Null => FenceOf(thread[t]) \in dropped
  BY <1>4
<1>. HIDE DEF dropped, c
<1>. QED  BY <1>1, <1>2, <1>3, <1>5, <1>7, <1>8, <1>9, <1>10, <1>11, <1>12, LetsGo

LEMMA FailsSound ==
    ASSUME LegacyInv, NEW t \in Threads, Working(thread[t]), thread[t].pc # "push", Legacy!Fails(t),
           destroyed' = destroyed, gpu' = gpu, finished' = finished, hosted' = hosted, fenced' = fenced
    PROVE  LegacyInv'
<1>1. LegacyType /\ thread[t] \in CallRecords
  BY Parts
<1>2. thread[t].signals \in Seq(Pairs)
  BY <1>1 DEF CallRecords
<1>3. Owed(thread[t]) = Elements(thread[t].signals) /\ Legacy!ToSet(thread[t].signals) = Elements(thread[t].signals)
  BY <1>2, ElementsOf DEF Owed
<1>4. issued' \subseteq Pairs /\ issued \ Owed(thread[t]) \subseteq issued'
  BY <1>1, <1>3 DEF Legacy!Fails, LegacyType
<1>5. Legacy!Becomes(state, t, Legacy!Idle, {thread[t].fence} \ {Null})
  BY DEF Legacy!Fails, Legacy!Returns
<1>6. state \in [Semaphores -> States \cup {Null}]
  BY <1>1 DEF LegacyType
<1>. QED  BY <1>4, <1>5, <1>6, Ends

LEMMA ReturnsSound ==
    ASSUME LegacyInv, NEW t \in Threads, Working(thread[t]), Legacy!Returns(t), issued' = issued,
           thread[t].pc = "push" => thread[t].signals = <<>>,
           destroyed' = destroyed, gpu' = gpu, finished' = finished, hosted' = hosted, fenced' = fenced
    PROVE  LegacyInv'
<1>1. LegacyType
  BY Parts
<1>2. state \in [Semaphores -> States \cup {Null}] /\ issued \subseteq Pairs
  BY <1>1 DEF LegacyType
<1>3. Legacy!Becomes(state, t, Legacy!Idle, {thread[t].fence} \ {Null})
  BY DEF Legacy!Returns
<1>. QED  BY <1>2, <1>3, Ends

\* States that differ in their error.
LEMMA ErrorsOf ==
    ASSUME LegacyType, NEW s \in Semaphores, state[s] # Null
    PROVE  LET x == [state[s] EXCEPT !.error = TRUE]
           IN  /\ x \in States /\ x # Null /\ x.error /\ x.counter = state[s].counter
               /\ x.pending = state[s].pending
<1>1. state[s] \in States
  BY DEF LegacyType
<1>2. [state[s] EXCEPT !.error = TRUE] \in States
  BY <1>1 DEF States
<1>3. /\ [state[s] EXCEPT !.error = TRUE].error = TRUE
      /\ [state[s] EXCEPT !.error = TRUE].counter = state[s].counter
      /\ [state[s] EXCEPT !.error = TRUE].pending = state[s].pending
  BY <1>1 DEF States
<1>. QED  BY <1>2, <1>3, NullIsNone

LEMMA ChecksFail ==
    ASSUME LegacyInv, NEW t \in Threads, Legacy!CheckFails(t) PROVE LegacyInv'
<1>. DEFINE c == thread[t]
            s == c.targets[c.at][1]
            S == [state EXCEPT ![s] = [state[s] EXCEPT !.error = TRUE]]
<1>1. /\ c.pc = "check" /\ gpu' = gpu /\ finished' = finished /\ hosted' = hosted /\ fenced' = fenced
      /\ destroyed' = destroyed /\ issued' = issued \ Legacy!ToSet(c.signals)
  BY DEF Legacy!CheckFails
<1>2. Legacy!Becomes([state EXCEPT ![s].error = TRUE], t, Legacy!Idle, {})
  BY DEF Legacy!CheckFails
<1>3. Working(c)
  BY <1>1 DEF Working, Idles, Sweeps
<1>4. LegacyType /\ c \in CallRecords /\ Shaped(c)
  BY <1>3, Parts
<1>5. c.fence = Null /\ c.at \in 1 .. Len(c.targets) /\ c.signals \in Seq(Pairs)
  BY <1>1, <1>4 DEF Shaped, CallRecords
<1>6. s \in Semaphores /\ state[s] # Null
  BY <1>3, <1>5, Parts
<1>7. issued' \subseteq Pairs /\ issued \ Owed(c) \subseteq issued'
  <2>1. Legacy!ToSet(c.signals) = Elements(c.signals) /\ Owed(c) = Elements(c.signals)
    BY <1>1, <1>3, <1>5, ElementsOf DEF Owed
  <2>. QED  BY <1>1, <1>4, <2>1 DEF LegacyType
<1>8. Legacy!Becomes(S, t, Legacy!Idle, {c.fence} \ {Null})
  <2>1. {c.fence} \ {Null} = {}
    BY <1>5
  <2>. QED  BY <1>2, <2>1
<1>. DEFINE x == [state[s] EXCEPT !.error = TRUE]
<1>9. /\ x \in States /\ x # Null /\ x.error /\ x.counter = state[s].counter
      /\ x.pending = state[s].pending
  BY <1>4, <1>6, ErrorsOf
<1>10. S = [state EXCEPT ![s] = x]
  OBVIOUS
<1>. HIDE DEF S, x, s
<1>11. \A o \in Semaphores : S[o] = IF o = s THEN x ELSE state[o]
  BY <1>4, <1>10 DEF LegacyType
<1>12. /\ S \in [Semaphores -> States \cup {Null}]
       /\ \A o \in Semaphores : S[o] = Null <=> state[o] = Null
       /\ \A o \in Semaphores : state[o] # Null =>
               /\ S[o].counter = state[o].counter /\ S[o].pending = state[o].pending
               /\ state[o].error => S[o].error
  BY <1>4, <1>6, <1>9, <1>10, <1>11 DEF LegacyType
<1>13. c.pc # "push"
  BY <1>1
<1>. QED  BY <1>1, <1>3, <1>7, <1>8, <1>12, <1>13, Ends

LEMMA PushesLost ==
    ASSUME LegacyInv, NEW t \in Threads, thread[t].pc = "push", thread[t].signals = <<>>,
           Legacy!Becomes([s \in Semaphores |-> IF s \in Legacy!Alive THEN [state[s] EXCEPT !.error = TRUE] ELSE Null],
                          t, Legacy!Idle, {thread[t].fence}),
           destroyed' = destroyed, gpu' = gpu, finished' = finished, hosted' = hosted, fenced' = fenced, issued' = issued
    PROVE  LegacyInv'
<1>. DEFINE c == thread[t]
            S == [s \in Semaphores |-> IF s \in Legacy!Alive THEN [state[s] EXCEPT !.error = TRUE] ELSE Null]
<1>1. Working(c)
  BY DEF Working, Idles, Sweeps
<1>2. LegacyType /\ Shaped(c)
  BY <1>1, Parts
<1>3. {c.fence} \ {Null} = {c.fence}
  BY <1>2 DEF Shaped
<1>4. Legacy!Becomes(S, t, Legacy!Idle, {c.fence} \ {Null})
  BY <1>3
<1>5. ASSUME NEW s \in Semaphores, state[s] = Null PROVE S[s] = Null
  BY <1>5 DEF Legacy!Alive
<1>6. ASSUME NEW s \in Semaphores, state[s] # Null
      PROVE  /\ S[s] \in States /\ S[s] # Null /\ S[s].error /\ S[s].counter = state[s].counter
             /\ S[s].pending = state[s].pending
  <2>1. S[s] = [state[s] EXCEPT !.error = TRUE]
    BY <1>6 DEF Legacy!Alive
  <2>. QED  BY <1>2, <1>6, <2>1, ErrorsOf
<1>7. S \in [Semaphores -> States \cup {Null}]
  <2>1. \A s \in Semaphores : S[s] \in States \cup {Null}
    BY <1>5, <1>6
  <2>. QED  BY <2>1
<1>8. issued \subseteq Pairs
  BY <1>2 DEF LegacyType
<1>. HIDE DEF S
<1>. QED  BY <1>1, <1>4, <1>5, <1>6, <1>7, <1>8, Ends

LEMMA Higher ==
    ASSUME NEW a \in Nat, NEW b \in Nat
    PROVE  LET h == Legacy!Higher(a, b) IN h \in {a, b} /\ a <= h /\ b <= h /\ h \in Nat
BY DEF Legacy!Higher

LEMMA ChecksSignaled ==
    ASSUME LegacyInv, NEW t \in Threads, Legacy!CheckEntry(t), fence[EntryOf(thread[t]).fence] = "signaled"
    PROVE  LegacyInv'
<1>. DEFINE c == thread[t]
            s == c.targets[c.at][1]
            i == c.entry
            q == state[s].pending
            e == q[i]
            h == Legacy!Higher(state[s].counter, e.value)
            x == [state[s] EXCEPT !.counter = h, !.pending = Legacy!RemoveAt(q, i)]
            S == [state EXCEPT ![s] = x]
<1>1. /\ c.pc = "check" /\ gpu' = gpu /\ finished' = finished /\ hosted' = hosted /\ fenced' = fenced
      /\ destroyed' = destroyed /\ issued' = issued /\ i <= Len(q)
  BY DEF Legacy!CheckEntry, Legacy!histories
<1>2. Legacy!Becomes([state EXCEPT ![s].counter = Legacy!Higher(@, e.value), ![s].pending = Legacy!RemoveAt(@, i)],
                     t, c, {e.fence})
  BY DEF Legacy!CheckEntry, EntryOf
<1>3. Working(c)
  BY <1>1 DEF Working, Idles, Sweeps
<1>4. LegacyType /\ ~destroyed /\ c \in CallRecords /\ Shaped(c)
  BY <1>3, Parts
<1>5. c.at \in 1 .. Len(c.targets) /\ c.entry \in Nat \ {0}
  BY <1>1, <1>4 DEF Shaped, CallRecords
<1>6. s \in Semaphores /\ state[s] # Null
  BY <1>3, <1>5, Parts
<1>. HIDE DEF c, s
<1>7. state[s] \in States /\ q \in Seq(Entries) /\ state[s].counter \in Nat
  BY <1>4, <1>6, PendingOf DEF States
<1>8. i \in 1 .. Len(q)
  <2>. HIDE DEF q
  <2>1. Len(q) \in Nat
    BY <1>7
  <2>2. i \in Nat \ {0} /\ i <= Len(q)
    BY <1>1, <1>5
  <2>. HIDE DEF i
  <2>. QED  BY <2>1, <2>2
<1>9. e \in Elements(q) /\ e.value \in Nat /\ e.fence \in Fences
  <2>. HIDE DEF i, q
  <2>1. e \in Entries
    BY <1>7, <1>8
  <2>2. e \in Elements(q)
    BY <1>8 DEF Elements
  <2>. QED  BY <2>1, <2>2 DEF Entries
<1>10. /\ Legacy!RemoveAt(q, i) \in Seq(Entries)
       /\ Elements(Legacy!RemoveAt(q, i)) \subseteq Elements(q)
       /\ Elements(q) \subseteq Elements(Legacy!RemoveAt(q, i)) \cup {e}
  BY <1>7, <1>8, Removed
<1>11. S = [state EXCEPT ![s].counter = Legacy!Higher(@, e.value), ![s].pending = Legacy!RemoveAt(@, i)]
  BY <1>4, <1>6, <1>7 DEF LegacyType, States
<1>12. Legacy!Becomes(S, t, c, {e.fence})
  BY <1>2, <1>11
<1>13. <<s, e.value>> \in finished
  <2>2. fence[e.fence] = "signaled"
    BY DEF c, s, EntryOf
  <2>3. Tells(fence, finished, gpu, e.fence, e.queue, <<s, e.value>>)
    BY <1>6, <1>9 DEF LegacyInv, TellsInv
  <2>. QED  BY <2>2, <2>3 DEF Tells
<1>14. fence[e.fence] = "signaled"
  BY DEF c, s, EntryOf
<1>15. h \in {state[s].counter, e.value} /\ state[s].counter <= h /\ e.value <= h /\ h \in Nat
  BY <1>7, <1>9, Higher
<1>. HIDE DEF h, i
<1>16. x \in States /\ x # Null /\ x.counter = h /\ x.pending = Legacy!RemoveAt(q, i) /\ x.error = state[s].error
  <2>1. [[state[s] EXCEPT !.counter = h] EXCEPT !.pending = Legacy!RemoveAt(q, i)] \in States
    BY <1>7, <1>10, <1>15 DEF States
  <2>2. x = [[state[s] EXCEPT !.counter = h] EXCEPT !.pending = Legacy!RemoveAt(q, i)]
    OBVIOUS
  <2>3. x.counter = h /\ x.pending = Legacy!RemoveAt(q, i) /\ x.error = state[s].error
    BY <1>7 DEF States
  <2>4. x \in States
    BY <2>1, <2>2, Zenon
  <2>. QED  BY <2>3, <2>4, NullIsNone
<1>. HIDE DEF x
<1>17. \A o \in Semaphores : S[o] = IF o = s THEN x ELSE state[o]
  BY <1>4 DEF LegacyType
<1>18. S \in [Semaphores -> States \cup {Null}]
  BY <1>4, <1>16 DEF LegacyType
<1>19. \A o \in Semaphores : S[o] = Null <=> state[o] = Null
  BY <1>6, <1>16, <1>17
<1>. HIDE DEF S
<1>20. ASSUME NEW o \in Semaphores, state[o] # Null
       PROVE  /\ Elements(S[o].pending) \subseteq Elements(state[o].pending)
              /\ state[o].counter <= S[o].counter
              /\ state[o].error => S[o].error
              /\ \A d \in Elements(state[o].pending) : d \in Elements(S[o].pending) \/
                     (d.value <= S[o].counter /\ fence[d.fence] = "signaled" /\ d.fence \in {e.fence})
              /\ S[o].counter = state[o].counter \/ <<o, S[o].counter>> \in finished
  <2>1. CASE o = s
    BY <1>10, <1>13, <1>14, <1>15, <1>16, <1>17, <2>1
  <2>2. CASE o # s
    <3>1. state[o].counter \in Nat
      BY <1>4, <1>20 DEF LegacyType, States
    <3>2. S[o] = state[o]
      BY <1>17, <2>2
    <3>. HIDE DEF e, q
    <3>. QED  BY <3>1, <3>2
  <2>. QED  BY <2>1, <2>2
<1>21. PICK r \in CallRecords : r = c
  BY <1>4
<1>22. CallSound(r) /\ \A u \in Threads : u # t => Apart(r, thread[u])
  BY <1>21 DEF LegacyInv, CallsInv, c
<1>23. CallSound(r)'
  <2>1. state' = S
    BY <1>12, Zenon DEF Legacy!Becomes
  <2>2. ~Sweeps(r)
    BY <1>3, <1>21 DEF Working
  <2>3. \A p \in Named(r) : S[p[1]] # Null
    BY <1>3, <1>19, <1>21, Parts DEF c
  <2>4. Shaped(r)
    BY <1>4, <1>21
  <2>. QED  BY <2>1, <2>2, <2>3, <2>4 DEF CallSound
<1>24. issued \subseteq Pairs /\ Owed(r) \subseteq issued /\ r \in AllCalls
  BY <1>4, <1>21 DEF LegacyInv, LegacyType, ValuesInv, AllCalls, c
<1>25. {e.fence} \in SUBSET Fences /\ IsFiniteSet({e.fence})
  BY <1>9, FS_Singleton
<1>26. \A f \in {e.fence} : Refers(state, thread, f) /\ fence[f] # "pending"
  BY <1>6, <1>9, <1>14 DEF Refers
<1>27. FenceOf(r) = FenceOf(thread[t]) /\ Owed(r) = Owed(thread[t])
  BY <1>21 DEF c
<1>28. r.pc \notin {"submit", "push"} /\ thread[t].pc # "push"
  BY <1>1, <1>21 DEF c
<1>29. Legacy!Becomes(S, t, r, {e.fence})
  BY <1>12, <1>21
<1>. HIDE DEF e, q
<1>. QED  BY <1>1, <1>4, <1>18, <1>19, <1>20, <1>22, <1>23, <1>24, <1>25, <1>26, <1>27, <1>28, <1>29, LetsGo

LEMMA FewFences ==
    ASSUME NEW q \in Seq(Entries)
    PROVE  {e.fence : e \in Elements(q)} \in SUBSET Fences /\ IsFiniteSet({e.fence : e \in Elements(q)})
<1>. DEFINE T == {e.fence : e \in Elements(q)}
            f == [i \in 1 .. Len(q) |-> q[i].fence]
<1>1. T \in SUBSET Fences
  <2>1. \A e \in Elements(q) : e \in Entries
    BY ElementsOf
  <2>. QED  BY <2>1 DEF Entries
<1>2. IsFiniteSet(1 .. Len(q))
  BY FS_Interval
<1>3. f \in Surjection(1 .. Len(q), T)
  BY DEF Surjection, Elements
<1>4. IsFiniteSet(T)
  <2>. HIDE DEF f, T
  <2>. QED  BY <1>2, <1>3, FS_Surjection
<1>. QED  BY <1>1, <1>4

LEMMA SweepsSound ==
    ASSUME LegacyInv, NEW t \in Threads, NEW s \in Semaphores, Legacy!Sweep(t, s) PROVE LegacyInv'
<1>. DEFINE c == thread[t]
            q == state[s].pending
            done == {e \in Legacy!ToSet(q) : e.queue \in c.queue}
            V == {e.value : e \in done}
            h == Legacy!Max({state[s].counter} \cup V)
            rest == Legacy!Others(q, c.queue)
            x == [state[s] EXCEPT !.counter = h, !.pending = rest]
            S == [state EXCEPT ![s] = x]
            dropped == {e.fence : e \in done}
<1>1. /\ c.pc = "sweep" /\ s \in c.left /\ gpu' = gpu /\ finished' = finished /\ hosted' = hosted /\ fenced' = fenced
      /\ destroyed' = destroyed /\ issued' = issued
  BY DEF Legacy!Sweep, Legacy!histories
<1>2. Legacy!Becomes([state EXCEPT
                          ![s].counter = Legacy!Max({@} \cup V), ![s].pending = Legacy!Others(@, c.queue)],
                     t, [c EXCEPT !.left = c.left \ {s}], dropped)
  BY DEF Legacy!Sweep
<1>3. LegacyType /\ CallsInv
  BY DEF LegacyInv
<1>4. c \in SweepRecords /\ ~destroyed /\ CallSound(c) /\ Sweeps(c)
  BY <1>1, <1>3, Typed DEF CallsInv, Sweeps, Idles
<1>5. state[s] # Null /\ \A o \in c.queue : gpu[o] = <<>>
  BY <1>1, <1>4 DEF CallSound
<1>6. state[s] \in States /\ q \in Seq(Entries) /\ state[s].counter \in Nat
  BY <1>3, <1>5, PendingOf DEF States
<1>7. Legacy!ToSet(q) = Elements(q) /\ done \subseteq Elements(q) /\ Elements(q) \subseteq Entries
  <2>. HIDE DEF q
  <2>. QED  BY <1>6, ElementsOf
<1>8. ASSUME NEW e \in done PROVE fence[e.fence] = "signaled" /\ <<s, e.value>> \in finished
  <2>1. Tells(fence, finished, gpu, e.fence, e.queue, <<s, e.value>>)
    BY <1>5, <1>7 DEF LegacyInv, TellsInv
  <2>2. gpu[e.queue] = <<>>
    BY <1>5
  <2>. QED  BY <2>1, <2>2 DEF Tells
<1>9. h \in {state[s].counter} \cup V /\ \A m \in {state[s].counter} \cup V : m <= h
  <2>. DEFINE vs == [i \in 1 .. Len(q) |-> q[i].value]
  <2>. HIDE DEF q
  <2>1. \A i \in 1 .. Len(q) : q[i] \in Entries
    BY <1>6
  <2>2. \A i \in 1 .. Len(q) : q[i].value \in Nat
    BY <2>1 DEF Entries
  <2>3. Len(q) \in Nat
    BY <1>6
  <2>4. vs \in Seq(Nat) /\ Len(vs) = Len(q)
    BY <2>2, <2>3
  <2>5. V \subseteq {vs[i] : i \in 1 .. Len(vs)}
    BY <1>7, <2>4 DEF Elements
  <2>. HIDE DEF vs, V
  <2>. QED  BY <1>6, <2>4, <2>5, MaxOf
<1>10. V \subseteq Nat /\ h \in Nat /\ state[s].counter <= h
  <2>1. \A e \in done : e.value \in Nat
    BY <1>7 DEF Entries
  <2>. QED  BY <1>6, <1>9, <2>1
<1>11. rest \in Seq(Entries) /\ Elements(rest) = {e \in Elements(q) : e.queue \notin c.queue}
  <2>. HIDE DEF q
  <2>. QED  BY <1>6, OthersOf
<1>12. S = [state EXCEPT ![s].counter = Legacy!Max({@} \cup V), ![s].pending = Legacy!Others(@, c.queue)]
  <2>. HIDE DEF V, c
  <2>. QED  BY <1>3, <1>6 DEF LegacyType, States
<1>. HIDE DEF h, rest
<1>13. x \in States /\ x # Null /\ x.counter = h /\ x.pending = rest /\ x.error = state[s].error
  <2>1. [[state[s] EXCEPT !.counter = h] EXCEPT !.pending = rest] \in States
    BY <1>6, <1>10, <1>11 DEF States
  <2>2. x = [[state[s] EXCEPT !.counter = h] EXCEPT !.pending = rest]
    OBVIOUS
  <2>3. x.counter = h /\ x.pending = rest /\ x.error = state[s].error
    BY <1>6 DEF States
  <2>4. x \in States
    BY <2>1, <2>2, Zenon
  <2>. QED  BY <2>3, <2>4, NullIsNone
<1>. HIDE DEF x
<1>14. \A o \in Semaphores : S[o] = IF o = s THEN x ELSE state[o]
  BY <1>3 DEF LegacyType
<1>15. S \in [Semaphores -> States \cup {Null}]
  BY <1>3, <1>13 DEF LegacyType
<1>16. \A o \in Semaphores : S[o] = Null <=> state[o] = Null
  BY <1>5, <1>13, <1>14
<1>17. Legacy!Becomes(S, t, [c EXCEPT !.left = c.left \ {s}], dropped)
  BY <1>2, <1>12
<1>. HIDE DEF S
<1>18. ASSUME NEW o \in Semaphores, state[o] # Null
       PROVE  /\ Elements(S[o].pending) \subseteq Elements(state[o].pending)
              /\ state[o].counter <= S[o].counter
              /\ state[o].error => S[o].error
              /\ \A e \in Elements(state[o].pending) : e \in Elements(S[o].pending) \/
                     (e.value <= S[o].counter /\ fence[e.fence] = "signaled" /\ e.fence \in dropped)
              /\ S[o].counter = state[o].counter \/ <<o, S[o].counter>> \in finished
  <2>1. CASE o = s
    <3>1. S[o] = x
      BY <1>14, <2>1
    <3>2. \A e \in Elements(q) : e \in Elements(rest) \/ e \in done
      BY <1>7, <1>11
    <3>3. \A e \in done : e.value <= h /\ fence[e.fence] = "signaled" /\ e.fence \in dropped
      BY <1>8, <1>9
    <3>4. h = state[s].counter \/ <<s, h>> \in finished
      BY <1>8, <1>9
    <3>. HIDE DEF done, dropped
    <3>. QED  BY <1>10, <1>11, <1>13, <2>1, <3>1, <3>2, <3>3, <3>4
  <2>2. CASE o # s
    <3>1. state[o].counter \in Nat
      BY <1>3, <1>18 DEF LegacyType, States
    <3>2. S[o] = state[o]
      BY <1>14, <2>2
    <3>. HIDE DEF done, dropped
    <3>. QED  BY <3>1, <3>2
  <2>. QED  BY <2>1, <2>2
<1>19. PICK r \in SweepRecords : r = [c EXCEPT !.left = c.left \ {s}]
  BY <1>4 DEF SweepRecords
<1>20. r.pc = "sweep" /\ r.queue = c.queue /\ r.left = c.left \ {s} /\ r.fence = Null /\ c.fence = Null
  BY <1>4, <1>19 DEF SweepRecords
<1>21. Sweeps(r) /\ ~Working(r) /\ ~Idles(r) /\ QueuesOf(r) = QueuesOf(c) /\ Owed(r) = {} /\ FenceOf(r) = Null
       /\ FenceOf(c) = Null /\ Owed(c) = {}
  BY <1>1, <1>20 DEF Sweeps, Working, Idles, QueuesOf, Owed, FenceOf
<1>22. \A u \in Threads : u # t => Apart(r, thread[u])
  <2>1. \A u \in Threads : u # t => Apart(c, thread[u])
    BY <1>3 DEF CallsInv
  <2>. QED  BY <1>21, <2>1 DEF Apart
<1>23. CallSound(r)'
  <2>1. state' = S
    BY <1>17, Zenon DEF Legacy!Becomes
  <2>2. \A o \in r.left : o \in Semaphores /\ state[o] # Null
    BY <1>4, <1>19, <1>20 DEF CallSound, SweepRecords
  <2>3. \A o \in r.left : S[o] # Null
    BY <1>16, <2>2
  <2>. QED  BY <1>1, <1>5, <1>20, <1>21, <2>1, <2>3 DEF CallSound
<1>24. issued \subseteq Pairs /\ r \in AllCalls
  BY <1>3 DEF LegacyType, AllCalls
<1>25. dropped \in SUBSET Fences /\ IsFiniteSet(dropped)
  <2>1. {e.fence : e \in Elements(q)} \in SUBSET Fences /\ IsFiniteSet({e.fence : e \in Elements(q)})
    BY <1>6, FewFences
  <2>2. dropped \in SUBSET {e.fence : e \in Elements(q)}
    BY <1>7
  <2>. HIDE DEF dropped, q
  <2>. QED  BY <2>1, <2>2, FS_Subset
<1>26. \A f \in dropped : Refers(state, thread, f) /\ fence[f] # "pending"
  BY <1>5, <1>7, <1>8 DEF Refers
<1>27. Legacy!Becomes(S, t, r, dropped)
  BY <1>17, <1>19
<1>28. r.pc \notin {"submit", "push"} /\ thread[t].pc # "push"
  BY <1>1, <1>20
<1>. HIDE DEF dropped, done, q
<1>. QED  BY <1>1, <1>4, <1>15, <1>16, <1>18, <1>21, <1>22, <1>23, <1>24, <1>25, <1>26, <1>27, <1>28, LetsGo

-----------------------------------------------------------------------------
(* Steps that take a fence.                                                 *)

LEMMA ReferredExists ==
    ASSUME LegacyInv, NEW f \in Fences, Refers(state, thread, f) PROVE fence[f] # "none"
<1>0. TellsInv
  BY DEF LegacyInv
<1>1. CASE \E s \in Semaphores : state[s] # Null /\ \E e \in Elements(state[s].pending) : e.fence = f
  BY <1>0, <1>1 DEF TellsInv, Tells
<1>2. CASE \E t \in Threads : FenceOf(thread[t]) = f
  <2>1. PICK t \in Threads : FenceOf(thread[t]) = f
    BY <1>2
  <2>2. f # Null
    BY NullIsNone
  <2>3. LegacyType
    BY DEF LegacyInv
  <2>4. Working(thread[t]) /\ thread[t].fence = f
    <3>1. ~Idles(thread[t]) /\ thread[t].fence = f
      BY <2>1, <2>2 DEF FenceOf
    <3>2. ~Sweeps(thread[t])
      BY <2>2, <2>3, <3>1, Typed DEF SweepRecords
    <3>. QED  BY <3>1, <3>2 DEF Working
  <2>5. thread[t] \in CallRecords /\ Shaped(thread[t])
    BY <2>4, Parts
  <2>6. CASE thread[t].pc = "submit"
    BY <1>0, <2>2, <2>4, <2>6 DEF TellsInv
  <2>7. CASE thread[t].pc = "push"
    <3>1. thread[t].targets \in Seq(Pairs) /\ thread[t].targets # <<>>
      BY <2>5, <2>7 DEF Shaped, CallRecords
    <3>2. PICK p \in Elements(thread[t].targets) : TRUE
      BY <3>1, ElementsOf
    <3>. QED  BY <1>0, <2>4, <2>7, <3>2 DEF TellsInv, Tells
  <2>. QED  BY <2>2, <2>4, <2>5, <2>6, <2>7 DEF Shaped
<1>. QED  BY <1>1, <1>2 DEF Refers

LEMMA TakesFence ==
    ASSUME LegacyInv, NEW t \in Threads, thread[t].pc = "fence", thread[t].signals # <<>>, NEW f \in Fences,
           Legacy!Goes(t, [thread[t] EXCEPT !.pc = "submit", !.fence = f]),
           state' = state, gpu' = gpu, finished' = finished, hosted' = hosted,
           fenced' = fenced, destroyed' = destroyed, issued' = issued,
           fence[f] # "pending", ~Refers(state, thread, f), fence' = [fence EXCEPT ![f] = "reset"],
           pool' \in Seq(Fences), Elements(pool') = Elements(pool) \ {f},
           \A i, j \in 1 .. Len(pool') : i # j => pool'[i] # pool'[j]
    PROVE  LegacyInv'
<1>. DEFINE c == thread[t]
<1>1. Working(c)
  BY DEF Working, Idles, Sweeps
<1>2. LegacyType /\ ~destroyed /\ c \in CallRecords /\ Shaped(c)
  BY <1>1, Parts
<1>3. c.fence = Null /\ c.then # "return" /\ FenceOf(c) = Null /\ f # Null
  BY <1>1, <1>2, NullIsNone DEF Shaped, FenceOf, Working
<1>4. PICK r \in CallRecords : r = [c EXCEPT !.pc = "submit", !.fence = f]
  <2>1. [c EXCEPT !.pc = "submit"] \in CallRecords
    BY <1>2 DEF CallRecords
  <2>2. [[c EXCEPT !.pc = "submit"] EXCEPT !.fence = f] \in CallRecords
    BY <2>1 DEF CallRecords
  <2>3. [c EXCEPT !.pc = "submit", !.fence = f] = [[c EXCEPT !.pc = "submit"] EXCEPT !.fence = f]
    OBVIOUS
  <2>. QED  BY <2>2, <2>3
<1>5. /\ r.pc = "submit" /\ r.queue = c.queue /\ r.signals = c.signals /\ r.fence = f /\ r.then = c.then
      /\ Named(r) = Named(c)
  BY <1>2, <1>4 DEF CallRecords, Named
<1>6. thread' = [thread EXCEPT ![t] = r]
  BY <1>4 DEF Legacy!Goes
<1>. HIDE DEF c
<1>7. Shaped(r)
  BY <1>2, <1>3, <1>5 DEF Shaped, c
<1>8. Working(r) /\ ~Sweeps(r) /\ ~Idles(r) /\ QueuesOf(r) = QueuesOf(c) /\ Owed(r) = Owed(c) /\ FenceOf(r) = f
  BY <1>1, <1>5 DEF Working, Idles, Sweeps, QueuesOf, Owed, FenceOf, c
<1>9. CallSound(r)'
  <2>1. \A p \in Named(r) : state[p[1]] # Null
    BY <1>1, <1>5, Parts DEF c
  <2>. QED  BY <1>7, <1>8, <2>1 DEF CallSound
<1>10. \A u \in Threads : u # t => Apart(r, thread[u])
  <2>1. \A u \in Threads : u # t => Apart(c, thread[u])
    BY DEF LegacyInv, CallsInv, c
  <2>2. \A u \in Threads : FenceOf(thread[u]) # f
    BY DEF Refers
  <2>. QED  BY <1>8, <2>1, <2>2 DEF Apart
<1>11. \A u \in Threads : thread'[u] = IF u = t THEN r ELSE thread[u]
  BY <1>2, <1>6 DEF LegacyType
<1>12. \A g \in Fences : Refers(state', thread', g) <=> g = f \/ Refers(state, thread, g)
  <2>. SUFFICES ASSUME NEW g \in Fences PROVE Refers(state', thread', g) <=> g = f \/ Refers(state, thread, g)
    OBVIOUS
  <2>1. g # Null
    BY NullIsNone
  <2>2. (\E u \in Threads : FenceOf(thread'[u]) = g) <=> g = f \/ \E u \in Threads : FenceOf(thread[u]) = g
    BY <1>3, <1>8, <1>11, <2>1 DEF c
  <2>. QED  BY <2>2 DEF Refers
<1>13. PoolInv'
  <2>1. PoolInv /\ pool \in Seq(Fences)
    BY <1>2 DEF LegacyInv, LegacyType
  <2>2. Elements(pool) \subseteq Fences
    BY <2>1, ElementsOf
  <2>3. \A g \in Fences : fence'[g] = IF g = f THEN "reset" ELSE fence[g]
    BY <1>2 DEF LegacyType
  <2>4. \A g \in Elements(pool') : fence'[g] = "reset" /\ ~Refers(state', thread', g)
    BY <1>12, <2>1, <2>2, <2>3 DEF PoolInv
  <2>5. \A g \in Fences : fence'[g] # "none" => g \in Elements(pool') \/ Refers(state', thread', g)
    BY <1>12, <2>1, <2>3 DEF PoolInv
  <2>. QED  BY <2>4, <2>5 DEF PoolInv, Elements
<1>14. fence' \in [Fences -> {"none", "reset", "pending", "signaled"}]
  BY <1>2 DEF LegacyType
<1>15. \A g \in Fences : (Refers(state, thread, g) /\ Refers(state', thread', g)) \/ fence[g] = "pending"
                             => fence'[g] = fence[g]
  BY <1>2 DEF LegacyType
<1>16. fence'[r.fence] = "reset"
  BY <1>2, <1>5 DEF LegacyType
<1>17. \A s \in Semaphores : state[s] # Null => state[s].counter <= state[s].counter
  BY <1>2 DEF LegacyType, States
<1>18. state' \in [Semaphores -> States \cup {Null}] /\ issued \subseteq Pairs /\ r \in AllCalls
  BY <1>2, <1>4 DEF LegacyType, AllCalls
<1>19. Owed(r) \subseteq issued /\ Owed(r) = Owed(thread[t]) /\ r.pc # "push" /\ thread[t].pc # "push"
  BY <1>5, <1>8 DEF LegacyInv, ValuesInv, c
<1>20. issued' \subseteq Pairs /\ issued \ Owed(thread[t]) \subseteq issued' /\ Owed(r) \subseteq issued'
       /\ Owed(r) \cap (issued \ Owed(thread[t])) = {}
  BY <1>18, <1>19
<1>21. \A s \in Semaphores : state'[s] = Null <=> state[s] = Null
  OBVIOUS
<1>22. \A s \in Semaphores : state[s] # Null =>
               /\ Elements(state'[s].pending) \subseteq Elements(state[s].pending)
               /\ state[s].counter <= state'[s].counter
               /\ state[s].error => state'[s].error
               /\ \A e \in Elements(state[s].pending) : e \in Elements(state'[s].pending) \/
                      (e.value <= state'[s].counter /\ fence[e.fence] = "signaled")
               /\ state'[s].counter = state[s].counter \/ <<s, state'[s].counter>> \in finished
  BY <1>17
<1>. QED  BY <1>2, <1>6, <1>9, <1>10, <1>13, <1>14, <1>15, <1>16, <1>18, <1>19, <1>20, <1>21, <1>22, StepOfCall

LEMMA AcquiresFence ==
    ASSUME LegacyInv, NEW t \in Threads, Legacy!AcquireFence(t) PROVE LegacyInv'
<1>1. /\ thread[t].pc = "fence" /\ gpu' = gpu /\ finished' = finished /\ hosted' = hosted
      /\ fenced' = fenced /\ destroyed' = destroyed
  BY DEF Legacy!AcquireFence
<1>2. LegacyType /\ PoolInv /\ pool \in Seq(Fences)
  BY DEF LegacyInv, LegacyType
<1>3. CASE thread[t].signals = <<>> /\ Legacy!Goes(t, [thread[t] EXCEPT !.pc = "submit"])
           /\ UNCHANGED <<state, fence, pool, issued>>
  BY <1>1, <1>3, GoesUnfenced
<1>4. CASE /\ thread[t].signals # <<>> /\ pool # <<>>
           /\ Legacy!Goes(t, [thread[t] EXCEPT !.pc = "submit", !.fence = Head(pool)])
           /\ pool' = Tail(pool) /\ UNCHANGED <<state, fence, issued>>
  <2>. DEFINE f == Head(pool)
  <2>1. f \in Elements(pool) /\ Tail(pool) \in Seq(Fences) /\ Elements(pool) = {f} \cup Elements(Tail(pool))
        /\ Elements(pool) \subseteq Fences
    BY <1>2, <1>4, ElementsOf
  <2>2. fence[f] = "reset" /\ ~Refers(state, thread, f)
    BY <1>2, <2>1 DEF PoolInv
  <2>3. /\ Len(pool) \in Nat /\ Len(Tail(pool)) = Len(pool) - 1 /\ f = pool[1]
        /\ \A i \in 1 .. Len(pool) - 1 : Tail(pool)[i] = pool[i + 1]
    BY <1>2, <1>4
  <2>4. \A i \in 1 .. Len(pool) - 1 : i + 1 \in 1 .. Len(pool) /\ 1 \in 1 .. Len(pool) /\ i + 1 # 1
    BY <2>3
  <2>5. \A i, j \in 1 .. Len(pool) - 1 : i # j => Tail(pool)[i] # Tail(pool)[j]
    <3>1. \A i, j \in 1 .. Len(pool) - 1 : i # j => i + 1 # j + 1
      BY <2>3
    <3>. QED  BY <1>2, <2>3, <2>4, <3>1 DEF PoolInv
  <2>6. \A i \in 1 .. Len(pool) - 1 : Tail(pool)[i] # f
    BY <1>2, <2>3, <2>4 DEF PoolInv
  <2>7. Elements(Tail(pool)) = Elements(pool) \ {f}
    <3>1. f \notin Elements(Tail(pool))
      BY <2>3, <2>6 DEF Elements
    <3>. QED  BY <2>1, <3>1
  <2>8. fence' = [fence EXCEPT ![f] = "reset"]
    BY <1>2, <1>4, <2>1, <2>2 DEF LegacyType
  <2>. HIDE DEF f
  <2>9. Legacy!Goes(t, [thread[t] EXCEPT !.pc = "submit", !.fence = f])
    BY <1>4 DEF f
  <2>10. /\ pool' \in Seq(Fences) /\ Elements(pool') = Elements(pool) \ {f}
         /\ \A i, j \in 1 .. Len(pool') : i # j => pool'[i] # pool'[j]
    BY <1>4, <2>1, <2>3, <2>5, <2>7
  <2>11. f \in Fences /\ fence[f] # "pending" /\ state' = state /\ issued' = issued
    BY <1>4, <2>1, <2>2
  <2>. QED  BY <1>1, <1>4, <2>2, <2>8, <2>9, <2>10, <2>11, TakesFence
<1>5. CASE /\ thread[t].signals # <<>> /\ pool = <<>> /\ UNCHANGED <<state, pool, issued>>
           /\ \E f \in Fences :
                /\ fence[f] = "none"
                /\ fence' = [fence EXCEPT ![f] = "reset"]
                /\ Legacy!Goes(t, [thread[t] EXCEPT !.pc = "submit", !.fence = f])
  <2>1. PICK f \in Fences :
                /\ fence[f] = "none"
                /\ fence' = [fence EXCEPT ![f] = "reset"]
                /\ Legacy!Goes(t, [thread[t] EXCEPT !.pc = "submit", !.fence = f])
    BY <1>5
  <2>2. ~Refers(state, thread, f)
    BY <2>1, ReferredExists
  <2>3. Elements(pool) = {}
    BY <1>5 DEF Elements
  <2>4. Elements(pool') = Elements(pool) \ {f} /\ \A i, j \in 1 .. Len(pool') : i # j => pool'[i] # pool'[j]
    BY <1>5, <2>3 DEF Elements
  <2>5. pool' \in Seq(Fences) /\ fence[f] # "pending" /\ state' = state /\ issued' = issued
    BY <1>2, <1>5, <2>1
  <2>. QED  BY <1>1, <1>5, <2>1, <2>2, <2>4, <2>5, TakesFence
<1>6. CASE Legacy!Fails(t)
  <2>1. Working(thread[t])
    BY <1>1 DEF Working, Idles, Sweeps
  <2>. QED  BY <1>1, <1>6, <2>1, FailsSound
<1>. QED  BY <1>3, <1>4, <1>5, <1>6, Zenon DEF Legacy!AcquireFence

-----------------------------------------------------------------------------
(* Steps that leave values with their fence, and those of the driver.       *)

LEMMA PairOf == ASSUME NEW p \in Pairs PROVE p = <<p[1], p[2]>> /\ p[1] \in Semaphores /\ p[2] \in Nat
BY DEF Pairs

LEMMA PushesEntry ==
    ASSUME LegacyInv, NEW t \in Threads, Legacy!Push(t) PROVE LegacyInv'
<1>. DEFINE c == thread[t]
            p == Head(c.signals)
            s == p[1]
            e == [value |-> p[2], fence |-> c.fence, queue |-> c.queue]
            x == [state[s] EXCEPT !.pending = Append(state[s].pending, e)]
<1>1. /\ c.pc = "push" /\ c.signals # <<>> /\ lock' = lock /\ fence' = fence /\ pool' = pool /\ gpu' = gpu
      /\ issued' = issued /\ finished' = finished /\ hosted' = hosted /\ fenced' = fenced /\ destroyed' = destroyed
      /\ state' = [state EXCEPT ![s].pending = Append(@, e)]
  BY DEF Legacy!Push, Legacy!histories
<1>2. Legacy!Goes(t, [c EXCEPT !.signals = Tail(c.signals)])
  BY DEF Legacy!Push
<1>3. Working(c)
  BY <1>1 DEF Working, Idles, Sweeps
<1>4. LegacyType /\ ~destroyed /\ c \in CallRecords /\ Shaped(c)
  BY <1>3, Parts
<1>0. CallsInv /\ ValuesInv /\ WorkInv /\ OnceInv /\ TellsInv /\ PoolInv /\ FoundInv /\ PushedInv /\ Honest
  BY DEF LegacyInv
<1>5. /\ c.signals \in Seq(Pairs) /\ c.targets \in Seq(Pairs) /\ c.fence \in Fences /\ c.queue \in Queues
      /\ Elements(c.signals) \subseteq Elements(c.targets)
  BY <1>1, <1>4 DEF CallRecords, Shaped
<1>6. /\ p \in Elements(c.signals) /\ Tail(c.signals) \in Seq(Pairs)
      /\ Elements(c.signals) = {p} \cup Elements(Tail(c.signals))
  BY <1>1, <1>5, ElementsOf
<1>7. p \in Pairs /\ p = <<s, p[2]>> /\ s \in Semaphores /\ p[2] \in Nat /\ state[s] # Null
  <2>1. p \in Named(c)
    BY <1>6 DEF Named
  <2>. HIDE DEF p
  <2>. QED  BY <1>3, <2>1, Parts, PairOf
<1>8. PICK r \in CallRecords : r = [c EXCEPT !.signals = Tail(c.signals)]
  BY <1>4, <1>6 DEF CallRecords
<1>9. /\ r.pc = "push" /\ r.queue = c.queue /\ r.targets = c.targets /\ r.waits = c.waits /\ r.fence = c.fence
      /\ r.then = c.then /\ r.signals = Tail(c.signals)
  BY <1>1, <1>4, <1>8 DEF CallRecords
<1>. HIDE DEF p, s
<1>10. e \in Entries /\ e.value = p[2] /\ e.fence = c.fence /\ e.queue = c.queue
  BY <1>5, <1>7 DEF Entries
<1>. HIDE DEF e, c
<1>11. state[s] \in States /\ state[s].pending \in Seq(Entries)
  BY <1>4, <1>7, PendingOf
<1>12. /\ x \in States /\ x # Null /\ x.counter = state[s].counter /\ x.error = state[s].error
       /\ Elements(x.pending) = Elements(state[s].pending) \cup {e}
  <2>1. Append(state[s].pending, e) \in Seq(Entries)
        /\ Elements(Append(state[s].pending, e)) = Elements(state[s].pending) \cup {e}
    BY <1>10, <1>11, ElementsOf
  <2>2. x \in States
    BY <1>11, <2>1 DEF States
  <2>3. x.counter = state[s].counter /\ x.error = state[s].error /\ x.pending = Append(state[s].pending, e)
    BY <1>11 DEF States
  <2>. HIDE DEF x
  <2>. QED  BY <2>1, <2>2, <2>3, NullIsNone
<1>13. state' = [state EXCEPT ![s] = x]
  BY <1>1
<1>. HIDE DEF x
<1>14. \A o \in Semaphores : state'[o] = IF o = s THEN x ELSE state[o]
  BY <1>4, <1>13 DEF LegacyType
<1>15. thread' = [thread EXCEPT ![t] = r]
  BY <1>2, <1>8 DEF Legacy!Goes
<1>16. \A u \in Threads : thread'[u] = IF u = t THEN r ELSE thread[u]
  BY <1>4, <1>15 DEF LegacyType
<1>17. LegacyType'
  <2>1. state' \in [Semaphores -> States \cup {Null}]
    BY <1>4, <1>12, <1>13 DEF LegacyType
  <2>. QED  BY <1>1, <1>4, <1>15, <2>1 DEF LegacyType
<1>18. \A o \in Semaphores : state'[o] = Null <=> state[o] = Null
  BY <1>7, <1>12, <1>14
<1>19. Working(r) /\ ~Idles(r) /\ ~Sweeps(r) /\ QueuesOf(r) = QueuesOf(c) /\ Owed(r) = {} /\ Owed(c) = {}
       /\ FenceOf(r) = FenceOf(c)
  BY <1>1, <1>3, <1>9 DEF Working, Idles, Sweeps, QueuesOf, Owed, FenceOf
<1>20. CallSound(r)'
  <2>1. Named(r) \subseteq Named(c)
    BY <1>6, <1>9 DEF Named
  <2>2. \A o \in Named(r) : state'[o[1]] # Null
    BY <1>3, <1>18, <2>1, Parts DEF c
  <2>3. Shaped(r)
    BY <1>1, <1>4, <1>5, <1>6, <1>9 DEF Shaped
  <2>. QED  BY <1>19, <2>2, <2>3 DEF CallSound
<1>21. \A u \in Threads : u # t => Apart(r, thread[u])
  <2>1. \A u \in Threads : u # t => Apart(c, thread[u])
    BY <1>0 DEF CallsInv, c
  <2>. QED  BY <1>19, <2>1 DEF Apart
<1>22. CallsInv'
  <2>1. ~destroyed' /\ \A u \in Threads : u # t =>
            Apart(r, thread[u]) /\ \A q \in QueuesOf(thread[u]) : gpu'[q] = gpu[q]
    BY <1>1, <1>4, <1>21
  <2>. QED  BY <1>0, <1>4, <1>15, <1>18, <1>20, <2>1, CallsFrame
<1>23. ValuesInv'
  <2>1. \A q \in Queues : \A i \in 1 .. Len(gpu'[q]) :
               \/ \E j \in 1 .. Len(gpu[q]) : gpu'[q][i] = gpu[q][j]
               \/ gpu'[q][i].signals \subseteq Owed(thread[t]) \ Owed(r)
    BY <1>1
  <2>2. /\ issued \ Owed(thread[t]) \subseteq issued' /\ Owed(r) \subseteq issued'
        /\ Owed(r) \cap (issued \ Owed(thread[t])) = {}
    BY <1>1, <1>19 DEF c
  <2>. QED  BY <1>0, <1>1, <1>4, <1>15, <2>1, <2>2, ValuesFrame
<1>24. WorkInv' /\ OnceInv'
  BY <1>0, <1>1, WorkFrame
<1>25. \A f : Refers(state', thread', f) <=> Refers(state, thread, f)
  <2>1. \A u \in Threads : FenceOf(thread'[u]) = FenceOf(thread[u])
    BY <1>16, <1>19 DEF c
  <2>2. FenceOf(thread[t]) = c.fence
    BY <1>3 DEF FenceOf, Working, c
  <2>3. \A o \in Semaphores : state'[o] # Null <=> state[o] # Null
    BY <1>18
  <2>4. \A o \in Semaphores : \A d : state'[o] # Null => (d \in Elements(state'[o].pending) <=>
                                     d \in Elements(state[o].pending) \/ (o = s /\ d = e))
    BY <1>12, <1>14
  <2>. QED  BY <1>10, <2>1, <2>2, <2>3, <2>4 DEF Refers
<1>26. PoolInv'
  BY <1>0, <1>1, <1>25 DEF PoolInv, Elements
<1>27. TellsInv'
  <2>1. \A f, q, o : Tells(fence', finished', gpu', f, q, o) <=> Tells(fence, finished, gpu, f, q, o)
    BY <1>1
  <2>2. \A o \in Elements(c.targets) : Tells(fence, finished, gpu, c.fence, c.queue, o)
    BY <1>0, <1>1 DEF TellsInv, c
  <2>3. Tells(fence', finished', gpu', e.fence, e.queue, <<s, e.value>>)
    BY <1>5, <1>6, <1>7, <1>10, <2>1, <2>2
  <2>4. \A o \in Semaphores : state'[o] # Null => state[o] # Null /\
               \A d \in Elements(state'[o].pending) : d \in Elements(state[o].pending) \/
                   Tells(fence', finished', gpu', d.fence, d.queue, <<o, d.value>>)
    BY <1>12, <1>14, <1>18, <2>3
  <2>5. \A o \in Elements(r.targets) : Tells(fence', finished', gpu', r.fence, r.queue, o)
    BY <1>9, <2>1, <2>2
  <2>6. \A u \in Threads : thread[u].pc = "submit" /\ thread[u].fence # Null /\ u # t =>
               fence'[thread[u].fence] = "reset"
    BY <1>0, <1>1 DEF TellsInv
  <2>7. r.pc # "submit"
    BY <1>9
  <2>. QED  BY <1>0, <1>4, <1>15, <2>1, <2>4, <2>5, <2>6, <2>7, TellsFrame
<1>28. Keeps
  <2>1. \A o \in Semaphores : state[o] # Null => state[o].counter \in Nat
    BY <1>4 DEF LegacyType, States
  <2>. QED  BY <1>7, <1>12, <1>14, <1>18, <2>1 DEF Keeps
<1>29. ASSUME NEW o, o = p PROVE Found(o)'
  <2>1. e \in Elements(state'[s].pending)
    BY <1>7, <1>12, <1>14
  <2>2. o[1] = s /\ o[2] = p[2]
    BY <1>29 DEF s
  <2>. QED  BY <1>10, <2>1, <2>2 DEF Found
<1>30. FoundInv'
  <2>1. \A o : (Has(o)' <=> Has(o)) /\ (Covers(o)' <=> Covers(o))
    BY <1>1 DEF Has, Covers
  <2>2. \A o \in Elements(c.signals) : o = p \/ o \in Elements(r.signals)
    BY <1>6, <1>9
  <2>3. thread[t].pc = "push" =>
            \A o \in Elements(thread[t].signals) : Found(o)' \/ (r.pc = "push" /\ o \in Elements(r.signals))
    BY <1>9, <1>29, <2>2 DEF c
  <2>4. \A o \in Elements(c.targets) : o \in Elements(c.signals) \/ Found(o)
    BY <1>0, <1>1 DEF FoundInv, c
  <2>5. Elements(c.targets) \subseteq Pairs
    BY <1>5, ElementsOf
  <2>6. \A o \in Elements(r.targets) : o \in Elements(r.signals) \/ Found(o)'
    BY <1>4, <1>9, <1>17, <1>28, <1>29, <2>2, <2>4, <2>5, FoundKept
  <2>. QED  BY <1>0, <1>1, <1>4, <1>15, <1>17, <1>28, <2>1, <2>3, <2>6, FoundFrame
<1>31. PushedInv'
  <2>1. \A o \in Semaphores : state[o] # Null => state'[o] # Null /\
               \A d \in Elements(state[o].pending) :
                   d \in Elements(state'[o].pending) \/ fence[d.fence] = "signaled"
    BY <1>12, <1>14, <1>18
  <2>2. \A o \in Elements(r.targets) : o \in Elements(r.signals) \/ fence'[r.fence] = "signaled" \/
                   \E d \in Elements(state'[o[1]].pending) : d.fence = r.fence /\ d.value = o[2]
    <3>. SUFFICES ASSUME NEW o \in Elements(c.targets), o \notin Elements(r.signals), fence[c.fence] # "signaled"
                  PROVE  \E d \in Elements(state'[o[1]].pending) : d.fence = c.fence /\ d.value = o[2]
      BY <1>1, <1>9
    <3>1. CASE o = p
      <4>1. e \in Elements(state'[s].pending) /\ o[1] = s /\ o[2] = p[2]
        BY <1>7, <1>12, <1>14, <3>1 DEF s
      <4>. QED  BY <1>10, <4>1
    <3>2. CASE o # p
      <4>1. o \notin Elements(c.signals)
        BY <1>6, <1>9, <3>2
      <4>2. \E d \in Elements(state[o[1]].pending) : d.fence = c.fence /\ d.value = o[2]
        BY <1>0, <1>1, <4>1 DEF PushedInv, c
      <4>3. o \in Named(c)
        BY DEF Named
      <4>4. o[1] \in Semaphores /\ state[o[1]] # Null
        BY <1>3, <4>3, Parts DEF c
      <4>5. Elements(state[o[1]].pending) \subseteq Elements(state'[o[1]].pending)
        BY <1>12, <1>14, <4>4
      <4>. QED  BY <4>2, <4>5
    <3>. QED  BY <3>1, <3>2
  <2>3. \A f \in Fences : Refers(state, thread, f) /\ Refers(state', thread', f) /\ fence[f] = "signaled"
                             => fence'[f] = "signaled"
    BY <1>1
  <2>. QED  BY <1>0, <1>4, <1>15, <2>1, <2>2, <2>3, PushedFrame
<1>32. Honest'
  <2>1. \A o \in Semaphores : state'[o] # Null => state[o] # Null /\ state'[o].counter = state[o].counter
    BY <1>12, <1>14, <1>18
  <2>. QED  BY <1>0, <1>1, <2>1, HonestFrame
<1>. QED  BY <1>17, <1>22, <1>23, <1>24, <1>26, <1>27, <1>30, <1>31, <1>32 DEF LegacyInv

LEMMA SignalsFromHost ==
    ASSUME LegacyInv, NEW t \in Threads, NEW s \in Semaphores, NEW v \in LegacyHostValues, Legacy!HostSignal(t, s, v)
    PROVE  LegacyInv'
<1>1. /\ ~Legacy!InCall(t) /\ s \in Legacy!Alive
      /\ fence' = fence /\ pool' = pool /\ gpu' = gpu /\ thread' = thread /\ issued' = issued /\ finished' = finished
      /\ fenced' = fenced /\ destroyed' = destroyed
  BY DEF Legacy!HostSignal
<1>2. \/ state' = state /\ hosted' = hosted
      \/ /\ state' = [state EXCEPT ![s].counter = Legacy!Higher(@, v)]
         /\ hosted' = hosted \cup {<<s, v>>}
  BY Zenon DEF Legacy!HostSignal
<1>3. LegacyType /\ CallsInv /\ ValuesInv /\ PoolInv
  BY DEF LegacyInv
<1>4. state[s] # Null /\ state[s] \in States /\ state[s].counter \in Nat /\ v \in Nat /\ <<s, v>> \in Pairs
  <2>1. state[s] # Null
    BY <1>1 DEF Legacy!Alive
  <2>2. v \in Nat
    BY LegacyAssumption
  <2>3. state[s] \in States
    BY <1>3, <2>1 DEF LegacyType
  <2>. QED  BY <2>1, <2>2, <2>3 DEF States, Pairs
<1>. DEFINE h == Legacy!Higher(state[s].counter, v)
            x == [state[s] EXCEPT !.counter = h]
<1>5. h \in {state[s].counter, v} /\ state[s].counter <= h /\ h \in Nat
  BY <1>4, Higher
<1>. HIDE DEF h
<1>6. x \in States /\ x # Null /\ x.counter = h /\ x.pending = state[s].pending /\ x.error = state[s].error
  <2>1. x \in States /\ x.counter = h /\ x.pending = state[s].pending /\ x.error = state[s].error
    BY <1>4, <1>5 DEF States
  <2>. QED  BY <2>1, NullIsNone
<1>7. state' = state \/ (state' = [state EXCEPT ![s] = x] /\ <<s, v>> \in hosted')
  BY <1>2 DEF h
<1>8. hosted \subseteq hosted' /\ hosted' \subseteq Pairs
  BY <1>2, <1>3, <1>4 DEF LegacyType
<1>. HIDE DEF x
<1>9. \A o \in Semaphores : state'[o] = state[o] \/ (o = s /\ state'[o] = x /\ <<s, v>> \in hosted')
  BY <1>3, <1>7 DEF LegacyType
<1>10. state' \in [Semaphores -> States \cup {Null}]
  BY <1>3, <1>6, <1>7 DEF LegacyType
<1>11. \A o \in Semaphores : state'[o] = Null <=> state[o] = Null
  BY <1>4, <1>6, <1>9
<1>12. ASSUME NEW o \in Semaphores, state[o] # Null
       PROVE  /\ state'[o].pending = state[o].pending
              /\ state[o].counter <= state'[o].counter
              /\ state[o].error => state'[o].error
              /\ state'[o].counter = state[o].counter \/ <<o, state'[o].counter>> \in finished \cup hosted'
  <2>1. CASE state'[o] = state[o]
    <3>1. state[o].counter \in Nat
      BY <1>3, <1>12 DEF LegacyType, States
    <3>. QED  BY <2>1, <3>1
  <2>2. CASE o = s /\ state'[o] = x /\ <<s, v>> \in hosted'
    BY <1>5, <1>6, <2>2
  <2>. QED  BY <1>9, <2>1, <2>2
<1>13. PICK r \in AllCalls : r = Legacy!Idle
  BY DEF AllCalls
<1>14. r = thread[t] /\ r.pc = "idle" /\ Owed(r) = {}
  BY <1>1, <1>13, Outside
<1>15. thread' = [thread EXCEPT ![t] = r]
  BY <1>1, <1>3, <1>14 DEF LegacyType
<1>16. CallSound(r)'
  BY <1>14 DEF CallSound, Working, Sweeps, Idles
<1>17. \A u \in Threads : u # t => Apart(r, thread[u])
  BY <1>3, <1>14 DEF CallsInv
<1>18. PoolInv'
  <2>1. \A f : Refers(state', thread', f) <=> Refers(state, thread, f)
    BY <1>1, <1>11, <1>12 DEF Refers
  <2>. QED  BY <1>1, <1>3, <2>1 DEF PoolInv, Elements
<1>19. /\ issued' \subseteq Pairs /\ issued \ Owed(thread[t]) \subseteq issued' /\ Owed(r) \subseteq issued'
       /\ Owed(r) \cap (issued \ Owed(thread[t])) = {}
  BY <1>1, <1>3, <1>14 DEF LegacyType
<1>20. /\ fence' \in [Fences -> {"none", "reset", "pending", "signaled"}] /\ pool' \in Seq(Fences)
       /\ \A f \in Fences : fence'[f] = fence[f]
  BY <1>1, <1>3 DEF LegacyType
<1>21. ~destroyed
  BY <1>3, <1>4 DEF CallsInv
<1>22. \A o \in Semaphores : state[o] # Null =>
               /\ Elements(state'[o].pending) \subseteq Elements(state[o].pending)
               /\ state[o].counter <= state'[o].counter
               /\ state[o].error => state'[o].error
               /\ \A e \in Elements(state[o].pending) : e \in Elements(state'[o].pending) \/
                      (e.value <= state'[o].counter /\ fence[e.fence] = "signaled")
               /\ state'[o].counter = state[o].counter \/ <<o, state'[o].counter>> \in finished \cup hosted'
  BY <1>12
<1>23. r.pc \notin {"submit", "push"} /\ thread[t].pc # "push"
  BY <1>14
<1>. QED  BY <1>1, <1>8, <1>10, <1>11, <1>15, <1>16, <1>17, <1>18, <1>19, <1>20, <1>21, <1>22, <1>23, StepOfCall

\* What the driver has after it is given more.
LEMMA GivenTo ==
    ASSUME gpu \in [Queues -> Seq(Work)], NEW o \in Queues, NEW w \in Work,
           gpu' = [gpu EXCEPT ![o] = Append(gpu[o], w)]
    PROVE  /\ gpu' \in [Queues -> Seq(Work)]
           /\ \A q \in Queues : q # o => gpu'[q] = gpu[q]
           /\ \A q \in Queues : \A i \in 1 .. Len(gpu[q]) : i \in 1 .. Len(gpu'[q]) /\ gpu'[q][i] = gpu[q][i]
           /\ \A q \in Queues : \A i \in 1 .. Len(gpu'[q]) :
                 \/ i \in 1 .. Len(gpu[q]) /\ gpu'[q][i] = gpu[q][i]
                 \/ q = o /\ i = Len(gpu[o]) + 1 /\ i \notin 1 .. Len(gpu[q]) /\ gpu'[q][i] = w
           /\ \E i \in 1 .. Len(gpu'[o]) : gpu'[o][i] = w
<1>. DEFINE n == Len(gpu[o])
<1>1. gpu[o] \in Seq(Work) /\ n \in Nat
  OBVIOUS
<1>2. /\ Append(gpu[o], w) \in Seq(Work) /\ Len(Append(gpu[o], w)) = n + 1
      /\ Append(gpu[o], w)[n + 1] = w /\ \A i \in 1 .. n : Append(gpu[o], w)[i] = gpu[o][i]
  BY <1>1
<1>3. gpu' \in [Queues -> Seq(Work)] /\ \A q \in Queues : gpu'[q] = IF q = o THEN Append(gpu[o], w) ELSE gpu[q]
  BY <1>2
<1>4. \A i : i \in 1 .. n + 1 <=> i \in 1 .. n \/ i = n + 1
  BY <1>1
<1>5. n + 1 \notin 1 .. n
  BY <1>1
<1>. QED  BY <1>2, <1>3, <1>4, <1>5

LEMMA GivesWork ==
    ASSUME LegacyInv, NEW t \in Threads, Legacy!NativeSubmit(t), ~(Legacy!Fails(t) /\ gpu' = gpu)
    PROVE  LegacyInv'
<1>. DEFINE c == thread[t]
            o == c.queue
            w == [fence |-> c.fence, signals |-> Legacy!ToSet(c.signals), fences |-> {}]
            pushing == [c EXCEPT !.pc = "push", !.targets = c.signals]
<1>1. /\ c.pc = "submit" /\ state' = state /\ pool' = pool /\ issued' = issued /\ finished' = finished
      /\ hosted' = hosted /\ fenced' = fenced /\ destroyed' = destroyed
      /\ gpu' = [gpu EXCEPT ![o] = Append(@, w)]
      /\ fence' = [f \in Fences |-> IF f = c.fence THEN "pending" ELSE fence[f]]
  BY Zenon DEF Legacy!NativeSubmit
<1>2. IF c.fence = Null THEN Legacy!Goes(t, Legacy!Idle) ELSE Legacy!Goes(t, pushing)
  BY Zenon DEF Legacy!NativeSubmit
<1>3. Working(c)
  BY <1>1 DEF Working, Idles, Sweeps
<1>4. LegacyType /\ ~destroyed /\ c \in CallRecords /\ Shaped(c)
  BY <1>3, Parts
<1>0. CallsInv /\ ValuesInv /\ WorkInv /\ OnceInv /\ TellsInv /\ PoolInv /\ FoundInv /\ PushedInv /\ Honest
  BY DEF LegacyInv
<1>5. /\ c.signals \in Seq(Pairs) /\ o \in Queues /\ c.fence \in Fences \cup {Null} /\ c.then = "submit"
      /\ c.fence = Null <=> c.signals = <<>>
  BY <1>1, <1>4 DEF CallRecords, Shaped
<1>. DEFINE G == Elements(c.signals)
<1>6. Legacy!ToSet(c.signals) = G /\ G \subseteq Pairs /\ (c.fence = Null <=> G = {}) /\ Owed(c) = G
      /\ FenceOf(c) = c.fence /\ QueuesOf(c) = {o}
  <2>1. Legacy!ToSet(c.signals) = G /\ G \subseteq Pairs /\ (c.fence = Null <=> G = {})
    BY <1>5, ElementsOf
  <2>. QED  BY <1>1, <1>3, <1>5, <2>1, NullIsNone DEF Owed, FenceOf, QueuesOf, Working
<1>7. w \in Work /\ w.fence = c.fence /\ w.signals = G /\ w.fences = {}
  BY <1>5, <1>6 DEF Work
<1>. HIDE DEF w
<1>8. \A f \in Fences : fence'[f] = IF f = c.fence THEN "pending" ELSE fence[f]
  BY <1>1
<1>9. c.fence # Null => fence[c.fence] = "reset"
  BY <1>0, <1>1 DEF TellsInv
<1>10. PICK r \in AllCalls : r = IF c.fence = Null THEN Legacy!Idle ELSE pushing
  <2>1. [c EXCEPT !.pc = "push"] \in CallRecords
    BY <1>4 DEF CallRecords
  <2>2. [[c EXCEPT !.pc = "push"] EXCEPT !.targets = c.signals] \in CallRecords
    BY <1>5, <2>1 DEF CallRecords
  <2>3. pushing = [[c EXCEPT !.pc = "push"] EXCEPT !.targets = c.signals]
    OBVIOUS
  <2>. HIDE DEF pushing
  <2>. QED  BY <2>2, <2>3 DEF AllCalls
<1>11. thread' = [thread EXCEPT ![t] = r]
  BY <1>2, <1>10 DEF Legacy!Goes
<1>12. c.fence = Null => r.pc = "idle"
  BY <1>10 DEF Legacy!Idle
<1>13. c.fence # Null =>
           /\ r.pc = "push" /\ r.queue = o /\ r.targets = c.signals /\ r.waits = c.waits /\ r.fence = c.fence
           /\ r.then = c.then /\ r.signals = c.signals
  BY <1>4, <1>10 DEF CallRecords
<1>14. /\ Owed(r) = {} /\ FenceOf(r) = FenceOf(c) /\ QueuesOf(r) \subseteq {o} /\ ~Sweeps(r) /\ r.pc # "submit"
       /\ Working(r) => c.fence # Null
  BY <1>5, <1>6, <1>12, <1>13, NullIsNone DEF Owed, FenceOf, QueuesOf, Working, Idles, Sweeps
<1>15. Working(r) => Shaped(r) /\ \A p \in Named(r) : state[p[1]] # Null
  <2>. SUFFICES ASSUME c.fence # Null PROVE Shaped(r) /\ \A p \in Named(r) : state[p[1]] # Null
    BY <1>14
  <2>1. Named(r) \subseteq Named(c)
    BY <1>13 DEF Named
  <2>2. Shaped(r)
    BY <1>5, <1>13 DEF Shaped
  <2>. QED  BY <1>3, <2>1, <2>2, Parts
<1>. HIDE DEF c, o, pushing, G
<1>16. /\ gpu' \in [Queues -> Seq(Work)]
       /\ \A q \in Queues : q # o => gpu'[q] = gpu[q]
       /\ \A q \in Queues : \A i \in 1 .. Len(gpu[q]) : i \in 1 .. Len(gpu'[q]) /\ gpu'[q][i] = gpu[q][i]
       /\ \A q \in Queues : \A i \in 1 .. Len(gpu'[q]) :
             \/ i \in 1 .. Len(gpu[q]) /\ gpu'[q][i] = gpu[q][i]
             \/ q = o /\ i = Len(gpu[o]) + 1 /\ i \notin 1 .. Len(gpu[q]) /\ gpu'[q][i] = w
       /\ \E i \in 1 .. Len(gpu'[o]) : gpu'[o][i] = w
  <2>1. gpu \in [Queues -> Seq(Work)] /\ gpu' = [gpu EXCEPT ![o] = Append(gpu[o], w)]
    BY <1>1, <1>4 DEF LegacyType
  <2>. QED  BY <1>5, <1>7, <2>1, GivenTo
<1>17. LegacyType'
  <2>1. fence' \in [Fences -> {"none", "reset", "pending", "signaled"}]
    BY <1>1, <1>4 DEF LegacyType
  <2>. QED  BY <1>1, <1>4, <1>11, <1>16, <2>1 DEF LegacyType, AllCalls
<1>18. CallsInv'
  <2>1. CallSound(r)'
    BY <1>1, <1>14, <1>15 DEF CallSound
  <2>2. \A u \in Threads : u # t => Apart(c, thread[u])
    BY <1>0 DEF CallsInv, c
  <2>3. \A u \in Threads : u # t => Apart(r, thread[u])
    BY <1>6, <1>14, <2>2 DEF Apart
  <2>4. ASSUME NEW u \in Threads, u # t, NEW q \in QueuesOf(thread[u]) PROVE gpu'[q] = gpu[q]
    <3>1. q # o
      BY <1>6, <2>2, <2>4 DEF Apart
    <3>2. q \in Queues
      BY <1>4, <2>4, Typed DEF QueuesOf, CallRecords, SweepRecords, Working
    <3>. QED  BY <1>16, <3>1, <3>2
  <2>5. ~destroyed' /\ \A s \in Semaphores : state'[s] = Null <=> state[s] = Null
    BY <1>1, <1>4
  <2>. QED  BY <1>0, <1>4, <1>11, <2>1, <2>3, <2>4, <2>5, CallsFrame
<1>19. ValuesInv'
  <2>1. \A q \in Queues : \A i \in 1 .. Len(gpu'[q]) :
               \/ \E j \in 1 .. Len(gpu[q]) : gpu'[q][i] = gpu[q][j]
               \/ gpu'[q][i].signals \subseteq Owed(thread[t]) \ Owed(r)
    BY <1>6, <1>7, <1>14, <1>16 DEF c
  <2>2. issued \ Owed(thread[t]) \subseteq issued' /\ Owed(r) \subseteq issued'
        /\ Owed(r) \cap (issued \ Owed(thread[t])) = {} /\ Owed(thread[t]) \subseteq issued'
    BY <1>0, <1>1, <1>14 DEF ValuesInv
  <2>. QED  BY <1>0, <1>1, <1>4, <1>11, <2>1, <2>2, ValuesFrame
<1>20. \A q \in Queues : \A i \in 1 .. Len(gpu[q]) : gpu[q][i] \in Work
  BY <1>4 DEF LegacyType
<1>21. \A q \in Queues : \A i \in 1 .. Len(gpu[q]) : gpu[q][i].signals \cap G = {}
  BY <1>0, <1>6 DEF ValuesInv, c
<1>22. \A q \in Queues : \A i \in 1 .. Len(gpu[q]) : gpu[q][i].fence # Null =>
           gpu[q][i].fence # c.fence /\ fence'[gpu[q][i].fence] = fence[gpu[q][i].fence]
  BY <1>0, <1>8, <1>9, <1>20 DEF WorkInv, Work
<1>23. WorkInv'
  <2>. SUFFICES ASSUME NEW q \in Queues, NEW i \in 1 .. Len(gpu'[q])
                PROVE  IF gpu'[q][i].fence = Null THEN gpu'[q][i].signals = {}
                       ELSE fence'[gpu'[q][i].fence] = "pending"
    BY DEF WorkInv
  <2>1. CASE i \in 1 .. Len(gpu[q]) /\ gpu'[q][i] = gpu[q][i]
    BY <1>0, <1>22, <2>1 DEF WorkInv
  <2>2. CASE gpu'[q][i] = w
    BY <1>5, <1>6, <1>7, <1>8, <2>2
  <2>. QED  BY <1>16, <2>1, <2>2
<1>24. OnceInv'
  <2>. SUFFICES ASSUME NEW q \in Queues, NEW p \in Queues, NEW i \in 1 .. Len(gpu'[q]), NEW j \in 1 .. Len(gpu'[p]),
                       q # p \/ i # j
                PROVE  Differ(gpu'[q][i], gpu'[p][j])
    BY DEF OnceInv, Differ
  <2>1. CASE i \in 1 .. Len(gpu[q]) /\ j \in 1 .. Len(gpu[p])
    BY <1>0, <1>16, <2>1 DEF OnceInv
  <2>2. CASE i \in 1 .. Len(gpu[q]) /\ j \notin 1 .. Len(gpu[p])
    <3>1. gpu'[q][i] = gpu[q][i] /\ gpu'[p][j] = w
      BY <1>16, <2>2
    <3>. QED  BY <1>7, <1>21, <1>22, <2>2, <3>1 DEF Differ
  <2>3. CASE i \notin 1 .. Len(gpu[q]) /\ j \in 1 .. Len(gpu[p])
    <3>1. gpu'[q][i] = w /\ gpu'[p][j] = gpu[p][j]
      BY <1>16, <2>3
    <3>. QED  BY <1>7, <1>21, <1>22, <2>3, <3>1 DEF Differ
  <2>4. CASE i \notin 1 .. Len(gpu[q]) /\ j \notin 1 .. Len(gpu[p])
    <3>1. q = o /\ p = o /\ i = j
      BY <1>16, <2>4
    <3>. QED  BY <3>1
  <2>. QED  BY <2>1, <2>2, <2>3, <2>4
<1>25. \A f : Refers(state', thread', f) <=> Refers(state, thread, f)
  <2>1. \A u \in Threads : FenceOf(thread'[u]) = FenceOf(thread[u])
    BY <1>4, <1>11, <1>14 DEF LegacyType, c
  <2>. QED  BY <1>1, <2>1 DEF Refers
<1>26. PoolInv'
  <2>1. Refers(state, thread, c.fence)
    BY <1>6 DEF Refers, c
  <2>2. Elements(pool) \subseteq Fences
    BY <1>4, ElementsOf DEF LegacyType
  <2>3. \A f \in Elements(pool) : fence'[f] = "reset" /\ ~Refers(state', thread', f)
    BY <1>0, <1>8, <1>25, <2>1, <2>2 DEF PoolInv
  <2>4. \A f \in Fences : fence'[f] # "none" => f \in Elements(pool) \/ Refers(state', thread', f)
    BY <1>0, <1>8, <1>25, <2>1 DEF PoolInv
  <2>5. pool' = pool /\ \A i, j \in 1 .. Len(pool) : i # j => pool[i] # pool[j]
    BY <1>0, <1>1 DEF PoolInv
  <2>6. Elements(pool') = Elements(pool)
    BY <1>1
  <2>. QED  BY <2>3, <2>4, <2>5, <2>6 DEF PoolInv, Elements
<1>27. ASSUME NEW f \in Fences, NEW q \in Queues, NEW p, Tells(fence, finished, gpu, f, q, p)
       PROVE  Tells(fence', finished', gpu', f, q, p)
  <2>1. fence'[f] = fence[f]
    BY <1>5, <1>8, <1>9, <1>27, NullIsNone DEF Tells
  <2>2. CASE fence[f] = "signaled" /\ p \in finished
    BY <1>1, <2>1, <2>2 DEF Tells
  <2>3. CASE fence[f] = "pending" /\ \E i \in 1 .. Len(gpu[q]) : gpu[q][i].fence = f /\ p \in gpu[q][i].signals
    <3>1. PICK i \in 1 .. Len(gpu[q]) : gpu[q][i].fence = f /\ p \in gpu[q][i].signals
      BY <2>3
    <3>2. i \in 1 .. Len(gpu'[q]) /\ gpu'[q][i].fence = f /\ p \in gpu'[q][i].signals
      BY <1>16, <3>1
    <3>. QED  BY <2>1, <2>3, <3>2 DEF Tells
  <2>. QED  BY <1>27, <2>2, <2>3 DEF Tells
<1>28. TellsInv'
  <2>1. ASSUME r.pc = "push", NEW p \in Elements(r.targets)
        PROVE  Tells(fence', finished', gpu', r.fence, r.queue, p)
    <3>1. c.fence # Null /\ r.fence = c.fence /\ r.queue = o /\ p \in G /\ c.fence \in Fences
      BY <1>5, <1>12, <1>13, <2>1 DEF G
    <3>2. fence'[c.fence] = "pending"
      BY <1>8, <3>1
    <3>3. \E i \in 1 .. Len(gpu'[o]) : gpu'[o][i].fence = c.fence /\ p \in gpu'[o][i].signals
      BY <1>7, <1>16, <3>1
    <3>. QED  BY <3>1, <3>2, <3>3 DEF Tells
  <2>2. ASSUME NEW u \in Threads, thread[u].pc = "submit", thread[u].fence # Null, u # t
        PROVE  fence'[thread[u].fence] = "reset"
    <3>1. thread[u].fence \in Fences /\ FenceOf(thread[u]) = thread[u].fence
      BY <1>4, <2>2, Typed DEF CallRecords, FenceOf, Idles
    <3>2. thread[u].fence # c.fence
      BY <1>0, <1>6, <2>2, <3>1 DEF CallsInv, Apart, c
    <3>. QED  BY <1>0, <1>8, <2>2, <3>1, <3>2 DEF TellsInv
  <2>3. \A s \in Semaphores : state'[s] # Null => state[s] # Null /\
               \A e \in Elements(state'[s].pending) : e \in Elements(state[s].pending) \/
                   Tells(fence', finished', gpu', e.fence, e.queue, <<s, e.value>>)
    BY <1>1
  <2>4. r.pc # "submit"
    BY <1>14
  <2>. QED  BY <1>0, <1>4, <1>11, <1>27, <2>1, <2>2, <2>3, <2>4, TellsFrame
<1>29. Keeps
  <2>1. \A s \in Semaphores : state[s] # Null => state[s].counter \in Nat
    BY <1>4 DEF LegacyType, States
  <2>. QED  BY <1>1, <2>1 DEF Keeps
<1>30. FoundInv'
  <2>1. ASSUME NEW p \in Pairs, p \in finished' \/ Has(p)' PROVE p \in finished \/ Has(p) \/ Pushing(p)'
    <3>1. CASE p \in finished'
      BY <1>1, <3>1
    <3>2. CASE Has(p)'
      <4>1. PICK q \in Queues : \E i \in 1 .. Len(gpu'[q]) : p \in gpu'[q][i].signals
        BY <3>2 DEF Has
      <4>2. PICK i \in 1 .. Len(gpu'[q]) : p \in gpu'[q][i].signals
        BY <4>1
      <4>3. CASE i \in 1 .. Len(gpu[q]) /\ gpu'[q][i] = gpu[q][i]
        BY <4>2, <4>3 DEF Has
      <4>4. CASE gpu'[q][i] = w
        <5>1. p \in G /\ c.fence # Null
          BY <1>6, <1>7, <4>2, <4>4
        <5>2. thread'[t] = r
          BY <1>4, <1>11 DEF LegacyType
        <5>3. thread'[t].pc = "push" /\ p \in Elements(thread'[t].signals)
          BY <1>13, <5>1, <5>2 DEF G
        <5>. QED  BY <5>3 DEF Pushing, Elements
      <4>. QED  BY <1>16, <4>3, <4>4
    <3>. QED  BY <2>1, <3>1, <3>2
  <2>2. ASSUME NEW p \in Pairs, p \in fenced' \/ Covers(p)' PROVE p \in fenced \/ Covers(p)
    <3>1. CASE p \in fenced'
      BY <1>1, <3>1
    <3>2. CASE Covers(p)'
      <4>1. PICK q \in Queues : \E i \in 1 .. Len(gpu'[q]) : p \in gpu'[q][i].fences
        BY <3>2 DEF Covers
      <4>2. PICK i \in 1 .. Len(gpu'[q]) : p \in gpu'[q][i].fences
        BY <4>1
      <4>3. i \in 1 .. Len(gpu[q]) /\ gpu'[q][i] = gpu[q][i]
        BY <1>7, <1>16, <4>2
      <4>. QED  BY <4>2, <4>3 DEF Covers
    <3>. QED  BY <2>2, <3>1, <3>2
  <2>3. thread[t].pc # "push"
    BY <1>1 DEF c
  <2>4. r.pc = "push" => \A p \in Elements(r.targets) : p \in Elements(r.signals) \/ Found(p)'
    BY <1>12, <1>13
  <2>. QED  BY <1>0, <1>4, <1>11, <1>17, <1>29, <2>1, <2>2, <2>3, <2>4, FoundFrame
<1>31. PushedInv'
  <2>1. \A s \in Semaphores : state[s] # Null => state'[s] # Null /\
               \A e \in Elements(state[s].pending) :
                   e \in Elements(state'[s].pending) \/ fence[e.fence] = "signaled"
    BY <1>1
  <2>2. \A f \in Fences : fence[f] = "signaled" => fence'[f] = "signaled"
    BY <1>8, <1>9, NullIsNone
  <2>3. r.pc = "push" =>
               \A p \in Elements(r.targets) : p \in Elements(r.signals) \/ fence'[r.fence] = "signaled" \/
                   \E e \in Elements(state'[p[1]].pending) : e.fence = r.fence /\ e.value = p[2]
    BY <1>12, <1>13
  <2>. QED  BY <1>0, <1>4, <1>11, <2>1, <2>2, <2>3, PushedFrame
<1>32. Honest'
  BY <1>0, <1>1, HonestFrame
<1>. QED  BY <1>17, <1>18, <1>19, <1>23, <1>24, <1>26, <1>28, <1>30, <1>31, <1>32 DEF LegacyInv

\* The application's fence follows the values that were pushed.
LEMMA GivesFence ==
    ASSUME LegacyInv, NEW t \in Threads, Legacy!PushEnds(t), gpu' # gpu
    PROVE  LegacyInv'
<1>. DEFINE c == thread[t]
            o == c.queue
            r == Legacy!Idle
            w == [fence |-> Null, signals |-> {}, fences |-> Legacy!ToSet(c.targets)]
            dropped == {c.fence} \ {Null}
<1>30. /\ c.pc = "push" /\ c.signals = <<>> /\ issued' = issued /\ finished' = finished /\ hosted' = hosted
       /\ fenced' = fenced /\ destroyed' = destroyed
  BY DEF Legacy!PushEnds, Legacy!histories
<1>31. Legacy!Returns(t) /\ gpu' = [gpu EXCEPT ![o] = Append(@, w)]
  BY Zenon DEF Legacy!PushEnds
<1>1. Working(c)
  BY <1>30 DEF Working, Idles, Sweeps
<1>2. LegacyType /\ ~destroyed /\ c \in CallRecords /\ Shaped(c)
  BY <1>1, Parts
<1>0. CallsInv /\ ValuesInv /\ WorkInv /\ OnceInv /\ TellsInv /\ PoolInv /\ FoundInv /\ PushedInv /\ Honest
  BY DEF LegacyInv
<1>3. /\ c.targets \in Seq(Pairs) /\ c.targets # <<>> /\ o \in Queues /\ c.fence \in Fences
      /\ Elements(c.signals) = {}
  BY <1>2, <1>30 DEF CallRecords, Shaped, Elements
<1>4. Legacy!ToSet(c.targets) = Elements(c.targets) /\ Elements(c.targets) \subseteq Pairs
  BY <1>3, ElementsOf
<1>5. w \in Work /\ w.fence = Null /\ w.signals = {} /\ w.fences = Elements(c.targets)
  BY <1>4 DEF Work
<1>6. FenceOf(c) = c.fence /\ QueuesOf(c) = {o} /\ Owed(c) = {}
  BY <1>1, <1>3, <1>30, NullIsNone DEF FenceOf, QueuesOf, Owed, Working
<1>7. dropped = {c.fence} /\ dropped \in SUBSET Fences /\ IsFiniteSet(dropped)
  <2>1. dropped = {c.fence}
    BY <1>3, NullIsNone
  <2>2. IsFiniteSet({c.fence})
    BY FS_Singleton
  <2>. QED  BY <1>3, <2>1, <2>2
<1>8. state' = state /\ thread' = [thread EXCEPT ![t] = r] /\ Legacy!Releases(state', thread', dropped)
  BY <1>31, Zenon DEF Legacy!Returns, Legacy!Becomes, Legacy!Goes
<1>9. r.pc = "idle" /\ r \in AllCalls
  BY DEF Legacy!Idle, AllCalls
<1>10. gpu' = [gpu EXCEPT ![o] = Append(gpu[o], w)]
  BY <1>31
<1>. HIDE DEF r, w, dropped
<1>11. ~Sweeps(r) /\ ~Working(r) /\ QueuesOf(r) = {} /\ Owed(r) = {} /\ FenceOf(r) = Null
  BY <1>9 DEF Sweeps, Working, Idles, QueuesOf, Owed, FenceOf
<1>12. \A u \in Threads : thread'[u] = IF u = t THEN r ELSE thread[u]
  BY <1>2, <1>8 DEF LegacyType
<1>. HIDE DEF o
<1>13. /\ gpu' \in [Queues -> Seq(Work)]
       /\ \A q \in Queues : q # o => gpu'[q] = gpu[q]
       /\ \A q \in Queues : \A i \in 1 .. Len(gpu[q]) : i \in 1 .. Len(gpu'[q]) /\ gpu'[q][i] = gpu[q][i]
       /\ \A q \in Queues : \A i \in 1 .. Len(gpu'[q]) :
             \/ i \in 1 .. Len(gpu[q]) /\ gpu'[q][i] = gpu[q][i]
             \/ q = o /\ i = Len(gpu[o]) + 1 /\ i \notin 1 .. Len(gpu[q]) /\ gpu'[q][i] = w
       /\ \E i \in 1 .. Len(gpu'[o]) : gpu'[o][i] = w
  <2>1. gpu \in [Queues -> Seq(Work)] /\ gpu' = [gpu EXCEPT ![o] = Append(gpu[o], w)]
    BY <1>2, <1>10 DEF LegacyType
  <2>. HIDE DEF c
  <2>2. o \in Queues /\ w \in Work
    BY <1>3, <1>5
  <2>. QED  BY <2>1, <2>2, GivenTo
<1>14. \A f \in Fences : Refers(state', thread', f) => Refers(state, thread, f)
  BY <1>8, <1>11, <1>12, NullIsNone DEF Refers
<1>15. \A f \in Fences : Refers(state, thread, f) => f \in dropped \/ Refers(state', thread', f)
  BY <1>6, <1>7, <1>8, <1>12 DEF Refers, c
<1>16. Refers(state, thread, c.fence)
  BY <1>6 DEF Refers, c
<1>17. ASSUME fence[c.fence] = "pending" PROVE Refers(state', thread', c.fence)
  <2>1. PICK p \in Elements(c.targets) : TRUE
    BY <1>3, ElementsOf
  <2>2. \E e \in Elements(state[p[1]].pending) : e.fence = c.fence /\ e.value = p[2]
    BY <1>0, <1>3, <1>17, <1>30, <2>1 DEF PushedInv, c
  <2>3. p[1] \in Semaphores /\ state[p[1]] # Null
    <3>1. p \in Named(c)
      BY <2>1 DEF Named
    <3>. QED  BY <1>1, <3>1, Parts
  <2>. QED  BY <1>8, <2>2, <2>3 DEF Refers
<1>18. /\ fence' \in [Fences -> {"none", "reset", "pending", "signaled"}]
       /\ pool' \in Seq(Fences)
       /\ PoolInv'
       /\ \A f \in Fences : Refers(state', thread', f) \/ fence[f] = "pending" => fence'[f] = fence[f]
  <2>1. thread' \in [Threads -> AllCalls] /\ state' \in [Semaphores -> States \cup {Null}]
    BY <1>2, <1>8, <1>9 DEF LegacyType, AllCalls
  <2>. QED  BY <1>0, <1>2, <1>7, <1>8, <1>14, <1>15, <1>16, <1>17, <2>1, Released
<1>. HIDE DEF c
<1>19. LegacyType'
  BY <1>2, <1>30, <1>8, <1>9, <1>13, <1>18 DEF LegacyType, AllCalls
<1>20. CallsInv'
  <2>1. CallSound(r)' /\ \A u \in Threads : Apart(r, thread[u])
    BY <1>11 DEF CallSound, Apart
  <2>2. ASSUME NEW u \in Threads, u # t, NEW q \in QueuesOf(thread[u]) PROVE gpu'[q] = gpu[q]
    <3>1. q # o
      BY <1>0, <1>6, <2>2 DEF CallsInv, Apart, c
    <3>2. q \in Queues
      BY <1>2, <2>2, Typed DEF QueuesOf, CallRecords, SweepRecords, Working
    <3>. QED  BY <1>13, <3>1, <3>2
  <2>3. ~destroyed' /\ \A s \in Semaphores : state'[s] = Null <=> state[s] = Null
    BY <1>2, <1>8, <1>30
  <2>. QED  BY <1>0, <1>2, <1>8, <2>1, <2>2, <2>3, CallsFrame
<1>21. ValuesInv'
  <2>1. \A q \in Queues : \A i \in 1 .. Len(gpu'[q]) :
               \/ \E j \in 1 .. Len(gpu[q]) : gpu'[q][i] = gpu[q][j]
               \/ gpu'[q][i].signals \subseteq Owed(thread[t]) \ Owed(r)
    BY <1>5, <1>13
  <2>2. issued \ Owed(thread[t]) \subseteq issued' /\ Owed(r) \subseteq issued'
        /\ Owed(r) \cap (issued \ Owed(thread[t])) = {} /\ Owed(thread[t]) \subseteq issued'
    BY <1>0, <1>11, <1>30 DEF ValuesInv
  <2>. QED  BY <1>0, <1>2, <1>8, <1>30, <2>1, <2>2, ValuesFrame
<1>22. \A q \in Queues : \A i \in 1 .. Len(gpu[q]) : gpu[q][i] \in Work
  BY <1>2 DEF LegacyType
<1>23. WorkInv'
  <2>. SUFFICES ASSUME NEW q \in Queues, NEW i \in 1 .. Len(gpu'[q])
                PROVE  IF gpu'[q][i].fence = Null THEN gpu'[q][i].signals = {}
                       ELSE fence'[gpu'[q][i].fence] = "pending"
    BY DEF WorkInv
  <2>1. CASE i \in 1 .. Len(gpu[q]) /\ gpu'[q][i] = gpu[q][i]
    <3>1. gpu[q][i].fence # Null => gpu[q][i].fence \in Fences
      BY <1>22, <2>1 DEF Work
    <3>. QED  BY <1>0, <1>18, <2>1, <3>1 DEF WorkInv
  <2>2. CASE gpu'[q][i] = w
    BY <1>5, <2>2
  <2>. QED  BY <1>13, <2>1, <2>2
<1>24. OnceInv'
  <2>. SUFFICES ASSUME NEW q \in Queues, NEW p \in Queues, NEW i \in 1 .. Len(gpu'[q]), NEW j \in 1 .. Len(gpu'[p]),
                       q # p \/ i # j
                PROVE  Differ(gpu'[q][i], gpu'[p][j])
    BY DEF OnceInv, Differ
  <2>1. CASE i \in 1 .. Len(gpu[q]) /\ j \in 1 .. Len(gpu[p])
    BY <1>0, <1>13, <2>1 DEF OnceInv
  <2>2. CASE gpu'[q][i] = w
    BY <1>5, <2>2 DEF Differ
  <2>3. CASE gpu'[p][j] = w
    BY <1>5, <2>3 DEF Differ
  <2>. QED  BY <1>13, <2>1, <2>2, <2>3
<1>25. TellsInv'
  <2>1. ASSUME NEW f \in Fences, Refers(state', thread', f), NEW q \in Queues, NEW p,
               Tells(fence, finished, gpu, f, q, p)
        PROVE  Tells(fence', finished', gpu', f, q, p)
    <3>1. fence'[f] = fence[f]
      BY <1>18, <2>1
    <3>2. CASE fence[f] = "signaled" /\ p \in finished
      BY <1>30, <3>1, <3>2 DEF Tells
    <3>3. CASE fence[f] = "pending" /\ \E i \in 1 .. Len(gpu[q]) : gpu[q][i].fence = f /\ p \in gpu[q][i].signals
      <4>1. PICK i \in 1 .. Len(gpu[q]) : gpu[q][i].fence = f /\ p \in gpu[q][i].signals
        BY <3>3
      <4>2. i \in 1 .. Len(gpu'[q]) /\ gpu'[q][i].fence = f /\ p \in gpu'[q][i].signals
        BY <1>13, <4>1
      <4>. QED  BY <3>1, <3>3, <4>2 DEF Tells
    <3>. QED  BY <2>1, <3>2, <3>3 DEF Tells
  <2>2. ASSUME NEW u \in Threads, thread[u].pc = "submit", thread[u].fence # Null, u # t
        PROVE  fence'[thread[u].fence] = "reset"
    <3>1. thread[u].fence \in Fences
      BY <1>2, <2>2, Typed DEF CallRecords
    <3>2. Refers(state', thread', thread[u].fence)
      BY <1>12, <2>2 DEF Refers, FenceOf, Idles
    <3>. QED  BY <1>0, <1>18, <2>2, <3>1, <3>2 DEF TellsInv
  <2>3. \A s \in Semaphores : state'[s] # Null => state[s] # Null /\
               \A e \in Elements(state'[s].pending) : e \in Elements(state[s].pending) \/
                   Tells(fence', finished', gpu', e.fence, e.queue, <<s, e.value>>)
    BY <1>8
  <2>4. r.pc \notin {"submit", "push"}
    BY <1>9
  <2>. QED  BY <1>0, <1>2, <1>8, <2>1, <2>2, <2>3, <2>4, TellsFrame
<1>26. Keeps
  <2>1. \A s \in Semaphores : state[s] # Null => state[s].counter \in Nat
    BY <1>2 DEF LegacyType, States
  <2>. QED  BY <1>8, <2>1 DEF Keeps
<1>27. FoundInv'
  <2>1. ASSUME NEW p \in Pairs, p \in finished' \/ Has(p)' PROVE p \in finished \/ Has(p)
    <3>1. CASE p \in finished'
      BY <1>30, <3>1
    <3>2. CASE Has(p)'
      <4>1. PICK q \in Queues : \E i \in 1 .. Len(gpu'[q]) : p \in gpu'[q][i].signals
        BY <3>2 DEF Has
      <4>2. PICK i \in 1 .. Len(gpu'[q]) : p \in gpu'[q][i].signals
        BY <4>1
      <4>3. i \in 1 .. Len(gpu[q]) /\ gpu'[q][i] = gpu[q][i]
        BY <1>5, <1>13, <4>2
      <4>. QED  BY <4>2, <4>3 DEF Has
    <3>. QED  BY <2>1, <3>1, <3>2
  <2>2. ASSUME NEW p \in Pairs, p \in fenced' \/ Covers(p)' PROVE p \in fenced \/ Covers(p) \/ Found(p)'
    <3>1. CASE p \in fenced'
      BY <1>30, <3>1
    <3>2. CASE Covers(p)'
      <4>1. PICK q \in Queues : \E i \in 1 .. Len(gpu'[q]) : p \in gpu'[q][i].fences
        BY <3>2 DEF Covers
      <4>2. PICK i \in 1 .. Len(gpu'[q]) : p \in gpu'[q][i].fences
        BY <4>1
      <4>3. CASE i \in 1 .. Len(gpu[q]) /\ gpu'[q][i] = gpu[q][i]
        BY <4>2, <4>3 DEF Covers
      <4>4. CASE gpu'[q][i] = w
        <5>1. p \in Elements(c.targets)
          BY <1>5, <4>2, <4>4
        <5>2. Found(p)
          BY <1>0, <1>3, <1>30, <5>1 DEF FoundInv, c
        <5>. QED  BY <1>2, <1>19, <1>26, <5>2, FoundKept
      <4>. QED  BY <1>13, <4>3, <4>4
    <3>. QED  BY <2>2, <3>1, <3>2
  <2>3. \A p : p \notin Elements(thread[t].signals)
    BY <1>3 DEF c
  <2>4. r.pc # "push"
    BY <1>9
  <2>. QED  BY <1>0, <1>2, <1>8, <1>19, <1>26, <2>1, <2>2, <2>3, <2>4, FoundFrame
<1>28. PushedInv'
  <2>1. \A s \in Semaphores : state[s] # Null => state'[s] # Null /\
               \A e \in Elements(state[s].pending) :
                   e \in Elements(state'[s].pending) \/ fence[e.fence] = "signaled"
    BY <1>8
  <2>2. \A f \in Fences : Refers(state, thread, f) /\ Refers(state', thread', f) /\ fence[f] = "signaled"
                           => fence'[f] = "signaled"
    BY <1>18
  <2>3. r.pc # "push"
    BY <1>9
  <2>. QED  BY <1>0, <1>2, <1>8, <2>1, <2>2, <2>3, PushedFrame
<1>29. Honest'
  BY <1>0, <1>8, <1>30, HonestFrame
<1>. QED  BY <1>19, <1>20, <1>21, <1>23, <1>24, <1>18, <1>25, <1>27, <1>28, <1>29 DEF LegacyInv

LEMMA PushesEnd ==
    ASSUME LegacyInv, NEW t \in Threads, Legacy!PushEnds(t) PROVE LegacyInv'
<1>1. /\ thread[t].pc = "push" /\ thread[t].signals = <<>>
      /\ issued' = issued /\ finished' = finished /\ hosted' = hosted /\ fenced' = fenced /\ destroyed' = destroyed
  BY DEF Legacy!PushEnds, Legacy!histories
<1>2. Working(thread[t])
  BY <1>1 DEF Working, Idles, Sweeps
<1>3. CASE Legacy!Returns(t) /\ gpu' = gpu
  BY <1>1, <1>2, <1>3, ReturnsSound
<1>4. CASE gpu' # gpu
  BY <1>4, GivesFence
<1>5. CASE /\ Legacy!Becomes([s \in Semaphores |-> IF s \in Legacy!Alive THEN [state[s] EXCEPT !.error = TRUE] ELSE Null],
                             t, Legacy!Idle, {thread[t].fence})
           /\ gpu' = gpu
  BY <1>1, <1>5, PushesLost
<1>. QED  BY <1>3, <1>4, <1>5, Zenon DEF Legacy!PushEnds

-----------------------------------------------------------------------------
(* Steps of the driver, and the end of semaphores and device.               *)

\* What the driver has after it has finished the first of a queue.
Shift(q, p) == IF p = q THEN 1 ELSE 0

LEMMA TakenFrom ==
    ASSUME gpu \in [Queues -> Seq(Work)], NEW q \in Queues, gpu[q] # <<>>, gpu' = [gpu EXCEPT ![q] = Tail(gpu[q])]
    PROVE  /\ gpu' \in [Queues -> Seq(Work)]
           /\ 1 \in 1 .. Len(gpu[q]) /\ Head(gpu[q]) = gpu[q][1]
           /\ \A p \in Queues : p # q => gpu'[p] = gpu[p]
           /\ \A p \in Queues : \A i \in 1 .. Len(gpu'[p]) :
                 /\ i + Shift(q, p) \in 1 .. Len(gpu[p]) /\ gpu'[p][i] = gpu[p][i + Shift(q, p)]
                 /\ p = q => i + Shift(q, p) # 1
           /\ \A p \in Queues : \A i \in 1 .. Len(gpu[p]) :
                 \/ p = q /\ i = 1
                 \/ \E j \in 1 .. Len(gpu'[p]) : gpu'[p][j] = gpu[p][i]
<1>. DEFINE n == Len(gpu[q])
            T == Tail(gpu[q])
<1>1. gpu[q] \in Seq(Work) /\ n \in Nat \ {0} /\ Head(gpu[q]) = gpu[q][1]
  OBVIOUS
<1>2. T \in Seq(Work) /\ Len(T) = n - 1 /\ \A i \in 1 .. n - 1 : T[i] = gpu[q][i + 1]
  BY <1>1
<1>. HIDE DEF T
<1>3. gpu' \in [Queues -> Seq(Work)] /\ \A p \in Queues : gpu'[p] = IF p = q THEN T ELSE gpu[p]
  BY <1>2 DEF T
<1>4. ASSUME NEW p \in Queues, NEW i \in 1 .. Len(gpu'[p])
      PROVE  /\ i + Shift(q, p) \in 1 .. Len(gpu[p]) /\ gpu'[p][i] = gpu[p][i + Shift(q, p)]
             /\ p = q => i + Shift(q, p) # 1
  <2>1. CASE p = q
    <3>1. i \in 1 .. n - 1 /\ gpu'[p][i] = T[i] /\ Shift(q, p) = 1
      BY <1>2, <1>3, <1>4, <2>1 DEF Shift
    <3>. QED  BY <1>1, <1>2, <2>1, <3>1
  <2>2. CASE p # q
    <3>1. gpu'[p] = gpu[p] /\ Shift(q, p) = 0 /\ i + 0 = i
      BY <1>3, <2>2 DEF Shift
    <3>. QED  BY <1>4, <2>2, <3>1
  <2>. QED  BY <2>1, <2>2
<1>5. ASSUME NEW p \in Queues, NEW i \in 1 .. Len(gpu[p]), ~(p = q /\ i = 1)
      PROVE  \E j \in 1 .. Len(gpu'[p]) : gpu'[p][j] = gpu[p][i]
  <2>1. CASE p = q
    <3>1. i - 1 \in 1 .. n - 1 /\ i - 1 + 1 = i
      BY <1>1, <1>5, <2>1
    <3>2. i - 1 \in 1 .. Len(gpu'[p]) /\ gpu'[p][i - 1] = gpu[p][i]
      BY <1>2, <1>3, <2>1, <3>1
    <3>. QED  BY <3>2
  <2>2. CASE p # q
    BY <1>3, <1>5, <2>2
  <2>. QED  BY <2>1, <2>2
<1>6. 1 \in 1 .. n
  BY <1>1
<1>. QED  BY <1>1, <1>3, <1>4, <1>5, <1>6

LEMMA FinishesWork ==
    ASSUME LegacyInv, NEW q \in Queues, Legacy!GpuFinishes(q) PROVE LegacyInv'
<1>. DEFINE b == gpu[q][1]
            sh(p) == Shift(q, p)
<1>0. /\ LegacyType /\ CallsInv /\ ValuesInv /\ WorkInv /\ OnceInv /\ TellsInv /\ PoolInv /\ FoundInv /\ PushedInv
      /\ Honest
  BY DEF LegacyInv
<1>1. /\ gpu[q] # <<>> /\ state' = state /\ pool' = pool /\ thread' = thread /\ issued' = issued
      /\ hosted' = hosted /\ destroyed' = destroyed
      /\ gpu' = [gpu EXCEPT ![q] = Tail(gpu[q])]
  BY DEF Legacy!GpuFinishes
<1>2. gpu \in [Queues -> Seq(Work)]
  BY <1>0 DEF LegacyType
<1>3. /\ gpu' \in [Queues -> Seq(Work)]
      /\ 1 \in 1 .. Len(gpu[q]) /\ Head(gpu[q]) = gpu[q][1]
      /\ \A p \in Queues : p # q => gpu'[p] = gpu[p]
      /\ \A p \in Queues : \A i \in 1 .. Len(gpu'[p]) :
            /\ i + sh(p) \in 1 .. Len(gpu[p]) /\ gpu'[p][i] = gpu[p][i + sh(p)]
            /\ p = q => i + sh(p) # 1
      /\ \A p \in Queues : \A i \in 1 .. Len(gpu[p]) :
            \/ p = q /\ i = 1
            \/ \E j \in 1 .. Len(gpu'[p]) : gpu'[p][j] = gpu[p][i]
  BY <1>1, <1>2, TakenFrom
<1>4. /\ fence' = [f \in Fences |-> IF f = b.fence THEN "signaled" ELSE fence[f]]
      /\ finished' = finished \cup b.signals /\ fenced' = fenced \cup b.fences
  BY <1>3 DEF Legacy!GpuFinishes
<1>5. b \in Work /\ b.signals \subseteq Pairs /\ b.fences \subseteq Pairs /\ b.fence \in Fences \cup {Null}
  <2>1. b \in Work
    BY <1>2, <1>3
  <2>. HIDE DEF b
  <2>. QED  BY <2>1 DEF Work
<1>6. \A f \in Fences : fence'[f] = IF f = b.fence THEN "signaled" ELSE fence[f]
  BY <1>4
<1>7. \A f \in Fences : f = b.fence => fence[f] = "pending"
  <2>1. IF b.fence = Null THEN b.signals = {} ELSE fence[b.fence] = "pending"
    BY <1>0, <1>3 DEF WorkInv
  <2>. HIDE DEF b
  <2>. QED  BY <2>1, NullIsNone
<1>8. \A p \in Queues : \A i \in 1 .. Len(gpu[p]) : p # q \/ i # 1 => Differ(gpu[p][i], b)
  BY <1>0, <1>3 DEF OnceInv
<1>9. /\ b.signals \subseteq issued \ finished
      /\ \A t \in Threads : b.signals \cap Owed(thread[t]) = {}
  BY <1>0, <1>3 DEF ValuesInv
<1>. HIDE DEF b
<1>10. LegacyType'
  <2>1. fence' \in [Fences -> {"none", "reset", "pending", "signaled"}]
    BY <1>0, <1>4 DEF LegacyType
  <2>. QED  BY <1>0, <1>1, <1>3, <1>4, <1>5, <2>1 DEF LegacyType
<1>11. CallsInv'
  <2>1. ~destroyed
    BY <1>0, <1>1 DEF CallsInv
  <2>2. ASSUME NEW t \in Threads PROVE CallSound(thread[t])'
    <3>1. CallSound(thread[t])
      BY <1>0 DEF CallsInv
    <3>2. ASSUME Sweeps(thread[t]), NEW p \in thread[t].queue PROVE gpu'[p] = <<>>
      <4>1. gpu[p] = <<>> /\ p \in Queues
        BY <1>0, <3>1, <3>2, Typed DEF CallSound, SweepRecords
      <4>. QED  BY <1>1, <1>3, <4>1
    <3>. QED  BY <1>1, <3>1, <3>2 DEF CallSound
  <2>3. \A t, u \in Threads : t # u => Apart(thread[t], thread[u])'
    BY <1>0, <1>1 DEF CallsInv, Apart
  <2>. QED  BY <1>1, <2>1, <2>2, <2>3 DEF CallsInv
<1>12. ValuesInv'
  <2>1. finished' \subseteq issued
    BY <1>0, <1>4, <1>9 DEF ValuesInv
  <2>2. \A t \in Threads : Owed(thread[t]) \subseteq issued \ finished'
    BY <1>0, <1>4, <1>9 DEF ValuesInv
  <2>3. ASSUME NEW p \in Queues, NEW i \in 1 .. Len(gpu'[p])
        PROVE  /\ gpu'[p][i].signals \subseteq issued \ finished'
               /\ \A t \in Threads : gpu'[p][i].signals \cap Owed(thread[t]) = {}
    <3>1. PICK j \in 1 .. Len(gpu[p]) : gpu'[p][i] = gpu[p][j] /\ (p = q => j # 1)
      BY <1>3
    <3>2. gpu[p][j].signals \cap b.signals = {}
      BY <1>8, <3>1 DEF Differ
    <3>3. /\ gpu[p][j].signals \subseteq issued \ finished
          /\ \A t \in Threads : gpu[p][j].signals \cap Owed(thread[t]) = {}
      BY <1>0 DEF ValuesInv
    <3>. QED  BY <1>4, <3>1, <3>2, <3>3
  <2>4. \A t \in Threads : Owed(thread[t])' = Owed(thread[t])
    BY <1>1 DEF Owed, Working, Idles, Sweeps, Elements
  <2>. QED  BY <1>1, <2>1, <2>2, <2>3, <2>4 DEF ValuesInv
<1>13. WorkInv'
  <2>. SUFFICES ASSUME NEW p \in Queues, NEW i \in 1 .. Len(gpu'[p])
                PROVE  IF gpu'[p][i].fence = Null THEN gpu'[p][i].signals = {}
                       ELSE fence'[gpu'[p][i].fence] = "pending"
    BY DEF WorkInv
  <2>1. PICK j \in 1 .. Len(gpu[p]) : gpu'[p][i] = gpu[p][j] /\ (p = q => j # 1)
    BY <1>3
  <2>2. gpu[p][j].fence # Null => gpu[p][j].fence # b.fence
    BY <1>8, <2>1 DEF Differ
  <2>3. IF gpu[p][j].fence = Null THEN gpu[p][j].signals = {} ELSE fence[gpu[p][j].fence] = "pending"
    BY <1>0 DEF WorkInv
  <2>4. gpu[p][j] \in Work
    BY <1>2
  <2>5. gpu[p][j].fence # Null => gpu[p][j].fence \in Fences
    BY <2>4 DEF Work
  <2>. QED  BY <1>6, <2>1, <2>2, <2>3, <2>5
<1>14. OnceInv'
  <2>. SUFFICES ASSUME NEW p \in Queues, NEW o \in Queues, NEW i \in 1 .. Len(gpu'[p]), NEW j \in 1 .. Len(gpu'[o]),
                       p # o \/ i # j
                PROVE  Differ(gpu'[p][i], gpu'[o][j])
    BY DEF OnceInv, Differ
  <2>1. /\ i + sh(p) \in 1 .. Len(gpu[p]) /\ gpu'[p][i] = gpu[p][i + sh(p)]
        /\ j + sh(o) \in 1 .. Len(gpu[o]) /\ gpu'[o][j] = gpu[o][j + sh(o)]
    BY <1>3
  <2>2. p = o => i + sh(p) # j + sh(o)
    BY DEF Shift
  <2>. HIDE DEF sh
  <2>. QED  BY <1>0, <2>1, <2>2 DEF OnceInv
<1>15. ASSUME NEW f \in Fences, NEW o \in Queues, NEW p, Tells(fence, finished, gpu, f, o, p)
       PROVE  Tells(fence', finished', gpu', f, o, p)
  <2>1. CASE fence[f] = "signaled" /\ p \in finished
    BY <1>4, <1>6, <2>1 DEF Tells
  <2>2. CASE fence[f] = "pending" /\ \E i \in 1 .. Len(gpu[o]) : gpu[o][i].fence = f /\ p \in gpu[o][i].signals
    <3>1. PICK i \in 1 .. Len(gpu[o]) : gpu[o][i].fence = f /\ p \in gpu[o][i].signals
      BY <2>2
    <3>2. CASE o = q /\ i = 1
      <4>1. b.fence = f /\ p \in b.signals
        BY <3>1, <3>2 DEF b
      <4>. QED  BY <1>4, <1>6, <4>1 DEF Tells
    <3>3. CASE o # q \/ i # 1
      <4>1. f # b.fence
        BY <1>8, <3>1, <3>3, NullIsNone DEF Differ
      <4>2. PICK j \in 1 .. Len(gpu'[o]) : gpu'[o][j] = gpu[o][i]
        BY <1>3, <3>3
      <4>3. gpu'[o][j].fence = f /\ p \in gpu'[o][j].signals /\ fence'[f] = "pending"
        BY <1>6, <2>2, <3>1, <4>1, <4>2
      <4>. QED  BY <4>3 DEF Tells
    <3>. QED  BY <3>2, <3>3
  <2>. QED  BY <1>15, <2>1, <2>2 DEF Tells
<1>16. TellsInv'
  <2>1. ASSUME NEW s \in Semaphores, state[s] # Null, NEW e \in Elements(state[s].pending)
        PROVE  Tells(fence', finished', gpu', e.fence, e.queue, <<s, e.value>>)
    <3>1. e.fence \in Fences /\ e.queue \in Queues
      BY <1>0, <2>1, PendingOf DEF Entries
    <3>2. Tells(fence, finished, gpu, e.fence, e.queue, <<s, e.value>>)
      BY <1>0, <2>1 DEF TellsInv
    <3>. QED  BY <1>15, <3>1, <3>2
  <2>2. ASSUME NEW t \in Threads, thread[t].pc = "push", NEW p \in Elements(thread[t].targets)
        PROVE  Tells(fence', finished', gpu', thread[t].fence, thread[t].queue, p)
    <3>1. thread[t].fence \in Fences /\ thread[t].queue \in Queues
      BY <1>0, <2>2, Typed DEF CallsInv, CallSound, Shaped, CallRecords
    <3>2. Tells(fence, finished, gpu, thread[t].fence, thread[t].queue, p)
      BY <1>0, <2>2 DEF TellsInv
    <3>. QED  BY <1>15, <3>1, <3>2
  <2>3. ASSUME NEW t \in Threads, thread[t].pc = "submit", thread[t].fence # Null
        PROVE  fence'[thread[t].fence] = "reset"
    <3>1. thread[t].fence \in Fences
      BY <1>0, <2>3, Typed DEF CallRecords
    <3>. QED  BY <1>0, <1>6, <1>7, <2>3, <3>1 DEF TellsInv
  <2>. QED  BY <1>1, <2>1, <2>2, <2>3 DEF TellsInv, Elements
<1>17. PoolInv'
  <2>1. \A f : Refers(state', thread', f) <=> Refers(state, thread, f)
    BY <1>1
  <2>2. Elements(pool) \subseteq Fences
    BY <1>0, ElementsOf DEF LegacyType
  <2>3. \A f \in Elements(pool) : fence'[f] = "reset" /\ ~Refers(state, thread, f)
    BY <1>0, <1>6, <1>7, <2>2 DEF PoolInv
  <2>4. \A f \in Fences : fence'[f] # "none" => f \in Elements(pool) \/ Refers(state, thread, f)
    BY <1>0, <1>6, <1>7 DEF PoolInv
  <2>5. pool' = pool /\ \A i, j \in 1 .. Len(pool) : i # j => pool[i] # pool[j]
    BY <1>0, <1>1 DEF PoolInv
  <2>. QED  BY <2>1, <2>3, <2>4, <2>5 DEF PoolInv, Elements
<1>18. FoundInv'
  <2>1. ASSUME NEW p \in Pairs, p \in finished' \/ Has(p)' PROVE p \in finished \/ Has(p)
    <3>1. b.signals \subseteq {p0 \in Pairs : Has(p0)}
      BY <1>3, <1>5 DEF Has, b
    <3>2. CASE p \in finished'
      BY <1>4, <3>1, <3>2
    <3>3. CASE Has(p)'
      <4>1. PICK o \in Queues : \E i \in 1 .. Len(gpu'[o]) : p \in gpu'[o][i].signals
        BY <3>3 DEF Has
      <4>2. PICK i \in 1 .. Len(gpu'[o]) : p \in gpu'[o][i].signals
        BY <4>1
      <4>3. PICK j \in 1 .. Len(gpu[o]) : gpu'[o][i] = gpu[o][j]
        BY <1>3
      <4>. QED  BY <4>2, <4>3 DEF Has
    <3>. QED  BY <2>1, <3>2, <3>3
  <2>2. ASSUME NEW p \in Pairs, p \in fenced' \/ Covers(p)' PROVE p \in fenced \/ Covers(p)
    <3>1. b.fences \subseteq {p0 \in Pairs : Covers(p0)}
      BY <1>3, <1>5 DEF Covers, b
    <3>2. CASE p \in fenced'
      BY <1>4, <3>1, <3>2
    <3>3. CASE Covers(p)'
      <4>1. PICK o \in Queues : \E i \in 1 .. Len(gpu'[o]) : p \in gpu'[o][i].fences
        BY <3>3 DEF Covers
      <4>2. PICK i \in 1 .. Len(gpu'[o]) : p \in gpu'[o][i].fences
        BY <4>1
      <4>3. PICK j \in 1 .. Len(gpu[o]) : gpu'[o][i] = gpu[o][j]
        BY <1>3
      <4>. QED  BY <4>2, <4>3 DEF Covers
    <3>. QED  BY <2>2, <3>2, <3>3
  <2>3. \A p : (Found(p)' <=> Found(p)) /\ (Pushing(p)' <=> Pushing(p))
    BY <1>1 DEF Found, Pushing, Elements
  <2>4. \A t \in Threads : thread'[t].pc = "push" =>
           \A p \in Elements(thread'[t].targets) : p \in Elements(thread'[t].signals) \/ Found(p)
    BY <1>0, <1>1 DEF FoundInv
  <2>. QED  BY <1>0, <2>1, <2>2, <2>3, <2>4 DEF FoundInv, Elements
<1>19. PushedInv'
  <2>1. ASSUME NEW t \in Threads, thread[t].pc = "push", fence[thread[t].fence] = "signaled"
        PROVE  fence'[thread[t].fence] = "signaled"
    <3>1. thread[t].fence \in Fences
      BY <1>0, <2>1, Typed DEF CallsInv, CallSound, Shaped, CallRecords
    <3>. QED  BY <1>6, <2>1, <3>1
  <2>2. \A t \in Threads : thread'[t].pc = "push" =>
            \A p \in Elements(thread'[t].targets) :
                \/ p \in Elements(thread'[t].signals) \/ fence'[thread'[t].fence] = "signaled"
                \/ \E e \in Elements(state'[p[1]].pending) : e.fence = thread'[t].fence /\ e.value = p[2]
    BY <1>0, <1>1, <2>1 DEF PushedInv
  <2>. QED  BY <2>2 DEF PushedInv, Elements
<1>20. Honest'
  BY <1>0, <1>1, <1>4 DEF Honest
<1>. QED  BY <1>10, <1>11, <1>12, <1>13, <1>14, <1>16, <1>17, <1>18, <1>19, <1>20 DEF LegacyInv

\* A semaphore that is destroyed is nobody's.
LEMMA Unnamed ==
    ASSUME LegacyInv, NEW s \in Semaphores, ~\E t \in Threads : Legacy!Uses(t, s), NEW t \in Threads
    PROVE  ~Sweeps(thread[t]) /\ (Working(thread[t]) => \A p \in Named(thread[t]) : p[1] # s)
<1>1. ~Legacy!Uses(t, s)
  OBVIOUS
<1>2. ~Sweeps(thread[t])
  BY <1>1 DEF Legacy!Uses, Legacy!InCall, Sweeps
<1>3. ASSUME Working(thread[t]), NEW p \in Named(thread[t]) PROVE p[1] # s
  <2>. DEFINE c == thread[t]
  <2>1. c \in CallRecords
    BY <1>3, Parts
  <2>2. c.targets \in Seq(Pairs) /\ c.waits \in Seq(Pairs) /\ c.signals \in Seq(Pairs)
    BY <2>1 DEF CallRecords
  <2>3. Legacy!ToSet(c.waits) = Elements(c.waits) /\ Legacy!ToSet(c.signals) = Elements(c.signals)
    BY <2>2, ElementsOf
  <2>4. DOMAIN c.targets = 1 .. Len(c.targets)
    BY <2>2
  <2>5. Legacy!InCall(t)
    BY <1>3 DEF Legacy!InCall, Working, Idles
  <2>6. /\ \A i \in 1 .. Len(c.targets) : c.targets[i][1] # s
        /\ \A o \in Elements(c.waits) \cup Elements(c.signals) : o[1] # s
    BY <1>1, <2>3, <2>4, <2>5 DEF Legacy!Uses
  <2>7. \A o \in Elements(c.targets) : o[1] # s
    BY <2>6 DEF Elements
  <2>. QED  BY <2>6, <2>7, <1>3 DEF Named
<1>. QED  BY <1>2, <1>3

LEMMA DestroysSemaphore ==
    ASSUME LegacyInv, NEW s \in Semaphores, Legacy!Destroy(s) PROVE LegacyInv'
<1>. DEFINE dropped == {e.fence : e \in Elements(state[s].pending)}
<1>0. /\ LegacyType /\ CallsInv /\ ValuesInv /\ WorkInv /\ OnceInv /\ TellsInv /\ PoolInv /\ FoundInv /\ PushedInv
      /\ Honest
  BY DEF LegacyInv
<1>1. /\ gpu' = gpu /\ thread' = thread /\ issued' = issued /\ finished' = finished /\ hosted' = hosted
      /\ fenced' = fenced /\ destroyed' = destroyed /\ state' = [state EXCEPT ![s] = Null]
      /\ s \in Legacy!Alive /\ ~\E t \in Threads : Legacy!Uses(t, s)
      /\ \A p \in issued : p[1] = s => p \in finished
  BY DEF Legacy!Destroy, Legacy!histories
<1>2. state[s] # Null
  BY <1>1 DEF Legacy!Alive
<1>3. state[s].pending \in Seq(Entries)
  BY <1>0, <1>2, PendingOf
<1>4. dropped \in SUBSET Fences /\ IsFiniteSet(dropped)
  BY <1>3, FewFences
<1>5. Legacy!Releases(state', thread', dropped)
  <2>1. Legacy!ToSet(state[s].pending) = Elements(state[s].pending)
    BY <1>3, ElementsOf
  <2>2. Legacy!Releases(state', thread, {e.fence : e \in Legacy!ToSet(state[s].pending)})
    BY Zenon DEF Legacy!Destroy
  <2>. QED  BY <1>1, <2>1, <2>2
<1>6. \A o \in Semaphores : state'[o] = IF o = s THEN Null ELSE state[o]
  BY <1>0, <1>1 DEF LegacyType
<1>7. \A f \in dropped : Refers(state, thread, f)
  BY <1>2 DEF Refers
<1>8. ASSUME NEW f \in dropped PROVE fence[f] # "pending"
  <2>1. PICK e \in Elements(state[s].pending) : e.fence = f
    OBVIOUS
  <2>2. e.queue \in Queues
    BY <1>0, <1>2, <2>1, PendingOf DEF Entries
  <2>3. Tells(fence, finished, gpu, f, e.queue, <<s, e.value>>)
    BY <1>0, <1>2, <2>1 DEF TellsInv
  <2>4. <<s, e.value>> \notin issued \ finished
    BY <1>1
  <2>5. \A i \in 1 .. Len(gpu[e.queue]) : gpu[e.queue][i].signals \subseteq issued \ finished
    BY <1>0, <2>2 DEF ValuesInv
  <2>. QED  BY <2>3, <2>4, <2>5 DEF Tells
<1>9. \A f \in Fences : Refers(state', thread', f) => Refers(state, thread, f)
  BY <1>1, <1>6 DEF Refers
<1>10. \A f \in Fences : Refers(state, thread, f) => f \in dropped \/ Refers(state', thread', f)
  <2>. SUFFICES ASSUME NEW f \in Fences, Refers(state, thread, f), f \notin dropped PROVE Refers(state', thread', f)
    OBVIOUS
  <2>1. CASE \E o \in Semaphores : state[o] # Null /\ \E e \in Elements(state[o].pending) : e.fence = f
    <3>1. PICK o \in Semaphores : state[o] # Null /\ \E e \in Elements(state[o].pending) : e.fence = f
      BY <2>1
    <3>2. o # s
      BY <3>1
    <3>3. state'[o] # Null /\ \E e \in Elements(state'[o].pending) : e.fence = f
      BY <1>6, <3>1, <3>2
    <3>. QED  BY <3>3 DEF Refers
  <2>2. CASE \E t \in Threads : FenceOf(thread[t]) = f
    BY <1>1, <2>2 DEF Refers
  <2>. QED  BY <2>1, <2>2 DEF Refers
<1>. HIDE DEF dropped
<1>11. /\ fence' \in [Fences -> {"none", "reset", "pending", "signaled"}]
       /\ pool' \in Seq(Fences)
       /\ PoolInv'
       /\ \A f \in Fences : Refers(state', thread', f) \/ fence[f] = "pending" => fence'[f] = fence[f]
  <2>1. thread' \in [Threads -> AllCalls] /\ state' \in [Semaphores -> States \cup {Null}]
    BY <1>0, <1>1 DEF LegacyType, AllCalls
  <2>. QED  BY <1>0, <1>4, <1>5, <1>7, <1>8, <1>9, <1>10, <2>1, Released
<1>12. LegacyType'
  BY <1>0, <1>1, <1>11 DEF LegacyType
<1>13. ~destroyed
  BY <1>0, <1>2 DEF CallsInv
<1>14. \A t \in Threads : ~Sweeps(thread[t]) /\ (Working(thread[t]) => \A p \in Named(thread[t]) : p[1] # s)
  BY <1>1, Unnamed
<1>15. ASSUME NEW t \in Threads, Working(thread[t]), NEW p \in Named(thread[t])
       PROVE  p[1] \in Semaphores /\ p[1] # s /\ state[p[1]] # Null /\ state'[p[1]] = state[p[1]]
  BY <1>6, <1>14, <1>15, Parts
<1>16. CallsInv'
  <2>1. ASSUME NEW t \in Threads PROVE CallSound(thread[t])'
    <3>1. CallSound(thread[t])
      BY <1>0 DEF CallsInv
    <3>2. Working(thread[t]) => \A p \in Named(thread[t]) : state'[p[1]] # Null
      BY <1>15
    <3>. QED  BY <1>1, <1>14, <3>1, <3>2 DEF CallSound
  <2>2. \A t, u \in Threads : t # u => Apart(thread[t], thread[u])'
    BY <1>0, <1>1 DEF CallsInv, Apart
  <2>. QED  BY <1>1, <1>13, <2>1, <2>2 DEF CallsInv
<1>17. ValuesInv'
  <2>1. \A t \in Threads : Owed(thread[t])' = Owed(thread[t])
    BY <1>1 DEF Owed, Working, Idles, Sweeps, Elements
  <2>. QED  BY <1>0, <1>1, <2>1 DEF ValuesInv
<1>18. WorkInv' /\ OnceInv'
  <2>1. ASSUME NEW q \in Queues, NEW i \in 1 .. Len(gpu[q]), gpu[q][i].fence # Null
        PROVE  fence'[gpu[q][i].fence] = fence[gpu[q][i].fence]
    <3>1. gpu[q][i] \in Work
      BY <1>0 DEF LegacyType
    <3>2. gpu[q][i].fence \in Fences
      BY <2>1, <3>1 DEF Work
    <3>3. fence[gpu[q][i].fence] = "pending"
      BY <1>0, <2>1 DEF WorkInv
    <3>. QED  BY <1>11, <3>2, <3>3
  <2>. QED  BY <1>0, <1>1, <2>1, WorkFrame
<1>19. ASSUME NEW f \in Fences, Refers(state', thread', f), NEW q, NEW p, Tells(fence, finished, gpu, f, q, p)
       PROVE  Tells(fence', finished', gpu', f, q, p)
  <2>1. fence'[f] = fence[f]
    BY <1>11, <1>19
  <2>. QED  BY <1>1, <1>19, <2>1 DEF Tells
<1>20. ASSUME NEW t \in Threads, thread[t].pc \in {"submit", "push"}, thread[t].fence # Null
       PROVE  /\ Working(thread[t]) /\ thread[t].fence \in Fences /\ Refers(state', thread', thread[t].fence)
              /\ fence'[thread[t].fence] = fence[thread[t].fence]
  <2>1. Working(thread[t]) /\ FenceOf(thread[t]) = thread[t].fence
    BY <1>20 DEF Working, Idles, Sweeps, FenceOf
  <2>2. thread[t].fence \in Fences
    BY <1>0, <1>20, <2>1, Typed DEF CallRecords
  <2>3. Refers(state', thread', thread[t].fence)
    BY <1>1, <2>1 DEF Refers
  <2>. QED  BY <1>11, <2>1, <2>2, <2>3
<1>21. \A t \in Threads : thread[t].pc = "push" => Working(thread[t]) /\ thread[t].fence # Null
  <2>1. \A t \in Threads : thread[t].pc = "push" => Working(thread[t])
    BY DEF Working, Idles, Sweeps
  <2>2. \A t \in Threads : thread[t].pc = "push" => thread[t].fence # Null
    BY <1>0, <2>1 DEF CallsInv, CallSound, Shaped
  <2>. QED  BY <2>1, <2>2
<1>22. TellsInv'
  <2>1. ASSUME NEW o \in Semaphores, state'[o] # Null, NEW e \in Elements(state'[o].pending)
        PROVE  Tells(fence', finished', gpu', e.fence, e.queue, <<o, e.value>>)
    <3>1. state'[o] = state[o] /\ state[o] # Null
      BY <1>6, <2>1
    <3>2. e.fence \in Fences /\ Tells(fence, finished, gpu, e.fence, e.queue, <<o, e.value>>)
      BY <1>0, <2>1, <3>1, PendingOf DEF TellsInv, Entries
    <3>3. Refers(state', thread', e.fence)
      BY <2>1 DEF Refers
    <3>. QED  BY <1>19, <3>2, <3>3
  <2>2. ASSUME NEW t \in Threads, thread[t].pc = "push", NEW p \in Elements(thread[t].targets)
        PROVE  Tells(fence', finished', gpu', thread[t].fence, thread[t].queue, p)
    <3>1. Tells(fence, finished, gpu, thread[t].fence, thread[t].queue, p)
      BY <1>0, <2>2 DEF TellsInv
    <3>2. thread[t].fence \in Fences /\ Refers(state', thread', thread[t].fence)
      BY <1>20, <1>21, <2>2
    <3>. QED  BY <1>19, <3>1, <3>2
  <2>3. \A t \in Threads : thread[t].pc = "submit" /\ thread[t].fence # Null => fence'[thread[t].fence] = "reset"
    BY <1>0, <1>20 DEF TellsInv
  <2>. QED  BY <1>1, <2>1, <2>2, <2>3 DEF TellsInv, Elements
<1>23. FoundInv'
  <2>1. ASSUME NEW p \in Pairs, Found(p) PROVE Found(p)'
    <3>1. p[1] \in Semaphores
      BY PairOf
    <3>2. state'[p[1]] = Null \/ state'[p[1]] = state[p[1]]
      BY <1>6, <3>1
    <3>. QED  BY <2>1, <3>2 DEF Found, Elements
  <2>2. \A p : (Has(p)' <=> Has(p)) /\ (Covers(p)' <=> Covers(p)) /\ (Pushing(p)' <=> Pushing(p))
    BY <1>1 DEF Has, Covers, Pushing, Elements
  <2>3. ASSUME NEW t \in Threads, thread[t].pc = "push", NEW p \in Elements(thread[t].targets)
        PROVE  p \in Elements(thread[t].signals) \/ Found(p)'
    <3>1. p \in Pairs
      <4>1. Working(thread[t]) /\ p \in Named(thread[t])
        BY <1>21, <2>3 DEF Named
      <4>. QED  BY <4>1, Parts
    <3>. QED  BY <1>0, <2>1, <2>3, <3>1 DEF FoundInv
  <2>4. /\ \A p \in Pairs : p \in finished \/ Has(p) => Found(p) \/ Pushing(p)
        /\ \A p \in Pairs : p \in fenced \/ Covers(p) => Found(p)
    BY <1>0 DEF FoundInv
  <2>. QED  BY <1>1, <2>1, <2>2, <2>3, <2>4 DEF FoundInv, Elements
<1>24. PushedInv'
  <2>1. ASSUME NEW t \in Threads, thread[t].pc = "push", NEW p \in Elements(thread[t].targets)
        PROVE  \/ p \in Elements(thread[t].signals) \/ fence'[thread[t].fence] = "signaled"
               \/ \E e \in Elements(state'[p[1]].pending) : e.fence = thread[t].fence /\ e.value = p[2]
    <3>1. \/ p \in Elements(thread[t].signals) \/ fence[thread[t].fence] = "signaled"
          \/ \E e \in Elements(state[p[1]].pending) : e.fence = thread[t].fence /\ e.value = p[2]
      BY <1>0, <2>1 DEF PushedInv
    <3>2. fence'[thread[t].fence] = fence[thread[t].fence]
      BY <1>20, <1>21, <2>1
    <3>3. state'[p[1]] = state[p[1]]
      <4>1. Working(thread[t]) /\ p \in Named(thread[t])
        BY <1>21, <2>1 DEF Named
      <4>. QED  BY <1>15, <4>1
    <3>. QED  BY <3>1, <3>2, <3>3
  <2>2. \A t \in Threads : thread'[t].pc = "push" =>
            \A p \in Elements(thread'[t].targets) :
                \/ p \in Elements(thread'[t].signals) \/ fence'[thread'[t].fence] = "signaled"
                \/ \E e \in Elements(state'[p[1]].pending) : e.fence = thread'[t].fence /\ e.value = p[2]
    BY <1>1, <2>1
  <2>. QED  BY <2>2 DEF PushedInv, Elements
<1>25. Honest'
  BY <1>0, <1>1, <1>6 DEF Honest
<1>. QED  BY <1>11, <1>12, <1>16, <1>17, <1>18, <1>22, <1>23, <1>24, <1>25 DEF LegacyInv

LEMMA DestroysDevice ==
    ASSUME LegacyInv, Legacy!DestroyDevice PROVE LegacyInv'
<1>. DEFINE held == UNION {{e.fence : e \in Legacy!ToSet(state[s].pending)} : s \in Legacy!Alive}
<1>0. /\ LegacyType /\ CallsInv /\ ValuesInv /\ WorkInv /\ OnceInv /\ TellsInv /\ PoolInv /\ FoundInv /\ PushedInv
      /\ Honest
  BY DEF LegacyInv
<1>1. /\ gpu' = gpu /\ thread' = thread /\ issued' = issued /\ finished' = finished /\ hosted' = hosted
      /\ fenced' = fenced /\ destroyed' = TRUE /\ pool' = <<>>
      /\ state' = [s \in Semaphores |-> Null]
      /\ \A t \in Threads : ~Legacy!InCall(t)
      /\ \A q \in Queues : gpu[q] = <<>>
  BY DEF Legacy!DestroyDevice
<1>2. fence' = [f \in Fences |-> IF f \in held \cup Legacy!ToSet(pool) THEN "none" ELSE fence[f]]
  BY Zenon DEF Legacy!DestroyDevice
<1>3. \A t \in Threads : thread[t].pc = "idle" /\ FenceOf(thread[t]) = Null /\ Owed(thread[t]) = {}
  BY <1>1, Outside
<1>4. ASSUME NEW f \in Fences PROVE fence'[f] = "none"
  <2>1. Legacy!ToSet(pool) = Elements(pool)
    BY <1>0, ElementsOf DEF LegacyType
  <2>2. CASE f \in Elements(pool)
    BY <1>2, <2>1, <2>2
  <2>3. CASE \E s \in Semaphores : state[s] # Null /\ \E e \in Elements(state[s].pending) : e.fence = f
    <3>1. PICK s \in Semaphores : state[s] # Null /\ \E e \in Elements(state[s].pending) : e.fence = f
      BY <2>3
    <3>2. state[s].pending \in Seq(Entries)
      BY <1>0, <3>1, PendingOf
    <3>3. Legacy!ToSet(state[s].pending) = Elements(state[s].pending)
      BY <3>2, ElementsOf
    <3>4. s \in Legacy!Alive
      BY <3>1 DEF Legacy!Alive
    <3>5. f \in held
      BY <3>1, <3>3, <3>4
    <3>. QED  BY <1>2, <3>5
  <2>4. CASE fence[f] = "none"
    BY <1>2, <2>4
  <2>5. ~\E t \in Threads : FenceOf(thread[t]) = f
    BY <1>3, NullIsNone
  <2>6. fence[f] # "none" => f \in Elements(pool) \/ Refers(state, thread, f)
    BY <1>0 DEF PoolInv
  <2>. QED  BY <2>2, <2>3, <2>4, <2>5, <2>6 DEF Refers
<1>. HIDE DEF held
<1>5. \A s \in Semaphores : state'[s] = Null
  BY <1>1
<1>6. \A q \in Queues : gpu'[q] = <<>> /\ 1 .. Len(gpu'[q]) = {}
  BY <1>1
<1>7. Elements(pool') = {} /\ 1 .. Len(pool') = {}
  BY <1>1 DEF Elements
<1>8. LegacyType'
  <2>1. fence' \in [Fences -> {"none", "reset", "pending", "signaled"}]
    BY <1>0, <1>2 DEF LegacyType
  <2>2. state' \in [Semaphores -> States \cup {Null}] /\ pool' \in Seq(Fences)
    BY <1>1
  <2>. QED  BY <1>0, <1>1, <2>1, <2>2 DEF LegacyType
<1>9. \A t \in Threads : thread'[t].pc = "idle" /\ Idles(thread'[t]) /\ ~Working(thread'[t]) /\ ~Sweeps(thread'[t])
  BY <1>1, <1>3 DEF Idles, Working, Sweeps
<1>10. CallsInv'
  <2>1. \A t \in Threads : CallSound(thread[t])'
    BY <1>9 DEF CallSound, Working, Sweeps, Idles
  <2>2. \A t, u \in Threads : t # u => Apart(thread[t], thread[u])'
    BY <1>0, <1>1 DEF CallsInv, Apart
  <2>3. \A t \in Threads : Idles(thread[t])'
    BY <1>9 DEF Idles
  <2>. QED  BY <1>4, <1>5, <1>6, <2>1, <2>2, <2>3 DEF CallsInv
<1>11. ValuesInv'
  <2>1. \A t \in Threads : Owed(thread[t])' = Owed(thread[t])
    BY <1>1 DEF Owed, Working, Idles, Sweeps, Elements
  <2>. QED  BY <1>0, <1>1, <2>1 DEF ValuesInv
<1>12. WorkInv' /\ OnceInv'
  BY <1>6 DEF WorkInv, OnceInv
<1>13. TellsInv'
  BY <1>5, <1>9 DEF TellsInv
<1>14. PoolInv'
  BY <1>4, <1>7 DEF PoolInv
<1>15. FoundInv'
  <2>1. \A p \in Pairs : Found(p)'
    BY <1>5, PairOf DEF Found
  <2>. QED  BY <1>9, <2>1 DEF FoundInv
<1>16. PushedInv'
  BY <1>9 DEF PushedInv
<1>17. Honest'
  BY <1>5 DEF Honest
<1>. QED  BY <1>8, <1>10, <1>11, <1>12, <1>13, <1>14, <1>15, <1>16, <1>17 DEF LegacyInv

-----------------------------------------------------------------------------
(* The theorem.                                                             *)

LEMMA Starts == Legacy!Init => LegacyInv
<1>. SUFFICES ASSUME Legacy!Init PROVE LegacyInv
  OBVIOUS
<1>1. /\ state = [s \in Semaphores |-> Legacy!Created] /\ fence = [f \in Fences |-> "none"] /\ pool = <<>>
      /\ gpu = [q \in Queues |-> <<>>] /\ thread = [t \in Threads |-> Legacy!Idle]
      /\ issued = {} /\ finished = {} /\ hosted = {} /\ fenced = {} /\ destroyed = FALSE
  BY DEF Legacy!Init
<1>2. /\ Legacy!Created \in States /\ Legacy!Created # Null /\ Legacy!Created.pending = <<>>
      /\ Legacy!Created.counter = 0
  <2>1. Legacy!Created \in States /\ Legacy!Created.pending = <<>> /\ Legacy!Created.counter = 0
    BY DEF Legacy!Created, States
  <2>. QED  BY <2>1, NullIsNone
<1>3. Elements(<<>>) = {}
  BY DEF Elements
<1>4. \A t \in Threads : /\ thread[t].pc = "idle" /\ Idles(thread[t]) /\ ~Working(thread[t]) /\ ~Sweeps(thread[t])
                         /\ Owed(thread[t]) = {} /\ QueuesOf(thread[t]) = {} /\ FenceOf(thread[t]) = Null
  BY <1>1 DEF Legacy!Idle, Idles, Working, Sweeps, Owed, QueuesOf, FenceOf
<1>5. \A s \in Semaphores : state[s] # Null /\ Elements(state[s].pending) = {} /\ state[s].counter = 0
  BY <1>1, <1>2, <1>3
<1>6. \A q \in Queues : gpu[q] = <<>> /\ 1 .. Len(gpu[q]) = {}
  <2>1. gpu = [q \in Queues |-> <<>>]
    BY <1>1
  <2>2. \A q \in Queues : gpu[q] = <<>>
    BY <2>1
  <2>3. Len(<<>>) = 0 /\ 1 .. 0 = {}
    OBVIOUS
  <2>. QED  BY <2>2, <2>3
<1>7. LegacyType
  <2>1. state \in [Semaphores -> States \cup {Null}]
    BY <1>1, <1>2
  <2>2. thread \in [Threads -> CallRecords \cup SweepRecords \cup {Legacy!Idle}]
    BY <1>1
  <2>3. fence \in [Fences -> {"none", "reset", "pending", "signaled"}]
    BY <1>1
  <2>4. pool \in Seq(Fences) /\ <<>> \in Seq(Work)
    BY <1>1
  <2>5. gpu = [q \in Queues |-> <<>>]
    BY <1>1
  <2>6. gpu \in [Queues -> Seq(Work)]
    BY <2>4, <2>5
  <2>7. issued \subseteq Pairs /\ finished \subseteq Pairs /\ hosted \subseteq Pairs /\ fenced \subseteq Pairs
        /\ destroyed \in BOOLEAN
    BY <1>1
  <2>. QED  BY <2>1, <2>2, <2>3, <2>4, <2>6, <2>7 DEF LegacyType
<1>8. CallsInv
  BY <1>1, <1>4 DEF CallsInv, CallSound, Apart
<1>9. ValuesInv
  BY <1>1, <1>4, <1>6 DEF ValuesInv
<1>10. WorkInv /\ OnceInv
  BY <1>6 DEF WorkInv, OnceInv
<1>11. TellsInv
  BY <1>4, <1>5 DEF TellsInv
<1>12. PoolInv
  <2>1. Elements(pool) = {} /\ 1 .. Len(pool) = {} /\ \A f \in Fences : fence[f] = "none"
    BY <1>1, <1>3
  <2>. QED  BY <2>1 DEF PoolInv
<1>13. FoundInv
  BY <1>1, <1>4, <1>6 DEF FoundInv, Has, Covers
<1>14. PushedInv
  BY <1>4 DEF PushedInv
<1>15. Honest
  BY <1>5 DEF Honest
<1>. QED  BY <1>7, <1>8, <1>9, <1>10, <1>11, <1>12, <1>13, <1>14, <1>15 DEF LegacyInv

LEMMA Looks ==
    ASSUME LegacyInv, NEW t \in Threads, Legacy!Look(t) PROVE LegacyInv'
<1>1. CASE ~state[thread[t].targets[thread[t].at][1]].error
  BY <1>1, LooksOn
<1>2. CASE state[thread[t].targets[thread[t].at][1]].error
  <2>1. /\ thread[t].pc = "look" /\ Legacy!Fails(t)
        /\ destroyed' = destroyed /\ gpu' = gpu /\ finished' = finished /\ hosted' = hosted /\ fenced' = fenced
    BY <1>2, Zenon DEF Legacy!Look
  <2>2. Working(thread[t]) /\ thread[t].pc # "push"
    BY <2>1 DEF Working, Idles, Sweeps
  <2>. QED  BY <2>1, <2>2, FailsSound
<1>. QED  BY <1>1, <1>2

LEMMA Decides ==
    ASSUME LegacyInv, NEW t \in Threads, Legacy!Decide(t) PROVE LegacyInv'
<1>1. CASE ~Legacy!Returns(t)
  BY <1>1, DecidesOn
<1>2. CASE Legacy!Returns(t)
  <2>1. /\ thread[t].pc = "decide" /\ issued' = issued
        /\ destroyed' = destroyed /\ gpu' = gpu /\ finished' = finished /\ hosted' = hosted /\ fenced' = fenced
    BY DEF Legacy!Decide, Legacy!histories
  <2>2. Working(thread[t]) /\ thread[t].pc # "push"
    BY <2>1 DEF Working, Idles, Sweeps
  <2>. QED  BY <1>2, <2>1, <2>2, ReturnsSound
<1>. QED  BY <1>1, <1>2

LEMMA Submits ==
    ASSUME LegacyInv, NEW t \in Threads, Legacy!NativeSubmit(t) PROVE LegacyInv'
<1>1. CASE ~(Legacy!Fails(t) /\ gpu' = gpu)
  BY <1>1, GivesWork
<1>2. CASE Legacy!Fails(t) /\ gpu' = gpu
  <2>1. /\ thread[t].pc = "submit"
        /\ destroyed' = destroyed /\ finished' = finished /\ hosted' = hosted /\ fenced' = fenced
    BY DEF Legacy!NativeSubmit
  <2>2. Working(thread[t]) /\ thread[t].pc # "push"
    BY <2>1 DEF Working, Idles, Sweeps
  <2>. QED  BY <1>2, <2>1, <2>2, FailsSound
<1>. QED  BY <1>1, <1>2

LEMMA ChecksEntry ==
    ASSUME LegacyInv, NEW t \in Threads, Legacy!CheckEntry(t) PROVE LegacyInv'
<1>1. CASE fence[EntryOf(thread[t]).fence] # "signaled"
  BY <1>1, ChecksEntryOn
<1>2. CASE fence[EntryOf(thread[t]).fence] = "signaled"
  BY <1>2, ChecksSignaled
<1>. QED  BY <1>1, <1>2

LEMMA LegacyKept == LegacyInv /\ [Legacy!Next]_legacyVars => LegacyInv'
<1>. SUFFICES ASSUME LegacyInv, [Legacy!Next]_legacyVars PROVE LegacyInv'
  OBVIOUS
<1>1. ASSUME NEW t \in Threads, Legacy!LookUp(t) PROVE LegacyInv'
  BY <1>1, LooksUp
<1>2. ASSUME NEW t \in Threads, Legacy!Look(t) PROVE LegacyInv'
  BY <1>2, Looks
<1>3. ASSUME NEW t \in Threads, Legacy!CheckEntry(t) PROVE LegacyInv'
  BY <1>3, ChecksEntry
<1>4. ASSUME NEW t \in Threads, Legacy!CheckFails(t) PROVE LegacyInv'
  BY <1>4, ChecksFail
<1>5. ASSUME NEW t \in Threads, Legacy!CheckEnds(t) PROVE LegacyInv'
  BY <1>5, ChecksEnd
<1>6. ASSUME NEW t \in Threads, Legacy!Decide(t) PROVE LegacyInv'
  BY <1>6, Decides
<1>7. ASSUME NEW t \in Threads, Legacy!AcquireFence(t) PROVE LegacyInv'
  BY <1>7, AcquiresFence
<1>8. ASSUME NEW t \in Threads, Legacy!NativeSubmit(t) PROVE LegacyInv'
  BY <1>8, Submits
<1>9. ASSUME NEW t \in Threads, Legacy!Push(t) PROVE LegacyInv'
  BY <1>9, PushesEntry
<1>10. ASSUME NEW t \in Threads, Legacy!PushEnds(t) PROVE LegacyInv'
  BY <1>10, PushesEnd
<1>11. ASSUME NEW t \in Threads, Legacy!IdleBegins(t) PROVE LegacyInv'
  BY <1>11, IdlesBegin
<1>12. ASSUME NEW t \in Threads, Legacy!IdleEnds(t) PROVE LegacyInv'
  BY <1>12, IdlesEnd
<1>13. ASSUME NEW t \in Threads, NEW q \in Queues, Legacy!SubmitBegins(t, q) PROVE LegacyInv'
  BY <1>13, SubmitsBegin
<1>14. ASSUME NEW t \in Threads, NEW s \in Semaphores, Legacy!Sweep(t, s) PROVE LegacyInv'
  BY <1>14, SweepsSound
<1>15. ASSUME NEW t \in Threads, NEW s \in Semaphores, NEW v \in LegacyHostValues, Legacy!HostSignal(t, s, v)
       PROVE  LegacyInv'
  BY <1>15, SignalsFromHost
<1>16. ASSUME NEW q \in Queues, Legacy!GpuFinishes(q) PROVE LegacyInv'
  BY <1>16, FinishesWork
<1>17. ASSUME NEW s \in Semaphores, Legacy!Destroy(s) PROVE LegacyInv'
  BY <1>17, DestroysSemaphore
<1>18. CASE Legacy!DestroyDevice
  BY <1>18, DestroysDevice
<1>19. CASE UNCHANGED legacyVars
  <2>1. /\ state' = state /\ fence' = fence /\ pool' = pool /\ gpu' = gpu /\ thread' = thread
        /\ issued' = issued /\ finished' = finished /\ hosted' = hosted /\ fenced' = fenced /\ destroyed' = destroyed
    BY <1>19 DEF legacyVars
  <2>2. LegacyType' /\ WorkInv' /\ OnceInv'
    BY <2>1 DEF LegacyInv, LegacyType, WorkInv, OnceInv
  <2>5. CallsInv'
    BY <2>1 DEF LegacyInv, CallsInv, CallSound, Apart
  <2>6. ValuesInv'
    <3>1. \A t \in Threads : Owed(thread[t])' = Owed(thread[t])
      BY <2>1 DEF Owed, Working, Idles, Sweeps, Elements
    <3>. QED  BY <2>1, <3>1 DEF LegacyInv, ValuesInv
  <2>3. TellsInv' /\ PoolInv' /\ PushedInv' /\ Honest'
    BY <2>1 DEF LegacyInv, TellsInv, PoolInv, Elements, PushedInv, Honest
  <2>4. FoundInv'
    BY <2>1 DEF LegacyInv, FoundInv, Found, Has, Covers, Pushing, Elements
  <2>. QED  BY <2>2, <2>3, <2>4, <2>5, <2>6 DEF LegacyInv
<1>. QED  BY <1>1, <1>2, <1>3, <1>4, <1>5, <1>6, <1>7, <1>8, <1>9, <1>10, <1>11, <1>12, <1>13, <1>14, <1>15,
             <1>16, <1>17, <1>18, <1>19, Zenon DEF Legacy!Next

LEMMA LegacyInvSound == LegacyInv => LegacySound
<1>. SUFFICES ASSUME LegacyInv PROVE LegacySound
  OBVIOUS
<1>0. /\ LegacyType /\ CallsInv /\ ValuesInv /\ WorkInv /\ OnceInv /\ TellsInv /\ PoolInv /\ FoundInv /\ PushedInv
      /\ Honest
  BY DEF LegacyInv
<1>1. Legacy!CounterHonest
  BY <1>0 DEF Honest, Legacy!CounterHonest, Legacy!Alive
<1>2. Legacy!FinishedFound
  <2>. SUFFICES ASSUME NEW p \in finished, p[1] \in Legacy!Alive
                PROVE  \/ state[p[1]].counter >= p[2] \/ state[p[1]].error
                       \/ \E e \in Legacy!ToSet(state[p[1]].pending) : e.value = p[2] /\ fence[e.fence] = "signaled"
                       \/ p \notin fenced /\ \E t \in Threads :
                              thread[t].pc = "push" /\ Legacy!Contains(thread[t].signals, p)
    BY Zenon DEF Legacy!FinishedFound
  <2>1. p \in Pairs /\ p[1] \in Semaphores /\ state[p[1]] # Null /\ p = <<p[1], p[2]>>
    BY <1>0, PairOf DEF LegacyType, Legacy!Alive
  <2>2. CASE Found(p)
    <3>1. CASE \E e \in Elements(state[p[1]].pending) : e.value = p[2]
      <4>1. PICK e \in Elements(state[p[1]].pending) : e.value = p[2]
        BY <3>1
      <4>2. Tells(fence, finished, gpu, e.fence, e.queue, p) /\ e.queue \in Queues
        BY <1>0, <2>1, <4>1, PendingOf DEF TellsInv, Entries
      <4>3. fence[e.fence] = "signaled"
        <5>1. \A i \in 1 .. Len(gpu[e.queue]) : p \notin gpu[e.queue][i].signals
          BY <1>0, <4>2 DEF ValuesInv
        <5>. QED  BY <4>2, <5>1 DEF Tells
      <4>4. Legacy!ToSet(state[p[1]].pending) = Elements(state[p[1]].pending)
        BY <1>0, <2>1, PendingOf, ElementsOf
      <4>. QED  BY <4>1, <4>3, <4>4
    <3>. QED  BY <2>1, <2>2, <3>1 DEF Found
  <2>3. CASE ~Found(p)
    <3>1. p \notin fenced /\ Pushing(p)
      BY <1>0, <2>1, <2>3 DEF FoundInv
    <3>2. PICK t \in Threads : thread[t].pc = "push" /\ p \in Elements(thread[t].signals)
      BY <3>1 DEF Pushing
    <3>3. thread[t].signals \in Seq(Pairs)
      BY <1>0, <3>2, Typed DEF CallRecords
    <3>4. \E i \in DOMAIN thread[t].signals : thread[t].signals[i] = p
      BY <3>2, <3>3 DEF Elements
    <3>. QED  BY <3>1, <3>2, <3>4 DEF Legacy!Contains
  <2>. QED  BY <2>2, <2>3
<1>3. Legacy!FencesSound
  <2>1. pool \in Seq(Fences) /\ DOMAIN pool = 1 .. Len(pool)
    BY <1>0 DEF LegacyType
  <2>2. Legacy!IsInjective(pool)
    BY <1>0, <2>1 DEF PoolInv, Legacy!IsInjective
  <2>3. \A f : Legacy!Contains(pool, f) <=> f \in Elements(pool)
    BY <2>1 DEF Legacy!Contains, Elements
  <2>4. \A f \in Fences : Legacy!Refers(state, thread, f) <=> Refers(state, thread, f)
    <3>1. state \in [Semaphores -> States \cup {Null}] /\ thread \in [Threads -> AllCalls]
      BY <1>0 DEF LegacyType, AllCalls
    <3>. QED  BY <3>1, RefersAlike
  <2>5. \A q \in Queues : \A i \in DOMAIN gpu[q] : gpu[q][i].fence # Null => fence[gpu[q][i].fence] = "pending"
    <3>1. \A q \in Queues : DOMAIN gpu[q] = 1 .. Len(gpu[q])
      BY <1>0 DEF LegacyType
    <3>. QED  BY <1>0, <3>1 DEF WorkInv
  <2>6. destroyed => \A f \in Fences : fence[f] = "none"
    BY <1>0 DEF CallsInv
  <2>. QED  BY <1>0, <2>2, <2>3, <2>4, <2>5, <2>6 DEF PoolInv, Legacy!FencesSound
<1>. QED  BY <1>1, <1>2, <1>3 DEF LegacySound, Legacy!LegacySound

\* For every set of queues, semaphores, threads, fences, submissions and
\* look-ups: without the scheduler no value is shown early, lost, or missed by
\* who has seen the application's fence, and no private fence is reused or
\* leaked while it stands for something (timeline_semaphore.cpp: on_queue_submit,
\* check_pending_signals, on_wait_semaphores, the fence pool and ~FenceHolder).
THEOREM LegacyCorrect == Legacy!Spec => []LegacySound
<1>1. LegacyInv /\ [Legacy!Next]_(Legacy!timeline) => LegacyInv'
  BY LegacyKept DEF Legacy!timeline, legacyVars
<1>. QED  BY <1>1, Starts, LegacyInvSound, PTL DEF Legacy!Spec
=============================================================================
