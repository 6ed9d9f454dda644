----------------------- MODULE ActivityEngineProofs -----------------------
(***************************************************************************)
(* Proofs about ActivityEngine: the queues of the lazy engine, and the     *)
(* signals that wake its tasks, for any number of tasks and entities.      *)
(***************************************************************************)
EXTENDS ActivityEngine, SequenceTheorems, FiniteSetTheorems, TLAPS

-----------------------------------------------------------------------------
(***************************************************************************)
(* Queues: sequences without repetition.                                   *)
(***************************************************************************)

Holds(s, x) == \E i \in 1..Len(s) : s[i] = x
Distinct(s) == \A i, j \in 1..Len(s) : s[i] = s[j] => i = j

\* The empty queue.
LEMMA EmptyQueue == Distinct(<< >>) /\ \A x : ~Holds(<< >>, x)
BY DEF Distinct, Holds

\* Whether an element is in a sequence, by its range.
LEMMA RangeHolds ==
    ASSUME NEW S, NEW s \in Seq(S), NEW x
    PROVE  x \in Range(s) <=> Holds(s, x)
<1>1. DOMAIN s = 1..Len(s)
  BY LenProperties
<1> QED
  BY <1>1 DEF Range, Holds

\* A concatenation holds what its parts hold.
LEMMA ConcatQueue ==
    ASSUME NEW S, NEW q \in Seq(S), NEW r \in Seq(S)
    PROVE  /\ q \o r \in Seq(S)
           /\ \A x : Holds(q \o r, x) <=> Holds(q, x) \/ Holds(r, x)
           /\ Distinct(q) /\ Distinct(r) /\ (\A x : ~(Holds(q, x) /\ Holds(r, x)))
                => Distinct(q \o r)
<1> DEFINE c == q \o r
<1>1. /\ c \in Seq(S)
      /\ Len(c) = Len(q) + Len(r)
      /\ Len(q) \in Nat /\ Len(r) \in Nat /\ Len(c) \in Nat
      /\ \A i \in 1..Len(c) : c[i] = IF i <= Len(q) THEN q[i] ELSE r[i - Len(q)]
  BY ConcatProperties, LenProperties
<1> HIDE DEF c
<1>2. ASSUME NEW i \in 1..Len(q) PROVE i \in 1..Len(c) /\ c[i] = q[i]
  BY <1>1
<1>3. ASSUME NEW j \in 1..Len(r)
      PROVE  Len(q) + j \in 1..Len(c) /\ c[Len(q) + j] = r[j]
  <2>1. Len(q) + j \in 1..Len(c) /\ ~(Len(q) + j <= Len(q)) /\ (Len(q) + j) - Len(q) = j
    BY <1>1
  <2> QED
    BY <2>1, <1>1
<1>4. ASSUME NEW i \in 1..Len(c)
      PROVE  \/ i \in 1..Len(q) /\ c[i] = q[i]
             \/ i - Len(q) \in 1..Len(r) /\ c[i] = r[i - Len(q)] /\ ~(i <= Len(q))
  BY <1>1
<1>5. ASSUME NEW x PROVE Holds(c, x) <=> Holds(q, x) \/ Holds(r, x)
  BY <1>2, <1>3, <1>4 DEF Holds
<1>6. ASSUME Distinct(q), Distinct(r), \A x : ~(Holds(q, x) /\ Holds(r, x))
      PROVE  Distinct(c)
  <2>1. ASSUME NEW i \in 1..Len(c), NEW j \in 1..Len(c), c[i] = c[j]
        PROVE  i = j
    <3>1. CASE i \in 1..Len(q) /\ j \in 1..Len(q)
      BY <3>1, <2>1, <1>2, <1>6 DEF Distinct
    <3>2. CASE i \notin 1..Len(q) /\ j \notin 1..Len(q)
      <4>1. /\ i - Len(q) \in 1..Len(r) /\ j - Len(q) \in 1..Len(r)
            /\ r[i - Len(q)] = r[j - Len(q)]
        BY <3>2, <2>1, <1>4
      <4>2. i - Len(q) = j - Len(q)
        BY <4>1, <1>6 DEF Distinct
      <4> QED
        BY <4>2, <1>1
    <3>3. CASE i \in 1..Len(q) /\ j \notin 1..Len(q)
      <4>1. Holds(q, c[i]) /\ Holds(r, c[i])
        BY <3>3, <2>1, <1>2, <1>4 DEF Holds
      <4> QED
        BY <4>1, <1>6
    <3>4. CASE i \notin 1..Len(q) /\ j \in 1..Len(q)
      <4>1. Holds(q, c[i]) /\ Holds(r, c[i])
        BY <3>4, <2>1, <1>2, <1>4 DEF Holds
      <4> QED
        BY <4>1, <1>6
    <3> QED
      BY <3>1, <3>2, <3>3, <3>4
  <2> QED
    BY <2>1 DEF Distinct
<1> QED
  BY <1>1, <1>5, <1>6 DEF c

\* An element is appended.
LEMMA AppendQueue ==
    ASSUME NEW S, NEW q \in Seq(S), NEW y \in S
    PROVE  /\ Append(q, y) \in Seq(S)
           /\ \A x : Holds(Append(q, y), x) <=> Holds(q, x) \/ x = y
           /\ Distinct(q) /\ ~Holds(q, y) => Distinct(Append(q, y))
<1> DEFINE c == Append(q, y)
<1>1. /\ c \in Seq(S)
      /\ Len(c) = Len(q) + 1
      /\ Len(q) \in Nat
      /\ \A i \in 1..Len(q) : c[i] = q[i]
      /\ c[Len(q) + 1] = y
  BY AppendProperties, LenProperties
<1> HIDE DEF c
<1>2. \A i \in 1..Len(c) : i \in 1..Len(q) \/ i = Len(q) + 1
  BY <1>1
<1>3. Len(q) + 1 \in 1..Len(c) /\ \A i \in 1..Len(q) : i \in 1..Len(c)
  BY <1>1
<1>4. ASSUME NEW x PROVE Holds(c, x) <=> Holds(q, x) \/ x = y
  BY <1>1, <1>2, <1>3 DEF Holds
<1>5. ASSUME Distinct(q), ~Holds(q, y) PROVE Distinct(c)
  <2>1. ASSUME NEW i \in 1..Len(c), NEW j \in 1..Len(c), c[i] = c[j] PROVE i = j
    BY <2>1, <1>1, <1>2, <1>5 DEF Distinct, Holds
  <2> QED
    BY <2>1 DEF Distinct
<1> QED
  BY <1>1, <1>4, <1>5 DEF c

\* The first element is taken.
LEMMA TailQueue ==
    ASSUME NEW S, NEW q \in Seq(S), q # << >>
    PROVE  /\ Head(q) \in S /\ Tail(q) \in Seq(S)
           /\ \A x : Holds(q, x) <=> x = Head(q) \/ Holds(Tail(q), x)
           /\ Distinct(q) => Distinct(Tail(q)) /\ ~Holds(Tail(q), Head(q))
<1> DEFINE c == Tail(q)
<1>1. /\ Len(q) \in Nat /\ Len(q) # 0
      /\ c \in Seq(S)
      /\ Len(c) = Len(q) - 1
      /\ \A i \in 1..Len(c) : c[i] = q[i + 1]
      /\ Head(q) = q[1] /\ Head(q) \in S
  BY HeadTailProperties, LenProperties, EmptySeq
<1> HIDE DEF c
<1>2. ASSUME NEW i \in 1..Len(c) PROVE i + 1 \in 1..Len(q) /\ c[i] = q[i + 1] /\ i + 1 # 1
  BY <1>1
<1>3. ASSUME NEW i \in 1..Len(q)
      PROVE  i = 1 \/ (i - 1 \in 1..Len(c) /\ (i - 1) + 1 = i)
  BY <1>1
<1>4. 1 \in 1..Len(q)
  BY <1>1
<1>5. ASSUME NEW x PROVE Holds(q, x) <=> x = Head(q) \/ Holds(c, x)
  <2>1. ASSUME Holds(q, x), x # Head(q) PROVE Holds(c, x)
    <3>1. PICK i \in 1..Len(q) : q[i] = x
      BY <2>1 DEF Holds
    <3>2. i - 1 \in 1..Len(c) /\ (i - 1) + 1 = i
      BY <3>1, <2>1, <1>1, <1>3
    <3>3. c[i - 1] = x
      BY <3>1, <3>2, <1>1
    <3> QED
      BY <3>2, <3>3 DEF Holds
  <2>2. ASSUME x = Head(q) PROVE Holds(q, x)
    BY <2>2, <1>1, <1>4 DEF Holds
  <2>3. ASSUME Holds(c, x) PROVE Holds(q, x)
    BY <2>3, <1>2 DEF Holds
  <2> QED
    BY <2>1, <2>2, <2>3
<1>6. ASSUME Distinct(q) PROVE Distinct(c) /\ ~Holds(c, Head(q))
  <2>1. ASSUME NEW i \in 1..Len(c), NEW j \in 1..Len(c), c[i] = c[j] PROVE i = j
    <3>1. i + 1 = j + 1
      BY <2>1, <1>2, <1>6 DEF Distinct
    <3> QED
      BY <3>1
  <2>2. ASSUME NEW i \in 1..Len(c), c[i] = Head(q) PROVE FALSE
    BY <2>2, <1>1, <1>2, <1>4, <1>6 DEF Distinct
  <2> QED
    BY <2>1, <2>2 DEF Distinct, Holds
<1> QED
  BY <1>1, <1>5, <1>6 DEF c

\* An enumeration of a finite set.
LEMMA SetQueue ==
    ASSUME NEW S, NEW T \in SUBSET S, IsFiniteSet(T)
    PROVE  /\ SetToSeq(T) \in Seq(S)
           /\ \A x : Holds(SetToSeq(T), x) <=> x \in T
           /\ Distinct(SetToSeq(T))
<1> DEFINE n == Cardinality(T)
<1>1. n \in Nat /\ ExistsBijection(1..n, T)
  BY FS_CardinalityType
<1> HIDE DEF n
<1>2. PICK b \in Bijection(1..n, T) : TRUE
  BY <1>1 DEF ExistsBijection
<1>3. b \in [1..n -> T] /\ IsInjective(b)
  BY <1>2 DEF Bijection, Injection, IsInjective
<1> DEFINE f == CHOOSE f \in [1..n -> T] : IsInjective(f)
<1>4. f \in [1..n -> T] /\ IsInjective(f)
  BY <1>3
<1>5. SetToSeq(T) = f
  BY DEF SetToSeq, n
<1> HIDE DEF f
<1>6. f \in Seq(S) /\ Len(f) = n
  BY <1>1, <1>4, SeqDef, LenProperties
<1>7. f \in Injection(1..n, T)
  BY <1>4 DEF Injection, IsInjective
<1>8. Cardinality(1..n) = n
  BY <1>1, FS_Interval
<1>9. f \in Surjection(1..n, T)
  BY <1>7, <1>8, FS_Injection DEF n
<1>10. ASSUME NEW x PROVE Holds(f, x) <=> x \in T
  BY <1>4, <1>6, <1>9 DEF Holds, Surjection
<1>11. Distinct(f)
  BY <1>4, <1>6 DEF Distinct, IsInjective
<1> QED
  BY <1>5, <1>6, <1>10, <1>11

\* Every nonempty set of natural numbers has a least element.
LEMMA LeastNumber ==
    ASSUME NEW S \in SUBSET Nat, S # {}
    PROVE  \E n \in S : \A m \in S : n <= m
<1> DEFINE R == OpToRel(<, Nat)
<1>1. IsWellFoundedOn(R, Nat)
  BY NatLessThanWellFounded
<1>2. \A x, y \in Nat : x < y => <<x, y>> \in R
  BY DEF OpToRel
<1> HIDE DEF R
<1>3. PICK x \in S : \A y \in S : ~ (<<y, x>> \in R)
  BY <1>1, WFMin
<1>4. ASSUME NEW y \in S PROVE x <= y
  <2>1. x \in Nat /\ y \in Nat
    OBVIOUS
  <2>2. ~(y < x)
    BY <2>1, <1>2, <1>3
  <2> QED
    BY <2>1, <2>2
<1> QED
  BY <1>3, <1>4

\* What has been picked from the first m elements of a queue.
PickedFrom(g, q, N, m) ==
    /\ \A x : Holds(g, x) <=> \E i \in 1..m : q[i] = x /\ x \in N
    /\ Distinct(q) => Distinct(g)

\* The picked elements, one element later.
LEMMA PickedNext ==
    ASSUME NEW S, NEW q \in Seq(S), NEW N, NEW n \in 1..Len(q),
           NEW g \in Seq(S), PickedFrom(g, q, N, n - 1)
    PROVE  LET f == IF q[n] \in N THEN Append(g, q[n]) ELSE g
           IN  f \in Seq(S) /\ PickedFrom(f, q, N, n)
<1>1. Len(q) \in Nat /\ n \in Nat /\ q[n] \in S
  BY ElementOfSeq, LenProperties
<1>2. \A i \in 1..n : i \in 1..(n - 1) \/ i = n
  BY <1>1
<1>3. n \in 1..n /\ \A i \in 1..(n - 1) : i \in 1..n /\ i # n /\ i \in 1..Len(q)
  BY <1>1
<1>4. /\ \A x : Holds(g, x) <=> \E i \in 1..(n - 1) : q[i] = x /\ x \in N
      /\ Distinct(q) => Distinct(g)
  BY DEF PickedFrom
<1>5. ASSUME q[n] \notin N PROVE PickedFrom(g, q, N, n)
  <2>1. ASSUME NEW x
        PROVE  Holds(g, x) <=> \E i \in 1..n : q[i] = x /\ x \in N
    BY <1>2, <1>3, <1>4, <1>5
  <2> QED
    BY <2>1, <1>4 DEF PickedFrom
<1>6. ASSUME q[n] \in N PROVE PickedFrom(Append(g, q[n]), q, N, n) /\ Append(g, q[n]) \in Seq(S)
  <2>1. /\ Append(g, q[n]) \in Seq(S)
        /\ \A x : Holds(Append(g, q[n]), x) <=> Holds(g, x) \/ x = q[n]
        /\ Distinct(g) /\ ~Holds(g, q[n]) => Distinct(Append(g, q[n]))
    BY <1>1, AppendQueue
  <2>2. ASSUME NEW x
        PROVE  Holds(Append(g, q[n]), x) <=> \E i \in 1..n : q[i] = x /\ x \in N
    BY <1>2, <1>3, <1>4, <1>6, <2>1
  <2>3. ASSUME Distinct(q) PROVE ~Holds(g, q[n])
    <3>1. ASSUME Holds(g, q[n]) PROVE FALSE
      <4>1. PICK i \in 1..(n - 1) : q[i] = q[n]
        BY <3>1, <1>4
      <4>2. i = n
        BY <4>1, <1>3, <2>3 DEF Distinct
      <4> QED
        BY <4>1, <4>2, <1>3
    <3> QED
      BY <3>1
  <2> QED
    BY <2>1, <2>2, <2>3, <1>4 DEF PickedFrom
<1> QED
  BY <1>5, <1>6

\* A subqueue can be picked element by element: the lengths up to which it
\* cannot have no least one.
LEMMA PickExists ==
    ASSUME NEW S, NEW q \in Seq(S), NEW N
    PROVE  \E g \in [0..Len(q) -> Seq(S)] :
              \A i \in 0..Len(q) :
                 /\ g[i] = IF i = 0 THEN << >>
                           ELSE IF q[i] \in N THEN Append(g[i - 1], q[i])
                           ELSE g[i - 1]
                 /\ PickedFrom(g[i], q, N, i)
<1> DEFINE V == Seq(S)
<1> DEFINE Fits(g, i) ==
      /\ g[i] = IF i = 0 THEN << >>
                ELSE IF q[i] \in N THEN Append(g[i - 1], q[i]) ELSE g[i - 1]
      /\ PickedFrom(g[i], q, N, i)
<1> DEFINE Good(n) == \E g \in [0..n -> V] : \A i \in 0..n : Fits(g, i)
<1> DEFINE Bad == {n \in 0..Len(q) : ~Good(n)}
<1>0. Len(q) \in Nat
  BY LenProperties
<1>1. ASSUME NEW n \in Bad, \A m \in Bad : n <= m PROVE FALSE
  <2>0. n \in 0..Len(q) /\ ~Good(n)
    OBVIOUS
  <2>1. CASE n = 0
    <3> DEFINE g == [e \in {0} |-> << >>]
    <3>1. 0..0 = {0}
      OBVIOUS
    <3>2. << >> \in V
      OBVIOUS
    <3>3. g \in [0..0 -> V]
      BY <3>1, <3>2
    <3>4. g[0] = << >>
      OBVIOUS
    <3>5. PickedFrom(<< >>, q, N, 0)
      BY EmptyQueue DEF PickedFrom
    <3>6. \A i \in 0..0 : Fits(g, i)
      BY <3>1, <3>4, <3>5
    <3>7. Good(0)
      BY <3>3, <3>6
    <3> QED
      BY <2>0, <2>1, <3>7
  <2>2. CASE n # 0
    <3>1. n - 1 \in 0..Len(q) /\ n - 1 \notin Bad /\ n \in 1..Len(q)
      <4>1. n - 1 \in 0..Len(q) /\ n \in 1..Len(q) /\ ~(n <= n - 1)
        BY <1>0, <2>0, <2>2
      <4> HIDE DEF Bad
      <4> QED
        BY <4>1, <1>1
    <3>2. Good(n - 1)
      BY <3>1
    <3>3. PICK g \in [0..n-1 -> V] : \A i \in 0..n-1 : Fits(g, i)
      BY <3>2
    <3>4. n - 1 \in 0..n-1 /\ g[n - 1] \in V /\ PickedFrom(g[n - 1], q, N, n - 1)
      <4>1. n - 1 \in 0..n-1
        BY <3>1
      <4> QED
        BY <4>1, <3>3
    <3> DEFINE z == IF q[n] \in N THEN Append(g[n - 1], q[n]) ELSE g[n - 1]
    <3>5. z \in V /\ PickedFrom(z, q, N, n)
      BY <3>1, <3>4, PickedNext
    <3> DEFINE f == [e \in 0..n |-> IF e = n THEN z ELSE g[e]]
    <3>6. f[n] = z /\ \A e \in 0..n-1 : f[e] = g[e]
      BY <3>1
    <3>7. \A e \in 0..n : e = n \/ e \in 0..n-1
      BY <3>1
    <3>8. f \in [0..n -> V]
      <4> HIDE DEF V, z
      <4> QED
        BY <3>3, <3>5, <3>7
    <3>9. ASSUME NEW i \in 0..n PROVE Fits(f, i)
      <4>1. CASE i = n
        <5>1. f[n - 1] = g[n - 1]
          BY <3>4, <3>6
        <5>2. f[n] = IF q[n] \in N THEN Append(f[n - 1], q[n]) ELSE f[n - 1]
          BY <5>1, <3>6
        <5>3. PickedFrom(f[n], q, N, n)
          BY <3>5, <3>6
        <5> HIDE DEF f, z
        <5> QED
          BY <5>2, <5>3, <4>1, <2>2
      <4>2. CASE i # n
        <5>1. i \in 0..n-1 /\ f[i] = g[i]
          BY <4>2, <3>6, <3>7
        <5>2. i # 0 => i - 1 \in 0..n-1 /\ f[i - 1] = g[i - 1]
          <6>1. i # 0 => i - 1 \in 0..n-1
            BY <5>1, <3>1
          <6> HIDE DEF f
          <6> QED
            BY <6>1, <3>6
        <5>3. Fits(g, i)
          BY <5>1, <3>3
        <5> HIDE DEF f, z
        <5> QED
          BY <5>1, <5>2, <5>3
      <4> QED
        BY <4>1, <4>2
    <3>10. Good(n)
      <4> HIDE DEF f, Fits
      <4> QED
        BY <3>8, <3>9
    <3> QED
      BY <3>10, <2>0
  <2> QED
    BY <2>1, <2>2
<1>2. Bad = {}
  <2>1. Bad \in SUBSET Nat
    BY <1>0
  <2> HIDE DEF Bad
  <2> QED
    BY <2>1, <1>1, LeastNumber
<1>3. Good(Len(q))
  <2>1. Len(q) \in 0..Len(q)
    BY <1>0
  <2> HIDE DEF Good
  <2> QED
    BY <1>2, <2>1
<1> QED
  BY <1>3

\* Picking from a queue.
LEMMA ThoseQueue ==
    ASSUME NEW S, NEW q \in Seq(S), NEW N
    PROVE  /\ Those(q, N) \in Seq(S)
           /\ \A x : Holds(Those(q, N), x) <=> Holds(q, x) /\ x \in N
           /\ Distinct(q) => Distinct(Those(q, N))
<1> DEFINE E(g) == [i \in 0..Len(q) |->
                      IF i = 0 THEN << >>
                      ELSE IF q[i] \in N THEN Append(g[i - 1], q[i])
                      ELSE g[i - 1]]
<1> DEFINE F == CHOOSE g : g = E(g)
<1>0. Len(q) \in Nat /\ Len(q) \in 0..Len(q) /\ 0 \in 0..Len(q)
  BY LenProperties
<1>1. PICK g \in [0..Len(q) -> Seq(S)] :
        \A i \in 0..Len(q) :
           /\ g[i] = IF i = 0 THEN << >>
                     ELSE IF q[i] \in N THEN Append(g[i - 1], q[i]) ELSE g[i - 1]
           /\ PickedFrom(g[i], q, N, i)
  BY PickExists
<1>2. g = E(g)
  BY <1>1
<1>3. F = E(F)
  BY <1>2
<1>4. Those(q, N) = F[Len(q)]
  BY DEF Those
<1> HIDE DEF F
<1> DEFINE Bad == {i \in 0..Len(q) : F[i] # g[i]}
<1>5. ASSUME NEW n \in Bad, \A m \in Bad : n <= m PROVE FALSE
  <2>1. n \in 0..Len(q) /\ F[n] # g[n]
    OBVIOUS
  <2>2. F[n] = IF n = 0 THEN << >>
               ELSE IF q[n] \in N THEN Append(F[n - 1], q[n]) ELSE F[n - 1]
    BY <2>1, <1>3
  <2>3. CASE n = 0
    BY <2>1, <2>2, <2>3, <1>1
  <2>4. CASE n # 0
    <3>1. n - 1 \in 0..Len(q) /\ ~(n <= n - 1)
      BY <2>1, <2>4, <1>0
    <3>2. n - 1 \notin Bad
      <4> HIDE DEF Bad
      <4> QED
        BY <3>1, <1>5
    <3>3. F[n - 1] = g[n - 1]
      BY <3>1, <3>2
    <3> QED
      BY <2>1, <2>2, <2>4, <3>3, <1>1
  <2> QED
    BY <2>3, <2>4
<1>6. Bad = {}
  <2>1. Bad \in SUBSET Nat
    BY <1>0
  <2> HIDE DEF Bad
  <2> QED
    BY <2>1, <1>5, LeastNumber
<1>7. F[Len(q)] = g[Len(q)]
  BY <1>0, <1>6
<1>8. g[Len(q)] \in Seq(S) /\ PickedFrom(g[Len(q)], q, N, Len(q))
  BY <1>0, <1>1
<1> QED
  BY <1>4, <1>7, <1>8 DEF PickedFrom, Holds

\* How often an element occurs in a queue.
LEMMA CountQueue ==
    ASSUME NEW S, NEW q \in Seq(S), Distinct(q), NEW x
    PROVE  Cardinality({i \in DOMAIN q : q[i] = x}) = IF Holds(q, x) THEN 1 ELSE 0
<1> DEFINE C == {i \in DOMAIN q : q[i] = x}
<1>0. DOMAIN q = 1..Len(q)
  BY LenProperties
<1>1. CASE ~Holds(q, x)
  <2>1. C = {}
    BY <1>0, <1>1 DEF Holds
  <2> QED
    BY <2>1, <1>1, FS_EmptySet
<1>2. CASE Holds(q, x)
  <2>1. PICK j \in 1..Len(q) : q[j] = x
    BY <1>2 DEF Holds
  <2>2. C = {j}
    BY <1>0, <2>1 DEF Distinct
  <2>3. Cardinality({j}) = 1
    BY FS_Singleton
  <2> QED
    BY <2>2, <2>3, <1>2
<1> QED
  BY <1>1, <1>2

-----------------------------------------------------------------------------
(***************************************************************************)
(* The inductive invariant.                                                *)
(***************************************************************************)

TaskState ==
    [state : {"none", "Ready", "Sleeping", "Running", "Retry", "Gone",
              "Waiting", "Idle", "Done", "Quit"},
     signal : BOOLEAN,
     go : {"no", "starting", "running", "read", "retry"},
     seen : Nat,
     tail : Nat]

ServerState ==
    [state : {"none", "called", "subscribed"},
     chan : [Types -> Seq(Entities)],
     sigs : SUBSET Entities,
     wire : SUBSET Entities]

RunnerState == [pc : {"run", "start", "done"}, ts : Seq(Tasks)]

TypeInv ==
    /\ kind \in Kinds
    /\ events \in [Entities -> Nat]
    /\ srv \in ServerState
    /\ task \in [Tasks -> TaskState]
    /\ runner \in RunnerState
    /\ ready \in Seq(Tasks)
    /\ retry \in Seq(Tasks)
    /\ missed \in SUBSET Entities

\* Where a task `t' in state `k' is, among readyTasks, retryTasks, the tasks
\* that the runner has taken, and the goroutines.
Place(k, rd, rt, ts, t) ==
    /\ k.go \in {"no", "starting", "running", "read"}
    /\ k.state \in {"none", "Ready", "Sleeping", "Running", "Retry", "Gone"}
    /\ Holds(rd, t) => k.state = "Ready" /\ k.go = "no" /\ ~Holds(ts, t)
    /\ Holds(ts, t) => k.state = "Ready" /\ k.go = "no"
    /\ Holds(rt, t) => k.state = "Retry"
    /\ k.go = "starting" => k.state = "Ready"
    /\ (k.state = "Running") <=> (k.go \in {"running", "read"})
    /\ k.state = "Ready" => (Holds(rd, t) \/ Holds(ts, t) \/ k.go = "starting")
    /\ k.state = "Retry" => Holds(rt, t)

\* No queue has a task twice, and each task is in its place.
PlaceInv ==
    kind = "lazy" =>
        /\ Distinct(ready) /\ Distinct(retry) /\ Distinct(runner.ts)
        /\ runner.pc = "run" => runner.ts = << >>
        /\ \A t \in Tasks : Place(task[t], ready, retry, runner.ts, t)

\* A task `k' that is behind the n events of its entity e is woken.
Woken(k, e, n, s, w, ms) ==
    k.seen < n /\ (k.go = "read" \/ k.state = "Sleeping") =>
        \/ k.signal
        \/ InFlight(s, e)
        \/ w # "recv"
        \/ e \in ms

WakeInv ==
    kind = "lazy" /\ ctx = "running" =>
        \A t \in Tasks :
            Woken(task[t], EntityOf[t], events[EntityOf[t]], srv, watcher, missed)

EngineInv == TypeInv /\ PlaceInv /\ WakeInv

\* Nothing is queued when the program starts.
LEMMA EngineInitial == Init => EngineInv
<1> SUFFICES ASSUME Init PROVE EngineInv
  OBVIOUS
<1>1. << >> \in Seq(Tasks) /\ << >> \in Seq(Entities) /\ 0 \in Nat
  BY EmptySeq
<1>2. NewTask \in TaskState
  BY DEF NewTask, TaskState
<1>3. NoStream \in ServerState
  BY <1>1 DEF NoStream, ServerState
<1>4. [pc |-> "run", ts |-> << >>] \in RunnerState
  BY <1>1 DEF RunnerState
<1>5. TypeInv
  BY <1>1, <1>2, <1>3, <1>4 DEF Init, TypeInv
<1>6. PlaceInv
  <2>1. ready = << >> /\ retry = << >> /\ runner.ts = << >>
    BY DEF Init
  <2>2. \A t \in Tasks : task[t].state = "none" /\ task[t].go = "no"
    BY DEF Init, NewTask
  <2> QED
    BY <2>1, <2>2, EmptyQueue DEF PlaceInv, Place
<1>7. WakeInv
  BY DEF Init, WakeInv, Woken
<1> QED
  BY <1>5, <1>6, <1>7 DEF EngineInv

-----------------------------------------------------------------------------
(***************************************************************************)
(* Types.                                                                  *)
(***************************************************************************)

\* What the types say of the parts.
LEMMA PartTypes ==
    ASSUME TypeInv
    PROVE  /\ \A t \in Tasks : task[t] \in TaskState
           /\ \A e \in Entities : events[e] \in Nat /\ TypeOf[e] \in Types
           /\ \A t \in Tasks : EntityOf[t] \in Entities /\ events[EntityOf[t]] \in Nat
           /\ \A y \in Types : srv.chan[y] \in Seq(Entities)
           /\ srv.sigs \in SUBSET Entities /\ srv.wire \in SUBSET Entities
           /\ runner.ts \in Seq(Tasks)
BY EngineAssumption DEF TypeInv, ServerState, RunnerState

\* The parts of the state of a task after it has been changed.
LEMMA TaskChanges ==
    ASSUME TypeInv, NEW t \in Tasks, NEW k \in TaskState,
           task' = [task EXCEPT ![t] = k]
    PROVE  /\ task' \in [Tasks -> TaskState]
           /\ task'[t] = k
           /\ \A u \in Tasks : u # t => task'[u] = task[u]
BY DEF TypeInv

\* The stream of signals is closed.
LEMMA NoStreamType == NoStream \in ServerState
BY EmptySeq DEF NoStream, ServerState

\* The parts that a step leaves alone keep their types.
LEMMA TypesKept ==
    ASSUME TypeInv, kind' = kind, events' \in [Entities -> Nat],
           srv' \in ServerState, task' \in [Tasks -> TaskState],
           runner' \in RunnerState, ready' \in Seq(Tasks), retry' \in Seq(Tasks),
           missed' \in SUBSET Entities
    PROVE  TypeInv'
BY DEF TypeInv

-----------------------------------------------------------------------------
(***************************************************************************)
(* Steps of other engines, and steps that only concern the server: the     *)
(* queues and the tasks of a lazy engine stay the same.                    *)
(***************************************************************************)

\* Steps of engines of other kinds.
LEMMA OtherEngines ==
    ASSUME TypeInv, kind # "lazy", TypeInv', kind' = kind
    PROVE  EngineInv'
BY DEF EngineInv, PlaceInv, WakeInv

\* The queues, with what is in them, stay the same.
LEMMA SamePlaces ==
    ASSUME PlaceInv,
           UNCHANGED <<kind, task, runner, ready, retry>>
    PROVE  PlaceInv'
BY DEF PlaceInv

\* Nobody is woken when the watcher does not listen or the engine is stopped.
LEMMA NobodySleeps ==
    ASSUME watcher' # "recv" \/ ctx' # "running"
    PROVE  WakeInv'
BY DEF WakeInv, Woken

\* A commit.
LEMMA CommitKeeps ==
    ASSUME EngineInv, NEW e \in Entities, Commit(e)
    PROVE  EngineInv'
<1> DEFINE y == TypeOf[e]
<1>0. TypeInv /\ PlaceInv /\ WakeInv
  BY DEF EngineInv
<1>s. PICK s \in {srv, Notified(e)} : srv' = s
  BY DEF Commit
<1>1. /\ events' = [events EXCEPT ![e] = @ + 1]
      /\ srv' = s
      /\ missed' = IF watcher = "recv" /\ ~InFlight(s, e)
                   THEN missed \cup {e} ELSE missed \ {e}
      /\ kind' = kind /\ watcher' = watcher /\ task' = task /\ runner' = runner
      /\ ready' = ready /\ retry' = retry /\ ctx' = ctx
  BY <1>s DEF Commit, queues, InFlight
<1>2. y \in Types /\ srv.chan[y] \in Seq(Entities)
  BY <1>0, PartTypes
<1>3. /\ Send(srv.chan[y], e) \in Seq(Entities)
      /\ \A x : Holds(srv.chan[y], x) => Holds(Send(srv.chan[y], e), x)
  BY <1>2, AppendQueue DEF Send
<1>4. /\ s \in ServerState
      /\ s.sigs = srv.sigs /\ s.wire = srv.wire
      /\ \A z \in Types : s.chan[z] = srv.chan[z]
                          \/ (z = y /\ s.chan[z] = Send(srv.chan[y], e))
  <2>1. CASE s = srv
    BY <1>0, <2>1 DEF TypeInv, ServerState
  <2>2. CASE s = Notified(e)
    BY <1>0, <1>2, <1>3, <2>2 DEF TypeInv, ServerState, Notified
  <2> QED
    BY <2>1, <2>2
<1>5. TypeInv'
  <2>1. events' \in [Entities -> Nat]
    BY <1>0, <1>1 DEF TypeInv
  <2>2. missed' \in SUBSET Entities
    BY <1>0, <1>1 DEF TypeInv
  <2> QED
    BY <1>0, <1>1, <1>4, <2>1, <2>2, TypesKept DEF TypeInv
<1>6. ASSUME NEW x \in Entities, InFlight(srv, x) PROVE InFlight(s, x)
  <2>1. TypeOf[x] \in Types /\ srv.chan[TypeOf[x]] \in Seq(Entities)
    BY <1>0, PartTypes
  <2>2. s.chan[TypeOf[x]] \in Seq(Entities)
    BY <2>1, <1>4, <1>3
  <2>3. Holds(srv.chan[TypeOf[x]], x) => Holds(s.chan[TypeOf[x]], x)
    BY <2>1, <1>3, <1>4
  <2>4. x \in Range(srv.chan[TypeOf[x]]) => x \in Range(s.chan[TypeOf[x]])
    BY <2>1, <2>2, <2>3, RangeHolds
  <2> QED
    BY <2>4, <1>4, <1>6 DEF InFlight
<1>7. WakeInv'
  <2>1. CASE watcher = "recv" /\ kind = "lazy" /\ ctx = "running"
    <3>1. ASSUME NEW t \in Tasks
          PROVE  Woken(task[t], EntityOf[t], events'[EntityOf[t]], s, watcher, missed')
      <4>1. EntityOf[t] \in Entities
        BY <1>0, PartTypes
      <4>2. CASE EntityOf[t] = e
        BY <4>2, <1>1 DEF Woken
      <4>3. CASE EntityOf[t] # e
        <5>1. events'[EntityOf[t]] = events[EntityOf[t]]
          BY <4>1, <4>3, <1>0, <1>1 DEF TypeInv
        <5>2. Woken(task[t], EntityOf[t], events[EntityOf[t]], srv, watcher, missed)
          BY <1>0, <2>1 DEF WakeInv
        <5>3. EntityOf[t] \in missed => EntityOf[t] \in missed'
          BY <4>3, <1>1
        <5> QED
          BY <5>1, <5>2, <5>3, <4>1, <1>6 DEF Woken
      <4> QED
        BY <4>2, <4>3
    <3> QED
      BY <3>1, <1>1 DEF WakeInv
  <2>2. CASE ~(watcher = "recv" /\ kind = "lazy" /\ ctx = "running")
    BY <2>2, <1>1 DEF WakeInv, Woken
  <2> QED
    BY <2>1, <2>2
<1> QED
  BY <1>0, <1>1, <1>5, <1>7, SamePlaces DEF EngineInv

\* The server moves signals: those of every entity remain.
LEMMA SignalsMove ==
    ASSUME EngineInv, srv' \in ServerState,
           \A e \in Entities : InFlight(srv, e) => InFlight(srv', e),
           UNCHANGED <<kind, events, watcher, task, runner, queues, ctx, missed>>
    PROVE  EngineInv'
<1>0. TypeInv /\ PlaceInv /\ WakeInv
  BY DEF EngineInv
<1>1. /\ kind' = kind /\ events' = events /\ watcher' = watcher /\ task' = task
      /\ runner' = runner /\ ready' = ready /\ retry' = retry /\ ctx' = ctx
      /\ missed' = missed
  BY DEF queues
<1>2. TypeInv'
  BY <1>0, <1>1, TypesKept DEF TypeInv
<1>3. PlaceInv'
  BY <1>0, <1>1, SamePlaces
<1>4. WakeInv'
  <2>1. CASE kind = "lazy" /\ ctx = "running"
    <3>1. ASSUME NEW t \in Tasks
          PROVE  Woken(task[t], EntityOf[t], events[EntityOf[t]], srv', watcher, missed)
      <4>1. EntityOf[t] \in Entities
        BY <1>0, PartTypes
      <4>2. Woken(task[t], EntityOf[t], events[EntityOf[t]], srv, watcher, missed)
        BY <1>0, <2>1 DEF WakeInv
      <4> QED
        BY <4>1, <4>2 DEF Woken
    <3> QED
      BY <3>1, <1>1 DEF WakeInv
  <2>2. CASE ~(kind = "lazy" /\ ctx = "running")
    BY <2>2, <1>1 DEF WakeInv
  <2> QED
    BY <2>1, <2>2
<1> QED
  BY <1>2, <1>3, <1>4 DEF EngineInv

\* AggregateSignals() subscribes.
LEMMA SubscribeKeeps ==
    ASSUME EngineInv, Subscribe
    PROVE  EngineInv'
<1>0. srv \in ServerState
  BY DEF EngineInv, TypeInv
<1>1. srv' = [srv EXCEPT !.state = "subscribed"]
  BY DEF Subscribe
<1>2. /\ srv' \in ServerState
      /\ srv'.chan = srv.chan /\ srv'.sigs = srv.sigs /\ srv'.wire = srv.wire
  BY <1>0, <1>1 DEF ServerState
<1>3. \A e \in Entities : InFlight(srv, e) => InFlight(srv', e)
  BY <1>2 DEF InFlight
<1> QED
  BY <1>2, <1>3, SignalsMove DEF Subscribe

\* A signal is taken from a channel.
LEMMA SetUpdateKeeps ==
    ASSUME EngineInv, NEW y \in Types, SetUpdate(y)
    PROVE  EngineInv'
<1>0. srv \in ServerState /\ srv.chan[y] \in Seq(Entities) /\ srv.chan[y] # << >>
  BY PartTypes DEF EngineInv, TypeInv, SetUpdate
<1>1. srv' = [srv EXCEPT !.chan[y] = Tail(@), !.sigs = @ \cup {Head(srv.chan[y])}]
  BY DEF SetUpdate
<1>2. /\ Head(srv.chan[y]) \in Entities /\ Tail(srv.chan[y]) \in Seq(Entities)
      /\ \A x : Holds(srv.chan[y], x)
                  <=> x = Head(srv.chan[y]) \/ Holds(Tail(srv.chan[y]), x)
  BY <1>0, TailQueue
<1>3. /\ srv' \in ServerState
      /\ srv'.chan = [srv.chan EXCEPT ![y] = Tail(srv.chan[y])]
      /\ srv'.sigs = srv.sigs \cup {Head(srv.chan[y])}
      /\ srv'.wire = srv.wire
  BY <1>0, <1>1, <1>2 DEF ServerState
<1>4. ASSUME NEW e \in Entities, InFlight(srv, e) PROVE InFlight(srv', e)
  <2>1. TypeOf[e] \in Types /\ srv.chan[TypeOf[e]] \in Seq(Entities)
    BY PartTypes DEF EngineInv
  <2>2. CASE TypeOf[e] = y
    <3>1. srv'.chan[TypeOf[e]] = Tail(srv.chan[y])
      BY <1>0, <1>3, <2>2 DEF ServerState
    <3>2. e \in Range(srv.chan[y]) =>
            e = Head(srv.chan[y]) \/ e \in Range(Tail(srv.chan[y]))
      BY <1>0, <1>2, RangeHolds
    <3> QED
      BY <1>3, <1>4, <2>2, <3>1, <3>2 DEF InFlight
  <2>3. CASE TypeOf[e] # y
    <3>1. srv'.chan[TypeOf[e]] = srv.chan[TypeOf[e]]
      BY <1>0, <1>3, <2>1, <2>3 DEF ServerState
    <3> QED
      BY <1>3, <1>4, <3>1 DEF InFlight
  <2> QED
    BY <2>2, <2>3
<1> QED
  BY <1>3, <1>4, SignalsMove DEF SetUpdate

\* The pending signals are sent.
LEMMA SendSignalsKeeps ==
    ASSUME EngineInv, SendSignals
    PROVE  EngineInv'
<1>0. srv \in ServerState /\ srv.wire = {}
  BY DEF EngineInv, TypeInv, SendSignals
<1>1. srv' = [srv EXCEPT !.wire = srv.sigs, !.sigs = {}]
  BY DEF SendSignals
<1>2. /\ srv' \in ServerState
      /\ srv'.chan = srv.chan /\ srv'.sigs = {} /\ srv'.wire = srv.sigs
  BY <1>0, <1>1 DEF ServerState
<1>3. \A e \in Entities : InFlight(srv, e) => InFlight(srv', e)
  BY <1>0, <1>2 DEF InFlight
<1> QED
  BY <1>2, <1>3, SignalsMove DEF SendSignals

\* Steps that change only the server and the watcher, which does not listen.
LEMMA WatcherAway ==
    ASSUME EngineInv, srv' \in ServerState, missed' \in SUBSET Entities,
           watcher' # "recv" \/ ctx' # "running",
           UNCHANGED <<kind, events, task, runner, queues>>
    PROVE  EngineInv'
<1>0. TypeInv /\ PlaceInv
  BY DEF EngineInv
<1>1. /\ kind' = kind /\ events' = events /\ task' = task
      /\ runner' = runner /\ ready' = ready /\ retry' = retry
  BY DEF queues
<1>2. TypeInv'
  BY <1>0, <1>1, TypesKept DEF TypeInv
<1>3. PlaceInv'
  BY <1>0, <1>1, SamePlaces
<1>4. WakeInv'
  BY NobodySleeps
<1> QED
  BY <1>2, <1>3, <1>4 DEF EngineInv

\* Opening and closing the stream of signals, and the shutdown.
LEMMA WatcherKeeps ==
    ASSUME EngineInv,
           \/ TooManyPending \/ WatchSignals \/ StreamFails \/ WatchSignalsRetry
           \/ WatcherReturns \/ Shutdown
    PROVE  EngineInv'
<1>0. srv \in ServerState /\ missed \in SUBSET Entities
  BY DEF EngineInv, TypeInv
<1>1. NoStream \in ServerState /\ [NoStream EXCEPT !.state = "called"] \in ServerState
  BY NoStreamType DEF ServerState
<1>2. CASE TooManyPending
  BY <1>0, <1>1, <1>2, WatcherAway DEF TooManyPending
<1>3. CASE WatchSignals
  BY <1>0, <1>1, <1>3, WatcherAway DEF WatchSignals
<1>4. CASE StreamFails
  BY <1>0, <1>1, <1>4, WatcherAway DEF StreamFails
<1>5. CASE WatchSignalsRetry
  BY <1>0, <1>1, <1>5, WatcherAway DEF WatchSignalsRetry, server
<1>6. CASE WatcherReturns
  BY <1>0, <1>1, <1>6, WatcherAway DEF WatcherReturns, server
<1>7. CASE Shutdown
  BY <1>0, <1>1, <1>7, WatcherAway DEF Shutdown
<1> QED
  BY <1>2, <1>3, <1>4, <1>5, <1>6, <1>7

-----------------------------------------------------------------------------
(***************************************************************************)
(* Signals to tasks.                                                       *)
(***************************************************************************)

\* What signalTasksLocked() does to a task, by its state.
LEMMA SignaledTask ==
    ASSUME TypeInv, NEW ts \in SUBSET Tasks, SignalTasks(ts)
    PROVE  /\ task' \in [Tasks -> TaskState]
           /\ ready' \in Seq(Tasks)
           /\ \A t \in Tasks :
                 /\ task'[t].go = task[t].go /\ task'[t].seen = task[t].seen
                 /\ t \in ts /\ task[t].state = "Sleeping" =>
                        task'[t].state = "Ready"
                 /\ ~(t \in ts /\ task[t].state = "Sleeping") =>
                        task'[t].state = task[t].state
                 /\ t \in ts /\ task[t].state = "Running" => task'[t].signal
                 /\ task[t].signal => task'[t].signal
                 /\ Holds(ready', t) <=>
                        (Holds(ready, t) \/ (t \in ts /\ task[t].state = "Sleeping"))
           /\ Distinct(ready)
                /\ (\A t \in Tasks : Holds(ready, t) => task[t].state # "Sleeping")
                => Distinct(ready')
<1> DEFINE wake == {t \in ts : task[t].state = "Sleeping"}
<1> DEFINE mark == {t \in ts : task[t].state = "Running"}
<1>1. task' = [t \in Tasks |->
                 CASE t \in wake -> [task[t] EXCEPT !.state = "Ready"]
                   [] t \in mark -> [task[t] EXCEPT !.signal = TRUE]
                   [] OTHER -> task[t]]
  BY DEF SignalTasks
<1>2. ready' = ready \o SetToSeq(wake)
  BY DEF SignalTasks
<1>3. ASSUME NEW t \in Tasks
      PROVE  /\ task'[t] \in TaskState
             /\ task'[t].go = task[t].go /\ task'[t].seen = task[t].seen
             /\ t \in wake => task'[t].state = "Ready"
             /\ t \notin wake => task'[t].state = task[t].state
             /\ t \in mark => task'[t].signal
             /\ task[t].signal => task'[t].signal
  <2>0. task[t] \in TaskState
    BY DEF TypeInv
  <2>1. CASE t \in wake
    <3>1. task'[t] = [task[t] EXCEPT !.state = "Ready"]
      BY <1>1, <2>1
    <3>2. t \notin mark
      BY <2>1
    <3> HIDE DEF wake, mark
    <3> QED
      BY <2>0, <2>1, <3>1, <3>2 DEF TaskState
  <2>2. CASE t \in mark /\ t \notin wake
    <3>1. task'[t] = [task[t] EXCEPT !.signal = TRUE]
      BY <1>1, <2>2
    <3> HIDE DEF wake, mark
    <3> QED
      BY <2>0, <2>2, <3>1 DEF TaskState
  <2>3. CASE t \notin mark /\ t \notin wake
    <3>1. task'[t] = task[t]
      BY <1>1, <2>3
    <3> HIDE DEF wake, mark
    <3> QED
      BY <2>0, <2>3, <3>1 DEF TaskState
  <2> QED
    BY <2>1, <2>2, <2>3
<1>4. task' \in [Tasks -> TaskState]
  <2> HIDE DEF wake, mark
  <2>1. task' = [t \in Tasks |-> task'[t]]
    BY <1>1
  <2> QED
    BY <2>1, <1>3
<1>5. wake \in SUBSET Tasks /\ IsFiniteSet(wake)
  BY EngineAssumption, FS_Subset
<1>6. \A t \in Tasks : t \in wake <=> (t \in ts /\ task[t].state = "Sleeping")
  OBVIOUS
<1>7. \A t \in Tasks : t \in mark <=> (t \in ts /\ task[t].state = "Running")
  OBVIOUS
<1> HIDE DEF wake, mark
<1>8. /\ SetToSeq(wake) \in Seq(Tasks)
      /\ \A x : Holds(SetToSeq(wake), x) <=> x \in wake
      /\ Distinct(SetToSeq(wake))
  BY <1>5, SetQueue
<1>9. ready \in Seq(Tasks)
  BY DEF TypeInv
<1>10. /\ ready' \in Seq(Tasks)
       /\ \A x : Holds(ready', x) <=> Holds(ready, x) \/ Holds(SetToSeq(wake), x)
       /\ Distinct(ready) /\ Distinct(SetToSeq(wake))
            /\ (\A x : ~(Holds(ready, x) /\ Holds(SetToSeq(wake), x)))
            => Distinct(ready')
  BY <1>2, <1>8, <1>9, ConcatQueue
<1>11. ASSUME Distinct(ready),
              \A t \in Tasks : Holds(ready, t) => task[t].state # "Sleeping"
       PROVE  Distinct(ready')
  BY <1>5, <1>6, <1>8, <1>10, <1>11
<1>12. ASSUME NEW t \in Tasks
       PROVE  Holds(ready', t) <=>
                (Holds(ready, t) \/ (t \in ts /\ task[t].state = "Sleeping"))
  BY <1>6, <1>8, <1>10
<1> QED
  BY <1>3, <1>4, <1>6, <1>7, <1>10, <1>11, <1>12

\* The queues after the signals: who was asleep was nowhere.
LEMMA SignalPlaces ==
    ASSUME TypeInv, PlaceInv, NEW ts \in SUBSET Tasks, SignalTasks(ts),
           UNCHANGED <<kind, runner, retry>>
    PROVE  PlaceInv'
<1> SUFFICES ASSUME kind = "lazy" PROVE PlaceInv'
  BY DEF PlaceInv
<1>1. /\ Distinct(ready) /\ Distinct(retry) /\ Distinct(runner.ts)
      /\ runner.pc = "run" => runner.ts = << >>
      /\ \A t \in Tasks : Place(task[t], ready, retry, runner.ts, t)
  BY DEF PlaceInv
<1>2. \A t \in Tasks : Holds(ready, t) => task[t].state # "Sleeping"
  BY <1>1 DEF Place
<1>3. Distinct(ready')
  BY <1>1, <1>2, SignaledTask
<1>4. ASSUME NEW t \in Tasks PROVE Place(task'[t], ready', retry, runner.ts, t)
  <2>1. Place(task[t], ready, retry, runner.ts, t)
    BY <1>1
  <2>2. /\ task'[t].go = task[t].go
        /\ t \in ts /\ task[t].state = "Sleeping" => task'[t].state = "Ready"
        /\ ~(t \in ts /\ task[t].state = "Sleeping") =>
               task'[t].state = task[t].state
        /\ Holds(ready', t) <=>
               (Holds(ready, t) \/ (t \in ts /\ task[t].state = "Sleeping"))
    BY SignaledTask
  <2> QED
    BY <2>1, <2>2 DEF Place
<1> QED
  BY <1>1, <1>3, <1>4 DEF PlaceInv

\* watchSignals(): all tasks are signaled, before the first receive.
LEMMA SignalAllTasksKeeps ==
    ASSUME EngineInv, SignalAllTasks
    PROVE  EngineInv'
<1> DEFINE ts == {t \in Tasks : task[t].state \notin {"none", "Gone"}}
<1>0. TypeInv /\ PlaceInv /\ ts \in SUBSET Tasks
  BY DEF EngineInv
<1>1. /\ SignalTasks(ts) /\ missed' = {}
      /\ kind' = kind /\ events' = events /\ srv' = srv /\ runner' = runner
      /\ retry' = retry /\ ctx' = ctx
  BY DEF SignalAllTasks
<1>2. \A t \in Tasks : task[t].state \in {"Sleeping", "Running"} => t \in ts
  OBVIOUS
<1> HIDE DEF ts
<1>3. TypeInv'
  BY <1>0, <1>1, SignaledTask, TypesKept DEF TypeInv
<1>4. PlaceInv'
  BY <1>0, <1>1, SignalPlaces
<1>5. WakeInv'
  <2> SUFFICES ASSUME kind = "lazy", NEW t \in Tasks
               PROVE  Woken(task'[t], EntityOf[t], events[EntityOf[t]], srv,
                            watcher', {})
    BY <1>1 DEF WakeInv
  <2>1. Place(task[t], ready, retry, runner.ts, t)
    BY <1>0 DEF PlaceInv
  <2>2. /\ task'[t].go = task[t].go
        /\ t \in ts /\ task[t].state = "Sleeping" => task'[t].state = "Ready"
        /\ ~(t \in ts /\ task[t].state = "Sleeping") =>
               task'[t].state = task[t].state
        /\ t \in ts /\ task[t].state = "Running" => task'[t].signal
    BY <1>0, <1>1, SignaledTask
  <2>3. task[t].go = "read" => task[t].state = "Running"
    BY <2>1 DEF Place
  <2>4. task'[t].state # "Sleeping"
    BY <2>2, <1>2
  <2>5. task'[t].go = "read" => task'[t].signal
    BY <2>2, <2>3, <1>2
  <2> QED
    BY <2>4, <2>5 DEF Woken
<1> QED
  BY <1>3, <1>4, <1>5 DEF EngineInv

\* The tasks of the entities in a message are signaled.
LEMMA SignalTasksOfEntityKeeps ==
    ASSUME EngineInv, SignalTasksOfEntity
    PROVE  EngineInv'
<1> DEFINE ts == {t \in Tasks : EntityOf[t] \in srv.wire}
<1>0. TypeInv /\ PlaceInv /\ WakeInv /\ ts \in SUBSET Tasks
  BY DEF EngineInv
<1>1. /\ SignalTasks(ts) /\ missed' = missed
      /\ kind' = kind /\ events' = events /\ runner' = runner
      /\ retry' = retry /\ ctx' = ctx /\ watcher' = watcher
      /\ srv' = [srv EXCEPT !.wire = {}]
  BY DEF SignalTasksOfEntity
<1>2. \A t \in Tasks : EntityOf[t] \in srv.wire => t \in ts
  OBVIOUS
<1> HIDE DEF ts
<1>3. /\ srv' \in ServerState
      /\ srv'.chan = srv.chan /\ srv'.sigs = srv.sigs
  BY <1>0, <1>1 DEF TypeInv, ServerState
<1>4. TypeInv'
  BY <1>0, <1>1, <1>3, SignaledTask, TypesKept DEF TypeInv
<1>5. PlaceInv'
  BY <1>0, <1>1, SignalPlaces
<1>6. WakeInv'
  <2> SUFFICES ASSUME kind = "lazy", ctx = "running", NEW t \in Tasks
               PROVE  Woken(task'[t], EntityOf[t], events[EntityOf[t]], srv',
                            watcher, missed)
    BY <1>1 DEF WakeInv
  <2>1. Place(task[t], ready, retry, runner.ts, t)
    BY <1>0 DEF PlaceInv
  <2>2. /\ task'[t].go = task[t].go /\ task'[t].seen = task[t].seen
        /\ t \in ts /\ task[t].state = "Sleeping" => task'[t].state = "Ready"
        /\ ~(t \in ts /\ task[t].state = "Sleeping") =>
               task'[t].state = task[t].state
        /\ t \in ts /\ task[t].state = "Running" => task'[t].signal
        /\ task[t].signal => task'[t].signal
    BY <1>0, <1>1, SignaledTask
  <2>3. task[t].go = "read" => task[t].state = "Running"
    BY <2>1 DEF Place
  <2>4. Woken(task[t], EntityOf[t], events[EntityOf[t]], srv, watcher, missed)
    BY <1>0 DEF WakeInv
  <2>5. CASE EntityOf[t] \in srv.wire
    <3>1. task'[t].state # "Sleeping"
      BY <2>2, <1>2, <2>5
    <3>2. task'[t].go = "read" => task'[t].signal
      BY <2>2, <2>3, <1>2, <2>5
    <3> QED
      BY <3>1, <3>2 DEF Woken
  <2>6. CASE EntityOf[t] \notin srv.wire
    <3>1. InFlight(srv, EntityOf[t]) => InFlight(srv', EntityOf[t])
      BY <1>3, <2>6 DEF InFlight
    <3>2. task'[t].state = "Sleeping" => task[t].state = "Sleeping"
      BY <2>2
    <3> QED
      BY <3>1, <3>2, <2>2, <2>4 DEF Woken
  <2> QED
    BY <2>5, <2>6
<1> QED
  BY <1>4, <1>5, <1>6 DEF EngineInv

-----------------------------------------------------------------------------
(***************************************************************************)
(* The runner and the goroutines of the lazy engine.                       *)
(***************************************************************************)

\* Nothing that concerns the waking of tasks changes.
LEMMA SameWakes ==
    ASSUME WakeInv, UNCHANGED <<kind, events, server, watcher, task>>,
           ctx' = "running" => ctx = "running"
    PROVE  WakeInv'
BY DEF WakeInv, server

\* A step that changes one task and its place.
LEMMA TaskStep ==
    ASSUME EngineInv, kind = "lazy", NEW t \in Tasks, NEW k \in TaskState,
           task' = [task EXCEPT ![t] = k],
           UNCHANGED <<kind, events, server, watcher, ctx>>,
           runner' \in RunnerState, ready' \in Seq(Tasks), retry' \in Seq(Tasks),
           Distinct(ready'), Distinct(retry'), Distinct(runner'.ts),
           runner'.pc = "run" => runner'.ts = << >>,
           \A u \in Tasks : u # t =>
              /\ Holds(ready', u) <=> Holds(ready, u)
              /\ Holds(retry', u) <=> Holds(retry, u)
              /\ Holds(runner'.ts, u) <=> Holds(runner.ts, u),
           Place(k, ready', retry', runner'.ts, t),
           ctx = "running" =>
              Woken(k, EntityOf[t], events[EntityOf[t]], srv, watcher, missed)
    PROVE  EngineInv'
<1>0. TypeInv /\ PlaceInv /\ WakeInv
  BY DEF EngineInv
<1>1. /\ task' \in [Tasks -> TaskState]
      /\ task'[t] = k
      /\ \A u \in Tasks : u # t => task'[u] = task[u]
  BY <1>0, TaskChanges
<1>2. /\ kind' = kind /\ events' = events /\ srv' = srv /\ missed' = missed
      /\ watcher' = watcher /\ ctx' = ctx
  BY DEF server
<1>3. TypeInv'
  BY <1>0, <1>1, <1>2, TypesKept DEF TypeInv
<1>4. ASSUME NEW u \in Tasks PROVE Place(task'[u], ready', retry', runner'.ts, u)
  <2>1. CASE u = t
    BY <2>1, <1>1
  <2>2. CASE u # t
    <3>1. Place(task[u], ready, retry, runner.ts, u)
      BY <1>0 DEF PlaceInv
    <3>2. task'[u] = task[u]
      BY <2>2, <1>1
    <3>3. /\ Holds(ready', u) <=> Holds(ready, u)
          /\ Holds(retry', u) <=> Holds(retry, u)
          /\ Holds(runner'.ts, u) <=> Holds(runner.ts, u)
      BY <2>2
    <3> QED
      BY <3>1, <3>2, <3>3 DEF Place
  <2> QED
    BY <2>1, <2>2
<1>5. PlaceInv'
  BY <1>4 DEF PlaceInv
<1>6. WakeInv'
  <2> SUFFICES ASSUME ctx = "running", NEW u \in Tasks
               PROVE  Woken(task'[u], EntityOf[u], events[EntityOf[u]], srv,
                            watcher, missed)
    BY <1>2 DEF WakeInv
  <2>1. CASE u = t
    BY <2>1, <1>1
  <2>2. CASE u # t
    BY <2>2, <1>0, <1>1 DEF WakeInv
  <2> QED
    BY <2>1, <2>2
<1> QED
  BY <1>3, <1>5, <1>6 DEF EngineInv

\* What the invariant says of one task.
LEMMA LazyTask ==
    ASSUME EngineInv, kind = "lazy", NEW t \in Tasks
    PROVE  /\ task[t] \in TaskState
           /\ runner \in RunnerState /\ runner.ts \in Seq(Tasks)
           /\ ready \in Seq(Tasks) /\ retry \in Seq(Tasks)
           /\ Distinct(ready) /\ Distinct(retry) /\ Distinct(runner.ts)
           /\ runner.pc = "run" => runner.ts = << >>
           /\ Place(task[t], ready, retry, runner.ts, t)
           /\ ctx = "running" =>
                 Woken(task[t], EntityOf[t], events[EntityOf[t]], srv, watcher, missed)
BY DEF EngineInv, TypeInv, RunnerState, PlaceInv, WakeInv

\* A new task is ready.
LEMMA AddNewTaskKeeps ==
    ASSUME EngineInv, NEW t \in Tasks, AddNewTask(t)
    PROVE  EngineInv'
<1> DEFINE k == [task[t] EXCEPT !.state = "Ready"]
<1>0. TypeInv /\ kind = "lazy" /\ task[t].state = "none"
  BY DEF EngineInv, AddNewTask
<1>1. /\ task[t] \in TaskState
      /\ runner \in RunnerState /\ runner.ts \in Seq(Tasks)
      /\ ready \in Seq(Tasks) /\ retry \in Seq(Tasks)
      /\ Distinct(ready) /\ Distinct(retry) /\ Distinct(runner.ts)
      /\ runner.pc = "run" => runner.ts = << >>
      /\ Place(task[t], ready, retry, runner.ts, t)
  BY <1>0, LazyTask
<1>2. k \in TaskState /\ k.state = "Ready" /\ k.go = task[t].go
  BY <1>1 DEF TaskState
<1>3. task' = [task EXCEPT ![t] = k]
  BY <1>0, <1>1 DEF AddNewTask, TypeInv
<1>4. /\ ready' = Append(ready, t)
      /\ retry' = retry /\ runner' = runner
      /\ UNCHANGED <<kind, events, server, watcher, ctx>>
  BY DEF AddNewTask
<1> HIDE DEF k
<1>5. ~Holds(ready, t) /\ ~Holds(retry, t) /\ ~Holds(runner.ts, t) /\ task[t].go = "no"
  BY <1>0, <1>1 DEF Place
<1>6. /\ ready' \in Seq(Tasks)
      /\ \A x : Holds(ready', x) <=> Holds(ready, x) \/ x = t
      /\ Distinct(ready')
  BY <1>1, <1>4, <1>5, AppendQueue
<1>7. Place(k, ready', retry', runner'.ts, t)
  BY <1>2, <1>4, <1>5, <1>6 DEF Place
<1>8. Woken(k, EntityOf[t], events[EntityOf[t]], srv, watcher, missed)
  BY <1>2, <1>5 DEF Woken
<1> QED
  BY <1>0, <1>1, <1>2, <1>3, <1>4, <1>6, <1>7, <1>8, TaskStep

\* The runner takes the ready tasks.
LEMMA TakeReadyTasksKeeps ==
    ASSUME EngineInv, TakeReadyTasks
    PROVE  EngineInv'
<1>0. TypeInv /\ PlaceInv /\ WakeInv /\ kind = "lazy"
  BY DEF EngineInv, TakeReadyTasks
<1>1. /\ runner.pc = "run"
      /\ runner' = [pc |-> "start", ts |-> ready] /\ ready' = << >>
      /\ retry' = retry /\ task' = task
      /\ UNCHANGED <<kind, events, server, watcher, task>> /\ ctx' = ctx
  BY DEF TakeReadyTasks
<1>2. ready \in Seq(Tasks) /\ << >> \in Seq(Tasks)
  BY <1>0, EmptySeq DEF TypeInv
<1>3. runner' \in RunnerState /\ runner'.ts = ready /\ runner'.pc = "start"
  BY <1>1, <1>2 DEF RunnerState
<1>4. TypeInv'
  BY <1>0, <1>1, <1>2, <1>3, TypesKept DEF TypeInv, server
<1>5. runner.ts = << >>
  BY <1>0, <1>1 DEF PlaceInv
<1>6. ASSUME NEW t \in Tasks PROVE Place(task[t], << >>, retry, ready, t)
  <2>1. Place(task[t], ready, retry, << >>, t)
    BY <1>0, <1>5 DEF PlaceInv
  <2> QED
    BY <2>1, EmptyQueue DEF Place
<1>7. PlaceInv'
  BY <1>0, <1>1, <1>3, <1>6, EmptyQueue DEF PlaceInv
<1>8. WakeInv'
  BY <1>0, <1>1, SameWakes
<1> QED
  BY <1>4, <1>7, <1>8 DEF EngineInv

\* The runner only goes on or returns.
LEMMA RunnerPc ==
    ASSUME EngineInv, NEW p \in {"run", "start", "done"},
           runner' = [runner EXCEPT !.pc = p], p = "run" => runner.ts = << >>,
           UNCHANGED <<kind, events, server, watcher, task, ready, retry, ctx>>
    PROVE  EngineInv'
<1>0. TypeInv /\ PlaceInv /\ WakeInv
  BY DEF EngineInv
<1>1. runner' \in RunnerState /\ runner'.ts = runner.ts /\ runner'.pc = p
  BY <1>0 DEF TypeInv, RunnerState
<1>2. TypeInv'
  BY <1>0, <1>1, TypesKept DEF TypeInv, server
<1>3. PlaceInv'
  BY <1>0, <1>1 DEF PlaceInv
<1>4. WakeInv'
  BY <1>0, SameWakes
<1> QED
  BY <1>2, <1>3, <1>4 DEF EngineInv

\* The runner starts a task, or returns because the context is canceled.
LEMMA StartTaskKeeps ==
    ASSUME EngineInv, StartTask
    PROVE  EngineInv'
<1> DEFINE t == Head(runner.ts)
<1> DEFINE k == [task[t] EXCEPT !.go = "starting"]
<1>0. TypeInv /\ kind = "lazy" /\ runner.ts # << >> /\ runner.pc = "start"
  BY DEF EngineInv, StartTask
<1>1. CASE ctx # "running"
  <2>1. /\ runner' = [runner EXCEPT !.pc = "done"]
        /\ UNCHANGED <<kind, events, server, watcher, task, ready, retry, ctx>>
    BY <1>1 DEF StartTask, queues
  <2> QED
    BY <2>1, RunnerPc
<1>2. CASE ctx = "running"
  <2>0. runner.ts \in Seq(Tasks)
    BY <1>0, PartTypes
  <2>1. /\ t \in Tasks /\ Tail(runner.ts) \in Seq(Tasks)
        /\ \A x : Holds(runner.ts, x) <=> x = t \/ Holds(Tail(runner.ts), x)
        /\ Distinct(runner.ts) =>
              Distinct(Tail(runner.ts)) /\ ~Holds(Tail(runner.ts), t)
    BY <1>0, <2>0, TailQueue
  <2>2. /\ task' = [task EXCEPT ![t].go = "starting"]
        /\ runner' = [runner EXCEPT !.ts = Tail(@)]
        /\ ready' = ready /\ retry' = retry
        /\ UNCHANGED <<kind, events, server, watcher, ctx>>
    BY <1>2 DEF StartTask, queues
  <2> HIDE DEF t
  <2>3. /\ task[t] \in TaskState
        /\ runner \in RunnerState
        /\ ready \in Seq(Tasks) /\ retry \in Seq(Tasks)
        /\ Distinct(ready) /\ Distinct(retry) /\ Distinct(runner.ts)
        /\ Place(task[t], ready, retry, runner.ts, t)
    BY <1>0, <2>1, LazyTask
  <2>4. k \in TaskState /\ k.state = task[t].state /\ k.go = "starting"
    BY <2>3 DEF TaskState
  <2>5. task' = [task EXCEPT ![t] = k]
    BY <1>0, <2>1, <2>2, <2>3 DEF TypeInv
  <2> HIDE DEF k
  <2>6. runner' \in RunnerState /\ runner'.ts = Tail(runner.ts) /\ runner'.pc = "start"
    BY <1>0, <2>1, <2>2, <2>3 DEF RunnerState
  <2>7. Holds(runner.ts, t)
    BY <2>1
  <2>8. task[t].state = "Ready" /\ ~Holds(ready, t) /\ ~Holds(retry, t)
    BY <2>3, <2>7 DEF Place
  <2>9. Place(k, ready', retry', runner'.ts, t)
    BY <2>1, <2>2, <2>3, <2>4, <2>6, <2>8 DEF Place
  <2>10. Woken(k, EntityOf[t], events[EntityOf[t]], srv, watcher, missed)
    BY <2>4, <2>8 DEF Woken
  <2>11. \A u \in Tasks : u # t =>
            /\ Holds(ready', u) <=> Holds(ready, u)
            /\ Holds(retry', u) <=> Holds(retry, u)
            /\ Holds(runner'.ts, u) <=> Holds(runner.ts, u)
    BY <2>1, <2>2, <2>6
  <2>12. Distinct(ready') /\ Distinct(retry') /\ Distinct(runner'.ts)
    BY <2>1, <2>2, <2>3, <2>6
  <2> QED
    BY <1>0, <2>1, <2>2, <2>3, <2>4, <2>5, <2>6, <2>9, <2>10, <2>11, <2>12, TaskStep
<1> QED
  BY <1>1, <1>2

\* The goroutine begins to run.
LEMMA RunTaskKeeps ==
    ASSUME EngineInv, NEW t \in Tasks, RunTask(t)
    PROVE  EngineInv'
<1> DEFINE k == [task[t] EXCEPT !.go = "running", !.state = "Running"]
<1>0. TypeInv /\ kind = "lazy" /\ task[t].go = "starting"
  BY DEF EngineInv, RunTask
<1>1. /\ task[t] \in TaskState
      /\ runner \in RunnerState /\ runner.ts \in Seq(Tasks)
      /\ ready \in Seq(Tasks) /\ retry \in Seq(Tasks)
      /\ Distinct(ready) /\ Distinct(retry) /\ Distinct(runner.ts)
      /\ runner.pc = "run" => runner.ts = << >>
      /\ Place(task[t], ready, retry, runner.ts, t)
  BY <1>0, LazyTask
<1>2. k \in TaskState /\ k.state = "Running" /\ k.go = "running"
  BY <1>1 DEF TaskState
<1>3. task' = [task EXCEPT ![t] = k]
  BY <1>0, <1>1 DEF RunTask, TypeInv
<1>4. /\ ready' = ready /\ retry' = retry /\ runner' = runner
      /\ UNCHANGED <<kind, events, server, watcher, ctx>>
  BY DEF RunTask, queues
<1> HIDE DEF k
<1>5. ~Holds(ready, t) /\ ~Holds(retry, t) /\ ~Holds(runner.ts, t)
  BY <1>0, <1>1 DEF Place
<1>6. Place(k, ready', retry', runner'.ts, t)
  BY <1>2, <1>4, <1>5 DEF Place
<1>7. Woken(k, EntityOf[t], events[EntityOf[t]], srv, watcher, missed)
  BY <1>2 DEF Woken
<1> QED
  BY <1>0, <1>1, <1>2, <1>3, <1>4, <1>6, <1>7, TaskStep

\* The goroutine reads the events.
LEMMA ProcessKeeps ==
    ASSUME EngineInv, NEW t \in Tasks, Process(t), kind = "lazy"
    PROVE  EngineInv'
<1> DEFINE k == [task[t] EXCEPT !.go = "read", !.seen = events[EntityOf[t]]]
<1>0. TypeInv /\ task[t].go = "running" /\ events[EntityOf[t]] \in Nat
  BY PartTypes DEF EngineInv, Process
<1>1. /\ task[t] \in TaskState
      /\ runner \in RunnerState /\ runner.ts \in Seq(Tasks)
      /\ ready \in Seq(Tasks) /\ retry \in Seq(Tasks)
      /\ Distinct(ready) /\ Distinct(retry) /\ Distinct(runner.ts)
      /\ runner.pc = "run" => runner.ts = << >>
      /\ Place(task[t], ready, retry, runner.ts, t)
  BY LazyTask
<1>2. /\ k \in TaskState /\ k.state = task[t].state /\ k.go = "read"
      /\ k.seen = events[EntityOf[t]]
  BY <1>0, <1>1 DEF TaskState
<1>3. task' = [task EXCEPT ![t] = k]
  BY <1>0, <1>1 DEF Process, TypeInv
<1>4. /\ ready' = ready /\ retry' = retry /\ runner' = runner
      /\ UNCHANGED <<kind, events, server, watcher, ctx>>
  BY DEF Process, queues
<1> HIDE DEF k
<1>5. /\ ~Holds(ready, t) /\ ~Holds(retry, t) /\ ~Holds(runner.ts, t)
      /\ task[t].state = "Running"
  BY <1>0, <1>1 DEF Place
<1>6. Place(k, ready', retry', runner'.ts, t)
  BY <1>2, <1>4, <1>5 DEF Place
<1>7. Woken(k, EntityOf[t], events[EntityOf[t]], srv, watcher, missed)
  <2>1. ~(k.seen < events[EntityOf[t]])
    BY <1>0, <1>2
  <2> QED
    BY <2>1 DEF Woken
<1> QED
  BY <1>0, <1>1, <1>2, <1>3, <1>4, <1>6, <1>7, TaskStep

\* The activity is over.
LEMMA TaskQuitsKeeps ==
    ASSUME EngineInv, NEW t \in Tasks, TaskQuits(t)
    PROVE  EngineInv'
<1> DEFINE k == [task[t] EXCEPT !.go = "no", !.state = "Gone", !.tail = task[t].seen]
<1>0. TypeInv /\ kind = "lazy" /\ task[t].go = "read"
  BY DEF EngineInv, TaskQuits
<1>1. /\ task[t] \in TaskState
      /\ runner \in RunnerState /\ runner.ts \in Seq(Tasks)
      /\ ready \in Seq(Tasks) /\ retry \in Seq(Tasks)
      /\ Distinct(ready) /\ Distinct(retry) /\ Distinct(runner.ts)
      /\ runner.pc = "run" => runner.ts = << >>
      /\ Place(task[t], ready, retry, runner.ts, t)
  BY <1>0, LazyTask
<1>2. k \in TaskState /\ k.state = "Gone" /\ k.go = "no"
  BY <1>1 DEF TaskState
<1>3. task' = [task EXCEPT ![t] = k]
  BY <1>0, <1>1 DEF TaskQuits, TypeInv
<1>4. /\ ready' = ready /\ retry' = retry /\ runner' = runner
      /\ UNCHANGED <<kind, events, server, watcher, ctx>>
  BY DEF TaskQuits, queues
<1> HIDE DEF k
<1>5. ~Holds(ready, t) /\ ~Holds(retry, t) /\ ~Holds(runner.ts, t)
  BY <1>0, <1>1 DEF Place
<1>6. Place(k, ready', retry', runner'.ts, t)
  BY <1>2, <1>4, <1>5 DEF Place
<1>7. Woken(k, EntityOf[t], events[EntityOf[t]], srv, watcher, missed)
  BY <1>2 DEF Woken
<1> QED
  BY <1>0, <1>1, <1>2, <1>3, <1>4, <1>6, <1>7, TaskStep

\* The activity waits: it is ready again if there was a signal.
LEMMA TaskEofKeeps ==
    ASSUME EngineInv, NEW t \in Tasks, TaskEof(t)
    PROVE  EngineInv'
<1> DEFINE again == task[t].signal
<1> DEFINE k == [task[t] EXCEPT !.go = "no", !.tail = task[t].seen, !.signal = FALSE,
                                !.state = IF again THEN "Ready" ELSE "Sleeping"]
<1>0. TypeInv /\ kind = "lazy" /\ task[t].go = "read"
  BY DEF EngineInv, TaskEof
<1>1. /\ task[t] \in TaskState
      /\ runner \in RunnerState /\ runner.ts \in Seq(Tasks)
      /\ ready \in Seq(Tasks) /\ retry \in Seq(Tasks)
      /\ Distinct(ready) /\ Distinct(retry) /\ Distinct(runner.ts)
      /\ runner.pc = "run" => runner.ts = << >>
      /\ Place(task[t], ready, retry, runner.ts, t)
      /\ ctx = "running" =>
            Woken(task[t], EntityOf[t], events[EntityOf[t]], srv, watcher, missed)
  BY <1>0, LazyTask
<1>2. /\ k \in TaskState /\ k.go = "no" /\ k.seen = task[t].seen
      /\ again => k.state = "Ready"
      /\ ~again => k.state = "Sleeping"
  BY <1>1 DEF TaskState
<1>3. task' = [task EXCEPT ![t] = k]
  BY <1>0, <1>1 DEF TaskEof, TypeInv
<1>4. /\ ready' = IF again THEN Append(ready, t) ELSE ready
      /\ retry' = retry /\ runner' = runner
      /\ UNCHANGED <<kind, events, server, watcher, ctx>>
  BY DEF TaskEof
<1> HIDE DEF k
<1>5. ~Holds(ready, t) /\ ~Holds(retry, t) /\ ~Holds(runner.ts, t)
  BY <1>0, <1>1 DEF Place
<1>6. /\ Append(ready, t) \in Seq(Tasks)
      /\ \A x : Holds(Append(ready, t), x) <=> Holds(ready, x) \/ x = t
      /\ Distinct(Append(ready, t))
  BY <1>1, <1>5, AppendQueue
<1>7. /\ ready' \in Seq(Tasks) /\ Distinct(ready')
      /\ \A u \in Tasks : u # t => (Holds(ready', u) <=> Holds(ready, u))
      /\ again <=> Holds(ready', t)
  BY <1>1, <1>4, <1>5, <1>6
<1>8. Place(k, ready', retry', runner'.ts, t)
  BY <1>2, <1>4, <1>5, <1>7 DEF Place
<1>9. ctx = "running" =>
        Woken(k, EntityOf[t], events[EntityOf[t]], srv, watcher, missed)
  BY <1>0, <1>1, <1>2 DEF Woken
<1> QED
  BY <1>0, <1>1, <1>2, <1>3, <1>4, <1>7, <1>8, <1>9, TaskStep

\* After an error there is a tail, too.
LEMMA FailedTailsType ==
    ASSUME NEW t \in Tasks, task[t] \in TaskState
    PROVE  FailedTails(t) \subseteq Nat
<1>1. task[t].tail \in Nat /\ task[t].seen \in Nat
  BY DEF TaskState
<1> QED
  BY <1>1 DEF FailedTails

\* The activity fails and will be retried.
LEMMA TaskRetryKeeps ==
    ASSUME EngineInv, NEW t \in Tasks, TaskRetry(t)
    PROVE  EngineInv'
<1>t. PICK tail \in FailedTails(t) :
          task' = [task EXCEPT ![t].go = "no", ![t].signal = FALSE,
                               ![t].state = "Retry", ![t].tail = tail]
  BY DEF TaskRetry
<1> DEFINE k == [task[t] EXCEPT !.go = "no", !.signal = FALSE, !.state = "Retry",
                                !.tail = tail]
<1>0. TypeInv /\ kind = "lazy" /\ task[t].go \in {"running", "read"}
  BY DEF EngineInv, TaskRetry
<1>1. /\ task[t] \in TaskState
      /\ runner \in RunnerState /\ runner.ts \in Seq(Tasks)
      /\ ready \in Seq(Tasks) /\ retry \in Seq(Tasks)
      /\ Distinct(ready) /\ Distinct(retry) /\ Distinct(runner.ts)
      /\ runner.pc = "run" => runner.ts = << >>
      /\ Place(task[t], ready, retry, runner.ts, t)
  BY <1>0, LazyTask
<1>2. k \in TaskState /\ k.state = "Retry" /\ k.go = "no"
  <2>1. tail \in Nat
    BY <1>1, FailedTailsType
  <2> QED
    BY <1>1, <2>1 DEF TaskState
<1>3. task' = [task EXCEPT ![t] = k]
  BY <1>0, <1>1, <1>t DEF TypeInv
<1>4. /\ ready' = ready /\ retry' = Append(retry, t) /\ runner' = runner
      /\ UNCHANGED <<kind, events, server, watcher, ctx>>
  BY DEF TaskRetry
<1> HIDE DEF k
<1>5. ~Holds(ready, t) /\ ~Holds(retry, t) /\ ~Holds(runner.ts, t)
  BY <1>0, <1>1 DEF Place
<1>6. /\ retry' \in Seq(Tasks)
      /\ \A x : Holds(retry', x) <=> Holds(retry, x) \/ x = t
      /\ Distinct(retry')
  BY <1>1, <1>4, <1>5, AppendQueue
<1>7. Place(k, ready', retry', runner'.ts, t)
  BY <1>2, <1>4, <1>5, <1>6 DEF Place
<1>8. Woken(k, EntityOf[t], events[EntityOf[t]], srv, watcher, missed)
  BY <1>2 DEF Woken
<1> QED
  BY <1>0, <1>1, <1>2, <1>3, <1>4, <1>6, <1>7, <1>8, TaskStep

\* Tasks whose time has come move to the ready queue.
LEMMA MoveRetryToReadyKeeps ==
    ASSUME EngineInv, NEW now \in SUBSET Range(retry), MoveRetryToReady(now)
    PROVE  EngineInv'
<1>0. /\ TypeInv /\ PlaceInv /\ WakeInv /\ kind = "lazy"
      /\ runner.ts = << >> /\ retry \in Seq(Tasks) /\ ready \in Seq(Tasks)
  BY DEF EngineInv, MoveRetryToReady, TypeInv
<1>1. /\ task' = [t \in Tasks |->
                    IF t \in now THEN [task[t] EXCEPT !.state = "Ready"] ELSE task[t]]
      /\ ready' = ready \o Those(retry, now)
      /\ retry' = Those(retry, Tasks \ now)
      /\ runner' = [runner EXCEPT !.pc = "run"]
      /\ kind' = kind /\ events' = events /\ srv' = srv /\ missed' = missed
      /\ watcher' = watcher /\ ctx' = ctx
  BY DEF MoveRetryToReady, server
<1>2. /\ Distinct(ready) /\ Distinct(retry)
      /\ \A t \in Tasks : Place(task[t], ready, retry, << >>, t)
  BY <1>0 DEF PlaceInv
<1>3. /\ Those(retry, now) \in Seq(Tasks)
      /\ \A x : Holds(Those(retry, now), x) <=> Holds(retry, x) /\ x \in now
      /\ Distinct(Those(retry, now))
  BY <1>0, <1>2, ThoseQueue
<1>4. /\ Those(retry, Tasks \ now) \in Seq(Tasks)
      /\ \A x : Holds(Those(retry, Tasks \ now), x) <=>
                   Holds(retry, x) /\ x \in Tasks \ now
      /\ Distinct(Those(retry, Tasks \ now))
  BY <1>0, <1>2, ThoseQueue
<1>5. \A x \in now : Holds(retry, x)
  BY <1>0, RangeHolds
<1>6. ASSUME NEW x, Holds(ready, x), Holds(retry, x) PROVE FALSE
  <2>1. x \in Tasks
    BY <1>0, <1>6, ElementOfSeq DEF Holds
  <2> QED
    BY <2>1, <1>2, <1>6 DEF Place
<1>7. /\ ready' \in Seq(Tasks)
      /\ \A x : Holds(ready', x) <=> Holds(ready, x) \/ Holds(Those(retry, now), x)
      /\ Distinct(ready')
  BY <1>0, <1>1, <1>2, <1>3, <1>6, ConcatQueue
<1>8. ASSUME NEW t \in Tasks
      PROVE  /\ task'[t] \in TaskState
             /\ task'[t].go = task[t].go /\ task'[t].seen = task[t].seen
             /\ task'[t].signal = task[t].signal
             /\ t \in now => task'[t].state = "Ready"
             /\ t \notin now => task'[t].state = task[t].state
  <2>0. task[t] \in TaskState
    BY <1>0 DEF TypeInv
  <2>1. CASE t \in now
    <3>1. task'[t] = [task[t] EXCEPT !.state = "Ready"]
      BY <2>1, <1>1
    <3> QED
      BY <2>0, <2>1, <3>1 DEF TaskState
  <2>2. CASE t \notin now
    <3>1. task'[t] = task[t]
      BY <2>2, <1>1
    <3> QED
      BY <2>0, <2>2, <3>1
  <2> QED
    BY <2>1, <2>2
<1>9. task' \in [Tasks -> TaskState]
  <2>1. task' = [t \in Tasks |-> task'[t]]
    BY <1>1
  <2> QED
    BY <2>1, <1>8
<1>10. runner' \in RunnerState /\ runner'.ts = << >> /\ runner'.pc = "run"
  BY <1>0, <1>1 DEF TypeInv, RunnerState
<1>11. TypeInv'
  BY <1>0, <1>1, <1>4, <1>7, <1>9, <1>10, TypesKept DEF TypeInv
<1>12. ASSUME NEW t \in Tasks PROVE Place(task'[t], ready', retry', << >>, t)
  <2>1. Place(task[t], ready, retry, << >>, t)
    BY <1>2
  <2>2. Holds(ready', t) <=> (Holds(ready, t) \/ t \in now)
    BY <1>3, <1>5, <1>7
  <2>3. Holds(retry', t) <=> (Holds(retry, t) /\ t \notin now)
    BY <1>1, <1>4
  <2>4. ~Holds(<< >>, t)
    BY EmptyQueue
  <2>5. t \in now => Holds(retry, t)
    BY <1>5
  <2>6. /\ task'[t].go = task[t].go
        /\ t \in now => task'[t].state = "Ready"
        /\ t \notin now => task'[t].state = task[t].state
    BY <1>8
  <2>7. t \in now => task[t].state = "Retry" /\ task[t].go = "no"
    BY <2>1, <2>5 DEF Place
  <2> QED
    BY <2>1, <2>2, <2>3, <2>4, <2>6, <2>7 DEF Place
<1>13. PlaceInv'
  BY <1>1, <1>4, <1>7, <1>10, <1>12, EmptyQueue DEF PlaceInv
<1>14. WakeInv'
  <2> SUFFICES ASSUME ctx = "running", NEW t \in Tasks
               PROVE  Woken(task'[t], EntityOf[t], events[EntityOf[t]], srv,
                            watcher, missed)
    BY <1>1 DEF WakeInv
  <2>1. Woken(task[t], EntityOf[t], events[EntityOf[t]], srv, watcher, missed)
    BY <1>0 DEF WakeInv
  <2>2. task'[t].state = "Sleeping" => task[t].state = "Sleeping"
    BY <1>8
  <2> QED
    BY <2>1, <2>2, <1>8 DEF Woken
<1> QED
  BY <1>11, <1>13, <1>14 DEF EngineInv

-----------------------------------------------------------------------------
(***************************************************************************)
(* The other engines: their tasks have no queues.                          *)
(***************************************************************************)

\* A step of another engine that changes one task.
LEMMA OtherTask ==
    ASSUME EngineInv, kind # "lazy", NEW t \in Tasks, NEW k \in TaskState,
           task' = [task EXCEPT ![t] = k], runner' \in RunnerState,
           UNCHANGED <<kind, events, server, ready, retry>>
    PROVE  EngineInv'
<1>0. TypeInv
  BY DEF EngineInv
<1>1. task' \in [Tasks -> TaskState]
  BY <1>0, TaskChanges
<1>2. TypeInv'
  BY <1>0, <1>1, TypesKept DEF TypeInv, server
<1> QED
  BY <1>0, <1>2, OtherEngines

\* Steps of the eager engine, and of the goroutines of the cron engine.
LEMMA OtherGoroutines ==
    ASSUME EngineInv, kind # "lazy", NEW t \in Tasks,
           \/ EagerStart(t) \/ EagerRun(t) \/ EagerProcess(t) \/ EagerQuits(t)
           \/ EagerRetry(t) \/ EagerCanceled(t)
           \/ CronAdd(t) \/ CronRunRepo(t) \/ Process(t)
    PROVE  EngineInv'
<1>0. /\ task \in [Tasks -> TaskState] /\ task[t] \in TaskState /\ runner \in RunnerState
      /\ events[EntityOf[t]] \in Nat
  BY PartTypes DEF EngineInv, TypeInv
<1> DEFINE Other(k) ==
      /\ k \in TaskState /\ task' = [task EXCEPT ![t] = k] /\ runner' = runner
      /\ UNCHANGED <<kind, events, server, ready, retry>>
<1>1. CASE EagerStart(t)
  <2>1. Other([task[t] EXCEPT !.state = "Waiting", !.go = "retry"])
    BY <1>0, <1>1 DEF EagerStart, TaskState, queues
  <2> QED
    BY <1>0, <2>1, OtherTask
<1>2. CASE EagerRun(t)
  <2>1. Other([task[t] EXCEPT !.state = "Running", !.go = "running"])
    BY <1>0, <1>2 DEF EagerRun, TaskState, queues
  <2> QED
    BY <1>0, <2>1, OtherTask
<1>3. CASE EagerProcess(t)
  <2>1. Other([task[t] EXCEPT !.tail = @ + 1])
    BY <1>0, <1>3 DEF EagerProcess, TaskState, queues
  <2> QED
    BY <1>0, <2>1, OtherTask
<1>4. CASE EagerQuits(t)
  <2>1. Other([task[t] EXCEPT !.go = "no", !.state = "Gone"])
    BY <1>0, <1>4 DEF EagerQuits, TaskState, queues
  <2> QED
    BY <1>0, <2>1, OtherTask
<1>5. CASE EagerRetry(t)
  <2>1. PICK tail \in FailedTails(t) :
          task' = [task EXCEPT ![t].go = "retry", ![t].state = "Waiting", ![t].tail = tail]
    BY <1>5 DEF EagerRetry
  <2>2. tail \in Nat
    BY <1>0, FailedTailsType
  <2>3. Other([task[t] EXCEPT !.go = "retry", !.state = "Waiting", !.tail = tail])
    BY <1>0, <1>5, <2>1, <2>2 DEF EagerRetry, TaskState, queues
  <2> QED
    BY <1>0, <2>3, OtherTask
<1>6. CASE EagerCanceled(t)
  <2>1. Other([task[t] EXCEPT !.go = "no"])
    BY <1>0, <1>6 DEF EagerCanceled, TaskState, queues
  <2> QED
    BY <1>0, <2>1, OtherTask
<1>7. CASE CronAdd(t)
  <2>1. Other([task[t] EXCEPT !.state = "Idle"])
    BY <1>0, <1>7 DEF CronAdd, TaskState, queues
  <2> QED
    BY <1>0, <2>1, OtherTask
<1>8. CASE CronRunRepo(t)
  <2>0. runner' = runner /\ UNCHANGED <<kind, events, server, ready, retry>>
    BY <1>8 DEF CronRunRepo, queues
  <2>1. CASE task' = [task EXCEPT ![t].go = "no", ![t].state = "Quit",
                                  ![t].tail = task[t].seen]
    <3>1. Other([task[t] EXCEPT !.go = "no", !.state = "Quit", !.tail = task[t].seen])
      BY <1>0, <2>0, <2>1 DEF TaskState
    <3> QED
      BY <1>0, <3>1, OtherTask
  <2>2. CASE task' = [task EXCEPT ![t].go = "no", ![t].state = "Done",
                                  ![t].tail = task[t].seen]
    <3>1. Other([task[t] EXCEPT !.go = "no", !.state = "Done", !.tail = task[t].seen])
      BY <1>0, <2>0, <2>2 DEF TaskState
    <3> QED
      BY <1>0, <3>1, OtherTask
  <2>3. ASSUME NEW tail \in FailedTails(t),
               task' = [task EXCEPT ![t].go = "no", ![t].state = "Done",
                                    ![t].tail = tail]
        PROVE  EngineInv'
    <3>1. tail \in Nat
      BY <1>0, FailedTailsType
    <3>2. Other([task[t] EXCEPT !.go = "no", !.state = "Done", !.tail = tail])
      BY <1>0, <2>0, <2>3, <3>1 DEF TaskState
    <3> QED
      BY <1>0, <3>2, OtherTask
  <2> QED
    BY <1>8, <2>1, <2>2, <2>3 DEF CronRunRepo
<1>9. CASE Process(t)
  <2>1. Other([task[t] EXCEPT !.go = "read", !.seen = events[EntityOf[t]]])
    BY <1>0, <1>9 DEF Process, TaskState, queues
  <2> QED
    BY <1>0, <2>1, OtherTask
<1> QED
  BY <1>1, <1>2, <1>3, <1>4, <1>5, <1>6, <1>7, <1>8, <1>9

\* The loop of the cron engine.
LEMMA CronKeeps ==
    ASSUME EngineInv, CronTick \/ ScheduleRepo
    PROVE  EngineInv'
<1>0. /\ TypeInv /\ kind # "lazy" /\ kind' = kind
      /\ task \in [Tasks -> TaskState] /\ runner \in RunnerState
      /\ UNCHANGED <<kind, events, server, ready, retry>>
  BY DEF EngineInv, TypeInv, CronTick, ScheduleRepo, queues
<1>1. CASE CronTick
  <2> DEFINE all == {t \in Tasks : task[t].state \notin {"none", "Gone"}}
  <2>1. all \in SUBSET Tasks /\ IsFiniteSet(all)
    BY EngineAssumption, FS_Subset
  <2>2. runner' = [pc |-> "start", ts |-> SetToSeq(all)] /\ task' = task
    BY <1>1 DEF CronTick
  <2> HIDE DEF all
  <2>3. SetToSeq(all) \in Seq(Tasks)
    BY <2>1, SetQueue
  <2>4. runner' \in RunnerState
    BY <2>2, <2>3 DEF RunnerState
  <2>5. TypeInv'
    BY <1>0, <2>2, <2>4, TypesKept DEF TypeInv, server
  <2> QED
    BY <1>0, <2>5, OtherEngines
<1>2. CASE ScheduleRepo
  <2> DEFINE t == Head(runner.ts)
  <2>1. /\ runner.ts # << >>
        /\ runner' = [runner EXCEPT !.ts = Tail(@)]
        /\ \/ task' = [task EXCEPT ![t].state = "Gone"]
           \/ task' = [task EXCEPT ![t].state = "Running", ![t].go = "running"]
           \/ task' = task
    BY <1>2 DEF ScheduleRepo
  <2>2. runner.ts \in Seq(Tasks)
    BY <1>0 DEF RunnerState
  <2>3. t \in Tasks /\ Tail(runner.ts) \in Seq(Tasks)
    BY <2>1, <2>2, TailQueue
  <2> HIDE DEF t
  <2>4. runner' \in RunnerState
    BY <1>0, <2>1, <2>3 DEF RunnerState
  <2>5. task[t] \in TaskState
    BY <1>0, <2>3
  <2>6. [task[t] EXCEPT !.state = "Gone"] \in TaskState
    BY <2>5 DEF TaskState
  <2>7. [task[t] EXCEPT !.state = "Running", !.go = "running"] \in TaskState
    BY <2>5 DEF TaskState
  <2>8. task' \in [Tasks -> TaskState]
    <3>1. CASE task' = [task EXCEPT ![t].state = "Gone"]
      BY <1>0, <2>3, <2>6, <3>1
    <3>2. CASE task' = [task EXCEPT ![t].state = "Running", ![t].go = "running"]
      BY <1>0, <2>3, <2>7, <3>2
    <3>3. CASE task' = task
      BY <1>0, <3>3
    <3> QED
      BY <2>1, <3>1, <3>2, <3>3
  <2>9. TypeInv'
    BY <1>0, <2>4, <2>8, TypesKept DEF TypeInv, server
  <2> QED
    BY <1>0, <2>9, OtherEngines
<1> QED
  BY <1>1, <1>2

-----------------------------------------------------------------------------
(***************************************************************************)
(* All steps.                                                              *)
(***************************************************************************)

\* The steps of the runner.
LEMMA RunnerKeeps ==
    ASSUME EngineInv, Runner
    PROVE  EngineInv'
<1>1. CASE TakeReadyTasks
  BY <1>1, TakeReadyTasksKeeps
<1>2. CASE StartTask
  BY <1>2, StartTaskKeeps
<1>3. CASE RunnerWakes
  BY <1>3, RunnerPc DEF RunnerWakes
<1>4. CASE CronTick \/ ScheduleRepo
  BY <1>4, CronKeeps
<1>5. CASE RunnerReturns
  BY <1>5, RunnerPc DEF RunnerReturns, queues
<1> QED
  BY <1>1, <1>2, <1>3, <1>4, <1>5 DEF Runner

\* The steps that add or run a task.
LEMMA TasksKeep ==
    ASSUME EngineInv, NEW t \in Tasks,
           \/ AddNewTask(t) \/ EagerStart(t) \/ CronAdd(t)
           \/ Goroutine(t) \/ EagerRetry(t)
    PROVE  EngineInv'
<1>1. CASE kind = "lazy"
  <2>1. \/ AddNewTask(t) \/ RunTask(t) \/ Process(t) \/ TaskQuits(t)
        \/ TaskEof(t) \/ TaskRetry(t)
    BY <1>1 DEF Goroutine, EagerStart, CronAdd, EagerRun, EagerProcess, EagerQuits,
                EagerCanceled, EagerRetry, CronRunRepo
  <2> QED
    BY <1>1, <2>1, AddNewTaskKeeps, RunTaskKeeps, ProcessKeeps, TaskQuitsKeeps,
       TaskEofKeeps, TaskRetryKeeps
<1>2. CASE kind # "lazy"
  <2>1. \/ EagerStart(t) \/ EagerRun(t) \/ EagerProcess(t) \/ EagerQuits(t)
        \/ EagerRetry(t) \/ EagerCanceled(t)
        \/ CronAdd(t) \/ CronRunRepo(t) \/ Process(t)
    BY <1>2 DEF Goroutine, AddNewTask, RunTask, TaskQuits, TaskEof, TaskRetry
  <2> QED
    BY <1>2, <2>1, OtherGoroutines
<1> QED
  BY <1>1, <1>2

\* Every step keeps the invariant.
LEMMA EngineStep ==
    ASSUME EngineInv, [Next]_vars
    PROVE  EngineInv'
<1>1. CASE UNCHANGED vars
  BY <1>1 DEF vars, EngineInv, TypeInv, PlaceInv, WakeInv
<1>2. CASE \E e \in Entities : Commit(e)
  BY <1>2, CommitKeeps
<1>3. CASE Broadcast
  BY <1>3, SubscribeKeeps, SendSignalsKeeps, WatcherKeeps, SetUpdateKeeps DEF Broadcast
<1>4. CASE Watcher \/ StreamFails
  BY <1>4, WatcherKeeps, SignalAllTasksKeeps, SignalTasksOfEntityKeeps DEF Watcher
<1>5. CASE Runner
  BY <1>5, RunnerKeeps
<1>6. CASE Tick
  BY <1>6, MoveRetryToReadyKeeps DEF Tick
<1>7. CASE \E t \in Tasks : \/ AddNewTask(t) \/ EagerStart(t) \/ CronAdd(t)
                            \/ Goroutine(t) \/ EagerRetry(t)
  BY <1>7, TasksKeep
<1>8. CASE Shutdown
  BY <1>8, WatcherKeeps
<1>9. CASE WgWait \/ Stop
  <2>1. /\ srv' = srv /\ missed' = missed /\ ctx' # "running"
        /\ UNCHANGED <<kind, events, task, runner, queues>>
    BY <1>9 DEF WgWait, Stop, server
  <2>2. srv \in ServerState /\ missed \in SUBSET Entities
    BY DEF EngineInv, TypeInv
  <2> QED
    BY <2>1, <2>2, WatcherAway
<1> QED
  BY <1>1, <1>2, <1>3, <1>4, <1>5, <1>6, <1>7, <1>8, <1>9 DEF Next

\* The inductive invariant of the engines: the types, where each task is, and
\* that the tasks that are behind are woken.
THEOREM EngineInvariant == Spec => []EngineInv
<1>1. Init => EngineInv
  BY EngineInitial
<1>2. EngineInv /\ [Next]_vars => EngineInv'
  BY EngineStep
<1> QED
  BY <1>1, <1>2, PTL DEF Spec

\* A task of the lazy engine is in one queue or has one goroutine: signals,
\* retries and the end of a run never queue it twice or forget it.
THEOREM OnePlace == Spec => []TaskIsInOnePlace
<1>1. EngineInv => TaskIsInOnePlace
  <2> SUFFICES ASSUME EngineInv, kind = "lazy", NEW t \in Tasks
               PROVE  Cardinality({i \in DOMAIN ready : ready[i] = t})
                        + Cardinality({i \in DOMAIN retry : retry[i] = t})
                        + Cardinality({i \in DOMAIN runner.ts : runner.ts[i] = t})
                        + (IF task[t].go = "no" THEN 0 ELSE 1)
                      = IF task[t].state \in {"none", "Gone", "Sleeping"} THEN 0 ELSE 1
    BY DEF TaskIsInOnePlace
  <2>1. /\ task[t] \in TaskState
        /\ runner.ts \in Seq(Tasks) /\ ready \in Seq(Tasks) /\ retry \in Seq(Tasks)
        /\ Distinct(ready) /\ Distinct(retry) /\ Distinct(runner.ts)
        /\ Place(task[t], ready, retry, runner.ts, t)
    BY LazyTask
  <2>2. Cardinality({i \in DOMAIN ready : ready[i] = t}) = IF Holds(ready, t) THEN 1 ELSE 0
    BY <2>1, CountQueue
  <2>3. Cardinality({i \in DOMAIN retry : retry[i] = t}) = IF Holds(retry, t) THEN 1 ELSE 0
    BY <2>1, CountQueue
  <2>4. Cardinality({i \in DOMAIN runner.ts : runner.ts[i] = t})
          = IF Holds(runner.ts, t) THEN 1 ELSE 0
    BY <2>1, CountQueue
  <2>5. \/ /\ task[t].state \in {"none", "Gone", "Sleeping"}
           /\ ~Holds(ready, t) /\ ~Holds(retry, t) /\ ~Holds(runner.ts, t)
           /\ task[t].go = "no"
        \/ /\ task[t].state \notin {"none", "Gone", "Sleeping"}
           /\ Holds(ready, t) /\ ~Holds(retry, t) /\ ~Holds(runner.ts, t)
           /\ task[t].go = "no"
        \/ /\ task[t].state \notin {"none", "Gone", "Sleeping"}
           /\ ~Holds(ready, t) /\ Holds(retry, t) /\ ~Holds(runner.ts, t)
           /\ task[t].go = "no"
        \/ /\ task[t].state \notin {"none", "Gone", "Sleeping"}
           /\ ~Holds(ready, t) /\ ~Holds(retry, t) /\ Holds(runner.ts, t)
           /\ task[t].go = "no"
        \/ /\ task[t].state \notin {"none", "Gone", "Sleeping"}
           /\ ~Holds(ready, t) /\ ~Holds(retry, t) /\ ~Holds(runner.ts, t)
           /\ task[t].go # "no"
    BY <2>1 DEF Place, TaskState
  <2> QED
    BY <2>2, <2>3, <2>4, <2>5
<1> QED
  BY <1>1, EngineInvariant, PTL

\* A task of the lazy engine that is behind its entity is woken, unless the
\* server has dropped the update.
THEOREM SignalsWake == Spec => []NoLostSignal
<1>1. EngineInv => NoLostSignal
  BY DEF EngineInv, WakeInv, NoLostSignal, Woken
<1> QED
  BY <1>1, EngineInvariant, PTL

=============================================================================
