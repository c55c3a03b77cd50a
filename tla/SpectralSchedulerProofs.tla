----------------------- MODULE SpectralSchedulerProofs -----------------------
(***************************************************************************)
(* Proofs about SpectralScheduler, for every set of policies and any       *)
(* number of records and stations: the scheduler's counters say of the     *)
(* raw records what the policy asks of them, through any number of         *)
(* restarts inside a station.                                              *)
(***************************************************************************)
EXTENDS SpectralScheduler, WellFoundedInduction, TLAPS

-----------------------------------------------------------------------------
(* Sums over sequences *)

\* A nonempty set of natural numbers has a least one: what stands in for an
\* induction over positions.
LEMMA Least ==
  ASSUME NEW T, T \subseteq Nat, T # {}
  PROVE  \E x \in T : \A y \in T : x <= y
<1>1. IsWellFoundedOn(OpToRel(<, Nat), Nat)
  BY NatLessThanWellFounded
<1>2. PICK x \in T : \A y \in T : ~(<<y, x>> \in OpToRel(<, Nat))
  BY <1>1, WFMin
<1>3. \A y \in T : <<y, x>> \in OpToRel(<, Nat) <=> y < x
  BY DEF OpToRel
<1>4. \A y \in T : ~(y < x)
  BY <1>2, <1>3, Zenon
<1>5. \A y \in T : x <= y
  BY <1>4
<1> QED BY <1>5

\* An element that bounds a set is its maximum.
LEMMA MaxIs ==
  ASSUME NEW s, NEW n \in s, \A m \in s : m \in Int /\ m <= n
  PROVE  Max(s) = n
BY DEF Max

\* A nonempty set of positions has a maximum.
LEMMA MaxOfRange ==
  ASSUME NEW n \in Nat, NEW s \in SUBSET (1..n), s # {}
  PROVE  Max(s) \in s /\ \A y \in s : y <= Max(s)
<1> DEFINE Above == {k \in 0..n : \A y \in s : y <= k}
<1>1. n \in Above /\ Above \subseteq Nat
  OBVIOUS
<1>2. PICK k \in Above : \A l \in Above : k <= l
  BY <1>1, Least
<1>3. k # 0
  <2>1. PICK y \in s : TRUE
    OBVIOUS
  <2>2. y >= 1 /\ y <= k
    BY <1>2
  <2> QED BY <2>2
<1>4. k - 1 \notin Above /\ k - 1 \in 0..n
  BY <1>2, <1>3
<1>5. k \in s /\ \A y \in s : y \in Int /\ y <= k
  BY <1>2, <1>4
<1> QED BY <1>5, MaxIs

\* What the recursion of a fold over 1..n, from c on, says of its values.
IsFold(n, c, F, iter) ==
  \A s \in SUBSET (1..n) :
    iter[s] = IF s = {} THEN c ELSE F[<<Max(s), iter[s \ {Max(s)}]>>]

\* A fold of the typed steps F over the subsets of 1..n exists.
LEMMA FoldExists ==
  ASSUME NEW n \in Nat, NEW C, NEW c \in C, NEW F \in [(1..n) \X C -> C]
  PROVE  \E iter \in [SUBSET (1..n) -> C] : IsFold(n, c, F, iter)
<1> DEFINE Folds(m, iter) ==
             /\ iter \in [SUBSET (1..m) -> C]
             /\ iter[{}] = c
             /\ \A s \in SUBSET (1..m) : \A x \in s :
                  (\A y \in s : y <= x) => iter[s] = F[<<x, iter[s \ {x}]>>]
           Bad == {m \in 0..n : ~\E iter : Folds(m, iter)}
<1>1. Bad = {}
  <2> SUFFICES ASSUME Bad # {} PROVE FALSE
    OBVIOUS
  <2>0. Bad \subseteq Nat
    OBVIOUS
  <2>1. PICK m \in Bad : \A k \in Bad : m <= k
    <3> HIDE DEF Bad
    <3> QED BY <2>0, Least
  <2>2. 0 \notin Bad
    <3>1. Folds(0, [s \in SUBSET (1..0) |-> c])
      OBVIOUS
    <3> HIDE DEF Folds
    <3> QED BY <3>1
  <2>3. m - 1 \in 0..n /\ m - 1 \notin Bad /\ m \in 1..n
    <3>1. m \in 0..n
      OBVIOUS
    <3> HIDE DEF Bad
    <3> QED BY <2>1, <2>2, <3>1
  <2>4. PICK iter : Folds(m - 1, iter)
    <3> HIDE DEF Folds
    <3> QED BY <2>3
  <2> DEFINE more == [s \in SUBSET (1..m) |->
                        IF m \in s THEN F[<<m, iter[s \ {m}]>>] ELSE iter[s]]
  <2>5. \A s \in SUBSET (1..m) : s \ {m} \in SUBSET (1..(m - 1)) /\ (m \notin s => s = s \ {m})
    BY <2>3
  <2>6. more \in [SUBSET (1..m) -> C]
    BY <2>3, <2>4, <2>5
  <2>7. more[{}] = c
    BY <2>4
  <2>8. ASSUME NEW s \in SUBSET (1..m), NEW x \in s, \A y \in s : y <= x
        PROVE  more[s] = F[<<x, more[s \ {x}]>>]
    <3>1. CASE m \in s
      <4>1. x = m
        BY <2>3, <2>8, <3>1
      <4>2. s \ {m} \in SUBSET (1..m) /\ m \notin s \ {m}
        OBVIOUS
      <4> QED BY <3>1, <4>1, <4>2
    <3>2. CASE m \notin s
      <4>1. s \in SUBSET (1..(m - 1)) /\ s \ {x} \in SUBSET (1..m) /\ m \notin s \ {x}
        BY <2>5, <3>2
      <4> QED BY <2>4, <2>8, <3>2, <4>1
    <3> QED BY <3>1, <3>2
  <2>9. Folds(m, more)
    BY <2>6, <2>7, <2>8
  <2> HIDE DEF Folds
  <2> QED BY <2>1, <2>9
<1>2. PICK iter : Folds(n, iter)
  <2> HIDE DEF Folds
  <2> QED BY <1>1
<1>3. ASSUME NEW s \in SUBSET (1..n), s # {}
      PROVE  iter[s] = F[<<Max(s), iter[s \ {Max(s)}]>>]
  <2>1. Max(s) \in s /\ \A y \in s : y <= Max(s)
    BY <1>3, MaxOfRange
  <2> QED BY <1>2, <2>1
<1>4. IsFold(n, c, F, iter)
  BY <1>2, <1>3 DEF IsFold
<1> QED BY <1>2, <1>4

\* The fold over a prefix of a sequence's domain.
LEMMA PrefixOfDomain ==
  ASSUME NEW i \in Nat \ {0}
  PROVE  Max(1..i) = i /\ (1..i) \ {i} = 1..(i - 1) /\ 1..i # {}
<1>1. i \in 1..i /\ \A m \in 1..i : m \in Int /\ m <= i
  OBVIOUS
<1>2. Max(1..i) = i
  BY <1>1, MaxIs, Zenon
<1> QED BY <1>1, <1>2

\* Two runs of the same steps from the same start end alike.
LEMMA SameSteps ==
  ASSUME NEW n \in Nat, NEW f, NEW g, f[0] = g[0],
         \A i \in 1..n : f[i - 1] = g[i - 1] => f[i] = g[i]
  PROVE  f[n] = g[n]
<1> DEFINE Bad == {i \in 0..n : f[i] # g[i]}
<1> SUFFICES ASSUME Bad # {} PROVE FALSE
  OBVIOUS
<1>1. PICK i \in Bad : \A j \in Bad : i <= j
  BY Least, Bad \subseteq Nat
<1>2. i # 0 /\ i \in 1..n /\ i - 1 \in 0..n
  BY <1>1
<1>3. f[i - 1] = g[i - 1]
  BY <1>1, <1>2
<1> QED BY <1>1, <1>2, <1>3

\* A sum over the subsets of 1..n that takes the greatest element last.
IsSum(n, w, iter) ==
  iter = [s \in SUBSET (1..n) |-> IF s = {} THEN 0 ELSE iter[s \ {Max(s)}] + w[Max(s)]]

\* Such a sum exists.
LEMMA SumExists ==
  ASSUME NEW n \in Nat, NEW w \in [1..n -> Nat]
  PROVE  \E iter : IsSum(n, w, iter)
<1> DEFINE F == [x \in (1..n) \X Nat |-> x[2] + w[x[1]]]
<1>1. F \in [(1..n) \X Nat -> Nat] /\ 0 \in Nat
  OBVIOUS
<1>2. PICK iter \in [SUBSET (1..n) -> Nat] : IsFold(n, 0, F, iter)
  <2> HIDE DEF F
  <2> QED BY <1>1, FoldExists, Zenon
<1>3. ASSUME NEW s \in SUBSET (1..n), s # {}
      PROVE  F[<<Max(s), iter[s \ {Max(s)}]>>] = iter[s \ {Max(s)}] + w[Max(s)]
  <2>1. Max(s) \in 1..n /\ iter[s \ {Max(s)}] \in Nat
    BY <1>2, <1>3, MaxOfRange
  <2> QED BY <2>1
<1>4. ASSUME NEW s \in SUBSET (1..n)
      PROVE  iter[s] = IF s = {} THEN 0 ELSE iter[s \ {Max(s)}] + w[Max(s)]
  <2>1. iter[s] = IF s = {} THEN 0 ELSE F[<<Max(s), iter[s \ {Max(s)}]>>]
    <3> HIDE DEF F
    <3> QED BY <1>2 DEF IsFold
  <2> HIDE DEF F
  <2> QED BY <1>3, <2>1
<1> HIDE DEF F
<1> QED BY <1>2, <1>4 DEF IsSum

\* What a sum adds up to, position by position.
AddsUp(n, w, iter) ==
  /\ iter[1..0] = 0
  /\ \A i \in 1..n : iter[1..i] = iter[1..(i - 1)] + w[i]
  /\ \A i \in 0..n : iter[1..i] \in Nat

\* Its values on the first positions are the sums of the first numbers.
LEMMA SumValues ==
  ASSUME NEW n \in Nat, NEW w \in [1..n -> Nat], NEW iter, IsSum(n, w, iter)
  PROVE  AddsUp(n, w, iter)
<1>0. \A s \in SUBSET (1..n) :
        iter[s] = IF s = {} THEN 0 ELSE iter[s \ {Max(s)}] + w[Max(s)]
  BY DEF IsSum
<1>1. iter[1..0] = 0
  <2>1. 1..0 = {} /\ {} \in SUBSET (1..n)
    OBVIOUS
  <2> QED BY <1>0, <2>1
<1>2. ASSUME NEW i \in 1..n PROVE iter[1..i] = iter[1..(i - 1)] + w[i]
  <2>1. Max(1..i) = i /\ (1..i) \ {i} = 1..(i - 1) /\ 1..i # {}
    BY PrefixOfDomain
  <2> QED BY <1>0, <2>1, 1..i \in SUBSET (1..n)
<1>3. \A i \in 0..n : iter[1..i] \in Nat
  <2> DEFINE Bad == {i \in 0..n : iter[1..i] \notin Nat}
  <2> SUFFICES ASSUME Bad # {} PROVE FALSE
    OBVIOUS
  <2>1. PICK i \in Bad : \A j \in Bad : i <= j
    BY Least, Bad \subseteq Nat
  <2>2. i # 0 /\ i \in 1..n /\ i - 1 \in 0..n
    BY <1>1
  <2>3. iter[1..(i - 1)] \in Nat
    BY <2>1, <2>2
  <2>4. iter[1..i] = iter[1..(i - 1)] + w[i]
    BY <1>2, <2>2
  <2> QED BY <2>2, <2>3, <2>4
<1> QED BY <1>1, <1>2, <1>3 DEF AddsUp

\* Two sums, and two sequences of numbers, that agree as far as position k.
EqualAt(k, a, b) == a[1..k] = b[1..k]
Alike(k, v, w) == \A i \in 1..k : v[i] = w[i]

\* Two sums of numbers that begin alike agree as far as they do.
LEMMA SumsAgree ==
  ASSUME NEW m \in Nat, NEW n \in Nat, NEW v, NEW w, NEW a, NEW b, NEW k \in Nat,
         AddsUp(m, v, a), AddsUp(n, w, b),
         k <= m, k <= n, Alike(k, v, w)
  PROVE  EqualAt(k, a, b)
<1> DEFINE f == [i \in 0..k |-> a[1..i]]
           g == [i \in 0..k |-> b[1..i]]
<1>1. f[0] = g[0]
  BY DEF AddsUp
<1>2. ASSUME NEW i \in 1..k, f[i - 1] = g[i - 1] PROVE f[i] = g[i]
  <2>1. i \in 1..m /\ i \in 1..n /\ i - 1 \in 0..k /\ i \in 0..k
    OBVIOUS
  <2>2. a[1..i] = a[1..(i - 1)] + v[i] /\ b[1..i] = b[1..(i - 1)] + w[i]
    BY <2>1 DEF AddsUp
  <2>3. v[i] = w[i]
    BY DEF Alike
  <2> QED BY <1>2, <2>1, <2>2, <2>3
<1>3. k \in 0..k
  OBVIOUS
<1> HIDE DEF f, g
<1>4. f[k] = g[k]
  BY <1>1, <1>2, SameSteps
<1> QED BY <1>3, <1>4 DEF f, g, EqualAt

\* The deviance of a station's records.
Total(s) == FoldLeft(LAMBDA sum, d : sum + d, 0, s)

\* The records of some stations.
Rows(ss) == FoldLeft(LAMBDA n, s : n + Len(s), 0, ss)

\* How many records each station has.
Lengths(ss) == [i \in 1..Len(ss) |-> Len(ss[i])]

\* The deviance is the sum of the numbers.
LEMMA TotalIsSum ==
  ASSUME NEW s \in Seq(Nat)
  PROVE  /\ s \in [1..Len(s) -> Nat] /\ Len(s) \in Nat
         /\ \E iter : AddsUp(Len(s), s, iter) /\ Total(s) = iter[1..Len(s)]
<1> DEFINE Folds(iter) ==
             iter = [S \in SUBSET DOMAIN s |->
                       IF S = {} THEN 0 ELSE iter[S \ {Max(S)}] + s[Max(S)]]
           it == CHOOSE iter : Folds(iter)
<1>1. Total(s) = it[DOMAIN s]
  BY DEF Total, FoldLeft, MapThenFoldSet
<1>2. s \in [1..Len(s) -> Nat] /\ Len(s) \in Nat /\ DOMAIN s = 1..Len(s)
  OBVIOUS
<1>3. \E iter : Folds(iter)
  <2>1. \E iter : IsSum(Len(s), s, iter)
    BY <1>2, SumExists
  <2> QED BY <1>2, <2>1 DEF IsSum
<1>4. Folds(it)
  <2> HIDE DEF Folds
  <2> QED BY <1>3
<1>5. IsSum(Len(s), s, it)
  BY <1>2, <1>4 DEF IsSum
<1> HIDE DEF it
<1>6. AddsUp(Len(s), s, it)
  BY <1>2, <1>5, SumValues
<1> QED BY <1>1, <1>2, <1>6

\* The count of the records is the sum of the lengths.
LEMMA RowsIsSum ==
  ASSUME NEW D, NEW ss \in Seq(Seq(D))
  PROVE  /\ Lengths(ss) \in [1..Len(ss) -> Nat] /\ Len(ss) \in Nat
         /\ \E iter : AddsUp(Len(ss), Lengths(ss), iter) /\ Rows(ss) = iter[1..Len(ss)]
<1> DEFINE Folds(iter) ==
             iter = [S \in SUBSET DOMAIN ss |->
                       IF S = {} THEN 0 ELSE iter[S \ {Max(S)}] + Len(ss[Max(S)])]
           it == CHOOSE iter : Folds(iter)
           w == Lengths(ss)
<1>1. Rows(ss) = it[DOMAIN ss]
  BY DEF Rows, FoldLeft, MapThenFoldSet
<1>2. Len(ss) \in Nat /\ DOMAIN ss = 1..Len(ss) /\ w \in [1..Len(ss) -> Nat]
  BY DEF Lengths
<1>3. \A S \in SUBSET (1..Len(ss)) : S # {} => Len(ss[Max(S)]) = w[Max(S)]
  BY <1>2, MaxOfRange DEF Lengths
<1>4. \A iter : Folds(iter) <=> IsSum(Len(ss), w, iter)
  BY <1>2, <1>3 DEF IsSum
<1>5. \E iter : Folds(iter)
  <2> HIDE DEF Folds, w
  <2> QED BY <1>2, <1>4, SumExists
<1>6. IsSum(Len(ss), w, it)
  <2> HIDE DEF Folds
  <2> QED BY <1>4, <1>5
<1> HIDE DEF it, w
<1>7. AddsUp(Len(ss), w, it)
  BY <1>2, <1>6, SumValues
<1> QED BY <1>1, <1>2, <1>7 DEF w

\* A record more adds its deviance.
LEMMA TotalAppend ==
  ASSUME NEW s \in Seq(Nat), NEW d \in Nat
  PROVE  Total(s) \in Nat /\ Total(Append(s, d)) = Total(s) + d
<1> DEFINE n == Len(s)
           t == Append(s, d)
<1>1. n \in Nat /\ t \in Seq(Nat) /\ Len(t) = n + 1 /\ t[n + 1] = d /\ \A i \in 1..n : t[i] = s[i]
  OBVIOUS
<1>3. PICK a : AddsUp(n, s, a) /\ Total(s) = a[1..n]
  BY TotalIsSum
<1>4. PICK b : AddsUp(n + 1, t, b) /\ Total(t) = b[1..(n + 1)]
  <2> HIDE DEF t
  <2> QED BY <1>1, TotalIsSum
<1> HIDE DEF t, n
<1>5. n \in 0..n /\ n <= n /\ n <= n + 1 /\ n + 1 \in Nat /\ n + 1 \in 1..(n + 1) /\ (n + 1) - 1 = n
  BY <1>1
<1>6. a[1..n] = b[1..n]
  <2>1. Alike(n, s, t)
    BY <1>1 DEF Alike
  <2>2. /\ n \in Nat /\ n + 1 \in Nat /\ n <= n /\ n <= n + 1
        /\ AddsUp(n, s, a) /\ AddsUp(n + 1, t, b)
    BY <1>1, <1>3, <1>4, <1>5
  <2>3. EqualAt(n, a, b)
    BY <2>1, <2>2, SumsAgree, Zenon
  <2> QED BY <2>3 DEF EqualAt
<1>7. b[1..(n + 1)] = b[1..n] + t[n + 1] /\ a[1..n] \in Nat
  <2>1. b[1..(n + 1)] = b[1..((n + 1) - 1)] + t[n + 1]
    BY <1>4, <1>5 DEF AddsUp
  <2> QED BY <1>3, <1>5, <2>1 DEF AddsUp
<1> QED BY <1>1, <1>3, <1>4, <1>6, <1>7 DEF t

\* A station more adds its records.
LEMMA RowsAppend ==
  ASSUME NEW D, NEW ss \in Seq(Seq(D)), NEW s \in Seq(D)
  PROVE  Rows(ss) \in Nat /\ Rows(Append(ss, s)) = Rows(ss) + Len(s)
<1> DEFINE n == Len(ss)
           tt == Append(ss, s)
           v == Lengths(ss)
           w == Lengths(tt)
<1>1. n \in Nat /\ tt \in Seq(Seq(D)) /\ Len(tt) = n + 1 /\ tt[n + 1] = s
      /\ \A i \in 1..n : tt[i] = ss[i]
  OBVIOUS
<1>2. v \in [1..n -> Nat] /\ w \in [1..(n + 1) -> Nat]
      /\ w[n + 1] = Len(s) /\ \A i \in 1..n : v[i] = w[i]
  <2> HIDE DEF tt
  <2> QED BY <1>1 DEF Lengths
<1>3. PICK a : AddsUp(n, v, a) /\ Rows(ss) = a[1..n]
  BY RowsIsSum
<1>4. PICK b : AddsUp(n + 1, w, b) /\ Rows(tt) = b[1..(n + 1)]
  <2> HIDE DEF tt
  <2> QED BY <1>1, RowsIsSum
<1> HIDE DEF tt, n, v, w
<1>5. n \in 0..n /\ n <= n /\ n <= n + 1 /\ n + 1 \in Nat /\ n + 1 \in 1..(n + 1) /\ (n + 1) - 1 = n
  BY <1>1
<1>6. a[1..n] = b[1..n]
  <2>1. Alike(n, v, w)
    BY <1>2 DEF Alike
  <2>2. /\ n \in Nat /\ n + 1 \in Nat /\ n <= n /\ n <= n + 1
        /\ AddsUp(n, v, a) /\ AddsUp(n + 1, w, b)
    BY <1>1, <1>3, <1>4, <1>5
  <2>3. EqualAt(n, a, b)
    BY <2>1, <2>2, SumsAgree, Zenon
  <2> QED BY <2>3 DEF EqualAt
<1>7. b[1..(n + 1)] = b[1..n] + w[n + 1] /\ a[1..n] \in Nat
  <2>1. b[1..(n + 1)] = b[1..((n + 1) - 1)] + w[n + 1]
    BY <1>4, <1>5 DEF AddsUp
  <2> QED BY <1>3, <1>5, <2>1 DEF AddsUp
<1> QED BY <1>2, <1>3, <1>4, <1>6, <1>7 DEF tt

\* Nothing adds up to nothing.
LEMMA NothingAddsUp == Total(<<>>) = 0 /\ Rows(<<>>) = 0
<1>1. Total(<<>>) = 0
  <2>1. <<>> \in Seq(Nat) /\ Len(<<>>) = 0
    OBVIOUS
  <2>2. PICK a : AddsUp(0, <<>>, a) /\ Total(<<>>) = a[1..0]
    BY <2>1, TotalIsSum
  <2> QED BY <2>2 DEF AddsUp
<1>2. Rows(<<>>) = 0
  <2>1. <<>> \in Seq(Seq(Nat)) /\ Len(<<>>) = 0
    OBVIOUS
  <2>2. PICK a : AddsUp(0, Lengths(<<>>), a) /\ Rows(<<>>) = a[1..0]
    BY <2>1, RowsIsSum
  <2> QED BY <2>2 DEF AddsUp
<1> QED BY <1>1, <1>2

\* In any row of so many numbers one is a multiple of that number.
LEMMA OneIsMultiple ==
  ASSUME NEW i \in Nat \ {0}, NEW a \in Nat
  PROVE  \E m \in a..(a + i - 1) : m % i = 0
<1> DEFINE r == a % i
           q == a \div i
<1>1. r \in 0..(i - 1) /\ q \in Nat /\ a = i * q + r
  OBVIOUS
<1>2. ASSUME NEW p \in Nat PROVE (i * p) % i = 0 /\ i * p \in Nat
  OBVIOUS
<1> HIDE DEF r, q
<1>3. CASE r = 0
  <2>1. a = i * q
    BY <1>1, <1>2, <1>3
  <2>2. a % i = 0
    BY <1>1, <1>2, <2>1
  <2>3. a \in a..(a + i - 1)
    OBVIOUS
  <2> QED BY <2>2, <2>3
<1>4. CASE r # 0
  <2>1. i * (q + 1) = i * q + i
    BY <1>1
  <2>2. i * (q + 1) \in a..(a + i - 1)
    BY <1>1, <1>2, <1>4, <2>1
  <2>3. q + 1 \in Nat
    BY <1>1
  <2>4. (i * (q + 1)) % i = 0
    BY <1>2, <2>3
  <2> QED BY <2>2, <2>4
<1> QED BY <1>1, <1>3, <1>4

-----------------------------------------------------------------------------
(* What the policy asks of the records, station by station *)

\* Mismatched and the recursion of PolicyFires, for policy p and records sn.
MismatchedIn(p, sn, k) ==
  /\ p.threshold # None
  /\ Total(sn[k]) >= p.threshold * Len(sn[k])

Fires(p, sn, f, k) ==
  /\ k >= p.minimum
  /\ \A j \in 1..(k - 1) : k - j <= p.cooldown => ~f[j]
  /\ \/ k % p.interval = 0
     \/ /\ k >= p.streak
        /\ \A j \in (k - p.streak + 1)..k : MismatchedIn(p, sn, j)

IsPolicy(p, sn, n, f) == f = [k \in 0..n |-> Fires(p, sn, f, k)]

\* Whatever the policy and the records, it says when to fire.
LEMMA PolicyExists ==
  ASSUME NEW p, NEW sn, NEW n \in Nat
  PROVE  \E f : IsPolicy(p, sn, n, f)
<1> DEFINE Bad == {m \in 0..n : ~\E f : IsPolicy(p, sn, m, f)}
<1> SUFFICES Bad = {}
  <2>1. n \in 0..n
    OBVIOUS
  <2> QED BY <2>1
<1> SUFFICES ASSUME Bad # {} PROVE FALSE
  OBVIOUS
<1>1. PICK m \in Bad : \A k \in Bad : m <= k
  <2>1. Bad \subseteq Nat
    OBVIOUS
  <2> HIDE DEF Bad
  <2> QED BY <2>1, Least
<1>2. m \in 0..n /\ ~\E f : IsPolicy(p, sn, m, f)
  OBVIOUS
<1> DEFINE Fire0 == Fires(p, sn, <<>>, 0)
<1>3. m # 0
  <2> SUFFICES IsPolicy(p, sn, 0, [k \in 0..0 |-> Fires(p, sn, <<>>, 0)])
    BY <1>2
  <2> DEFINE f == [k \in 0..0 |-> Fires(p, sn, <<>>, 0)]
  <2>1. \A j \in 1..(0 - 1) : FALSE
    OBVIOUS
  <2>2. Fires(p, sn, f, 0) = Fires(p, sn, <<>>, 0)
    BY <2>1 DEF Fires
  <2>3. \A k \in 0..0 : k = 0
    OBVIOUS
  <2>4. f = [k \in 0..0 |-> Fires(p, sn, f, k)]
    BY <2>2, <2>3
  <2> QED BY <2>4 DEF IsPolicy
<1>4. m - 1 \in 0..n /\ m - 1 \notin Bad /\ m \in 1..n
  <2>1. m \in Nat /\ m <= n
    BY <1>2
  <2> HIDE DEF Bad
  <2> QED BY <1>1, <1>3, <2>1
<1>5. PICK g : IsPolicy(p, sn, m - 1, g)
  BY <1>4
<1> DEFINE f == [k \in 0..m |-> IF k = m THEN Fires(p, sn, g, m) ELSE g[k]]
<1>6. ASSUME NEW k \in 0..m PROVE f[k] = Fires(p, sn, f, k)
  <2>1. \A j \in 1..(k - 1) : f[j] = g[j]
    BY <1>4
  <2>2. Fires(p, sn, f, k) = Fires(p, sn, g, k)
    BY <2>1 DEF Fires
  <2>3. CASE k = m
    BY <2>2, <2>3
  <2>4. CASE k # m
    <3>1. k \in 0..(m - 1)
      BY <1>4, <2>4
    <3>2. g[k] = Fires(p, sn, g, k)
      BY <1>5, <3>1 DEF IsPolicy
    <3> QED BY <2>2, <2>4, <3>2
  <2> QED BY <2>3, <2>4
<1>7. IsPolicy(p, sn, m, f)
  <2> HIDE DEF f
  <2>1. f = [k \in 0..m |-> f[k]]
    BY DEF f
  <2> QED BY <1>6, <2>1 DEF IsPolicy
<1> QED BY <1>2, <1>7

\* The same of two policies over records that agree.
SameTo(n, f, g) == \A k \in 0..n : f[k] = g[k]
SameRecords(n, sn, tn) == \A k \in 1..n : sn[k] = tn[k]

\* Only the records so far decide.
LEMMA PolicyLocal ==
  ASSUME NEW p \in PolicyRecords, NEW sn, NEW tn, NEW n \in Nat, NEW m \in Nat, NEW l \in Nat,
         n <= m, n <= l, SameRecords(n, sn, tn),
         NEW f, IsPolicy(p, sn, m, f), NEW g, IsPolicy(p, tn, l, g)
  PROVE  SameTo(n, f, g)
<1> DEFINE Bad == {k \in 0..n : f[k] # g[k]}
<1> SUFFICES ASSUME Bad # {} PROVE FALSE
  BY DEF SameTo
<1>1. PICK k \in Bad : \A j \in Bad : k <= j
  <2>1. Bad \subseteq Nat
    OBVIOUS
  <2> HIDE DEF Bad
  <2> QED BY <2>1, Least
<1>2. k \in 0..n /\ f[k] # g[k]
  OBVIOUS
<1>3. \A j \in 1..(k - 1) : f[j] = g[j]
  BY <1>1, <1>2
<1>4. f[k] = Fires(p, sn, f, k) /\ g[k] = Fires(p, tn, g, k)
  <2>1. k \in 0..m /\ k \in 0..l
    BY <1>2
  <2>2. f[k] = Fires(p, sn, f, k)
    BY <2>1, Zenon DEF IsPolicy
  <2>3. g[k] = Fires(p, tn, g, k)
    BY <2>1, Zenon DEF IsPolicy
  <2> QED BY <2>2, <2>3
<1>5. ASSUME k >= p.streak, NEW j \in (k - p.streak + 1)..k
      PROVE  MismatchedIn(p, sn, j) <=> MismatchedIn(p, tn, j)
  <2>1. p.streak \in Nat \ {0}
    BY DEF PolicyRecords
  <2>2. j \in 1..n
    BY <1>2, <1>5, <2>1
  <2> QED BY <2>2 DEF MismatchedIn, SameRecords
<1>6. Fires(p, sn, f, k) <=> Fires(p, tn, g, k)
  BY <1>3, <1>5 DEF Fires
<1>7. Fires(p, sn, f, k) \in BOOLEAN /\ Fires(p, tn, g, k) \in BOOLEAN
  BY DEF Fires
<1> QED BY <1>2, <1>4, <1>6, <1>7

\* PolicyFires is that of the raw records, before a step and after it.
LEMMA PolicyNow ==
  ASSUME sched.completed \in Nat
  PROVE  IsPolicy(policy, seen, sched.completed, PolicyFires)
<1>1. \E f : IsPolicy(policy, seen, sched.completed, f)
  BY PolicyExists
<1>2. \E f : f = [k \in 0..sched.completed |->
        /\ k >= policy.minimum
        /\ \A j \in 1..(k - 1) : k - j <= policy.cooldown => ~f[j]
        /\ \/ k % policy.interval = 0
           \/ /\ k >= policy.streak
              /\ \A j \in (k - policy.streak + 1)..k : Mismatched(j)]
  BY <1>1 DEF IsPolicy, Fires, MismatchedIn, Mismatched, Total
<1> QED BY <1>2, Zenon DEF PolicyFires, IsPolicy, Fires, MismatchedIn, Mismatched, Total

-----------------------------------------------------------------------------
(* What a scheduler remembers of the complete stations *)

\* The last station that triggered.
LastTriggered(s, fr) ==
  IF fr = {} THEN s.lastTrigger = None
             ELSE s.lastTrigger \in fr /\ \A j \in fr : j <= s.lastTrigger

\* The streak is the longest run of mismatches up to the last station.
StreakTells(p, n, t, sn) ==
  /\ t \in 0..n
  /\ \A j \in (n - t + 1)..n : MismatchedIn(p, sn, j)
  /\ t < n => ~MismatchedIn(p, sn, n - t)

\* The stations that fired are those the policy fires at.
FiredByPolicy(p, n, sn, fr) ==
  \A f : IsPolicy(p, sn, n, f) => fr = {k \in 1..n : f[k]}

\* The steps the first k stations end at.
CutoffsTell(s, sn, fr) == s.cutoffs = {Rows(SubSeq(sn, 1, k)) - 1 : k \in fr}

\* Scheduler s remembers of the stations of sn, of which those of fr fired,
\* exactly what policy p needs.
Told(p, s, sn, fr) ==
  /\ s.completed <= Len(sn)
  /\ fr \subseteq 1..s.completed
  /\ LastTriggered(s, fr)
  /\ StreakTells(p, s.completed, s.streak, sn)
  /\ FiredByPolicy(p, s.completed, sn, fr)
  /\ CutoffsTell(s, sn, fr)

\* Signal g completes the station that is the last of tn.
Completes(p, s, sn, fr, g, tn) ==
  /\ p \in PolicyRecords /\ s \in SchedulerStates
  /\ sn \in Seq(Seq(Nat)) /\ tn \in Seq(Seq(Nat))
  /\ Told(p, s, sn, fr)
  /\ Len(tn) = s.completed + 1 /\ SameRecords(s.completed, sn, tn)
  /\ g.complete /\ g.step = Rows(tn) - 1
  /\ s.deviance + g.deviance = Total(tn[s.completed + 1])
  /\ s.bins + g.bins = Len(tn[s.completed + 1])

\* What is told depends on the records of the complete stations only.
LEMMA ToldFrame ==
  ASSUME NEW p \in PolicyRecords, NEW s \in SchedulerStates,
         NEW sn \in Seq(Seq(Nat)), NEW tn \in Seq(Seq(Nat)), NEW fr,
         Told(p, s, sn, fr), s.completed <= Len(tn), SameRecords(s.completed, sn, tn)
  PROVE  Told(p, s, tn, fr)
<1> DEFINE n == s.completed
<1>1. n \in Nat /\ s.streak \in Nat
  BY DEF SchedulerStates
<1>2. FiredByPolicy(p, n, tn, fr)
  <2> SUFFICES ASSUME NEW g, IsPolicy(p, tn, n, g) PROVE fr = {k \in 1..n : g[k]}
    BY DEF FiredByPolicy
  <2>1. PICK f : IsPolicy(p, sn, n, f)
    BY <1>1, PolicyExists
  <2>2. n <= n
    BY <1>1
  <2>3. SameTo(n, f, g)
    BY <1>1, <2>1, <2>2, PolicyLocal, Zenon
  <2>4. fr = {k \in 1..n : f[k]}
    BY <2>1, Zenon DEF Told, FiredByPolicy
  <2>5. \A k \in 1..n : f[k] = g[k]
    BY <1>1, <2>3 DEF SameTo
  <2> QED BY <2>4, <2>5
<1>3. \A j \in 1..n : MismatchedIn(p, sn, j) <=> MismatchedIn(p, tn, j)
  BY DEF MismatchedIn, SameRecords
<1>4. StreakTells(p, n, s.streak, tn)
  <2>1. StreakTells(p, n, s.streak, sn)
    BY DEF Told
  <2>2. \A j \in (n - s.streak + 1)..n : j \in 1..n
    BY <1>1, <2>1 DEF StreakTells
  <2>3. s.streak < n => n - s.streak \in 1..n
    BY <1>1
  <2> QED BY <1>3, <2>1, <2>2, <2>3 DEF StreakTells
<1>5. \A k \in fr : SubSeq(sn, 1, k) = SubSeq(tn, 1, k)
  <2> SUFFICES ASSUME NEW k \in fr PROVE SubSeq(sn, 1, k) = SubSeq(tn, 1, k)
    OBVIOUS
  <2>1. k \in 1..n /\ k <= Len(sn) /\ k <= Len(tn)
    BY <1>1 DEF Told
  <2>2. \A i \in 1..k : sn[i] = tn[i]
    BY <1>1, <2>1 DEF SameRecords
  <2> QED BY <2>1, <2>2
<1>6. CutoffsTell(s, tn, fr)
  BY <1>5 DEF Told, CutoffsTell
<1> QED BY <1>2, <1>4, <1>6 DEF Told

\* A station that fired is less than a cooldown before the one to complete.
InCooldown(p, n, fr) == \E j \in fr : (n + 1) - j <= p.cooldown

\* What a step that completes a station knows.
LEMMA CompletesFacts ==
  ASSUME NEW p, NEW s, NEW sn, NEW fr, NEW g, NEW tn, Completes(p, s, sn, fr, g, tn)
  PROVE  /\ p.interval \in Nat \ {0} /\ p.minimum \in Nat \ {0} /\ p.cooldown \in Nat
         /\ p.threshold \in Nat \union {None} /\ p.streak \in Nat \ {0}
         /\ s.completed \in Nat /\ s.streak \in Nat
         /\ s.lastTrigger \in Nat \union {None}
         /\ fr \subseteq 1..s.completed
BY DEF Completes, PolicyRecords, SchedulerStates, Told

\* The mismatch of the signal is that of the station's records.
LEMMA MismatchIs ==
  ASSUME NEW p, NEW s, NEW sn, NEW fr, NEW g, NEW tn, Completes(p, s, sn, fr, g, tn)
  PROVE  Mismatch(p, s, g) <=> MismatchedIn(p, tn, s.completed + 1)
BY DEF Completes, Mismatch, MismatchedIn

\* The cooldown is that of the stations that fired.
LEMMA CoolingIs ==
  ASSUME NEW p, NEW s, NEW sn, NEW fr, NEW g, NEW tn, Completes(p, s, sn, fr, g, tn)
  PROVE  CoolingDown(p, s) <=> InCooldown(p, s.completed, fr)
<1>1. LastTriggered(s, fr)
  BY DEF Completes, Told
<1>2. CASE fr = {}
  BY <1>1, <1>2 DEF LastTriggered, CoolingDown, InCooldown
<1>3. CASE fr # {}
  <2>1. s.lastTrigger \in fr /\ \A j \in fr : j <= s.lastTrigger
    BY <1>1, <1>3 DEF LastTriggered
  <2>2. s.lastTrigger \in Nat /\ s.lastTrigger # None /\ \A j \in fr : j \in Nat
    BY <2>1, CompletesFacts, NoneAssumption
  <2>3. s.completed \in Nat /\ p.cooldown \in Nat
    BY CompletesFacts
  <2> QED BY <2>1, <2>2, <2>3 DEF CoolingDown, InCooldown
<1> QED BY <1>2, <1>3

\* The streak with one more station.
LEMMA StreakAfterTells ==
  ASSUME NEW p, NEW s, NEW sn, NEW fr, NEW g, NEW tn, Completes(p, s, sn, fr, g, tn)
  PROVE  StreakTells(p, s.completed + 1, StreakAfter(p, s, g), tn)
<1> DEFINE n == s.completed
           t == s.streak
<1>1. n \in Nat /\ t \in Nat
  BY CompletesFacts
<1>2. Told(p, s, tn, fr)
  <2>1. n <= Len(tn)
    BY <1>1 DEF Completes
  <2> QED BY <2>1, ToldFrame DEF Completes
<1>3. StreakTells(p, n, t, tn)
  BY <1>2 DEF Told
<1>4. CASE Mismatch(p, s, g)
  <2>1. MismatchedIn(p, tn, n + 1) /\ StreakAfter(p, s, g) = t + 1
    BY <1>4, MismatchIs DEF StreakAfter
  <2>2. (n + 1) - (t + 1) = n - t /\ (t + 1 < n + 1 <=> t < n)
        /\ \A j \in (n - t + 1)..(n + 1) : j = n + 1 \/ j \in (n - t + 1)..n
    BY <1>1
  <2>3. t + 1 \in 0..(n + 1)
    BY <1>1, <1>3 DEF StreakTells
  <2> QED BY <1>3, <2>1, <2>2, <2>3 DEF StreakTells
<1>5. CASE ~Mismatch(p, s, g)
  <2>1. ~MismatchedIn(p, tn, n + 1) /\ StreakAfter(p, s, g) = 0
    BY <1>5, MismatchIs DEF StreakAfter
  <2>2. 0 \in 0..(n + 1) /\ (n + 1) - 0 = n + 1 /\ ((n + 1) - 0 + 1)..(n + 1) = {}
    BY <1>1
  <2> QED BY <2>1, <2>2 DEF StreakTells
<1> QED BY <1>4, <1>5

\* A streak is long enough when the last stations all mismatched.
LEMMA StreakIsLong ==
  ASSUME NEW p, NEW sn, NEW n \in Nat \ {0}, NEW t, NEW q \in Nat \ {0}, StreakTells(p, n, t, sn)
  PROVE  t >= q <=> n >= q /\ \A j \in (n - q + 1)..n : MismatchedIn(p, sn, j)
<1>1. t \in 0..n
  BY DEF StreakTells
<1>2. ASSUME t >= q PROVE n >= q /\ \A j \in (n - q + 1)..n : MismatchedIn(p, sn, j)
  <2>1. \A j \in (n - q + 1)..n : j \in (n - t + 1)..n
    BY <1>1, <1>2
  <2> QED BY <1>1, <1>2, <2>1 DEF StreakTells
<1>3. ASSUME ~(t >= q), n >= q PROVE \E j \in (n - q + 1)..n : ~MismatchedIn(p, sn, j)
  <2>1. t < n /\ n - t \in (n - q + 1)..n
    BY <1>1, <1>3
  <2> QED BY <2>1 DEF StreakTells
<1> QED BY <1>2, <1>3

\* A trigger is what the policy asks of the records.
LEMMA TriggerIs ==
  ASSUME NEW p, NEW s, NEW sn, NEW fr, NEW g, NEW tn, Completes(p, s, sn, fr, g, tn),
         NEW f, IsPolicy(p, tn, s.completed + 1, f)
  PROVE  /\ Triggers(p, s, g) <=> f[s.completed + 1]
         /\ fr = {k \in 1..s.completed : f[k]}
<1> DEFINE n == s.completed
           K == n + 1
<1>1. n \in Nat /\ K \in 0..K /\ K - 1 = n /\ K \in Nat \ {0} /\ K \in Nat
  BY CompletesFacts
<1>2. fr = {k \in 1..n : f[k]}
  <2>1. PICK h : IsPolicy(p, sn, n, h)
    BY <1>1, PolicyExists
  <2>2. SameTo(n, h, f)
    <3>1. n <= n /\ n <= K /\ SameRecords(n, sn, tn) /\ p \in PolicyRecords
      BY <1>1 DEF Completes
    <3> HIDE DEF K
    <3> QED BY <1>1, <2>1, <3>1, PolicyLocal, Zenon DEF K
  <2>3. fr = {k \in 1..n : h[k]}
    BY <2>1, Zenon DEF Completes, Told, FiredByPolicy
  <2>4. \A k \in 1..n : h[k] = f[k]
    BY <1>1, <2>2 DEF SameTo
  <2> QED BY <2>3, <2>4
<1>3. f[K] = Fires(p, tn, f, K)
  BY <1>1, Zenon DEF IsPolicy
<1>4. CoolingDown(p, s) <=> ~\A j \in 1..(K - 1) : K - j <= p.cooldown => ~f[j]
  <2>1. CoolingDown(p, s) <=> \E j \in fr : K - j <= p.cooldown
    BY CoolingIs DEF InCooldown
  <2> HIDE DEF K, n
  <2> QED BY <1>1, <1>2, <2>1
<1>5. Mismatch(p, s, g) /\ StreakAfter(p, s, g) >= p.streak <=>
        K >= p.streak /\ \A j \in (K - p.streak + 1)..K : MismatchedIn(p, tn, j)
  <2> DEFINE t == StreakAfter(p, s, g)
  <2>1. StreakTells(p, K, t, tn) /\ p.streak \in Nat \ {0}
    BY StreakAfterTells, CompletesFacts
  <2>2. t >= p.streak <=> K >= p.streak /\ \A j \in (K - p.streak + 1)..K : MismatchedIn(p, tn, j)
    <3> HIDE DEF t, K
    <3> QED BY <1>1, <2>1, StreakIsLong
  <2>3. t >= p.streak => Mismatch(p, s, g)
    BY <2>1 DEF StreakAfter
  <2> QED BY <2>2, <2>3
<1>6. g.complete
  BY DEF Completes
<1>7. f[K] \in BOOLEAN
  BY <1>3 DEF Fires
<1>8. Triggers(p, s, g) <=> Fires(p, tn, f, K)
  <2> HIDE DEF K
  <2> QED BY <1>4, <1>5, <1>6 DEF Triggers, Fires, K
<1> QED BY <1>2, <1>3, <1>7, <1>8

\* A completed station keeps what is told.
LEMMA ToldComplete ==
  ASSUME NEW p, NEW s, NEW sn, NEW fr, NEW g, NEW tn, Completes(p, s, sn, fr, g, tn)
  PROVE  Told(p, Considered(p, s, g), tn,
              IF Triggers(p, s, g) THEN fr \union {s.completed + 1} ELSE fr)
<1> DEFINE n == s.completed
           K == n + 1
           new == Considered(p, s, g)
           more == IF Triggers(p, s, g) THEN fr \union {K} ELSE fr
<1>1. /\ new.completed = K /\ new.streak = StreakAfter(p, s, g)
      /\ new.lastTrigger = IF Triggers(p, s, g) THEN K ELSE s.lastTrigger
      /\ new.cutoffs = IF Triggers(p, s, g) THEN s.cutoffs \union {g.step} ELSE s.cutoffs
  BY DEF Considered, Completes
<1>2. /\ n \in Nat /\ fr \subseteq 1..n /\ K \in 1..K /\ Len(tn) = K
      /\ \A j \in fr : j \in 1..K /\ j <= K
  <2>1. n \in Nat /\ fr \subseteq 1..n
    BY CompletesFacts
  <2>2. Len(tn) = K
    BY DEF Completes
  <2> QED BY <2>1, <2>2
<1>3. LastTriggered(new, more)
  <2>1. LastTriggered(s, fr)
    BY DEF Completes, Told
  <2>2. CASE Triggers(p, s, g)
    <3>1. more = fr \union {K} /\ new.lastTrigger = K
      BY <1>1, <2>2
    <3> HIDE DEF K, new, more
    <3> QED BY <1>2, <3>1 DEF LastTriggered
  <2>3. CASE ~Triggers(p, s, g)
    BY <1>1, <2>1, <2>3 DEF LastTriggered
  <2> QED BY <2>2, <2>3
<1>4. StreakTells(p, K, new.streak, tn)
  BY <1>1, StreakAfterTells
<1>5. FiredByPolicy(p, K, tn, more)
  <2> SUFFICES ASSUME NEW f, IsPolicy(p, tn, K, f) PROVE more = {k \in 1..K : f[k]}
    BY DEF FiredByPolicy
  <2>1. (Triggers(p, s, g) <=> f[K]) /\ fr = {k \in 1..n : f[k]}
    BY TriggerIs
  <2>2. \A k : k \in 1..K <=> k \in 1..n \/ k = K
    BY <1>2
  <2> HIDE DEF K, n
  <2> QED BY <2>1, <2>2
<1>6. CutoffsTell(new, tn, more)
  <2>1. Told(p, s, tn, fr)
    <3>1. n <= Len(tn)
      BY <1>2
    <3> QED BY <3>1, ToldFrame DEF Completes
  <2>2. s.cutoffs = {Rows(SubSeq(tn, 1, k)) - 1 : k \in fr}
    BY <2>1 DEF Told, CutoffsTell
  <2>3. SubSeq(tn, 1, K) = tn
    BY <1>2 DEF Completes
  <2>4. g.step = Rows(SubSeq(tn, 1, K)) - 1
    BY <2>3 DEF Completes
  <2> HIDE DEF K, new
  <2>5. CASE Triggers(p, s, g)
    BY <1>1, <2>2, <2>4, <2>5 DEF CutoffsTell
  <2>6. CASE ~Triggers(p, s, g)
    BY <1>1, <2>2, <2>6 DEF CutoffsTell
  <2> QED BY <2>5, <2>6
<1>7. more \subseteq 1..K
  BY <1>2
<1>8. K <= Len(tn)
  BY <1>2
<1> HIDE DEF K, new, more
<1>9. Told(p, new, tn, more)
  BY <1>1, <1>3, <1>4, <1>5, <1>6, <1>7, <1>8 DEF Told
<1> QED BY <1>9 DEF new, more, K

\* A record inside a station changes nothing of it.
LEMMA ToldRecord ==
  ASSUME NEW p, NEW s \in SchedulerStates, NEW sn, NEW fr, NEW g, ~g.complete,
         Told(p, s, sn, fr)
  PROVE  Told(p, Considered(p, s, g), sn, fr)
<1> DEFINE new == Considered(p, s, g)
<1>1. /\ new.completed = s.completed /\ new.streak = s.streak
      /\ new.lastTrigger = s.lastTrigger /\ new.cutoffs = s.cutoffs
  BY DEF Considered, SchedulerStates
<1> HIDE DEF new
<1>2. LastTriggered(new, fr) /\ CutoffsTell(new, sn, fr)
  BY <1>1 DEF Told, LastTriggered, CutoffsTell
<1>3. Told(p, new, sn, fr)
  BY <1>1, <1>2 DEF Told
<1> QED BY <1>3 DEF new

\* A new scheduler has been told nothing.
LEMMA ToldFresh ==
  ASSUME NEW p \in PolicyRecords
  PROVE  Told(p, FreshScheduler, <<>>, {})
<1>1. FreshScheduler.completed = 0 /\ FreshScheduler.streak = 0
      /\ FreshScheduler.lastTrigger = None /\ FreshScheduler.cutoffs = {} /\ Len(<<>>) = 0
  BY DEF FreshScheduler
<1>2. LastTriggered(FreshScheduler, {}) /\ CutoffsTell(FreshScheduler, <<>>, {})
  BY <1>1 DEF LastTriggered, CutoffsTell
<1>3. FiredByPolicy(p, 0, <<>>, {})
  BY DEF FiredByPolicy
<1>4. StreakTells(p, 0, 0, <<>>)
  BY DEF StreakTells
<1> QED BY <1>1, <1>2, <1>3, <1>4 DEF Told

-----------------------------------------------------------------------------
(* The inductive invariant *)

\* The scheduler in memory knows the records of the open station.
OpenTold ==
  /\ sched.lastStep = Rows(seen) - 1
  /\ sched.deviance = Total(Open)
  /\ sched.bins = Len(Open)
  /\ Open = <<>> => sched.open = None

\* The scheduler in the state file stands at the end of a station.
SavedTold ==
  /\ saved.completed <= sched.completed
  /\ saved.lastStep = Rows(SubSeq(seen, 1, saved.completed)) - 1
  /\ saved.deviance = 0
  /\ saved.bins = 0
  /\ saved.open = None

\* At most one station is open, and it has records.
OneOpen ==
  /\ Len(seen) \in {sched.completed, sched.completed + 1}
  /\ Len(seen) = sched.completed + 1 => seen[Len(seen)] # <<>>

\* The scheduler in memory and the one in the state file were told the same
\* records by the same policy, the second only as far as it was saved.
Inv ==
  /\ TypeOK
  /\ OneOpen
  /\ OpenTold
  /\ SavedTold
  /\ Told(policy, sched, seen, fired)
  /\ Told(policy, saved, seen, fired \intersect (1..saved.completed))

\* The records so far, by whether a station is open.
LEMMA SeenIs ==
  ASSUME Inv
  PROVE  /\ Closed \in Seq(Seq(Deviances)) /\ Open \in Seq(Deviances)
         /\ Len(Closed) = sched.completed /\ sched.completed \in Nat
         /\ SameRecords(sched.completed, seen, Closed)
         /\ Open = <<>> => Closed = seen
         /\ Open # <<>> => seen = Append(Closed, Open)
         /\ Open = <<>> <=> Len(seen) = sched.completed
         /\ seen \in Seq(Seq(Deviances)) /\ seen \in Seq(Seq(Nat)) /\ Closed \in Seq(Seq(Nat))
         /\ Open \in Seq(Nat)
<1> DEFINE n == sched.completed
<1>1. seen \in Seq(Seq(Deviances)) /\ n \in Nat /\ Len(seen) \in {n, n + 1}
  BY DEF Inv, TypeOK, OneOpen, SchedulerStates
<1>2. /\ \A q \in Seq(Deviances) : q \in Seq(Nat)
      /\ \A q \in Seq(Seq(Deviances)) : q \in Seq(Seq(Nat))
  <2>1. ASSUME NEW q \in Seq(Deviances) PROVE q \in Seq(Nat)
    <3>1. \A i \in 1..Len(q) : q[i] \in Deviances
      OBVIOUS
    <3>2. \A i \in 1..Len(q) : q[i] \in Nat
      BY <3>1, DeviancesAssumption
    <3> QED BY <3>2
  <2>2. ASSUME NEW q \in Seq(Seq(Deviances)) PROVE q \in Seq(Seq(Nat))
    <3>1. \A i \in 1..Len(q) : q[i] \in Seq(Nat)
      BY <2>1
    <3> QED BY <3>1
  <2> QED BY <2>1, <2>2
<1>3. /\ Closed \in Seq(Seq(Deviances)) /\ Len(Closed) = n
      /\ \A k \in 1..n : Closed[k] = seen[k]
  BY <1>1 DEF Closed
<1>4. CASE Len(seen) = n
  <2>1. Open = <<>> /\ Closed = seen
    BY <1>1, <1>4 DEF Open, Closed
  <2> QED BY <1>1, <1>2, <1>3, <1>4, <2>1 DEF SameRecords
<1>5. CASE Len(seen) # n
  <2>1. Len(seen) = n + 1 /\ Open = seen[n + 1] /\ Open # <<>> /\ Open \in Seq(Deviances)
    BY <1>1, <1>5 DEF Open, Last, Inv, OneOpen
  <2>2. seen = Append(Closed, Open)
    BY <1>1, <1>3, <2>1
  <2> QED BY <1>1, <1>2, <1>3, <2>1, <2>2 DEF SameRecords
<1> QED BY <1>4, <1>5

\* A new record, added to the open station.
LEMMA ConsiderSees ==
  ASSUME Inv, NEW d \in Deviances, seen' = Append(Closed, Append(Open, d))
  PROVE  /\ seen' \in Seq(Seq(Deviances)) /\ seen' \in Seq(Seq(Nat))
         /\ Len(seen') = sched.completed + 1
         /\ seen'[sched.completed + 1] = Append(Open, d)
         /\ SameRecords(sched.completed, seen, seen')
         /\ Rows(seen') = Rows(seen) + 1
         /\ Total(Append(Open, d)) = Total(Open) + d
         /\ Len(Append(Open, d)) = Len(Open) + 1
         /\ d \in Nat
<1> DEFINE n == sched.completed
           more == Append(Open, d)
<1>1. /\ Closed \in Seq(Seq(Deviances)) /\ Open \in Seq(Deviances) /\ Open \in Seq(Nat)
      /\ Closed \in Seq(Seq(Nat)) /\ Len(Closed) = n /\ n \in Nat
      /\ SameRecords(n, seen, Closed)
  BY SeenIs
<1>2. d \in Nat /\ more \in Seq(Deviances) /\ more \in Seq(Nat) /\ Len(more) = Len(Open) + 1
  BY <1>1, DeviancesAssumption
<1>3. /\ seen' \in Seq(Seq(Deviances)) /\ seen' \in Seq(Seq(Nat)) /\ Len(seen') = n + 1
      /\ seen'[n + 1] = more
      /\ \A k \in 1..n : seen'[k] = Closed[k]
  <2> HIDE DEF more
  <2> QED BY <1>1, <1>2 DEF more
<1>4. SameRecords(n, seen, seen')
  BY <1>1, <1>3 DEF SameRecords
<1>5. Rows(seen') = Rows(Closed) + Len(more) /\ Rows(Closed) \in Nat
  <2> HIDE DEF more
  <2> QED BY <1>1, <1>2, RowsAppend DEF more
<1>6. Rows(seen) = Rows(Closed) + Len(Open)
  <2>1. CASE Open = <<>>
    <3>1. Closed = seen /\ Len(Open) = 0
      BY <2>1, SeenIs
    <3> QED BY <1>5, <3>1
  <2>2. CASE Open # <<>>
    <3>1. seen = Append(Closed, Open)
      BY <2>2, SeenIs
    <3> QED BY <1>1, <3>1, RowsAppend
  <2> QED BY <2>1, <2>2
<1>7. Len(Open) \in Nat
  BY <1>1
<1>8. Rows(seen') = Rows(seen) + 1
  BY <1>2, <1>5, <1>6, <1>7
<1>9. Total(more) = Total(Open) + d
  BY <1>1, <1>2, TotalAppend
<1> QED BY <1>2, <1>3, <1>4, <1>8, <1>9

\* A scheduler keeps its types.
LEMMA ConsideredType ==
  ASSUME NEW p, NEW s \in SchedulerStates, NEW g, g.step \in Nat, g.station \in Nat,
         g.deviance \in Nat, g.bins \in Nat
  PROVE  Considered(p, s, g) \in SchedulerStates
<1>1. CASE g.complete
  <2>1. StreakAfter(p, s, g) \in Nat
    BY DEF StreakAfter, SchedulerStates
  <2> QED BY <1>1, <2>1 DEF Considered, SchedulerStates
<1>2. CASE ~g.complete
  <2>1. s.deviance + g.deviance \in Nat /\ s.bins + g.bins \in Nat
    BY DEF SchedulerStates
  <2>2. Considered(p, s, g) = [s EXCEPT !.lastStep = g.step, !.open = g.station,
                                        !.deviance = @ + g.deviance, !.bins = @ + g.bins]
    BY <1>2 DEF Considered
  <2> QED BY <2>1, <2>2 DEF SchedulerStates
<1> QED BY <1>1, <1>2

\* The first records of two runs that agree up to station n.
LEMMA SamePrefix ==
  ASSUME NEW sn \in Seq(Seq(Nat)), NEW tn \in Seq(Seq(Nat)), NEW n \in Nat, NEW k \in 0..n,
         n <= Len(sn), n <= Len(tn), SameRecords(n, sn, tn)
  PROVE  SubSeq(sn, 1, k) = SubSeq(tn, 1, k)
<1>1. k \in Nat /\ k <= Len(sn) /\ k <= Len(tn) /\ \A i \in 1..k : sn[i] = tn[i]
  BY DEF SameRecords
<1>2. /\ SubSeq(sn, 1, k) = [i \in 1..k |-> sn[i]]
      /\ SubSeq(tn, 1, k) = [i \in 1..k |-> tn[i]]
  BY <1>1
<1> QED BY <1>1, <1>2

\* A record keeps the invariant, whether it completes a station or not.
LEMMA ConsiderKeeps ==
  ASSUME Inv, NEW d \in Deviances, NEW complete \in BOOLEAN, Consider(d, complete)
  PROVE  Inv'
<1> DEFINE g == Signal(d, complete)
           n == sched.completed
           K == n + 1
<1>1. /\ sched' = Considered(policy, sched, g)
      /\ seen' = Append(Closed, Append(Open, d))
      /\ fired' = IF Triggers(policy, sched, g) THEN fired \union {K} ELSE fired
      /\ policy' = policy /\ saved' = saved
  BY DEF Consider
<1>2. /\ g.step = sched.lastStep + 1 /\ g.station = n /\ g.complete = complete
      /\ g.deviance = d /\ g.bins = 1
  BY DEF Signal
<1>3. /\ policy \in PolicyRecords /\ sched \in SchedulerStates /\ saved \in SchedulerStates
      /\ n \in Nat /\ saved.completed \in Nat /\ saved.completed <= n
      /\ fired \subseteq 1..n /\ seen \in Seq(Seq(Nat)) /\ Len(seen) \in {n, K}
  BY PoliciesAssumption, SeenIs DEF Inv, TypeOK, SchedulerStates, SavedTold, Told, OneOpen
<1>4. /\ seen' \in Seq(Seq(Deviances)) /\ seen' \in Seq(Seq(Nat))
      /\ Len(seen') = K /\ seen'[K] = Append(Open, d)
      /\ SameRecords(n, seen, seen')
      /\ Rows(seen') = Rows(seen) + 1
      /\ Total(Append(Open, d)) = Total(Open) + d
      /\ Len(Append(Open, d)) = Len(Open) + 1
      /\ d \in Nat
  BY <1>1, ConsiderSees
<1>5. /\ sched.deviance + g.deviance = Total(seen'[K])
      /\ sched.bins + g.bins = Len(seen'[K])
      /\ g.step = Rows(seen') - 1
  <2>1. Rows(seen) \in Int
    <3>1. seen \in Seq(Seq(Nat)) /\ <<>> \in Seq(Nat)
      BY <1>3
    <3>2. Rows(seen) \in Nat
      BY <3>1, RowsAppend
    <3> QED BY <3>2
  <2> HIDE DEF g, K, n
  <2> QED BY <1>2, <1>4, <2>1 DEF Inv, OpenTold
<1>6. TypeOK'
  <2>1. g.step \in Nat
    BY <1>2, <1>3 DEF SchedulerStates
  <2>2. sched' \in SchedulerStates
    <3>1. g.station \in Nat /\ g.deviance \in Nat /\ g.bins \in Nat
      BY <1>2, <1>3, <1>4
    <3> HIDE DEF g
    <3>2. Considered(policy, sched, g) \in SchedulerStates
      BY <1>3, <2>1, <3>1, ConsideredType
    <3> QED BY <1>1, <3>2
  <2>3. fired' \subseteq Nat
    <3>1. fired \subseteq Nat /\ K \in Nat
      BY <1>3
    <3> HIDE DEF g, K, n
    <3> QED BY <1>1, <3>1
  <2> QED BY <1>1, <1>4, <2>2, <2>3 DEF Inv, TypeOK
<1>7. Told(policy, saved, seen', fired \intersect (1..saved.completed))
  <2>1. SameRecords(saved.completed, seen, seen') /\ saved.completed <= Len(seen')
    BY <1>3, <1>4 DEF SameRecords
  <2> HIDE DEF g, K, n
  <2> QED BY <1>3, <1>4, <2>1, ToldFrame DEF Inv
<1>8. Told(policy', saved', seen', fired' \intersect (1..saved'.completed))
  <2>1. fired' \intersect (1..saved.completed) = fired \intersect (1..saved.completed)
    BY <1>1, <1>3
  <2> QED BY <1>1, <1>7, <2>1
<1>9. SubSeq(seen', 1, saved.completed) = SubSeq(seen, 1, saved.completed)
  <2>1. saved.completed \in 0..n /\ n <= Len(seen) /\ n <= Len(seen')
    BY <1>3, <1>4
  <2> HIDE DEF n, K
  <2> QED BY <1>3, <1>4, <2>1, SamePrefix
<1>10. CASE complete
  <2>1. Completes(policy, sched, seen, fired, g, seen')
    <3> HIDE DEF g
    <3> QED BY <1>2, <1>3, <1>4, <1>5, <1>10 DEF Completes, Inv
  <2>2. Told(policy, sched', seen', fired')
    <3> HIDE DEF g
    <3> QED BY <1>1, <2>1, ToldComplete
  <2>3. /\ sched'.completed = K /\ sched'.deviance = 0 /\ sched'.bins = 0
        /\ sched'.lastStep = g.step /\ sched'.open = None
    <3> HIDE DEF g
    <3> QED BY <1>1, <1>2, <1>10 DEF Considered
  <2>4. Open' = <<>>
    BY <1>4, <2>3 DEF Open
  <2>5. OpenTold'
    BY <1>5, <2>3, <2>4, NothingAddsUp DEF OpenTold
  <2>6. SavedTold'
    <3>1. saved'.completed <= sched'.completed
      BY <1>1, <1>3, <2>3
    <3> HIDE DEF g, K, n
    <3> QED BY <1>1, <1>9, <3>1 DEF Inv, SavedTold
  <2>7. OneOpen'
    <3>1. Len(seen') # sched'.completed + 1
      BY <1>3, <1>4, <2>3
    <3> QED BY <1>4, <2>3, <3>1 DEF OneOpen
  <2> QED BY <1>1, <1>6, <1>8, <2>2, <2>5, <2>6, <2>7 DEF Inv
<1>11. CASE ~complete
  <2>1. fired' = fired
    BY <1>1, <1>2, <1>11 DEF Triggers
  <2>2. Told(policy, sched, seen', fired)
    <3>1. n <= Len(seen')
      BY <1>3, <1>4
    <3> HIDE DEF g
    <3> QED BY <1>3, <1>4, <3>1, ToldFrame DEF Inv
  <2>3. Told(policy, sched', seen', fired')
    <3> HIDE DEF g
    <3> QED BY <1>1, <1>2, <1>3, <1>11, <2>1, <2>2, ToldRecord
  <2>4. /\ sched'.completed = n
        /\ sched'.deviance = sched.deviance + d /\ sched'.bins = sched.bins + 1
        /\ sched'.lastStep = g.step
    <3> HIDE DEF g
    <3> QED BY <1>1, <1>2, <1>3, <1>11 DEF Considered, SchedulerStates
  <2>5. Open' = seen'[K] /\ Open' = Append(Open, d)
    <3>1. Len(seen') # sched'.completed
      BY <1>3, <1>4, <2>4
    <3> QED BY <1>4, <3>1 DEF Open, Last
  <2>6. OpenTold'
    <3> HIDE DEF g
    <3> QED BY <1>2, <1>5, <2>4, <2>5 DEF OpenTold
  <2>7. SavedTold'
    BY <1>1, <1>3, <1>9, <2>4 DEF Inv, SavedTold
  <2>8. OneOpen'
    <3>1. seen'[Len(seen')] # <<>>
      <4>1. Len(Append(Open, d)) # 0
        <5>1. Len(Open) \in Nat
          BY SeenIs
        <5> QED BY <1>4, <5>1
      <4>2. seen'[Len(seen')] = Append(Open, d)
        BY <1>4
      <4> QED BY <4>1, <4>2
    <3> QED BY <1>4, <2>4, <3>1 DEF OneOpen
  <2> QED BY <1>1, <1>6, <1>8, <2>3, <2>6, <2>7, <2>8 DEF Inv
<1> QED BY <1>10, <1>11

\* A save puts the scheduler in memory, at the end of a station, in the file.
LEMMA SaveKeeps ==
  ASSUME Inv, Save
  PROVE  Inv'
<1>1. UNCHANGED <<policy, sched, seen, fired>> /\ saved' = sched /\ Open = <<>>
  BY DEF Save
<1>2. Len(seen) = sched.completed /\ sched.completed \in Nat
  BY <1>1, SeenIs
<1>3. SubSeq(seen, 1, sched.completed) = seen
  BY <1>2, SeenIs
<1>4. fired \intersect (1..sched.completed) = fired
  BY DEF Inv, Told
<1>5. sched.deviance = 0 /\ sched.bins = 0 /\ sched.lastStep = Rows(seen) - 1
  BY <1>1, NothingAddsUp DEF Inv, OpenTold
<1>6. Open' = Open
  BY <1>1 DEF Open
<1>7. sched.open = None
  BY <1>1 DEF Inv, OpenTold
<1>8. TypeOK' /\ OneOpen'
  BY <1>1 DEF Inv, TypeOK, OneOpen
<1>9. OpenTold'
  BY <1>1, <1>6 DEF Inv, OpenTold
<1>10. SavedTold'
  <2>1. saved'.completed <= sched'.completed
    BY <1>1, <1>2
  <2>2. saved'.lastStep = Rows(SubSeq(seen', 1, saved'.completed)) - 1
    <3>1. SubSeq(seen', 1, saved'.completed) = seen
      BY <1>1, <1>3
    <3> QED BY <1>1, <1>5, <3>1
  <2>3. saved'.deviance = 0 /\ saved'.bins = 0 /\ saved'.open = None
    BY <1>1, <1>5, <1>7
  <2> QED BY <2>1, <2>2, <2>3 DEF SavedTold
<1>11. Told(policy', sched', seen', fired')
  BY <1>1 DEF Inv
<1>12. Told(policy', saved', seen', fired' \intersect (1..saved'.completed))
  BY <1>1, <1>4 DEF Inv
<1> QED BY <1>8, <1>9, <1>10, <1>11, <1>12 DEF Inv

\* A restart takes the records since the last save back.
LEMMA RestartKeeps ==
  ASSUME Inv, Restart
  PROVE  Inv'
<1> DEFINE m == saved.completed
<1>1. /\ sched' = saved /\ saved' = saved /\ policy' = policy
      /\ seen' = SubSeq(seen, 1, m) /\ fired' = fired \intersect (1..m)
  BY DEF Restart
<1>2. /\ m \in Nat /\ sched.completed \in Nat /\ m <= sched.completed
      /\ saved \in SchedulerStates /\ policy \in PolicyRecords
      /\ seen \in Seq(Seq(Deviances)) /\ seen \in Seq(Seq(Nat))
      /\ Len(seen) \in {sched.completed, sched.completed + 1}
  BY PoliciesAssumption, SeenIs DEF Inv, TypeOK, SchedulerStates, SavedTold, OneOpen
<1>3. /\ seen' \in Seq(Seq(Deviances)) /\ seen' \in Seq(Seq(Nat)) /\ Len(seen') = m
      /\ SameRecords(m, seen, seen') /\ SubSeq(seen', 1, m) = seen'
  <2>1. m <= Len(seen)
    BY <1>2
  <2> HIDE DEF m
  <2> QED BY <1>1, <1>2, <2>1 DEF SameRecords
<1>4. Told(policy, saved, seen', fired')
  <2>1. m <= Len(seen')
    BY <1>2, <1>3
  <2> QED BY <1>1, <1>2, <1>3, <2>1, ToldFrame DEF Inv
<1>5. fired' \intersect (1..m) = fired'
  BY <1>1
<1>6. Open' = <<>>
  BY <1>1, <1>3 DEF Open
<1>7. TypeOK'
  BY <1>1, <1>2, <1>3 DEF Inv, TypeOK
<1>8. OneOpen'
  <2>1. Len(seen') # m + 1
    BY <1>2, <1>3
  <2> QED BY <1>1, <1>3, <2>1 DEF OneOpen
<1>9. SavedTold
  BY DEF Inv
<1>10. SavedTold'
  <2>1. saved'.completed <= sched'.completed
    BY <1>1, <1>2
  <2> QED BY <1>1, <1>3, <1>9, <2>1 DEF SavedTold
<1>11. OpenTold'
  <2>1. Len(<<>>) = 0
    OBVIOUS
  <2> QED BY <1>1, <1>6, <1>9, <2>1, NothingAddsUp DEF OpenTold, SavedTold
<1>12. Told(policy', sched', seen', fired')
  BY <1>1, <1>4
<1>13. Told(policy', saved', seen', fired' \intersect (1..saved'.completed))
  BY <1>1, <1>4, <1>5
<1> QED BY <1>7, <1>8, <1>10, <1>11, <1>12, <1>13 DEF Inv

\* A run begins with nothing told.
LEMMA InvInit ==
  ASSUME Init
  PROVE  Inv
<1>1. policy \in PolicyRecords /\ sched = FreshScheduler /\ saved = FreshScheduler
      /\ seen = <<>> /\ fired = {}
  BY PoliciesAssumption DEF Init
<1>2. /\ FreshScheduler.completed = 0 /\ FreshScheduler.lastStep = 0 - 1
      /\ FreshScheduler.deviance = 0 /\ FreshScheduler.bins = 0 /\ FreshScheduler.open = None
      /\ FreshScheduler \in SchedulerStates
  BY DEF FreshScheduler, SchedulerStates
<1>3. Len(seen) = 0 /\ seen \in Seq(Seq(Deviances)) /\ Open = <<>> /\ Len(<<>>) = 0
  BY <1>1, <1>2 DEF Open
<1>4. TypeOK
  BY <1>1, <1>2, <1>3 DEF Init, TypeOK
<1>5. OneOpen
  BY <1>1, <1>2, <1>3 DEF OneOpen
<1>6. OpenTold
  BY <1>1, <1>2, <1>3, NothingAddsUp DEF OpenTold
<1>7. SavedTold
  <2>1. SubSeq(seen, 1, saved.completed) = <<>>
    <3>1. SubSeq(<<>>, 1, 0) = <<>>
      OBVIOUS
    <3> QED BY <1>1, <1>2, <3>1
  <2>2. Rows(SubSeq(seen, 1, saved.completed)) = 0
    BY <2>1, NothingAddsUp
  <2>3. saved.completed <= sched.completed /\ saved.lastStep = 0 - 1 /\ saved.deviance = 0
        /\ saved.bins = 0 /\ saved.open = None
    BY <1>1, <1>2
  <2> QED BY <2>2, <2>3 DEF SavedTold
<1>8. Told(policy, sched, seen, fired)
  BY <1>1, ToldFresh
<1>9. fired \intersect (1..saved.completed) = {}
  BY <1>1
<1>10. Told(policy, saved, seen, fired \intersect (1..saved.completed))
  BY <1>1, <1>9, ToldFresh
<1> QED BY <1>4, <1>5, <1>6, <1>7, <1>8, <1>10 DEF Inv

\* A step that changes nothing keeps the invariant.
LEMMA StutterKeeps ==
  ASSUME Inv, UNCHANGED vars
  PROVE  Inv'
<1>1. UNCHANGED <<policy, sched, saved, seen, fired>>
  BY DEF vars
<1>2. Open' = Open
  BY <1>1 DEF Open
<1> QED BY <1>1, <1>2 DEF Inv, TypeOK, OneOpen, OpenTold, SavedTold

\* The invariant holds of every state of a run: through saves and restarts the
\* scheduler of spectral_scheduler.py knows what the raw records say.
THEOREM Invariance == Spec => []Inv
<1>1. Init => Inv
  BY InvInit
<1>2. Inv /\ [Next]_vars => Inv'
  <2> SUFFICES ASSUME Inv, [Next]_vars PROVE Inv'
    OBVIOUS
  <2>1. CASE \E d \in Deviances, complete \in BOOLEAN : Consider(d, complete)
    BY <2>1, ConsiderKeeps
  <2>2. CASE Save
    BY <2>2, SaveKeeps
  <2>3. CASE Restart
    BY <2>3, RestartKeeps
  <2>4. CASE UNCHANGED vars
    BY <2>4, StutterKeeps
  <2> QED BY <2>1, <2>2, <2>3, <2>4 DEF Next
<1> QED BY <1>1, <1>2, PTL DEF Spec

\* Every state has its type.
THEOREM TypesHold == Spec => []TypeOK
<1>1. Inv => TypeOK
  BY DEF Inv
<1> QED BY <1>1, Invariance, PTL

\* The stations that fired are those the policy fires at.
LEMMA InvFires ==
  ASSUME Inv
  PROVE  FiresByPolicy /\ IsPolicy(policy, seen, sched.completed, PolicyFires)
<1>1. IsPolicy(policy, seen, sched.completed, PolicyFires)
  BY PolicyNow DEF Inv, TypeOK, SchedulerStates
<1>2. FiredByPolicy(policy, sched.completed, seen, fired)
  BY DEF Inv, Told
<1> HIDE DEF PolicyFires
<1>3. fired = {k \in 1..sched.completed : PolicyFires[k]}
  BY <1>1, <1>2, Zenon DEF FiredByPolicy
<1> QED BY <1>1, <1>3 DEF FiresByPolicy

\* The counters of the scheduler, saved and restored any number of times, fire
\* at exactly the stations the policy fires at by the raw records.
THEOREM FiresAsThePolicySays == Spec => []FiresByPolicy
<1>1. Inv => FiresByPolicy
  BY InvFires
<1> QED BY <1>1, Invariance, PTL

\* When none of the last stations fired, the policy fires at a multiple of the
\* interval.
LEMMA FiresAtMultiple ==
  ASSUME NEW p \in PolicyRecords, NEW sn, NEW n \in Nat, NEW f, IsPolicy(p, sn, n, f),
         NEW k \in Nat, NEW m \in 1..n, k >= p.minimum, k + p.cooldown <= m,
         m % p.interval = 0, \A j \in k..(m - 1) : ~f[j]
  PROVE  f[m]
<1>1. p.minimum \in Nat \ {0} /\ p.cooldown \in Nat /\ m \in Nat /\ m \in 0..n
  BY DEF PolicyRecords
<1>2. \A j \in 1..(m - 1) : m - j <= p.cooldown => ~f[j]
  <2> SUFFICES ASSUME NEW j \in 1..(m - 1), m - j <= p.cooldown PROVE ~f[j]
    OBVIOUS
  <2>1. j \in k..(m - 1)
    BY <1>1
  <2> QED BY <2>1
<1>3. m >= p.minimum
  BY <1>1
<1>4. Fires(p, sn, f, m)
  BY <1>2, <1>3 DEF Fires
<1>5. f[m] = Fires(p, sn, f, m)
  BY <1>1, Zenon DEF IsPolicy
<1> QED BY <1>4, <1>5

\* Past the minimum, one of every cooldown and interval of stations fired.
LEMMA InvNeverSilent ==
  ASSUME Inv
  PROVE  NeverSilentTooLong
<1> DEFINE n == sched.completed
           i == policy.interval
           c == policy.cooldown
<1> SUFFICES ASSUME NEW k \in 1..n, k >= policy.minimum, k + c + i - 1 <= n,
                    \A j \in k..(k + c + i - 1) : j \notin fired
             PROVE  FALSE
  BY DEF NeverSilentTooLong
<1>1. /\ policy \in PolicyRecords /\ n \in Nat /\ i \in Nat \ {0} /\ c \in Nat
      /\ k \in Nat /\ k + c \in Nat /\ k >= 1
  BY PoliciesAssumption DEF Inv, TypeOK, SchedulerStates, PolicyRecords
<1>2. /\ IsPolicy(policy, seen, n, PolicyFires)
      /\ fired = {j \in 1..n : PolicyFires[j]}
  BY InvFires DEF FiresByPolicy
<1>3. PICK m \in (k + c)..((k + c) + i - 1) : m % i = 0
  <2> HIDE DEF i, c, n
  <2> QED BY <1>1, OneIsMultiple
<1>4. m \in 1..n /\ k + c <= m /\ m \in k..(k + c + i - 1)
  <2> HIDE DEF i, c, n
  <2> QED BY <1>1, <1>3
<1> HIDE DEF PolicyFires
<1>5. \A j \in k..(m - 1) : ~PolicyFires[j]
  <2> SUFFICES ASSUME NEW j \in k..(m - 1) PROVE ~PolicyFires[j]
    OBVIOUS
  <2>1. j \in 1..n /\ j \in k..(k + c + i - 1)
    <3> HIDE DEF i, c, n
    <3> QED BY <1>1, <1>4
  <2> QED BY <1>2, <2>1
<1>6. PolicyFires[m]
  <2> HIDE DEF n
  <2> QED BY <1>1, <1>2, <1>3, <1>4, <1>5, FiresAtMultiple
<1>7. m \in fired
  BY <1>2, <1>4, <1>6
<1> QED BY <1>4, <1>7

\* Whatever the records, restarts and saves, a fit is never more than a cooldown
\* and an interval away.
THEOREM NeverSilent == Spec => []NeverSilentTooLong
<1>1. Inv => NeverSilentTooLong
  BY InvNeverSilent
<1> QED BY <1>1, Invariance, PTL

\* The cutoffs the scheduler remembers are the last steps of the stations that
\* fired, also after a restart took records back.
THEOREM CutoffsAreEnds == Spec => []CutoffsEndStations
<1>1. Inv => CutoffsEndStations
  <2> SUFFICES ASSUME Inv PROVE CutoffsEndStations
    OBVIOUS
  <2>1. CutoffsTell(sched, seen, fired)
    BY DEF Inv, Told
  <2> QED BY <2>1 DEF CutoffsTell, CutoffsEndStations, Rows
<1> QED BY <1>1, Invariance, PTL

=============================================================================
