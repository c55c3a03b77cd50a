--------------------------- MODULE CausalReplayProofs ---------------------------
(***************************************************************************)
(* For any source logs, declarations, policies and thresholds, and any     *)
(* outputs of the estimators: what the books of a causal v1 replay say of  *)
(* each other and of the log.                                              *)
(***************************************************************************)
EXTENDS CausalReplay, SequenceTheorems, FiniteSetTheorems, WellFoundedInduction, TLAPS

-----------------------------------------------------------------------------
(* Positions and folds *)

\* A nonempty set of natural numbers has a least one: what stands in for an
\* induction over positions.
LEMMA Least ==
  ASSUME NEW T, T \subseteq Nat, T # {}
  PROVE  \E x \in T : \A y \in T : x <= y
<1>1. IsWellFoundedOn(OpToRel(<, Nat), Nat)
  BY NatLessThanWellFounded
<1>2. PICK x \in T : \A y \in T : ~(<<y, x>> \in OpToRel(<, Nat))
  BY <1>1, WFMin
<1>3. \A y \in T : <<y, x>> \in OpToRel(<, Nat) <=> y < x
  BY DEF OpToRel
<1>4. \A y \in T : ~(y < x)
  BY <1>2, <1>3, Zenon
<1>5. \A y \in T : x <= y
  BY <1>4
<1> QED BY <1>5

\* An element that bounds a set is its maximum.
LEMMA MaxIs ==
  ASSUME NEW s, NEW n \in s, \A m \in s : m \in Int /\ m <= n
  PROVE  Max(s) = n
BY DEF Max

\* A nonempty set of positions has a maximum.
LEMMA MaxOfRange ==
  ASSUME NEW n \in Nat, NEW s \in SUBSET (1..n), s # {}
  PROVE  Max(s) \in s /\ \A y \in s : y <= Max(s)
<1> DEFINE Above == {k \in 0..n : \A y \in s : y <= k}
<1>1. n \in Above /\ Above \subseteq Nat
  OBVIOUS
<1>2. PICK k \in Above : \A l \in Above : k <= l
  BY <1>1, Least
<1>3. k # 0
  <2>1. PICK y \in s : TRUE
    OBVIOUS
  <2>2. y >= 1 /\ y <= k
    BY <1>2
  <2> QED BY <2>2
<1>4. k - 1 \notin Above /\ k - 1 \in 0..n
  BY <1>2, <1>3
<1>5. k \in s /\ \A y \in s : y \in Int /\ y <= k
  BY <1>2, <1>4
<1> QED BY <1>5, MaxIs

\* What the recursion of a fold over 1..n, from c on, says of its values.
IsFold(n, c, F, iter) ==
  \A s \in SUBSET (1..n) :
    iter[s] = IF s = {} THEN c ELSE F[<<Max(s), iter[s \ {Max(s)}]>>]

\* A fold of the typed steps F over the subsets of 1..n exists.
LEMMA FoldExists ==
  ASSUME NEW n \in Nat, NEW C, NEW c \in C, NEW F \in [(1..n) \X C -> C]
  PROVE  \E iter \in [SUBSET (1..n) -> C] : IsFold(n, c, F, iter)
<1> DEFINE Folds(m, iter) ==
             /\ iter \in [SUBSET (1..m) -> C]
             /\ iter[{}] = c
             /\ \A s \in SUBSET (1..m) : \A x \in s :
                  (\A y \in s : y <= x) => iter[s] = F[<<x, iter[s \ {x}]>>]
           Bad == {m \in 0..n : ~\E iter : Folds(m, iter)}
<1>1. Bad = {}
  <2> SUFFICES ASSUME Bad # {} PROVE FALSE
    OBVIOUS
  <2>0. Bad \subseteq Nat
    OBVIOUS
  <2>1. PICK m \in Bad : \A k \in Bad : m <= k
    <3> HIDE DEF Bad
    <3> QED BY <2>0, Least
  <2>2. 0 \notin Bad
    <3>1. Folds(0, [s \in SUBSET (1..0) |-> c])
      OBVIOUS
    <3> HIDE DEF Folds
    <3> QED BY <3>1
  <2>3. m - 1 \in 0..n /\ m - 1 \notin Bad /\ m \in 1..n
    <3>1. m \in 0..n
      OBVIOUS
    <3> HIDE DEF Bad
    <3> QED BY <2>1, <2>2, <3>1
  <2>4. PICK iter : Folds(m - 1, iter)
    <3> HIDE DEF Folds
    <3> QED BY <2>3
  <2> DEFINE more == [s \in SUBSET (1..m) |->
                        IF m \in s THEN F[<<m, iter[s \ {m}]>>] ELSE iter[s]]
  <2>5. \A s \in SUBSET (1..m) : s \ {m} \in SUBSET (1..(m - 1)) /\ (m \notin s => s = s \ {m})
    BY <2>3
  <2>6. more \in [SUBSET (1..m) -> C]
    BY <2>3, <2>4, <2>5
  <2>7. more[{}] = c
    BY <2>4
  <2>8. ASSUME NEW s \in SUBSET (1..m), NEW x \in s, \A y \in s : y <= x
        PROVE  more[s] = F[<<x, more[s \ {x}]>>]
    <3>1. CASE m \in s
      <4>1. x = m
        BY <2>3, <2>8, <3>1
      <4>2. s \ {m} \in SUBSET (1..m) /\ m \notin s \ {m}
        OBVIOUS
      <4> QED BY <3>1, <4>1, <4>2
    <3>2. CASE m \notin s
      <4>1. s \in SUBSET (1..(m - 1)) /\ s \ {x} \in SUBSET (1..m) /\ m \notin s \ {x}
        BY <2>5, <3>2
      <4> QED BY <2>4, <2>8, <3>2, <4>1
    <3> QED BY <3>1, <3>2
  <2>9. Folds(m, more)
    BY <2>6, <2>7, <2>8
  <2> HIDE DEF Folds
  <2> QED BY <2>1, <2>9
<1>2. PICK iter : Folds(n, iter)
  <2> HIDE DEF Folds
  <2> QED BY <1>1
<1>3. ASSUME NEW s \in SUBSET (1..n), s # {}
      PROVE  iter[s] = F[<<Max(s), iter[s \ {Max(s)}]>>]
  <2>1. Max(s) \in s /\ \A y \in s : y <= Max(s)
    BY <1>3, MaxOfRange
  <2> QED BY <1>2, <2>1
<1>4. IsFold(n, c, F, iter)
  BY <1>2, <1>3 DEF IsFold
<1> QED BY <1>2, <1>4

\* The fold over a prefix of a sequence's domain.
LEMMA PrefixOfDomain ==
  ASSUME NEW i \in Nat \ {0}
  PROVE  Max(1..i) = i /\ (1..i) \ {i} = 1..(i - 1) /\ 1..i # {}
<1>1. i \in 1..i /\ \A m \in 1..i : m \in Int /\ m <= i
  OBVIOUS
<1>2. Max(1..i) = i
  BY <1>1, MaxIs, Zenon
<1> QED BY <1>1, <1>2

\* What holds at 0 and is handed on from each position to the next holds at all.
Climbs(n, G) == 0 \in G /\ \A i \in 1..n : i - 1 \in G => i \in G

LEMMA Climb ==
  ASSUME NEW n \in Nat, NEW G, Climbs(n, G)
  PROVE  \A i \in 0..n : i \in G
<1> USE DEF Climbs
<1> DEFINE Bad == {i \in 0..n : i \notin G}
<1> SUFFICES ASSUME Bad # {} PROVE FALSE
  OBVIOUS
<1>1. PICK i \in Bad : \A j \in Bad : i <= j
  BY Least, Bad \subseteq Nat
<1>2. i # 0 /\ i \in 1..n /\ i - 1 \in 0..n
  BY <1>1
<1>3. i - 1 \in G
  BY <1>1, <1>2
<1> QED BY <1>1, <1>2, <1>3

\* f and g start alike and go on alike.
Alike(n, f, g) == f[0] = g[0] /\ \A i \in 1..n : f[i - 1] = g[i - 1] => f[i] = g[i]

LEMMA SameSteps ==
  ASSUME NEW n \in Nat, NEW f, NEW g, Alike(n, f, g)
  PROVE  f[n] = g[n]
<1> DEFINE G == {i \in 0..n : f[i] = g[i]}
<1>1. 0 \in G
  BY DEF Alike
<1>2. \A i \in 1..n : i - 1 \in G => i \in G
  BY DEF Alike
<1>3. \A i \in 0..n : i \in G
  <2> HIDE DEF G
  <2> QED BY <1>1, <1>2, Climb DEF Climbs
<1> QED BY <1>3

\* The recursion it goes from c by F, as far as its values are typed.
GoesBy(n, C, c, F, it) ==
  /\ it[{}] = c
  /\ \A s \in SUBSET (1..n) :
       s # {} /\ it[s \ {Max(s)}] \in C => it[s] = F[<<Max(s), it[s \ {Max(s)}]>>]

\* f has the values it goes through, position by position.
RunOf(n, C, c, F, it, f) ==
  /\ f \in [0..n -> C]
  /\ f[0] = c /\ \A i \in 1..n : f[i] = F[<<i, f[i - 1]>>]
  /\ it[1..n] = f[n]

\* The values a fold goes through, prefix by prefix.
LEMMA FoldRuns ==
  ASSUME NEW n \in Nat, NEW C, NEW c \in C, NEW F \in [(1..n) \X C -> C],
         NEW it, GoesBy(n, C, c, F, it)
  PROVE  \E f : RunOf(n, C, c, F, it, f)
<1> USE DEF GoesBy, RunOf
<1> DEFINE f == [i \in 0..n |-> it[1..i]]
           G == {i \in 0..n : f[i] \in C}
<1>1. f[0] = c
  BY 1..0 = {}, 0 \in 0..n
<1>2. ASSUME NEW i \in 1..n, f[i - 1] \in C
      PROVE  f[i] = F[<<i, f[i - 1]>>]
  <2>1. Max(1..i) = i /\ (1..i) \ {i} = 1..(i - 1) /\ 1..i # {}
    BY PrefixOfDomain
  <2>2. 1..i \in SUBSET (1..n) /\ i \in 0..n /\ i - 1 \in 0..n
    OBVIOUS
  <2> QED BY <1>2, <2>1, <2>2
<1>3. \A i \in 0..n : i \in G
  <2>1. 0 \in G
    BY <1>1
  <2>2. ASSUME NEW i \in 1..n, i - 1 \in G PROVE i \in G
    <3>1. f[i - 1] \in C /\ i \in 0..n
      BY <2>2
    <3>2. F[<<i, f[i - 1]>>] \in C
      BY <3>1
    <3> QED BY <1>2, <3>1, <3>2
  <2> HIDE DEF G
  <2> QED BY <2>1, <2>2, Climb DEF Climbs
<1>4. f \in [0..n -> C]
  BY <1>3
<1>5. it[1..n] = f[n]
  OBVIOUS
<1>6. ASSUME NEW i \in 1..n PROVE f[i] = F[<<i, f[i - 1]>>]
  <2>1. f[i - 1] \in C
    BY <1>3, i - 1 \in 0..n
  <2> QED BY <1>2, <2>1
<1> HIDE DEF f
<1> QED BY <1>1, <1>4, <1>5, <1>6

\* f has the elements kept so far, position by position.
KeepsBy(seq, at, X, f) ==
  /\ f \in [0..Len(seq) -> Seq(X)]
  /\ f[0] = <<>>
  /\ \A i \in 1..Len(seq) : f[i] = IF i \in at THEN Append(f[i - 1], seq[i]) ELSE f[i - 1]
  /\ Kept(seq, at) = f[Len(seq)]

LEMMA KeptFold ==
  ASSUME NEW X, NEW seq \in Seq(X), NEW at
  PROVE  \E f : KeepsBy(seq, at, X, f)
<1> DEFINE n == Len(seq)
           ids == [i \in DOMAIN seq |-> i]
           F == [x \in (1..n) \X Seq(X) |->
                   IF x[1] \in at THEN Append(x[2], seq[x[1]]) ELSE x[2]]
           Step(s, iter) == IF s = {} THEN <<>>
                            ELSE IF ids[Max(s)] \in at
                                   THEN Append(iter[s \ {Max(s)}], seq[ids[Max(s)]])
                                   ELSE iter[s \ {Max(s)}]
           Folds(iter) == iter = [s \in SUBSET DOMAIN ids |-> Step(s, iter)]
           it == CHOOSE iter : Folds(iter)
<1>1. Kept(seq, at) = it[DOMAIN ids]
  BY DEF Kept, FoldLeftDomain, FoldLeft, MapThenFoldSet
<1>2. n \in Nat /\ DOMAIN ids = 1..n /\ (\A i \in 1..n : ids[i] = i)
      /\ <<>> \in Seq(X) /\ F \in [(1..n) \X Seq(X) -> Seq(X)]
  OBVIOUS
<1>3. Folds(it)
  <2>1. PICK iter \in [SUBSET (1..n) -> Seq(X)] : IsFold(n, <<>>, F, iter)
    <3> HIDE DEF F, n, ids
    <3> QED BY <1>2, FoldExists, Zenon
  <2>2. ASSUME NEW s \in SUBSET (1..n), s # {}
        PROVE  F[<<Max(s), iter[s \ {Max(s)}]>>] = Step(s, iter)
    <3>1. Max(s) \in 1..n
      BY <1>2, <2>2, MaxOfRange
    <3>2. iter[s \ {Max(s)}] \in Seq(X)
      BY <2>1
    <3> QED BY <1>2, <2>2, <3>1, <3>2
  <2>3. Folds(iter)
    BY <1>2, <2>1, <2>2 DEF IsFold
  <2> HIDE DEF Folds
  <2> QED BY <2>3
<1> HIDE DEF it
<1>4. \A s \in SUBSET (1..n) : it[s] = Step(s, it)
  BY <1>2, <1>3
<1>5. GoesBy(n, Seq(X), <<>>, F, it)
  <2>1. ASSUME NEW s \in SUBSET (1..n), s # {}, it[s \ {Max(s)}] \in Seq(X)
        PROVE  it[s] = F[<<Max(s), it[s \ {Max(s)}]>>]
    <3>1. Max(s) \in 1..n
      BY <1>2, <2>1, MaxOfRange
    <3> QED BY <1>2, <1>4, <2>1, <3>1
  <2>2. it[{}] = <<>>
    BY <1>4, {} \in SUBSET (1..n)
  <2> QED BY <2>1, <2>2 DEF GoesBy
<1>7. PICK f : RunOf(n, Seq(X), <<>>, F, it, f)
  <2> HIDE DEF F, n
  <2> QED BY <1>2, <1>5, FoldRuns, Zenon
<1>8. ASSUME NEW i \in 1..n
      PROVE  f[i] = IF i \in at THEN Append(f[i - 1], seq[i]) ELSE f[i - 1]
  <2>1. f[i] = F[<<i, f[i - 1]>>] /\ f[i - 1] \in Seq(X)
    BY <1>2, <1>7, i - 1 \in 0..n DEF RunOf
  <2> QED BY <2>1
<1>9. f \in [0..n -> Seq(X)] /\ f[0] = <<>> /\ it[1..n] = f[n]
  BY <1>7 DEF RunOf
<1>10. Kept(seq, at) = f[n]
  BY <1>1, <1>2, <1>9
<1> QED BY <1>8, <1>9, <1>10 DEF KeepsBy

\* g lists the first m positions of a set, in order.
ListedBy(m, g, n, at) ==
  /\ g \in [1..m -> 1..n]
  /\ \A i, j \in 1..m : i < j => g[i] < g[j]
  /\ \A i \in 1..n : i \in at <=> \E k \in 1..m : g[k] = i

\* The elements it lists.
Picked(m, g, seq) == [k \in 1..m |-> seq[g[k]]]

\* What is kept are the elements at the listed positions.
LEMMA KeptAre ==
  ASSUME NEW X, NEW seq \in Seq(X), NEW at, NEW m \in Nat, NEW g, ListedBy(m, g, Len(seq), at)
  PROVE  Kept(seq, at) = Picked(m, g, seq)
<1> DEFINE n == Len(seq)
           So(k) == [j \in 1..k |-> seq[g[j]]]
<1>1. PICK f : KeepsBy(seq, at, X, f)
  BY KeptFold, Zenon
<1> USE DEF ListedBy, KeepsBy, Picked
<1> DEFINE Upto(i, k) == (\A j \in 1..m : g[j] <= i <=> j <= k) /\ f[i] = So(k)
           G == {i \in 0..n : \E k \in 0..m : Upto(i, k)}
<1>2. n \in Nat /\ (\A j \in 1..m : g[j] \in 1..n) /\ \A i, j \in 1..m : i < j => g[i] < g[j]
  OBVIOUS
<1>3. 0 \in G
  <2>1. So(0) = <<>>
    OBVIOUS
  <2>2. Upto(0, 0)
    BY <1>1, <1>2, <2>1
  <2> QED BY <1>2, <2>2
<1>4. ASSUME NEW i \in 1..n, i - 1 \in G PROVE i \in G
  <2>1. PICK k \in 0..m : Upto(i - 1, k)
    BY <1>4
  <2>2. CASE i \in at
    <3>1. PICK l \in 1..m : g[l] = i
      BY <2>2
    <3>2. l = k + 1
      <4>1. l > k
        BY <2>1, <3>1
      <4>2. CASE l > k + 1
        <5>1. k + 1 \in 1..m /\ g[k + 1] < i /\ g[k + 1] \in Int
          BY <1>2, <3>1, <4>2
        <5> QED BY <2>1, <5>1
      <4> QED BY <4>1, <4>2
    <3>3. \A j \in 1..m : g[j] <= i <=> j <= k + 1
      <4>1. ASSUME NEW j \in 1..m, j <= k PROVE g[j] <= i
        <5>1. g[j] <= i - 1 /\ g[j] \in Int
          BY <1>2, <2>1, <4>1
        <5> QED BY <5>1
      <4>2. ASSUME NEW j \in 1..m, j > k + 1 PROVE g[j] > i
        BY <1>2, <3>1, <3>2, <4>2
      <4> QED BY <1>2, <3>1, <3>2, <4>1, <4>2
    <3>4. f[i] = Append(So(k), seq[g[k + 1]])
      BY <1>1, <2>1, <2>2, <3>1, <3>2
    <3>5. So(k) \in Seq(X) /\ Len(So(k)) = k /\ seq[g[k + 1]] \in X
      <4>1. \A j \in 1..k : seq[g[j]] \in X
        BY <1>2, k \in 0..m
      <4> QED BY <1>2, <3>2, <4>1
    <3>6. Append(So(k), seq[g[k + 1]]) = So(k + 1)
      BY <3>5
    <3>7. Upto(i, k + 1) /\ k + 1 \in 0..m
      BY <3>2, <3>3, <3>4, <3>6
    <3> HIDE DEF Upto
    <3> QED BY <1>2, <3>7
  <2>3. CASE i \notin at
    <3>1. \A j \in 1..m : g[j] <= i <=> g[j] <= i - 1
      BY <1>2, <2>3
    <3>2. Upto(i, k)
      BY <1>1, <2>1, <2>3, <3>1
    <3> HIDE DEF Upto
    <3> QED BY <1>2, <3>2
  <2> QED BY <2>2, <2>3
<1>5. n \in 0..n /\ \A i \in 0..n : i \in G
  <2> HIDE DEF G, n
  <2>1. n \in Nat
    BY <1>2
  <2>2. \A i \in 1..n : i - 1 \in G => i \in G
    BY <1>4
  <2>3. Climbs(n, G)
    BY <1>3, <2>2 DEF Climbs
  <2>4. \A i \in 0..n : i \in G
    BY <2>1, <2>3, Climb, Zenon
  <2> QED BY <2>1, <2>4
<1>6. PICK k \in 0..m : Upto(n, k)
  BY <1>5
<1>7. k = m
  <2>1. CASE k < m
    BY <1>2, <1>6, <2>1, m \in 1..m
  <2> QED BY <2>1
<1> QED BY <1>1, <1>6, <1>7

\* Only the positions of the sequence count.
LEMMA KeptSame ==
  ASSUME NEW X, NEW seq \in Seq(X), NEW a, NEW b,
         \A i \in 1..Len(seq) : i \in a <=> i \in b
  PROVE  Kept(seq, a) = Kept(seq, b)
<1>1. PICK f : KeepsBy(seq, a, X, f)
  BY KeptFold, Zenon
<1>2. PICK h : KeepsBy(seq, b, X, h)
  BY KeptFold, Zenon
<1>3. Len(seq) \in Nat /\ Alike(Len(seq), f, h)
  <2>1. ASSUME NEW i \in 1..Len(seq), f[i - 1] = h[i - 1] PROVE f[i] = h[i]
    <3>1. f[i] = IF i \in a THEN Append(f[i - 1], seq[i]) ELSE f[i - 1]
      BY <1>1, Zenon DEF KeepsBy
    <3>2. h[i] = IF i \in b THEN Append(h[i - 1], seq[i]) ELSE h[i - 1]
      BY <1>2, Zenon DEF KeepsBy
    <3> QED BY <2>1, <3>1, <3>2
  <2>2. f[0] = h[0]
    BY <1>1, <1>2 DEF KeepsBy
  <2> QED BY <2>1, <2>2 DEF Alike
<1>4. f[Len(seq)] = h[Len(seq)]
  BY <1>3, SameSteps, Zenon
<1> QED BY <1>1, <1>2, <1>4 DEF KeepsBy

\* One more element.
LEMMA KeptAppend ==
  ASSUME NEW X, NEW seq \in Seq(X), NEW e \in X, NEW at
  PROVE  /\ Kept(seq, at) \in Seq(X)
         /\ Kept(Append(seq, e), at) =
              IF Len(seq) + 1 \in at THEN Append(Kept(seq, at), e) ELSE Kept(seq, at)
<1> DEFINE more == Append(seq, e)
           n == Len(seq)
<1>1. more \in Seq(X) /\ Len(more) = n + 1 /\ more[n + 1] = e /\ n \in Nat
      /\ \A i \in 1..n : more[i] = seq[i]
  OBVIOUS
<1> HIDE DEF more
<1>2. PICK f : KeepsBy(seq, at, X, f)
  BY KeptFold, Zenon
<1>3. PICK h : KeepsBy(more, at, X, h)
  BY <1>1, KeptFold, Zenon
<1>4. Alike(n, f, h)
  BY <1>1, <1>2, <1>3 DEF Alike, KeepsBy
<1>5. f[n] = h[n]
  BY <1>1, <1>4, SameSteps, Zenon
<1>6. h[n + 1] = IF n + 1 \in at THEN Append(h[n], e) ELSE h[n]
  <2>1. n + 1 \in 1..Len(more) /\ (n + 1) - 1 = n
    BY <1>1
  <2>2. h[n + 1] = IF n + 1 \in at THEN Append(h[(n + 1) - 1], more[n + 1]) ELSE h[(n + 1) - 1]
    BY <1>3, <2>1, Zenon DEF KeepsBy
  <2> QED BY <1>1, <2>1, <2>2
<1>7. f[n] \in Seq(X)
  BY <1>1, <1>2 DEF KeepsBy
<1>8. Kept(seq, at) = f[n] /\ Kept(more, at) = h[n + 1]
  BY <1>1, <1>2, <1>3 DEF KeepsBy
<1> QED BY <1>5, <1>6, <1>7, <1>8 DEF more

\* The first m positions: the beginning.
LEMMA KeptFirst ==
  ASSUME NEW X, NEW seq \in Seq(X), NEW at, NEW m \in 0..Len(seq),
         \A i \in 1..Len(seq) : i \in at <=> i <= m
  PROVE  Kept(seq, at) = SubSeq(seq, 1, m)
<1> DEFINE g == [k \in 1..m |-> k]
<1>1. m \in Nat /\ ListedBy(m, g, Len(seq), at)
  BY DEF ListedBy
<1> HIDE DEF g
<1>2. Kept(seq, at) = Picked(m, g, seq)
  BY <1>1, KeptAre, Zenon
<1> QED BY <1>2 DEF g, Picked

\* All but the first m positions.
Rest(seq, m) == [k \in 1..(Len(seq) - m) |-> seq[m + k]]

LEMMA KeptRest ==
  ASSUME NEW X, NEW seq \in Seq(X), NEW at, NEW m \in 0..Len(seq),
         \A i \in 1..Len(seq) : i \in at <=> i > m
  PROVE  Kept(seq, at) = Rest(seq, m)
<1> DEFINE l == Len(seq) - m
           g == [k \in 1..l |-> m + k]
<1>1. l \in Nat /\ g \in [1..l -> 1..Len(seq)] /\ \A i, j \in 1..l : i < j => g[i] < g[j]
  OBVIOUS
<1>2. \A i \in 1..Len(seq) : i \in at <=> \E k \in 1..l : g[k] = i
  <2> TAKE i \in 1..Len(seq)
  <2>1. ASSUME i > m PROVE \E k \in 1..l : g[k] = i
    BY <2>1, i - m \in 1..l
  <2>2. \A k \in 1..l : g[k] > m
    OBVIOUS
  <2> QED BY <2>1, <2>2
<1>3. ListedBy(l, g, Len(seq), at)
  <2> HIDE DEF g, l
  <2> QED BY <1>1, <1>2 DEF ListedBy
<1> HIDE DEF g, l
<1>4. Kept(seq, at) = Picked(l, g, seq)
  BY <1>1, <1>3, KeptAre, Zenon
<1> QED BY <1>4 DEF g, l, Picked, Rest

-----------------------------------------------------------------------------
(* Control *)

Stages == {"score", "fit", "plan", "next"}

\* A run that came past Start has an accepted configuration and is at one of
\* its stations; any other process has empty books.
Control ==
  /\ input \in Inputs
  /\ pc \in Active \union {"idle", "refused", "discarded", "killed", "published", "self_refused"}
  /\ IF pc \in Active \union {"published", "self_refused"}
       THEN Accepted(input) /\ turn \in 1..Len(input.schedule)
       ELSE FreshMemory

LEMMA StageAfter ==
  ASSUME NEW b \in BOOLEAN, NEW S
  PROVE  AfterPF(b, S) \in Stages /\ AfterScore(b) \in Stages /\ AfterFit \in Stages
BY DEF AfterPF, AfterScore, AfterFit, Stages

LEMMA ControlInit == Init => Control
BY DEF Init, Control, Active

LEMMA ControlNext == Control /\ [Next]_vars => Control'
<1> SUFFICES ASSUME Control, [Next]_vars PROVE Control'
  OBVIOUS
<1> USE DEF Control, Active
<1>1. CASE StartRefused
  BY <1>1 DEF StartRefused, FreshMemory, memory, collected
<1>2. CASE Start
  <2>1. input' = input /\ UNCHANGED memory /\ pc = "idle"
        /\ pc' = IF Accepted(input) THEN "pf" ELSE "discarded"
    BY <1>2 DEF Start
  <2>2. FreshMemory /\ FreshMemory'
    BY <2>1 DEF FreshMemory, memory, collected
  <2>3. CASE Accepted(input)
    <3>1. input.schedule \in Seq(Ends) /\ input.schedule # <<>> /\ turn' = 1
      BY <2>2, <2>3, InputsAssumption DEF Accepted, Configured, ScheduleCreated, FreshMemory
    <3>2. 1 \in 1..Len(input.schedule)
      BY <3>1
    <3>3. Accepted(input)'
      BY <2>1, <2>3 DEF Accepted, Configured
    <3> QED BY <2>1, <2>3, <3>1, <3>2, <3>3
  <2>4. CASE ~Accepted(input)
    BY <2>1, <2>2, <2>4
  <2> QED BY <2>3, <2>4
<1>3. ASSUME pc \in Active, UNCHANGED <<input, turn>>,
             pc' \in Active \union {"published", "self_refused"}
      PROVE  Control'
  BY <1>3 DEF Accepted, Configured
<1>4. CASE ReplayStation
  <2>1. trigger' \in BOOLEAN
    BY <1>4 DEF ReplayStation
  <2>2. \A S : AfterPF(trigger', S) \in Stages
    BY <2>1, StageAfter
  <2>3. /\ pc = "pf" /\ UNCHANGED <<input, turn>>
        /\ pc' = "self_refused" \/ \E S : pc' = AfterPF(trigger', S)
    BY <1>4 DEF ReplayStation
  <2>4. pc' \in Stages \union {"self_refused"}
    BY <2>2, <2>3
  <2> QED BY <1>3, <2>3, <2>4 DEF Stages
<1>5. CASE Score
  <2>1. /\ pc = "score" /\ UNCHANGED <<input, turn>>
        /\ pc' \in {"self_refused", "score", AfterScore(trigger)}
    BY <1>5 DEF Score
  <2> QED BY <1>3, <2>1 DEF AfterScore, AfterFit
<1>6. CASE Fit
  <2>1. pc = "fit" /\ UNCHANGED <<input, turn>> /\ pc' \in {"self_refused", AfterFit}
    BY <1>6 DEF Fit
  <2> QED BY <1>3, <2>1 DEF AfterFit
<1>7. CASE Plan
  BY <1>3, <1>7 DEF Plan
<1>8. CASE NextStation
  <2>1. pc = "next" /\ input' = input
    BY <1>8 DEF NextStation
  <2>2. Accepted(input) /\ turn \in 1..Len(input.schedule)
    BY <2>1
  <2>3. Accepted(input)'
    BY <2>1, <2>2 DEF Accepted, Configured
  <2>4. input.schedule \in Seq(Ends)
    BY InputsAssumption
  <2>5. turn' \in 1..Len(input.schedule) /\ pc' \in {"pf", "final_pf"}
    BY <1>8, <2>2, <2>4 DEF NextStation
  <2> QED BY <2>1, <2>3, <2>5
<1>9. CASE FinalPF
  <2>1. pc = "final_pf" /\ UNCHANGED <<input, turn>> /\ pc' \in {"self_refused", "final_fits"}
    BY <1>9 DEF FinalPF
  <2> QED BY <1>3, <2>1
<1>10. CASE FinalFits
  BY <1>3, <1>10 DEF FinalFits
<1>11. CASE Publish
  <2>1. pc = "publish" /\ UNCHANGED <<input, turn>> /\ pc' \in {"self_refused", "published"}
    BY <1>11 DEF Publish, memory
  <2> QED BY <1>3, <2>1
<1>12. CASE Discard \/ Kill \/ Rerun
  <2>1. FreshMemory' /\ input' = input /\ pc' \in {"discarded", "killed", "idle"}
    BY <1>12 DEF Discard, Kill, Rerun, Forget, FreshMemory
  <2> QED BY <2>1
<1>13. CASE UNCHANGED vars
  BY <1>13 DEF vars, memory, collected, FreshMemory, Accepted, Configured
<1> QED BY <1>1, <1>2, <1>4, <1>5, <1>6, <1>7, <1>8, <1>9, <1>10, <1>11, <1>12, <1>13 DEF Next

LEMMA ControlInvariance == Spec => []Control
BY ControlInit, ControlNext, PTL DEF Spec

-----------------------------------------------------------------------------
(* The log and its declaration *)

\* A valid log and an ordered declaration.
LEMMA ConfigTyped ==
  ASSUME NEW in \in Inputs, Accepted(in)
  PROVE  /\ in.rows \in Seq(Ends) /\ Len(in.rows) \in Nat /\ Len(in.rows) > 0
         /\ \A i \in 1..Len(in.rows) : in.rows[i].step \in Nat /\ in.rows[i].station \in Nat
         /\ \A i, j \in 1..Len(in.rows) :
              i < j => /\ in.rows[i].step < in.rows[j].step
                       /\ in.rows[i].station <= in.rows[j].station
         /\ in.schedule \in Seq(Ends) /\ Len(in.schedule) \in Nat /\ Len(in.schedule) > 0
         /\ \A k \in 1..Len(in.schedule) :
              in.schedule[k].step \in Nat /\ in.schedule[k].station \in Nat
         /\ \A j, k \in 1..Len(in.schedule) :
              j < k => /\ in.schedule[j].step < in.schedule[k].step
                       /\ in.schedule[j].station < in.schedule[k].station
<1>1. in.rows \in Seq(Ends) /\ ValidRows(in.rows) /\ in.schedule \in Seq(Ends)
  BY InputsAssumption
<1>2. DOMAIN in.rows = 1..Len(in.rows) /\ DOMAIN in.schedule = 1..Len(in.schedule)
  BY <1>1
<1>3. \A i \in 1..Len(in.rows) : in.rows[i].step \in Nat /\ in.rows[i].station \in Nat
  <2> TAKE i \in 1..Len(in.rows)
  <2>1. in.rows[i] \in Ends
    BY <1>1
  <2> QED BY <2>1 DEF Ends
<1>4. \A k \in 1..Len(in.schedule) :
        in.schedule[k].step \in Nat /\ in.schedule[k].station \in Nat
  <2> TAKE k \in 1..Len(in.schedule)
  <2>1. in.schedule[k] \in Ends
    BY <1>1
  <2> QED BY <2>1 DEF Ends
<1>5. in.schedule # <<>> /\ in.rows # <<>>
  BY <1>1 DEF Accepted, Configured, ScheduleCreated, ValidRows
<1>6. \A i, j \in 1..Len(in.rows) :
        i < j => in.rows[i].step < in.rows[j].step /\ in.rows[i].station <= in.rows[j].station
  BY <1>1, <1>2 DEF ValidRows, Increasing, Column
<1>7. \A j, k \in 1..Len(in.schedule) :
        j < k => /\ in.schedule[j].step < in.schedule[k].step
                 /\ in.schedule[j].station < in.schedule[k].station
  BY <1>1, <1>2 DEF Accepted, Configured, ScheduleCreated, Increasing, Column
<1>8. Len(in.rows) \in Nat /\ Len(in.rows) > 0 /\ Len(in.schedule) \in Nat /\ Len(in.schedule) > 0
  BY <1>1, <1>5
<1> QED BY <1>1, <1>3, <1>4, <1>6, <1>7, <1>8, Zenon

LEMMA InputTyped ==
  ASSUME input \in Inputs, Accepted(input)
  PROVE  /\ input.rows \in Seq(Ends) /\ Len(input.rows) \in Nat /\ Len(input.rows) > 0
         /\ \A i \in 1..Len(input.rows) : input.rows[i].step \in Nat /\ input.rows[i].station \in Nat
         /\ \A i, j \in 1..Len(input.rows) :
              i < j => /\ input.rows[i].step < input.rows[j].step
                       /\ input.rows[i].station <= input.rows[j].station
         /\ input.schedule \in Seq(Ends) /\ Len(input.schedule) \in Nat /\ Len(input.schedule) > 0
         /\ \A k \in 1..Len(input.schedule) :
              input.schedule[k].step \in Nat /\ input.schedule[k].station \in Nat
         /\ \A j, k \in 1..Len(input.schedule) :
              j < k => /\ input.schedule[j].step < input.schedule[k].step
                       /\ input.schedule[j].station < input.schedule[k].station
BY ConfigTyped, Zenon

\* Steps rise along the rows and along the declared ends.
LEMMA StepsRise ==
  ASSUME input \in Inputs, Accepted(input)
  PROVE  /\ \A i \in 1..Len(input.rows) : input.rows[i].step \in Nat
         /\ \A i, j \in 1..Len(input.rows) : i < j => input.rows[i].step < input.rows[j].step
         /\ \A k \in 1..Len(input.schedule) : input.schedule[k].step \in Nat
         /\ \A j, k \in 1..Len(input.schedule) : j < k => input.schedule[j].step < input.schedule[k].step
BY InputTyped, Zenon

\* The row that ends the k-th declared station.
EndAt(k) == Count(input.schedule[k].step)

LEMMA EndAtRow ==
  ASSUME input \in Inputs, Accepted(input), NEW k \in 1..Len(input.schedule)
  PROVE  /\ EndAt(k) \in 1..Len(input.rows)
         /\ input.rows[EndAt(k)].step = input.schedule[k].step
         /\ input.rows[EndAt(k)].station = input.schedule[k].station
         /\ EndsStation(input.rows, EndAt(k))
<1> DEFINE rows == input.rows
           e == input.schedule[k]
<1>1. DOMAIN rows = 1..Len(rows) /\ DOMAIN input.schedule = 1..Len(input.schedule)
  BY InputTyped
<1>2. PICK i \in 1..Len(rows) : rows[i].station = e.station /\ rows[i].step = e.step
  BY <1>1 DEF Accepted, BoundariesAccepted
<1>3. \A n \in 1..Len(rows) : rows[n].step = e.step => n = i
  BY <1>2, InputTyped
<1>4. EndAt(k) = i
  BY <1>1, <1>2, <1>3 DEF EndAt, Count
<1>5. EndsStation(rows, i)
  BY <1>1, <1>2 DEF Accepted, BoundariesAccepted
<1> QED BY <1>2, <1>4, <1>5

LEMMA EndsRise ==
  ASSUME input \in Inputs, Accepted(input),
         NEW j \in 1..Len(input.schedule), NEW k \in 1..Len(input.schedule), j < k
  PROVE  EndAt(j) < EndAt(k)
<1>1. input.schedule[j].step < input.schedule[k].step
  BY InputTyped
<1>2. EndAt(j) \in 1..Len(input.rows) /\ EndAt(k) \in 1..Len(input.rows)
      /\ input.rows[EndAt(j)].step = input.schedule[j].step
      /\ input.rows[EndAt(k)].step = input.schedule[k].step
  BY EndAtRow
<1>3. ~(EndAt(k) < EndAt(j)) /\ EndAt(j) # EndAt(k)
  BY <1>1, <1>2, InputTyped, SMTT(40)
<1> QED BY <1>2, <1>3

\* The marked log has the rows of the source log, in their places.
MarkedOf(in) == MarkedLog(SourceLog(in.rows, in.files), in.schedule)

LEMMA MarkedRows ==
  ASSUME NEW in \in Inputs, Accepted(in)
  PROVE  MarkedOf(in).rows = [i \in 1..Len(in.rows) |->
           [station |-> in.rows[i].station, step |-> in.rows[i].step,
            complete |-> AssertsComplete(in.schedule, in.rows[i].station, in.rows[i].step)]]
<1>1. DOMAIN in.rows = 1..Len(in.rows)
  BY ConfigTyped
<1>2. SourceLog(in.rows, in.files).rows = [i \in 1..Len(in.rows) |->
                       [station |-> in.rows[i].station, step |-> in.rows[i].step,
                        complete |-> FALSE]]
  BY <1>1 DEF SourceLog
<1>3. MarkedOf(in).rows = [i \in DOMAIN SourceLog(in.rows, in.files).rows |->
        [SourceLog(in.rows, in.files).rows[i] EXCEPT
           !.complete = AssertsComplete(in.schedule, SourceLog(in.rows, in.files).rows[i].station, SourceLog(in.rows, in.files).rows[i].step)]]
  <2> DEFINE R == [i \in DOMAIN SourceLog(in.rows, in.files).rows |->
        [SourceLog(in.rows, in.files).rows[i] EXCEPT
           !.complete = AssertsComplete(in.schedule, SourceLog(in.rows, in.files).rows[i].station, SourceLog(in.rows, in.files).rows[i].step)]]
  <2> HIDE DEF R
  <2>1. MarkedOf(in) = [SourceLog(in.rows, in.files) EXCEPT !.rows = R, !.manifest.attestation = in.schedule]
    BY DEF MarkedOf, MarkedLog, R
  <2>2. DOMAIN SourceLog(in.rows, in.files) = {"rows", "manifest", "files"}
    BY DEF SourceLog
  <2> QED BY <2>1, <2>2 DEF R
<1>4. DOMAIN SourceLog(in.rows, in.files).rows = 1..Len(in.rows)
  BY <1>2
<1>5. ASSUME NEW i \in 1..Len(in.rows)
      PROVE  [SourceLog(in.rows, in.files).rows[i] EXCEPT
                !.complete = AssertsComplete(in.schedule, SourceLog(in.rows, in.files).rows[i].station, SourceLog(in.rows, in.files).rows[i].step)]
             = [station |-> in.rows[i].station, step |-> in.rows[i].step,
                complete |-> AssertsComplete(in.schedule, in.rows[i].station, in.rows[i].step)]
  <2>1. SourceLog(in.rows, in.files).rows[i] = [station |-> in.rows[i].station, step |-> in.rows[i].step,
                          complete |-> FALSE]
    BY <1>2
  <2> QED BY <2>1
<1> QED BY <1>3, <1>4, <1>5, Zenon

MarkedEnds == [station : Nat, step : Nat, complete : BOOLEAN]

LEMMA MarkedTyped ==
  ASSUME input \in Inputs, Accepted(input)
  PROVE  /\ Marked.rows \in Seq(MarkedEnds) /\ Len(Marked.rows) = Len(input.rows)
         /\ \A i \in 1..Len(input.rows) :
              /\ Marked.rows[i].step = input.rows[i].step
              /\ Marked.rows[i].station = input.rows[i].station
              /\ Marked.rows[i].complete =
                   AssertsComplete(input.schedule, input.rows[i].station, input.rows[i].step)
<1>1. \A i \in 1..Len(input.rows) :
        /\ Marked.rows[i].step = input.rows[i].step
        /\ Marked.rows[i].station = input.rows[i].station
        /\ Marked.rows[i].complete =
             AssertsComplete(input.schedule, input.rows[i].station, input.rows[i].step)
        /\ Marked.rows[i] \in MarkedEnds
  <2> TAKE i \in 1..Len(input.rows)
  <2>1. Marked.rows[i] =
          [station |-> input.rows[i].station, step |-> input.rows[i].step,
           complete |-> AssertsComplete(input.schedule, input.rows[i].station, input.rows[i].step)]
    BY MarkedRows DEF Marked, Source, MarkedOf
  <2>2. input.rows[i].station \in Nat /\ input.rows[i].step \in Nat
    BY InputTyped
  <2>3. AssertsComplete(input.schedule, input.rows[i].station, input.rows[i].step) \in BOOLEAN
    BY DEF AssertsComplete
  <2> QED BY <2>1, <2>2, <2>3 DEF MarkedEnds
<1>2. Marked.rows = [i \in 1..Len(input.rows) |-> Marked.rows[i]]
  BY MarkedRows DEF Marked, Source, MarkedOf
<1>3. Marked.rows \in [1..Len(input.rows) -> MarkedEnds] /\ Len(input.rows) \in Nat
  BY <1>1, <1>2, InputTyped
<1>4. Marked.rows \in Seq(MarkedEnds) /\ Len(Marked.rows) = Len(input.rows)
  BY <1>3
<1> QED BY <1>1, <1>4

\* The prefix of a station: its rows, its cutoff and its station.
LEMMA PrefixIs ==
  ASSUME input \in Inputs, Accepted(input), turn \in 1..Len(input.schedule)
  PROVE  /\ HereCount = EndAt(turn) /\ HereCount \in 1..Len(input.rows)
         /\ Prefix.log.rows = SubSeq(Marked.rows, 1, HereCount)
         /\ Prefix.covered = StepsThrough(HereCount)
         /\ Column(Prefix.log.rows, "step") = StepsThrough(HereCount)
         /\ Prefix.cutoff = Here.step /\ Prefix.station = Here.station
<1>1. HereCount = EndAt(turn) /\ HereCount \in 1..Len(input.rows)
      /\ input.rows[HereCount].step = Here.step /\ input.rows[HereCount].station = Here.station
  BY EndAtRow DEF HereCount, Here, EndAt
<1>2. Prefix.log.rows = SubSeq(Marked.rows, 1, HereCount)
  BY DEF Prefix, PrefixThrough, PrefixLog, Records
<1>3. Column(SubSeq(Marked.rows, 1, HereCount), "step") = StepsThrough(HereCount)
  <2>1. DOMAIN SubSeq(Marked.rows, 1, HereCount) = 1..HereCount
        /\ DOMAIN SubSeq(input.rows, 1, HereCount) = 1..HereCount
    BY <1>1, MarkedTyped, InputTyped
  <2>2. \A i \in 1..HereCount : SubSeq(Marked.rows, 1, HereCount)[i].step
                                  = SubSeq(input.rows, 1, HereCount)[i].step
    BY <1>1, MarkedTyped, InputTyped
  <2> QED BY <2>1, <2>2 DEF StepsThrough, Column
<1>4. Prefix.covered = Column(SubSeq(Marked.rows, 1, HereCount), "step")
  BY DEF Prefix, PrefixThrough, Records
<1>5. Prefix.cutoff = Marked.rows[HereCount].step /\ Prefix.station = Marked.rows[HereCount].station
  BY DEF Prefix, PrefixThrough
<1> QED BY <1>1, <1>2, <1>3, <1>4, <1>5, MarkedTyped

-----------------------------------------------------------------------------
(* The lineage of the fits *)

Listed(s) == \E X : s \in Seq(X)

LEMMA Appended ==
  ASSUME NEW s, NEW e, Listed(s)
  PROVE  /\ Len(s) \in Nat /\ DOMAIN s = 1..Len(s)
         /\ Listed(Append(s, e)) /\ Len(Append(s, e)) = Len(s) + 1
         /\ Append(s, e)[Len(s) + 1] = e
         /\ \A i \in 1..Len(s) : Append(s, e)[i] = s[i]
<1>1. PICK X : s \in Seq(X)
  BY DEF Listed
<1>2. s \in Seq(X \union {e}) /\ e \in X \union {e}
  BY <1>1
<1>3. Append(s, e) \in Seq(X \union {e})
  BY <1>2
<1> QED BY <1>2, <1>3 DEF Listed

LEMMA NoneListed == Listed(<<>>) /\ Len(<<>>) = 0
<1>1. <<>> \in Seq({})
  OBVIOUS
<1> QED BY <1>1 DEF Listed

\* The stations whose trigger may have been answered.
Answered == IF pc \in {"pf", "score", "fit"} THEN 1..(turn - 1) ELSE 1..turn

\* A snapshot of the k-th station's prefix.
Origin(s, k) ==
  /\ s.cutoff = input.schedule[k].step
  /\ s.covered = StepsThrough(EndAt(k))
  /\ Column(s.fit.rows, "step") = StepsThrough(EndAt(k))

Link(i) ==
  IF i = 1
    THEN snapshots[i].fit.kind = "cold"
    ELSE /\ snapshots[i].fit.kind = "warm"
         /\ snapshots[i].fit.from = snapshots[i - 1].cutoff
         /\ snapshots[i - 1].cutoff < snapshots[i].cutoff

\* Each snapshot is of a station that was answered; it follows the one before.
Lineage ==
  /\ Listed(snapshots)
  /\ \A i \in 1..Len(snapshots) : (\E k \in Answered : Origin(snapshots[i], k)) /\ Link(i)

\* Steps that leave the snapshots alone.
LEMMA LineageKept ==
  ASSUME Lineage, UNCHANGED <<input, snapshots>>, Answered \subseteq Answered'
  PROVE  Lineage'
<1>1. ASSUME NEW i \in 1..Len(snapshots) PROVE \E k \in Answered' : Origin(snapshots[i], k)'
  <2>1. PICK k \in Answered : Origin(snapshots[i], k)
    BY DEF Lineage
  <2> QED BY <2>1 DEF Origin, StepsThrough, EndAt, Count
<1>2. \A i \in 1..Len(snapshots) : Link(i)'
  BY DEF Lineage, Link
<1> QED BY <1>1, <1>2 DEF Lineage, Listed

LEMMA LineageFit ==
  ASSUME Control, Lineage, Fit
  PROVE  Lineage'
<1> USE DEF Active
<1>1. pc = "fit" /\ input \in Inputs /\ Accepted(input) /\ turn \in 1..Len(input.schedule)
      /\ UNCHANGED <<input, turn>> /\ pc' \in {"self_refused", AfterFit}
  BY DEF Fit, Control
<1>2. Answered = 1..(turn - 1) /\ Answered' = 1..turn /\ turn \in Nat
  BY <1>1, InputTyped DEF Answered, AfterFit
<1>3. PICK fit \in FitOutputs, found \in SUBSET Names :
        /\ FitAccepted(fit, Prefix.log.rows, Previous)
        /\ snapshots' = Append(snapshots, BuiltSnapshot(Prefix, fit, found, Previous))
  BY DEF Fit
<1> DEFINE s == BuiltSnapshot(Prefix, fit, found, Previous)
           n == Len(snapshots)
<1>4. s.cutoff = Prefix.cutoff /\ s.covered = Prefix.covered /\ s.fit = fit
  BY DEF BuiltSnapshot
<1> HIDE DEF s
<1>5. Origin(s, turn)
  BY <1>1, <1>3, <1>4, PrefixIs DEF Origin, FitAccepted, Here
<1>6. /\ n \in Nat /\ DOMAIN snapshots = 1..n /\ Listed(snapshots') /\ Len(snapshots') = n + 1
      /\ snapshots'[n + 1] = s /\ \A i \in 1..n : snapshots'[i] = snapshots[i]
  BY <1>3, Appended DEF Lineage, s
<1>7. ASSUME NEW i \in 1..(n + 1) PROVE \E k \in Answered' : Origin(snapshots[i], k)'
  <2>1. PICK k \in 1..turn : Origin(snapshots'[i], k)
    <3>1. CASE i = n + 1
      BY <1>1, <1>2, <1>5, <1>6, <3>1
    <3>2. CASE i \in 1..n
      BY <1>2, <1>6, <3>2 DEF Lineage
    <3> QED BY <1>6, <3>1, <3>2
  <2> QED BY <1>1, <1>2, <2>1 DEF Origin, StepsThrough, EndAt, Count
<1>8. ASSUME NEW i \in 1..(n + 1) PROVE Link(i)'
  <2>1. CASE i \in 1..n
    <3>1. Link(i) /\ snapshots'[i] = snapshots[i] /\ (i # 1 => snapshots'[i - 1] = snapshots[i - 1])
      BY <1>6, <2>1 DEF Lineage
    <3> QED BY <3>1 DEF Link
  <2>2. CASE i = n + 1 /\ n = 0
    <3>1. Previous = None
      BY <1>6, <2>2 DEF Previous, Lineage, Listed
    <3> QED BY <1>3, <1>4, <1>6, <2>2, <3>1 DEF Link, FitAccepted
  <2>3. CASE i = n + 1 /\ n # 0
    <3>1. Previous = snapshots[n].cutoff
      BY <1>6, <2>3 DEF Previous, Last
    <3>2. PICK k \in 1..(turn - 1) : snapshots[n].cutoff = input.schedule[k].step
      BY <1>2, <1>6, <2>3 DEF Lineage, Origin
    <3>3. k \in 1..Len(input.schedule) /\ k < turn
      BY <1>1, InputTyped
    <3>4. snapshots[n].cutoff \in Nat /\ snapshots[n].cutoff < input.schedule[turn].step
      BY <1>1, <3>2, <3>3, InputTyped
    <3>5. Previous # None
      BY <3>1, <3>4, NoneAssumption
    <3>6. s.cutoff = input.schedule[turn].step
      BY <1>5 DEF Origin
    <3>7. fit.kind = "warm" /\ fit.from = Previous
      BY <1>3, <3>5 DEF FitAccepted
    <3>8. snapshots'[i] = s /\ snapshots'[i - 1] = snapshots[n] /\ i # 1
      BY <1>6, <2>3
    <3> QED BY <1>4, <3>1, <3>4, <3>6, <3>7, <3>8 DEF Link
  <2> QED BY <1>6, <2>1, <2>2, <2>3
<1> QED BY <1>6, <1>7, <1>8 DEF Lineage

LEMMA LineageNext == Control /\ Lineage /\ [Next]_vars => Lineage'
<1> SUFFICES ASSUME Control, Lineage, [Next]_vars PROVE Lineage'
  OBVIOUS
<1> USE DEF Active
<1>0. turn \in Int
  BY InputTyped DEF Control, FreshMemory
<1>1. ASSUME UNCHANGED <<input, snapshots, turn>>,
             pc' \in {"pf", "score", "fit"} => pc \in {"pf", "score", "fit"}
      PROVE  Lineage'
  BY <1>0, <1>1, LineageKept DEF Answered
<1>2. ASSUME UNCHANGED <<input, snapshots, turn>>, pc \in {"pf", "score", "fit"}
      PROVE  Lineage'
  BY <1>0, <1>2, LineageKept DEF Answered
<1>3. CASE StartRefused
  BY <1>1, <1>3 DEF StartRefused, memory, collected
<1>4. ASSUME FreshMemory' PROVE Lineage'
  BY <1>4, NoneListed DEF Lineage, FreshMemory
<1>5. CASE Start
  <2>1. FreshMemory'
    BY <1>5 DEF Start, Control, FreshMemory, memory, collected
  <2> QED BY <1>4, <2>1
<1>6. CASE ReplayStation
  BY <1>2, <1>6 DEF ReplayStation
<1>7. CASE Score
  BY <1>2, <1>7 DEF Score
<1>8. CASE Fit
  BY <1>8, LineageFit
<1>9. CASE Plan
  BY <1>1, <1>9 DEF Plan
<1>10. CASE NextStation
  <2>1. UNCHANGED <<input, snapshots>>
        /\ pc = "next" /\ pc' \in {"pf", "final_pf"} /\ (pc' = "pf" => turn' = turn + 1) /\ (pc' # "pf" => turn' = turn)
    BY <1>10 DEF NextStation, collected
  <2>2. Answered \subseteq Answered'
    BY <1>0, <2>1 DEF Answered
  <2> QED BY <2>1, <2>2, LineageKept
<1>11. CASE FinalPF
  BY <1>1, <1>11 DEF FinalPF
<1>12. CASE FinalFits
  BY <1>1, <1>12 DEF FinalFits, collected
<1>13. CASE Publish
  BY <1>1, <1>13 DEF Publish, memory, collected
<1>14. CASE Discard \/ Kill \/ Rerun
  <2>1. FreshMemory'
    BY <1>14 DEF Discard, Kill, Rerun, Forget, FreshMemory
  <2> QED BY <1>4, <2>1
<1>15. CASE UNCHANGED vars
  BY <1>1, <1>15 DEF vars, memory, collected
<1> QED BY <1>3, <1>5, <1>6, <1>7, <1>8, <1>9, <1>10, <1>11, <1>12, <1>13, <1>14, <1>15 DEF Next

LEMMA LineageInvariance == Spec => []Lineage
<1>1. Init => Lineage
  BY NoneListed DEF Init, FreshMemory, Lineage
<1> QED BY <1>1, LineageNext, ControlInvariance, PTL DEF Spec

LEMMA LineageImplies == Control /\ Lineage => LineageIsAChain
<1> SUFFICES ASSUME Control, Lineage, NEW i \in DOMAIN snapshots
             PROVE  /\ \E n \in TrueEnds :
                         /\ snapshots[i].covered = StepsThrough(n)
                         /\ Column(snapshots[i].fit.rows, "step") = StepsThrough(n)
                    /\ Link(i)
  BY DEF LineageIsAChain, Link
<1>1. DOMAIN snapshots = 1..Len(snapshots)
  BY DEF Lineage, Listed
<1>2. PICK k \in Answered : Origin(snapshots[i], k)
  BY <1>1 DEF Lineage
<1>3. pc \in Active \union {"published", "self_refused"}
  BY <1>1, NoneListed DEF Control, FreshMemory
<1>4. input \in Inputs /\ Accepted(input) /\ k \in 1..Len(input.schedule)
  BY <1>2, <1>3, InputTyped DEF Control, Answered
<1>5. EndAt(k) \in TrueEnds
  BY <1>4, EndAtRow, InputTyped DEF TrueEnds
<1> QED BY <1>1, <1>2, <1>5 DEF Lineage, Origin

\* The fits behind the snapshots are one lineage, each over the rows through a
\* true station end and warmed by the one before it (controller.py:1016-1030).
THEOREM FitsAreOneLineage == Spec => []LineageIsAChain
BY ControlInvariance, LineageInvariance, LineageImplies, PTL

-----------------------------------------------------------------------------
(* What a prefix depends on *)

\* A sequence that begins with the first n elements of another.
LEMMA Begins ==
  ASSUME NEW X, NEW s \in Seq(X), NEW t \in Seq(X), NEW n \in 1..Len(s), IsPrefix(SubSeq(s, 1, n), t)
  PROVE  /\ n <= Len(t) /\ \A i \in 1..n : t[i] = s[i]
         /\ SubSeq(t, 1, n) = SubSeq(s, 1, n)
<1>1. Len(SubSeq(s, 1, n)) = n
  OBVIOUS
<1>2. n <= Len(t) /\ SubSeq(SubSeq(s, 1, n), 1, n) = SubSeq(t, 1, n)
  BY <1>1 DEF IsPrefix
<1>3. \A i \in 1..n : SubSeq(SubSeq(s, 1, n), 1, n)[i] = s[i] /\ SubSeq(t, 1, n)[i] = t[i]
  BY <1>1, <1>2
<1>4. \A i \in 1..n : t[i] = s[i]
  BY <1>2, <1>3
<1>5. SubSeq(t, 1, n) = SubSeq(s, 1, n)
  BY <1>2, <1>4
<1> QED BY <1>2, <1>4, <1>5

\* The declaration of other agrees with this one through the k-th station, and
\* its log through the end of that station.
Agree(in, other, k, n) ==
  /\ n \in 1..Len(in.rows) /\ n <= Len(other.rows)
  /\ \A i \in 1..n : other.rows[i] = in.rows[i]
  /\ k \in 1..Len(in.schedule) /\ k <= Len(other.schedule)
  /\ \A j \in 1..k : other.schedule[j] = in.schedule[j]
  /\ in.rows[n].step = in.schedule[k].step

\* A marker of the later part of a declaration fits no row of the first part.
LEMMA EarlyMarks ==
  ASSUME NEW in \in Inputs, Accepted(in), NEW other \in Inputs, Accepted(other),
         NEW k, NEW n, Agree(in, other, k, n), NEW i \in 1..n
  PROVE  AssertsComplete(other.schedule, in.rows[i].station, in.rows[i].step)
           <=> AssertsComplete(in.schedule, in.rows[i].station, in.rows[i].step)
<1> USE DEF Agree
<1>1. in.rows[i].step <= in.schedule[k].step /\ in.rows[i].step \in Nat
  <2>1. i = n \/ i < n
    BY ConfigTyped
  <2> QED BY <2>1, ConfigTyped, SMTT(40)
<1>2. k \in Nat /\ k \in 1..Len(other.schedule) /\ Len(in.schedule) \in Nat /\ Len(other.schedule) \in Nat
  BY ConfigTyped
<1>3. ASSUME NEW j \in 1..Len(other.schedule), other.schedule[j].step = in.rows[i].step
      PROVE  j <= k
  <2>1. other.schedule[k].step = in.schedule[k].step
    BY <1>2
  <2>2. ~(k < j)
    BY <1>1, <1>2, <1>3, <2>1, ConfigTyped, SMTT(40)
  <2> QED BY <1>2, <2>2
<1>4. ASSUME NEW j \in 1..Len(in.schedule), in.schedule[j].step = in.rows[i].step
      PROVE  j <= k
  <2>1. k < j => in.schedule[k].step < in.schedule[j].step
    BY ConfigTyped
  <2>2. in.schedule[k].step \in Nat /\ in.schedule[j].step \in Nat
    BY ConfigTyped
  <2> QED BY <1>1, <1>2, <1>4, <2>1, <2>2, SMTT(40)
<1>5. DOMAIN in.schedule = 1..Len(in.schedule) /\ DOMAIN other.schedule = 1..Len(other.schedule)
  BY ConfigTyped
<1> DEFINE st == in.rows[i].station
           p == in.rows[i].step
<1>6. ASSUME AssertsComplete(other.schedule, st, p) PROVE AssertsComplete(in.schedule, st, p)
  <2>1. PICK j \in 1..Len(other.schedule) : other.schedule[j].station = st /\ other.schedule[j].step = p
    BY <1>5, <1>6 DEF AssertsComplete
  <2>2. j \in 1..k /\ j \in DOMAIN in.schedule
    BY <1>2, <1>3, <1>5, <2>1
  <2> QED BY <2>1, <2>2 DEF AssertsComplete
<1>7. ASSUME AssertsComplete(in.schedule, st, p) PROVE AssertsComplete(other.schedule, st, p)
  <2>1. PICK j \in 1..Len(in.schedule) : in.schedule[j].station = st /\ in.schedule[j].step = p
    BY <1>5, <1>7 DEF AssertsComplete
  <2>2. j \in 1..k /\ j \in DOMAIN other.schedule
    BY <1>2, <1>4, <1>5, <2>1
  <2>3. other.schedule[j] = in.schedule[j]
    BY <2>2
  <2> QED BY <2>1, <2>2, <2>3 DEF AssertsComplete
<1> QED BY <1>6, <1>7

LEMMA EarlyRecords ==
  ASSUME NEW in \in Inputs, Accepted(in), NEW other \in Inputs, Accepted(other),
         NEW k, NEW n, Agree(in, other, k, n)
  PROVE  /\ \A i \in 1..n : MarkedOf(other).rows[i] = MarkedOf(in).rows[i]
         /\ Records(MarkedOf(other), n) = Records(MarkedOf(in), n)
<1> USE DEF Agree
<1>1. ASSUME NEW i \in 1..n PROVE MarkedOf(other).rows[i] = MarkedOf(in).rows[i]
  <2>1. i \in 1..Len(in.rows) /\ i \in 1..Len(other.rows)
    BY ConfigTyped
  <2>2. MarkedOf(other).rows[i] =
          [station |-> other.rows[i].station, step |-> other.rows[i].step,
           complete |-> AssertsComplete(other.schedule, other.rows[i].station, other.rows[i].step)]
    BY <2>1, MarkedRows
  <2>3. MarkedOf(in).rows[i] =
          [station |-> in.rows[i].station, step |-> in.rows[i].step,
           complete |-> AssertsComplete(in.schedule, in.rows[i].station, in.rows[i].step)]
    BY <2>1, MarkedRows, ZenonT(40)
  <2>4. AssertsComplete(other.schedule, in.rows[i].station, in.rows[i].step)
          = AssertsComplete(in.schedule, in.rows[i].station, in.rows[i].step)
    <3>1. AssertsComplete(other.schedule, in.rows[i].station, in.rows[i].step)
            <=> AssertsComplete(in.schedule, in.rows[i].station, in.rows[i].step)
      BY EarlyMarks
    <3> QED BY <3>1 DEF AssertsComplete
  <2>5. other.rows[i] = in.rows[i]
    OBVIOUS
  <2> QED BY <2>2, <2>3, <2>4, <2>5
<1>2. Records(MarkedOf(other), n) = [i \in 1..n |-> MarkedOf(other).rows[i]]
      /\ Records(MarkedOf(in), n) = [i \in 1..n |-> MarkedOf(in).rows[i]]
  BY ConfigTyped DEF Records
<1> QED BY <1>1, <1>2

\* The declarations and the markers through the cutoff.
LEMMA EarlyBoundaries ==
  ASSUME NEW in \in Inputs, Accepted(in), NEW other \in Inputs, Accepted(other),
         NEW k, NEW n, Agree(in, other, k, n)
  PROVE  /\ CoveredSchedule(other.schedule, in.schedule[k].step)
              = CoveredSchedule(in.schedule, in.schedule[k].step)
         /\ CoveredBoundaries(MarkedOf(other), n) = CoveredBoundaries(MarkedOf(in), n)
<1>0. n \in 1..Len(in.rows) /\ n <= Len(other.rows) /\ k \in 1..Len(in.schedule)
      /\ k <= Len(other.schedule) /\ \A j \in 1..k : other.schedule[j] = in.schedule[j]
  BY DEF Agree
<1> DEFINE c == in.schedule[k].step
<1>1. ASSUME NEW x \in Inputs, Accepted(x), k \in 1..Len(x.schedule), x.schedule[k].step = c
      PROVE  CoveredSchedule(x.schedule, c) = SubSeq(x.schedule, 1, k)
  <2> DEFINE at == {j \in DOMAIN x.schedule : x.schedule[j].step <= c}
  <2>1. x.schedule \in Seq(Ends) /\ k \in 0..Len(x.schedule)
    BY <1>1, ConfigTyped
  <2>2. \A i \in 1..Len(x.schedule) : i \in at <=> i <= k
    <3> TAKE i \in 1..Len(x.schedule)
    <3>1. i \in at <=> x.schedule[i].step <= c
      BY <2>1
    <3>2. i < k => x.schedule[i].step < c
      BY <1>1, ConfigTyped
    <3>3. k < i => c < x.schedule[i].step
      BY <1>1, ConfigTyped
    <3>4. x.schedule[i].step \in Nat /\ c \in Nat /\ i \in Nat /\ k \in Nat
      BY <1>1, ConfigTyped
    <3> HIDE DEF at, c
    <3> QED BY <1>1, <3>1, <3>2, <3>3, <3>4
  <2> HIDE DEF at
  <2>3. Kept(x.schedule, at) = SubSeq(x.schedule, 1, k)
    BY <2>1, <2>2, KeptFirst
  <2> QED BY <2>3 DEF at, CoveredSchedule
<1>2. k \in 1..Len(other.schedule) /\ other.schedule[k].step = c
  BY <1>0, ConfigTyped
<1>3. SubSeq(other.schedule, 1, k) = SubSeq(in.schedule, 1, k)
  BY <1>0, <1>2, ConfigTyped
<1>4. CoveredSchedule(other.schedule, c) = CoveredSchedule(in.schedule, c)
  <2>1. CoveredSchedule(other.schedule, c) = SubSeq(other.schedule, 1, k)
    BY <1>1, <1>2
  <2>2. CoveredSchedule(in.schedule, c) = SubSeq(in.schedule, 1, k)
    BY <1>1, <1>0
  <2> QED BY <1>3, <2>1, <2>2
<1> DEFINE r == Records(MarkedOf(in), n)
           a == {i \in DOMAIN MarkedOf(other).rows : MarkedOf(other).rows[i].complete}
           b == {i \in DOMAIN MarkedOf(in).rows : MarkedOf(in).rows[i].complete}
<1>5. r = [i \in 1..n |-> MarkedOf(in).rows[i]] /\ n \in Nat
  BY <1>0, ConfigTyped DEF Records
<1>6. r \in Seq({MarkedOf(in).rows[i] : i \in 1..n}) /\ Len(r) = n
  BY <1>5
<1>7. \A i \in 1..Len(r) : i \in a <=> i \in b
  <2>1. DOMAIN MarkedOf(other).rows = 1..Len(other.rows) /\ DOMAIN MarkedOf(in).rows = 1..Len(in.rows)
    BY MarkedRows
  <2>2. \A i \in 1..n : MarkedOf(other).rows[i] = MarkedOf(in).rows[i]
    BY EarlyRecords, ZenonT(40)
  <2>3. \A i \in 1..n : i \in 1..Len(other.rows) /\ i \in 1..Len(in.rows)
    BY <1>0, ConfigTyped
  <2> QED BY <1>6, <2>1, <2>2, <2>3
<1> HIDE DEF r, a, b
<1>8. Kept(r, a) = Kept(r, b)
  BY <1>6, <1>7, KeptSame
<1>9. Records(MarkedOf(other), n) = r
  BY EarlyRecords, Zenon DEF r
<1>10. CoveredBoundaries(MarkedOf(other), n) = CoveredBoundaries(MarkedOf(in), n)
  BY <1>8, <1>9 DEF CoveredBoundaries, r, a, b
<1> QED BY <1>4, <1>10

LEMMA CausalPrefix ==
  ASSUME NEW in \in Inputs, Accepted(in), NEW other \in Inputs, Accepted(other),
         NEW k, NEW n, Agree(in, other, k, n),
         InvariantFiles(other.files) = InvariantFiles(in.files),
         \A f \in InvariantFiles(in.files) : other.files[f] = in.files[f]
  PROVE  PrefixThrough(MarkedOf(other), other.schedule, n) = PrefixThrough(MarkedOf(in), in.schedule, n)
<1>1. MarkedOf(other).files = other.files /\ MarkedOf(in).files = in.files
  BY DEF MarkedOf, MarkedLog, SourceLog
<1>2. Records(MarkedOf(other), n) = Records(MarkedOf(in), n)
      /\ MarkedOf(other).rows[n] = MarkedOf(in).rows[n]
  <2>1. n \in 1..n
    BY ConfigTyped DEF Agree
  <2>2. \A i \in 1..n : MarkedOf(other).rows[i] = MarkedOf(in).rows[i]
    BY EarlyRecords, Zenon
  <2>3. Records(MarkedOf(other), n) = Records(MarkedOf(in), n)
    BY EarlyRecords, Zenon
  <2> QED BY <2>1, <2>2, <2>3
<1>3. CoveredBoundaries(MarkedOf(other), n) = CoveredBoundaries(MarkedOf(in), n)
  BY EarlyBoundaries
<1>4. MarkedOf(in).rows[n].step = in.schedule[k].step
  <2>1. n \in 1..Len(in.rows) /\ in.rows[n].step = in.schedule[k].step
    BY DEF Agree
  <2>2. MarkedOf(in).rows[n] =
          [station |-> in.rows[n].station, step |-> in.rows[n].step,
           complete |-> AssertsComplete(in.schedule, in.rows[n].station, in.rows[n].step)]
    BY <2>1, MarkedRows
  <2> QED BY <2>1, <2>2
<1>5. CoveredSchedule(other.schedule, MarkedOf(in).rows[n].step)
        = CoveredSchedule(in.schedule, MarkedOf(in).rows[n].step)
  BY <1>4, EarlyBoundaries
<1>6. PrefixManifest(MarkedOf(other), n) = PrefixManifest(MarkedOf(in), n)
  BY <1>2, <1>3 DEF PrefixManifest
<1>7. [f \in InvariantFiles(other.files) |-> other.files[f]]
        = [f \in InvariantFiles(in.files) |-> in.files[f]]
  OBVIOUS
<1>8. PrefixLog(MarkedOf(other), n) = PrefixLog(MarkedOf(in), n)
  BY <1>1, <1>2, <1>6, <1>7 DEF PrefixLog
<1> QED BY <1>2, <1>5, <1>8 DEF PrefixThrough

LEMMA CausalImplies == Control => PrefixIsCausal
<1> SUFFICES ASSUME Control, pc \in Active, NEW other \in Inputs,
                    IsPrefix(SubSeq(input.rows, 1, HereCount), other.rows),
                    IsPrefix(SubSeq(input.schedule, 1, turn), other.schedule),
                    Accepted(other),
                    InvariantFiles(other.files) = InvariantFiles(input.files),
                    \A f \in InvariantFiles(input.files) : other.files[f] = input.files[f]
             PROVE  PrefixThrough(MarkedOf(other), other.schedule, HereCount) = Prefix
  BY DEF PrefixIsCausal, MarkedOf
<1>1. input \in Inputs /\ Accepted(input) /\ turn \in 1..Len(input.schedule)
  BY DEF Control
<1>2. HereCount \in 1..Len(input.rows) /\ input.rows[HereCount].step = input.schedule[turn].step
  BY <1>1, PrefixIs, EndAtRow
<1>3. HereCount <= Len(other.rows) /\ \A i \in 1..HereCount : other.rows[i] = input.rows[i]
  BY <1>1, <1>2, ConfigTyped, Begins
<1>4. turn <= Len(other.schedule) /\ \A j \in 1..turn : other.schedule[j] = input.schedule[j]
  BY <1>1, ConfigTyped, Begins
<1>5. Agree(input, other, turn, HereCount)
  BY <1>1, <1>2, <1>3, <1>4 DEF Agree
<1>6. Prefix = PrefixThrough(MarkedOf(input), input.schedule, HereCount)
  BY DEF Prefix, Marked, MarkedOf, Source
<1> QED BY <1>1, <1>5, <1>6, CausalPrefix

\* A batch fit's prefix, its digests included, is a function of what was
\* recorded and declared through its cutoff (prefix.py, prefix_log.py).
THEOREM PrefixesAreCausal == Spec => []PrefixIsCausal
BY ControlInvariance, CausalImplies, PTL

-----------------------------------------------------------------------------
(* The scheduler *)

Schedulers == [core : Sched!SchedulerStates, lastStation : Int]
SignalSet == [step : Nat, station : Nat, deviance : Nat, bins : Nat, complete : BOOLEAN]

LEMMA ConsideredTyped ==
  ASSUME NEW s \in Sched!SchedulerStates, NEW g \in SignalSet
  PROVE  Sched!Considered(Policy, s, g) \in Sched!SchedulerStates
<1> USE DEF SignalSet
<1>1. CASE g.complete
  <2>1. Sched!StreakAfter(Policy, s, g) \in Nat
    BY DEF Sched!StreakAfter, Sched!SchedulerStates
  <2> QED BY <1>1, <2>1 DEF Sched!Considered, Sched!SchedulerStates
<1>2. CASE ~g.complete
  <2>1. s.deviance + g.deviance \in Nat /\ s.bins + g.bins \in Nat
    BY DEF Sched!SchedulerStates
  <2>2. Sched!Considered(Policy, s, g) =
          [s EXCEPT !.lastStep = g.step, !.open = g.station,
                    !.deviance = @ + g.deviance, !.bins = @ + g.bins]
    BY <1>2 DEF Sched!Considered
  <2> QED BY <2>1, <2>2 DEF Sched!SchedulerStates
<1> QED BY <1>1, <1>2

LEMMA HeardTyped ==
  ASSUME NEW s \in Schedulers, NEW g \in SignalSet
  PROVE  Heard(s, g) \in Schedulers
<1>1. s.core \in Sched!SchedulerStates /\ s.lastStation \in Int /\ g.station \in Int
  BY DEF Schedulers, SignalSet
<1>2. Sched!Considered(Policy, s.core, g) \in Sched!SchedulerStates
  BY <1>1, ConsideredTyped
<1> QED BY <1>1, <1>2 DEF Heard, Schedulers

\* f has the schedulers it becomes, signal by signal.
HearsBy(s, signals, f) ==
  /\ f \in [0..Len(signals) -> Schedulers]
  /\ f[0] = s
  /\ \A i \in 1..Len(signals) : f[i] = Heard(f[i - 1], signals[i])
  /\ FoldLeft(Heard, s, signals) = f[Len(signals)]

LEMMA HeardFold ==
  ASSUME NEW s \in Schedulers, NEW signals \in Seq(SignalSet)
  PROVE  \E f : HearsBy(s, signals, f)
<1> DEFINE n == Len(signals)
           C == Schedulers
           F == [x \in (1..n) \X C |-> Heard(x[2], signals[x[1]])]
           Step(p, iter) == IF p = {} THEN s ELSE Heard(iter[p \ {Max(p)}], signals[Max(p)])
           Folds(iter) == iter = [p \in SUBSET DOMAIN signals |-> Step(p, iter)]
           it == CHOOSE iter : Folds(iter)
<1>1. FoldLeft(Heard, s, signals) = it[DOMAIN signals]
  BY DEF FoldLeft, MapThenFoldSet
<1>2. n \in Nat /\ DOMAIN signals = 1..n
  OBVIOUS
<1>3. F \in [(1..n) \X C -> C]
  <2> SUFFICES ASSUME NEW i \in 1..n, NEW u \in C PROVE Heard(u, signals[i]) \in C
    OBVIOUS
  <2>1. signals[i] \in SignalSet
    OBVIOUS
  <2> QED BY <2>1, HeardTyped
<1>4. Folds(it)
  <2>1. PICK iter \in [SUBSET (1..n) -> C] : IsFold(n, s, F, iter)
    <3> HIDE DEF F, n, C
    <3>1. s \in C
      BY DEF C
    <3> QED BY <1>2, <1>3, <3>1, FoldExists, Zenon
  <2>2. ASSUME NEW p \in SUBSET (1..n), p # {}
        PROVE  F[<<Max(p), iter[p \ {Max(p)}]>>] = Step(p, iter)
    <3>1. Max(p) \in 1..n
      BY <1>2, <2>2, MaxOfRange
    <3>2. iter[p \ {Max(p)}] \in C
      BY <2>1
    <3> HIDE DEF C
    <3> QED BY <2>2, <3>1, <3>2
  <2>3. Folds(iter)
    <3> HIDE DEF C, F
    <3> QED BY <1>2, <2>1, <2>2 DEF IsFold
  <2> HIDE DEF Folds
  <2> QED BY <2>3
<1> HIDE DEF it, C
<1>5. \A p \in SUBSET (1..n) : it[p] = Step(p, it)
  BY <1>2, <1>4
<1>6. GoesBy(n, C, s, F, it)
  <2>1. ASSUME NEW p \in SUBSET (1..n), p # {}, it[p \ {Max(p)}] \in C
        PROVE  it[p] = F[<<Max(p), it[p \ {Max(p)}]>>]
    <3>1. Max(p) \in 1..n
      BY <1>2, <2>1, MaxOfRange
    <3> QED BY <1>2, <1>5, <2>1, <3>1
  <2>2. it[{}] = s
    BY <1>5, {} \in SUBSET (1..n)
  <2> QED BY <2>1, <2>2 DEF GoesBy
<1>7. PICK f : RunOf(n, C, s, F, it, f)
  <2> HIDE DEF F, n
  <2>1. s \in C
    BY DEF C
  <2> QED BY <1>2, <1>3, <1>6, <2>1, FoldRuns, Zenon
<1>8. f \in [0..n -> C] /\ f[0] = s /\ it[1..n] = f[n]
  BY <1>7 DEF RunOf
<1>9. ASSUME NEW i \in 1..n PROVE f[i] = Heard(f[i - 1], signals[i])
  <2>1. f[i] = F[<<i, f[i - 1]>>] /\ f[i - 1] \in C
    BY <1>2, <1>7, i - 1 \in 0..n DEF RunOf
  <2> QED BY <2>1
<1> QED BY <1>1, <1>2, <1>8, <1>9 DEF HearsBy, C

LEMMA HeardAllTyped ==
  ASSUME sched \in Schedulers, NEW signals \in Seq(SignalSet)
  PROVE  HeardAll(signals) \in Schedulers
<1>1. PICK f : HearsBy(sched, signals, f)
  BY HeardFold, Zenon
<1>2. Len(signals) \in 0..Len(signals)
  OBVIOUS
<1> QED BY <1>1, <1>2 DEF HearsBy, HeardAll

LEMMA FreshTyped == FreshScheduler \in Schedulers
BY DEF FreshScheduler, Schedulers, Sched!FreshScheduler, Sched!SchedulerStates

-----------------------------------------------------------------------------
(* Consuming an artifact *)

CandidateKeys == [cutoff : Nat, name : Names]
Candidates == [state : Verdicts, steps : Seq(Nat), sum : Int]
Statuses == {"applied", "rejected"}

SnapshotEvents == [type : {"snapshot_registered"}, cutoff : Nat, covered : Seq(Nat)]
DirectiveEvents == [type : {"directive_issued"}, cutoff : Nat, proposals : SUBSET Names]
ReceiptEventsSet == [type : {"directive_receipt"}, cutoff : Nat, status : Statuses]
UseEvents ==
  [type : {"corroboration"}, cutoff : Nat, name : Names, step : Nat, station : Nat, ratio : Int,
   through : Nat, state : Verdicts]
LedgerEvents == SnapshotEvents \union DirectiveEvents \union ReceiptEventsSet \union UseEvents

\* What consuming an artifact turns over.
Uses(D) == [queue : [D -> Candidates], ledger : Seq(LedgerEvents), refused : BOOLEAN]

ArtifactTyped(a) ==
  /\ a.snapshot \in Nat /\ a.through \in Nat
  /\ a.steps \in Seq(Nat) /\ a.stations \in Seq(Nat) /\ Len(a.stations) = Len(a.steps)
  /\ DOMAIN a.ratios \subseteq Names
  /\ \A n \in DOMAIN a.ratios : \A i \in 1..Len(a.steps) : a.ratios[n][i] \in Int

KeyOf(a, n) == [cutoff |-> a.snapshot, name |-> n]

LEMMA VerdictTyped ==
  ASSUME NEW steps, NEW sum
  PROVE  VerdictOf(steps, sum) \in Verdicts
BY DEF VerdictOf, Verdicts

LEMMA UsedTyped ==
  ASSUME NEW D, NEW u \in Uses(D), NEW a, ArtifactTyped(a), NEW n \in DOMAIN a.ratios,
         KeyOf(a, n) \in D, NEW i \in 1..Len(a.steps)
  PROVE  Used(u, KeyOf(a, n), a, i) \in Uses(D)
<1> DEFINE k == KeyOf(a, n)
           q == Corroborate(u.queue, k, a.steps[i], a.ratios[k.name][i])
           e == UseEvent(k, a, i, q[k].state)
<1>1. k.cutoff = a.snapshot /\ k.name = n /\ n \in Names /\ a.steps[i] \in Nat /\ a.stations[i] \in Nat
      /\ a.ratios[n][i] \in Int /\ a.snapshot \in Nat /\ a.through \in Nat
  <2>1. k.cutoff = a.snapshot /\ k.name = n
    BY DEF KeyOf
  <2>2. a.steps \in Seq(Nat) /\ a.stations \in Seq(Nat) /\ i \in 1..Len(a.stations)
    BY DEF ArtifactTyped
  <2>3. a.steps[i] \in Nat /\ a.stations[i] \in Nat
    BY <2>2
  <2>4. n \in Names /\ a.ratios[n][i] \in Int /\ a.snapshot \in Nat /\ a.through \in Nat
    BY DEF ArtifactTyped
  <2> QED BY <2>1, <2>3, <2>4
<1>2. u.queue \in [D -> Candidates] /\ u.ledger \in Seq(LedgerEvents) /\ u.refused \in BOOLEAN
  BY DEF Uses
<1>3. u.queue[k].steps \in Seq(Nat) /\ u.queue[k].sum \in Int
  BY <1>2 DEF Candidates
<1> HIDE DEF k
<1> DEFINE c == [state |-> VerdictOf(Append(u.queue[k].steps, a.steps[i]), u.queue[k].sum + a.ratios[k.name][i]),
                 steps |-> Append(u.queue[k].steps, a.steps[i]),
                 sum |-> u.queue[k].sum + a.ratios[k.name][i]]
<1>4. q = [u.queue EXCEPT ![k] = c]
  BY DEF Corroborate
<1>5. c \in Candidates
  BY <1>1, <1>3, VerdictTyped DEF Candidates
<1> HIDE DEF c
<1>6. q \in [D -> Candidates]
  BY <1>2, <1>4, <1>5
<1> HIDE DEF q
<1>7. q[k].state \in Verdicts
  BY <1>6, KeyOf(a, n) \in D DEF k, Candidates
<1>8. e \in UseEvents
  BY <1>1, <1>7 DEF UseEvents, UseEvent
<1>9. Append(u.ledger, e) \in Seq(LedgerEvents)
  <2>1. e \in LedgerEvents
    BY <1>8 DEF LedgerEvents
  <2> HIDE DEF e
  <2> QED BY <1>2, <2>1
<1> HIDE DEF e
<1> DEFINE refused == \/ u.refused
                      \/ CorroborateRefused(u.queue, k, a.steps[i])
                      \/ LedgerRefuses(u.ledger, e)
<1>10. Used(u, k, a, i) = [queue |-> q, ledger |-> Append(u.ledger, e), refused |-> refused]
  BY DEF Used, q, e
<1>11. refused \in BOOLEAN
  OBVIOUS
<1> HIDE DEF refused
<1>12. Used(u, k, a, i) \in Uses(D)
  BY <1>6, <1>9, <1>10, <1>11 DEF Uses
<1> QED BY <1>12 DEF k

\* One row for one candidate.
Row(u, k, a, i) ==
  IF \/ u.queue[k].state # "pending"
     \/ Contains(u.queue[k].steps, a.steps[i])
    THEN u ELSE Used(u, k, a, i)

LEMMA RowTyped ==
  ASSUME NEW D, NEW u \in Uses(D), NEW a, ArtifactTyped(a), NEW n \in DOMAIN a.ratios,
         KeyOf(a, n) \in D, NEW i \in 1..Len(a.steps)
  PROVE  Row(u, KeyOf(a, n), a, i) \in Uses(D)
BY UsedTyped DEF Row

\* f has the books it goes through, row by row.
RowsBy(D, use, k, a, f) ==
  /\ f \in [0..Len(a.steps) -> Uses(D)]
  /\ f[0] = use
  /\ \A i \in 1..Len(a.steps) : f[i] = Row(f[i - 1], k, a, i)
  /\ ConsumeCandidate(use, k, a) = f[Len(a.steps)]

LEMMA RowsFold ==
  ASSUME NEW D, NEW use \in Uses(D), NEW a, ArtifactTyped(a), NEW n \in DOMAIN a.ratios,
         KeyOf(a, n) \in D
  PROVE  \E f : RowsBy(D, use, KeyOf(a, n), a, f)
<1> DEFINE k == KeyOf(a, n)
           m == Len(a.steps)
           C == Uses(D)
           ids == [i \in DOMAIN a.steps |-> i]
           F == [x \in (1..m) \X C |-> Row(x[2], k, a, x[1])]
           Step(s, iter) == IF s = {} THEN use ELSE Row(iter[s \ {Max(s)}], k, a, ids[Max(s)])
           Folds(iter) == iter = [s \in SUBSET DOMAIN ids |-> Step(s, iter)]
           it == CHOOSE iter : Folds(iter)
<1>1. ConsumeCandidate(use, k, a) = it[DOMAIN ids]
  BY DEF ConsumeCandidate, FoldLeftDomain, FoldLeft, MapThenFoldSet, Row
<1>2. m \in Nat /\ DOMAIN ids = 1..m /\ (\A i \in 1..m : ids[i] = i)
  BY DEF ArtifactTyped
<1>3. F \in [(1..m) \X C -> C]
  <2> SUFFICES ASSUME NEW i \in 1..m, NEW u \in C PROVE Row(u, k, a, i) \in C
    OBVIOUS
  <2> QED BY RowTyped
<1> HIDE DEF k, C, ids
<1>4. Folds(it)
  <2>1. PICK iter \in [SUBSET (1..m) -> C] : IsFold(m, use, F, iter)
    <3> HIDE DEF F, m
    <3>1. use \in C
      BY DEF C
    <3> QED BY <1>2, <1>3, <3>1, FoldExists, Zenon
  <2>2. ASSUME NEW s \in SUBSET (1..m), s # {}
        PROVE  F[<<Max(s), iter[s \ {Max(s)}]>>] = Step(s, iter)
    <3>1. Max(s) \in 1..m
      BY <1>2, <2>2, MaxOfRange
    <3>2. iter[s \ {Max(s)}] \in C
      BY <2>1
    <3> QED BY <1>2, <2>2, <3>1, <3>2
  <2>3. Folds(iter)
    <3> HIDE DEF F
    <3> QED BY <1>2, <2>1, <2>2 DEF IsFold
  <2> HIDE DEF Folds
  <2> QED BY <2>3
<1> HIDE DEF it
<1>5. \A s \in SUBSET (1..m) : it[s] = Step(s, it)
  BY <1>2, <1>4
<1>6. GoesBy(m, C, use, F, it)
  <2>1. ASSUME NEW s \in SUBSET (1..m), s # {}, it[s \ {Max(s)}] \in C
        PROVE  it[s] = F[<<Max(s), it[s \ {Max(s)}]>>]
    <3>1. Max(s) \in 1..m
      BY <1>2, <2>1, MaxOfRange
    <3> QED BY <1>2, <1>5, <2>1, <3>1
  <2>2. it[{}] = use
    BY <1>5, {} \in SUBSET (1..m)
  <2> QED BY <2>1, <2>2 DEF GoesBy
<1>7. PICK f : RunOf(m, C, use, F, it, f)
  <2> HIDE DEF F, m
  <2>1. use \in C
    BY DEF C
  <2> QED BY <1>2, <1>3, <1>6, <2>1, FoldRuns, Zenon
<1>8. f \in [0..m -> C] /\ f[0] = use /\ it[1..m] = f[m]
  BY <1>7 DEF RunOf
<1>9. ASSUME NEW i \in 1..m PROVE f[i] = Row(f[i - 1], k, a, i)
  <2>1. f[i] = F[<<i, f[i - 1]>>] /\ f[i - 1] \in C
    BY <1>2, <1>7, i - 1 \in 0..m DEF RunOf
  <2> QED BY <2>1
<1>10. RowsBy(D, use, k, a, f)
  BY <1>1, <1>2, <1>8, <1>9 DEF RowsBy, C
<1> QED BY <1>10 DEF k

LEMMA CandidateTyped ==
  ASSUME NEW D, NEW use \in Uses(D), NEW a, ArtifactTyped(a), NEW n \in DOMAIN a.ratios,
         KeyOf(a, n) \in D
  PROVE  ConsumeCandidate(use, KeyOf(a, n), a) \in Uses(D)
<1>1. PICK f : RowsBy(D, use, KeyOf(a, n), a, f)
  BY RowsFold, Zenon
<1>2. Len(a.steps) \in 0..Len(a.steps)
  BY DEF ArtifactTyped
<1> QED BY <1>1, <1>2 DEF RowsBy

\* An enumeration of a finite set lists all of it, each element once.
LEMMA Enumerated ==
  ASSUME NEW S, IsFiniteSet(S)
  PROVE  /\ SetToSeq(S) \in Seq(S)
         /\ \A x \in S : \E i \in 1..Len(SetToSeq(S)) : SetToSeq(S)[i] = x
         /\ \A i, j \in 1..Len(SetToSeq(S)) : SetToSeq(S)[i] = SetToSeq(S)[j] => i = j
<1> DEFINE n == Cardinality(S)
           f == SetToSeq(S)
<1>1. n \in Nat /\ ExistsBijection(1..n, S)
  BY FS_CardinalityType
<1>2. PICK g \in [1..n -> S] : IsInjective(g)
  BY <1>1 DEF ExistsBijection, Bijection, Injection
<1>3. f \in [1..n -> S] /\ IsInjective(f)
  BY <1>2 DEF SetToSeq
<1> HIDE DEF f
<1>4. Cardinality(1..n) = n
  BY <1>1, FS_Interval
<1>5. f \in Injection(1..n, S)
  BY <1>3 DEF Injection
<1>6. f \in Surjection(1..n, S)
  <2> HIDE DEF n
  <2>1. Cardinality(1..n) = Cardinality(S)
    BY <1>4 DEF n
  <2> QED BY <1>5, <2>1, FS_Injection
<1>7. f \in Seq(S) /\ Len(f) = n
  BY <1>1, <1>3
<1>8. \A x \in S : \E i \in 1..n : f[i] = x
  BY <1>6 DEF Surjection
<1>9. \A i, j \in 1..n : f[i] = f[j] => i = j
  BY <1>3 DEF IsInjective
<1> QED BY <1>7, <1>8, <1>9 DEF f

\* The artifact's candidates that a directive proposed.
Proposed(D, a) == {n \in DOMAIN a.ratios : KeyOf(a, n) \in D}

\* f has the books it goes through, candidate by candidate.
CandidatesBy(D, use, a, f) ==
  LET names == SetToSeq(Proposed(D, a))
  IN  /\ f \in [0..Len(names) -> Uses(D)]
      /\ f[0] = use
      /\ \A i \in 1..Len(names) : f[i] = ConsumeCandidate(f[i - 1], KeyOf(a, names[i]), a)
      /\ Consume(use, a) = f[Len(names)]

LEMMA CandidatesFold ==
  ASSUME NEW D, NEW use \in Uses(D), NEW a, ArtifactTyped(a)
  PROVE  \E f : CandidatesBy(D, use, a, f)
<1> DEFINE names == SetToSeq(Proposed(D, a))
           m == Len(names)
           C == Uses(D)
           F == [x \in (1..m) \X C |-> ConsumeCandidate(x[2], KeyOf(a, names[x[1]]), a)]
           Step(s, iter) == IF s = {} THEN use
                            ELSE ConsumeCandidate(iter[s \ {Max(s)}], KeyOf(a, names[Max(s)]), a)
           Folds(iter) == iter = [s \in SUBSET DOMAIN names |-> Step(s, iter)]
           it == CHOOSE iter : Folds(iter)
<1>0. use.queue \in [D -> Candidates]
  BY DEF Uses
<1>1. Consume(use, a) = it[DOMAIN names]
  <2>1. DOMAIN use.queue = D
    BY <1>0
  <2>2. {n \in DOMAIN a.ratios : [cutoff |-> a.snapshot, name |-> n] \in DOMAIN use.queue} = Proposed(D, a)
    BY <2>1 DEF Proposed, KeyOf
  <2> QED BY <2>2 DEF Consume, FoldLeft, MapThenFoldSet, KeyOf
<1>2. names \in Seq(Proposed(D, a)) /\ m \in Nat /\ DOMAIN names = 1..m
  <2>1. IsFiniteSet(Proposed(D, a))
    BY ValuesAssumption, FS_Subset DEF Proposed, ArtifactTyped
  <2>2. names \in Seq(Proposed(D, a))
    BY <2>1, Enumerated
  <2> QED BY <2>2
<1> HIDE DEF names
<1>3. F \in [(1..m) \X C -> C]
  <2> SUFFICES ASSUME NEW i \in 1..m, NEW u \in C PROVE ConsumeCandidate(u, KeyOf(a, names[i]), a) \in C
    OBVIOUS
  <2>1. names[i] \in DOMAIN a.ratios /\ KeyOf(a, names[i]) \in D
    BY <1>2 DEF Proposed
  <2> QED BY <2>1, CandidateTyped
<1> HIDE DEF C
<1>4. Folds(it)
  <2>1. PICK iter \in [SUBSET (1..m) -> C] : IsFold(m, use, F, iter)
    <3> HIDE DEF F, m
    <3>1. use \in C
      BY DEF C
    <3> QED BY <1>2, <1>3, <3>1, FoldExists, Zenon
  <2>2. ASSUME NEW s \in SUBSET (1..m), s # {}
        PROVE  F[<<Max(s), iter[s \ {Max(s)}]>>] = Step(s, iter)
    <3>1. Max(s) \in 1..m
      BY <1>2, <2>2, MaxOfRange
    <3>2. iter[s \ {Max(s)}] \in C
      BY <2>1
    <3> QED BY <1>2, <2>2, <3>1, <3>2
  <2>3. Folds(iter)
    <3> HIDE DEF F
    <3> QED BY <1>2, <2>1, <2>2 DEF IsFold
  <2> HIDE DEF Folds
  <2> QED BY <2>3
<1> HIDE DEF it
<1>5. \A s \in SUBSET (1..m) : it[s] = Step(s, it)
  BY <1>2, <1>4
<1>6. GoesBy(m, C, use, F, it)
  <2>1. ASSUME NEW s \in SUBSET (1..m), s # {}, it[s \ {Max(s)}] \in C
        PROVE  it[s] = F[<<Max(s), it[s \ {Max(s)}]>>]
    <3>1. Max(s) \in 1..m
      BY <1>2, <2>1, MaxOfRange
    <3> QED BY <1>2, <1>5, <2>1, <3>1
  <2>2. it[{}] = use
    BY <1>5, {} \in SUBSET (1..m)
  <2> QED BY <2>1, <2>2 DEF GoesBy
<1>7. PICK f : RunOf(m, C, use, F, it, f)
  <2> HIDE DEF F, m
  <2>1. use \in C
    BY DEF C
  <2> QED BY <1>2, <1>3, <1>6, <2>1, FoldRuns, Zenon
<1>8. f \in [0..m -> C] /\ f[0] = use /\ it[1..m] = f[m]
  BY <1>7 DEF RunOf
<1>9. ASSUME NEW i \in 1..m PROVE f[i] = ConsumeCandidate(f[i - 1], KeyOf(a, names[i]), a)
  <2>1. f[i] = F[<<i, f[i - 1]>>] /\ f[i - 1] \in C
    BY <1>2, <1>7, i - 1 \in 0..m DEF RunOf
  <2> QED BY <2>1
<1> QED BY <1>1, <1>2, <1>8, <1>9 DEF CandidatesBy, C, names

LEMMA ConsumeTyped ==
  ASSUME NEW D, NEW use \in Uses(D), NEW a, ArtifactTyped(a)
  PROVE  Consume(use, a) \in Uses(D)
<1>1. PICK f : CandidatesBy(D, use, a, f)
  BY CandidatesFold, Zenon
<1>2. IsFiniteSet(Proposed(D, a))
  BY ValuesAssumption, FS_Subset DEF Proposed, ArtifactTyped
<1>3. SetToSeq(Proposed(D, a)) \in Seq(Proposed(D, a))
  BY <1>2, Enumerated
<1>4. Len(SetToSeq(Proposed(D, a))) \in 0..Len(SetToSeq(Proposed(D, a)))
  BY <1>3
<1> QED BY <1>1, <1>4 DEF CandidatesBy

-----------------------------------------------------------------------------
(* Rows after a cutoff *)

\* The rows of the stations that are done end before this one.
LEMMA DoneIs ==
  ASSUME input \in Inputs, Accepted(input), turn \in 1..Len(input.schedule)
  PROVE  /\ DoneCount \in 0..(HereCount - 1)
         /\ DoneCount = IF turn = 1 THEN 0 ELSE EndAt(turn - 1)
<1>1. HereCount = EndAt(turn) /\ HereCount \in 1..Len(input.rows)
  BY PrefixIs
<1>2. DoneCount = IF turn = 1 THEN 0 ELSE EndAt(turn - 1)
  BY DEF DoneCount, EndAt
<1>3. CASE turn = 1
  BY <1>1, <1>2, <1>3
<1>4. CASE turn # 1
  <2>1. turn - 1 \in 1..Len(input.schedule) /\ turn - 1 < turn
    BY <1>4, InputTyped
  <2>2. EndAt(turn - 1) < EndAt(turn) /\ EndAt(turn - 1) \in 1..Len(input.rows)
    BY <2>1, EndsRise, EndAtRow
  <2> QED BY <1>1, <1>2, <1>4, <2>2
<1> QED BY <1>2, <1>3, <1>4

\* The steps after the m-th row through the n-th.
After(m, n) == [i \in 1..(n - m) |-> input.rows[m + i].step]

LEMMA LaterIs ==
  ASSUME input \in Inputs, Accepted(input), NEW j \in 1..Len(input.schedule),
         NEW n \in EndAt(j)..Len(input.rows), NEW X, NEW rows \in Seq(X), Len(rows) = n,
         \A i \in 1..n : rows[i].step = input.rows[i].step
  PROVE  LaterRows(rows, input.schedule[j].step) = [i \in 1..(n - EndAt(j)) |-> rows[EndAt(j) + i]]
<1> DEFINE c == input.schedule[j].step
           m == EndAt(j)
           at == {i \in DOMAIN rows : rows[i].step > c}
<1>1. m \in 1..Len(input.rows) /\ input.rows[m].step = c
  BY EndAtRow
<1>2. m \in 0..Len(rows) /\ DOMAIN rows = 1..n /\ n \in Nat /\ m \in Nat
  BY <1>1
<1>3. \A i \in 1..Len(rows) : i \in at <=> i > m
  <2> TAKE i \in 1..Len(rows)
  <2>1. i \in 1..Len(input.rows) /\ rows[i].step = input.rows[i].step
    BY <1>2
  <2>2. i < m => input.rows[i].step < c
    BY <1>1, <2>1, InputTyped
  <2>3. m < i => c < input.rows[i].step
    BY <1>1, <2>1, InputTyped
  <2>4. input.rows[i].step \in Nat /\ c \in Nat
    BY <2>1, InputTyped
  <2>5. i \in at <=> input.rows[i].step > c
    BY <1>2, <2>1
  <2> HIDE DEF at, c, m
  <2>6. i = m \/ i < m \/ m < i
    BY <1>2
  <2> QED BY <1>1, <1>2, <2>2, <2>3, <2>4, <2>5, <2>6
<1> HIDE DEF at, m
<1>4. Kept(rows, at) = Rest(rows, m)
  <2>1. m \in 0..Len(rows)
    BY <1>2
  <2> QED BY <1>3, <2>1, KeptRest, Zenon
<1> QED BY <1>4 DEF at, m, LaterRows, Rest

LEMMA LaterStepsAre ==
  ASSUME input \in Inputs, Accepted(input), NEW j \in 1..Len(input.schedule),
         NEW n \in EndAt(j)..Len(input.rows)
  PROVE  LaterSteps(input.schedule[j].step, n) = After(EndAt(j), n)
<1> DEFINE rows == SubSeq(input.rows, 1, n)
<1>1. EndAt(j) \in 1..Len(input.rows)
  BY EndAtRow
<1>2. rows \in Seq(Ends) /\ Len(rows) = n /\ n \in Nat /\ \A i \in 1..n : rows[i] = input.rows[i]
  BY <1>1, InputTyped
<1> HIDE DEF rows
<1>3. LaterRows(rows, input.schedule[j].step) = [i \in 1..(n - EndAt(j)) |-> rows[EndAt(j) + i]]
  BY <1>2, LaterIs
<1>4. \A i \in 1..(n - EndAt(j)) : EndAt(j) + i \in 1..n
  BY <1>1, <1>2
<1>5. Column(LaterRows(rows, input.schedule[j].step), "step") = After(EndAt(j), n)
  BY <1>2, <1>3, <1>4 DEF Column, After
<1> QED BY <1>5 DEF LaterSteps, rows

\* The rows that a score at this station has to be made of.
LEMMA WindowIs ==
  ASSUME input \in Inputs, Accepted(input), turn \in 1..Len(input.schedule),
         NEW j \in 1..turn
  PROVE  LET later == LaterRows(Prefix.log.rows, input.schedule[j].step)
         IN  /\ EndAt(j) \in 1..HereCount /\ HereCount \in 1..Len(input.rows)
             /\ later = [i \in 1..(HereCount - EndAt(j)) |-> Marked.rows[EndAt(j) + i]]
             /\ Column(later, "step") = After(EndAt(j), HereCount)
<1> DEFINE rows == Prefix.log.rows
           later == LaterRows(rows, input.schedule[j].step)
           n == HereCount
<1>1. n = EndAt(turn) /\ n \in 1..Len(input.rows) /\ rows = SubSeq(Marked.rows, 1, n)
  BY PrefixIs
<1>2. rows \in Seq(MarkedEnds) /\ Len(rows) = n /\ \A i \in 1..n : rows[i] = Marked.rows[i]
  BY <1>1, MarkedTyped, InputTyped
<1>3. \A i \in 1..n : rows[i].step = input.rows[i].step
  <2> TAKE i \in 1..n
  <2>1. i \in 1..Len(input.rows) /\ rows[i] = Marked.rows[i]
    BY <1>1, <1>2, InputTyped
  <2>2. Marked.rows[i].step = input.rows[i].step
    BY <2>1, MarkedTyped
  <2> HIDE DEF rows
  <2> QED BY <2>1, <2>2
<1>4. j \in 1..Len(input.schedule) /\ EndAt(j) \in 1..n
  <2>1. j \in 1..Len(input.schedule) /\ j \in Nat /\ turn \in Nat
    BY InputTyped
  <2>2. EndAt(j) \in 1..Len(input.rows)
    BY <2>1, EndAtRow
  <2>3. j < turn => EndAt(j) < EndAt(turn)
    BY <2>1, EndsRise
  <2> QED BY <1>1, <2>1, <2>2, <2>3
<1> HIDE DEF n, rows
<1>5. n \in EndAt(j)..Len(input.rows)
  BY <1>1, <1>4
<1>6. later = [i \in 1..(n - EndAt(j)) |-> rows[EndAt(j) + i]]
  BY <1>2, <1>3, <1>4, <1>5, LaterIs, ZenonT(40)
<1>7. \A i \in 1..(n - EndAt(j)) : EndAt(j) + i \in 1..n
  BY <1>1, <1>4
<1>8. later = [i \in 1..(n - EndAt(j)) |-> Marked.rows[EndAt(j) + i]]
  BY <1>2, <1>6, <1>7
<1>9. Column(later, "step") = After(EndAt(j), n)
  BY <1>3, <1>6, <1>7 DEF Column, After
<1> QED BY <1>1, <1>4, <1>8, <1>9 DEF n, rows

-----------------------------------------------------------------------------
(* Types of the books *)

\* The books have their types and refer to what exists.
Books ==
  /\ sched \in Schedulers
  /\ trigger \in BOOLEAN
  /\ \A i \in DOMAIN snapshots : snapshots[i].clusters \subseteq Names
  /\ Listed(directives)
  /\ \A i \in DOMAIN directives :
       /\ directives[i].proposals \subseteq Names
       /\ \E j \in DOMAIN snapshots : snapshots[j].cutoff = directives[i].cutoff
  /\ DOMAIN receipts \subseteq Issued
  /\ \A c \in DOMAIN receipts : receipts[c].status \in Statuses /\ receipts[c].directive = c
  /\ queue \in [DOMAIN queue -> Candidates]
  /\ \A k \in DOMAIN queue : k \in CandidateKeys /\ k.cutoff \in Issued
  /\ ledger \in Seq(LedgerEvents)

LEMMA BooksFresh == FreshMemory => Books
<1> SUFFICES ASSUME FreshMemory PROVE Books
  OBVIOUS
<1>1. ledger = <<>> /\ queue = <<>> /\ receipts = <<>> /\ snapshots = <<>> /\ directives = <<>>
  BY DEF FreshMemory
<1>2. <<>> \in Seq(LedgerEvents) /\ DOMAIN <<>> = {}
  OBVIOUS
<1>3. sched \in Schedulers /\ trigger \in BOOLEAN
  BY FreshTyped DEF FreshMemory
<1>4. queue \in [DOMAIN queue -> Candidates]
  BY <1>1, <1>2
<1> QED BY <1>1, <1>2, <1>3, <1>4, NoneListed DEF Books

LEMMA IssuedFinite ==
  ASSUME Listed(directives)
  PROVE  IsFiniteSet(Issued)
<1> DEFINE n == Len(directives)
           f == [i \in 1..n |-> directives[i].cutoff]
<1>1. n \in Nat /\ DOMAIN directives = 1..n
  BY DEF Listed
<1>2. f \in Surjection(1..n, Issued)
  BY <1>1 DEF Surjection, Issued
<1>3. IsFiniteSet(1..n)
  BY <1>1, FS_Interval
<1> HIDE DEF f, n
<1> QED BY <1>2, <1>3, FS_Surjection

\* A directive is for a snapshot, which is of a station that was answered.
LEMMA IssuedAre ==
  ASSUME Control, Lineage, Books, NEW c \in Issued
  PROVE  /\ Accepted(input) /\ turn \in 1..Len(input.schedule) /\ c \in Nat
         /\ \E k \in Answered : k \in 1..turn /\ k \in 1..Len(input.schedule) /\ c = input.schedule[k].step
         /\ DirectiveOf(c) \in ToSet(directives) /\ DirectiveOf(c).cutoff = c
         /\ SnapshotOf(c) \in ToSet(snapshots) /\ SnapshotOf(c).cutoff = c
<1>1. PICK i \in DOMAIN directives : directives[i].cutoff = c
  BY DEF Issued
<1>2. PICK j \in DOMAIN snapshots : snapshots[j].cutoff = c
  BY <1>1 DEF Books
<1>3. DirectiveOf(c) \in ToSet(directives) /\ DirectiveOf(c).cutoff = c
  BY <1>1 DEF DirectiveOf, ToSet
<1>4. SnapshotOf(c) \in ToSet(snapshots) /\ SnapshotOf(c).cutoff = c
  BY <1>2 DEF SnapshotOf, ToSet
<1>5. DOMAIN snapshots = 1..Len(snapshots)
  BY DEF Lineage, Listed
<1>6. pc \in Active \union {"published", "self_refused"}
  BY <1>2, <1>5, NoneListed DEF Control, FreshMemory
<1>7. Accepted(input) /\ turn \in 1..Len(input.schedule) /\ input \in Inputs
  BY <1>6 DEF Control
<1>8. PICK k \in Answered : Origin(snapshots[j], k)
  BY <1>2, <1>5 DEF Lineage
<1>9. k \in 1..turn /\ k \in 1..Len(input.schedule) /\ c = input.schedule[k].step
  BY <1>2, <1>7, <1>8, InputTyped DEF Answered, Origin
<1>10. c \in Nat
  BY <1>7, <1>9, InputTyped
<1> QED BY <1>3, <1>4, <1>7, <1>8, <1>9, <1>10

\* What an accepted receipt says.
LEMMA EmissionIs ==
  ASSUME Control, Lineage, Books, NEW emitted \in Emissions, EmissionAccepted(emitted)
  PROVE  /\ DOMAIN emitted \subseteq Issued
         /\ \A c \in DOMAIN emitted : emitted[c].directive = c /\ emitted[c].status \in Statuses
<1>1. PICK S \in SUBSET Issued : emitted \in [S -> UNION {PossibleReceipts(c) : c \in S}]
  BY DEF Emissions
<1> SUFFICES ASSUME NEW c \in S
             PROVE  emitted[c].directive = c /\ emitted[c].status \in Statuses
  BY <1>1 DEF EmissionAccepted
<1>2. PICK b \in S : emitted[c] \in PossibleReceipts(b)
  BY <1>1
<1>3. emitted[c].directive = b /\ emitted[c].status \in Statuses /\ emitted[c].next = b + 1
  BY <1>2 DEF PossibleReceipts, Statuses
<1>4. emitted[c].next = DirectiveOf(c).cutoff + 1
  BY <1>1 DEF EmissionAccepted, ReceiptAccepted
<1>5. DirectiveOf(c).cutoff = c /\ c \in Nat /\ b \in Nat
  BY <1>1, IssuedAre
<1> QED BY <1>3, <1>4, <1>5

LEMMA NewEventsTyped ==
  ASSUME Control, Lineage, Books, NEW emitted \in Emissions, EmissionAccepted(emitted)
  PROVE  /\ IsFiniteSet(NewReceipts(emitted)) /\ NewReceipts(emitted) \subseteq DOMAIN emitted
         /\ ReceiptEvents(emitted) \in Seq(ReceiptEventsSet)
         /\ Len(ReceiptEvents(emitted)) = Len(SetToSeq(NewReceipts(emitted)))
<1> DEFINE new == SetToSeq(NewReceipts(emitted))
<1>1. NewReceipts(emitted) \subseteq DOMAIN emitted /\ DOMAIN emitted \subseteq Issued
  BY EmissionIs DEF NewReceipts
<1>2. IsFiniteSet(NewReceipts(emitted))
  <2>1. IsFiniteSet(Issued)
    BY IssuedFinite DEF Books
  <2> QED BY <1>1, <2>1, FS_Subset
<1>3. new \in Seq(NewReceipts(emitted))
  BY <1>2, Enumerated
<1> HIDE DEF new
<1>4. ASSUME NEW i \in 1..Len(new) PROVE ReceiptEvent(emitted[new[i]]) \in ReceiptEventsSet
  <2>1. new[i] \in DOMAIN emitted /\ new[i] \in Issued
    BY <1>1, <1>3
  <2>2. emitted[new[i]].directive = new[i] /\ emitted[new[i]].status \in Statuses
    BY <2>1, EmissionIs
  <2>3. new[i] \in Nat
    BY <2>1, IssuedAre
  <2> QED BY <2>2, <2>3 DEF ReceiptEvent, ReceiptEventsSet
<1>5. ReceiptEvents(emitted) = [i \in 1..Len(new) |-> ReceiptEvent(emitted[new[i]])]
  BY <1>3 DEF ReceiptEvents, new
<1>6. Len(new) \in Nat
  BY <1>3
<1>7. ReceiptEvents(emitted) \in [1..Len(new) -> ReceiptEventsSet]
  BY <1>4, <1>5
<1>8. ReceiptEvents(emitted) \in Seq(ReceiptEventsSet) /\ Len(ReceiptEvents(emitted)) = Len(new)
  BY <1>6, <1>7
<1> QED BY <1>1, <1>2, <1>8 DEF new

LEMMA BooksIngest ==
  ASSUME Control, Lineage, Books, NEW emitted \in Emissions, IngestReceipts(emitted),
         UNCHANGED <<snapshots, directives, queue>>, sched' \in Schedulers, trigger' \in BOOLEAN
  PROVE  Books'
<1>1. DOMAIN emitted \subseteq Issued
      /\ \A c \in DOMAIN emitted : emitted[c].directive = c /\ emitted[c].status \in Statuses
  BY EmissionIs DEF IngestReceipts
<1>2. DOMAIN receipts' \subseteq Issued
      /\ \A c \in DOMAIN receipts' : receipts'[c].status \in Statuses /\ receipts'[c].directive = c
  BY <1>1 DEF IngestReceipts, Books
<1>3. ReceiptEvents(emitted) \in Seq(ReceiptEventsSet)
  BY NewEventsTyped DEF IngestReceipts
<1>4. ledger' \in Seq(LedgerEvents)
  <2>1. ReceiptEvents(emitted) \in Seq(LedgerEvents)
    BY <1>3 DEF LedgerEvents
  <2> HIDE DEF LedgerEvents
  <2> QED BY <2>1 DEF IngestReceipts, Books
<1>5. Issued' = Issued
  BY DEF Issued
<1> QED BY <1>2, <1>4, <1>5 DEF Books, Listed

LEMMA SignalsTyped ==
  ASSUME Control, pc = "pf", NEW deviances \in [1..(HereCount - DoneCount) -> Deviances]
  PROVE  Signals(deviances) \in Seq(SignalSet) /\ Len(Signals(deviances)) = HereCount - DoneCount
<1> DEFINE n == HereCount - DoneCount
<1>1. input \in Inputs /\ Accepted(input) /\ turn \in 1..Len(input.schedule)
  BY DEF Control, Active
<1>2. HereCount \in 1..Len(input.rows) /\ DoneCount \in 0..(HereCount - 1)
  BY <1>1, PrefixIs, DoneIs
<1>3. ASSUME NEW i \in 1..n PROVE Signals(deviances)[i] \in SignalSet
  <2>1. DoneCount + i \in 1..Len(input.rows)
    BY <1>2
  <2>2. Marked.rows[DoneCount + i].step \in Nat /\ Marked.rows[DoneCount + i].station \in Nat
    BY <1>1, <2>1, MarkedTyped, InputTyped
  <2>3. deviances[i] \in Nat
    BY ValuesAssumption
  <2>4. AssertsComplete(input.schedule, Marked.rows[DoneCount + i].station, Marked.rows[DoneCount + i].step)
          \in BOOLEAN
    BY DEF AssertsComplete
  <2>5. Signals(deviances)[i] =
          [step |-> Marked.rows[DoneCount + i].step, station |-> Marked.rows[DoneCount + i].station,
           deviance |-> deviances[i], bins |-> 1,
           complete |-> AssertsComplete(input.schedule, Marked.rows[DoneCount + i].station,
                                        Marked.rows[DoneCount + i].step)]
    BY DEF Signals
  <2> QED BY <2>2, <2>3, <2>4, <2>5 DEF SignalSet
<1>4. Signals(deviances) = [i \in 1..n |-> Signals(deviances)[i]] /\ n \in Nat
  BY <1>2 DEF Signals
<1>5. Signals(deviances) \in [1..n -> SignalSet]
  BY <1>3, <1>4
<1> HIDE DEF n
<1>6. Signals(deviances) \in Seq(SignalSet) /\ Len(Signals(deviances)) = n
  BY <1>4, <1>5
<1> QED BY <1>6 DEF n

LEMMA BooksReplay ==
  ASSUME Control, Lineage, Books, ReplayStation
  PROVE  Books'
<1>1. PICK deviances \in [1..(HereCount - DoneCount) -> Deviances], emitted \in Emissions :
        /\ IngestReceipts(emitted)
        /\ sched' = HeardAll(Signals(deviances))
        /\ trigger' = (sched'.core.cutoffs # sched.core.cutoffs)
  BY DEF ReplayStation
<1>2. Signals(deviances) \in Seq(SignalSet)
  BY SignalsTyped DEF ReplayStation
<1>3. sched' \in Schedulers
  BY <1>1, <1>2, HeardAllTyped DEF Books
<1>4. trigger' \in BOOLEAN
  BY <1>1
<1>5. UNCHANGED <<snapshots, directives, queue>>
  BY DEF ReplayStation
<1> QED BY <1>1, <1>3, <1>4, <1>5, BooksIngest

LEMMA BooksFinalPF ==
  ASSUME Control, Lineage, Books, FinalPF
  PROVE  Books'
<1>1. PICK emitted \in Emissions : IngestReceipts(emitted)
  BY DEF FinalPF
<1>2. UNCHANGED <<snapshots, directives, queue>> /\ sched' \in Schedulers /\ trigger' \in BOOLEAN
  BY DEF FinalPF, Books
<1> QED BY <1>1, <1>2, BooksIngest

\* The facts of a step that takes a snapshot.
FitMakes(fit, found, proposals) ==
  LET s == BuiltSnapshot(Prefix, fit, found, Previous)
      d == BuiltDirective(s, proposals)
      entered == Append(ledger, SnapshotEvent(s))
  IN  /\ FitAccepted(fit, Prefix.log.rows, Previous)
      /\ snapshots' = Append(snapshots, s)
      /\ directives' = IF proposals # {} THEN Append(directives, d) ELSE directives
      /\ queue' = IF proposals # {} THEN Register(queue, d) ELSE queue
      /\ ledger' = IF proposals # {} THEN Append(entered, DirectiveEvent(d)) ELSE entered

LEMMA FitIs ==
  ASSUME Control, Fit
  PROVE  /\ pc = "fit" /\ input \in Inputs /\ Accepted(input) /\ turn \in 1..Len(input.schedule)
         /\ Prefix.cutoff = Here.step /\ Here.step \in Nat
         /\ Prefix.covered = StepsThrough(HereCount) /\ Prefix.covered \in Seq(Nat)
         /\ UNCHANGED <<input, disk, turn, sched, trigger, receipts, scores, plans, finals>>
         /\ pc' \in {"self_refused", AfterFit}
         /\ \E fit \in FitOutputs, found \in SUBSET Names : \E proposals \in SUBSET found :
              FitMakes(fit, found, proposals)
<1>1. pc = "fit" /\ input \in Inputs /\ Accepted(input) /\ turn \in 1..Len(input.schedule)
  BY DEF Fit, Control, Active
<1>2. Prefix.cutoff = Here.step /\ Prefix.covered = StepsThrough(HereCount)
      /\ HereCount \in 1..Len(input.rows)
  BY <1>1, PrefixIs
<1>3. Here.step \in Nat
  BY <1>1, InputTyped DEF Here
<1>4. StepsThrough(HereCount) \in Seq(Nat)
  <2>1. SubSeq(input.rows, 1, HereCount) = [i \in 1..HereCount |-> input.rows[i]] /\ HereCount \in Nat
    BY <1>1, <1>2, InputTyped
  <2>2. StepsThrough(HereCount) = [i \in 1..HereCount |-> input.rows[i].step]
    BY <2>1 DEF StepsThrough, Column
  <2>3. \A i \in 1..HereCount : input.rows[i].step \in Nat
    BY <1>1, <1>2, InputTyped
  <2>4. StepsThrough(HereCount) \in [1..HereCount -> Nat]
    BY <2>2, <2>3
  <2> QED BY <2>1, <2>4
<1>5. UNCHANGED <<input, disk, turn, sched, trigger, receipts, scores, plans, finals>>
      /\ pc' \in {"self_refused", AfterFit}
  BY DEF Fit
<1>6. \E fit \in FitOutputs, found \in SUBSET Names : \E proposals \in SUBSET found :
        FitMakes(fit, found, proposals)
  BY ZenonT(40) DEF Fit, FitMakes
<1> QED BY <1>1, <1>2, <1>3, <1>4, <1>5, <1>6

LEMMA BooksFit ==
  ASSUME Control, Lineage, Books, Fit
  PROVE  Books'
<1>0. PICK fit \in FitOutputs, found \in SUBSET Names :
        \E proposals \in SUBSET found : FitMakes(fit, found, proposals)
  BY FitIs, Zenon
<1>1. PICK proposals \in SUBSET found : FitMakes(fit, found, proposals)
  BY <1>0, Zenon
<1> DEFINE s == BuiltSnapshot(Prefix, fit, found, Previous)
           d == BuiltDirective(s, proposals)
           entered == Append(ledger, SnapshotEvent(s))
           n == Len(snapshots)
           m == Len(directives)
<1>2. s.clusters = found /\ s.cutoff = Here.step /\ s.covered \in Seq(Nat) /\ Here.step \in Nat
  BY FitIs DEF BuiltSnapshot
<1>3. d.cutoff = Here.step /\ d.proposals = proposals /\ proposals \subseteq Names
  BY <1>2 DEF BuiltDirective
<1>4. SnapshotEvent(s) \in LedgerEvents /\ DirectiveEvent(d) \in LedgerEvents
  BY <1>2, <1>3 DEF SnapshotEvent, DirectiveEvent, LedgerEvents, SnapshotEvents, DirectiveEvents
<1> HIDE DEF s, d
<1>5. /\ snapshots' = Append(snapshots, s)
      /\ directives' = IF proposals # {} THEN Append(directives, d) ELSE directives
      /\ queue' = IF proposals # {} THEN Register(queue, d) ELSE queue
      /\ ledger' = IF proposals # {} THEN Append(entered, DirectiveEvent(d)) ELSE entered
  BY <1>1 DEF FitMakes, s, d
<1>6. ledger' \in Seq(LedgerEvents)
  BY <1>4, <1>5 DEF Books
<1>7. /\ n \in Nat /\ DOMAIN snapshots = 1..n /\ DOMAIN snapshots' = 1..(n + 1)
      /\ snapshots'[n + 1] = s /\ \A i \in 1..n : snapshots'[i] = snapshots[i]
  <2>1. Listed(snapshots)
    BY DEF Lineage
  <2>2. Listed(Append(snapshots, s)) /\ Len(Append(snapshots, s)) = n + 1
    BY <2>1, Appended
  <2>3. DOMAIN Append(snapshots, s) = 1..(n + 1)
    BY <2>2 DEF Listed
  <2> QED BY <1>5, <2>1, <2>3, Appended
<1>8. \A i \in DOMAIN snapshots' : snapshots'[i].clusters \subseteq Names
  BY <1>2, <1>7 DEF Books
<1>9. CASE proposals = {}
  <2>1. directives' = directives /\ queue' = queue /\ Issued' = Issued
    BY <1>5, <1>9 DEF Issued
  <2>2. UNCHANGED <<sched, trigger, receipts>>
    BY FitIs
  <2>3. \A i \in DOMAIN directives : \E j \in DOMAIN snapshots' : snapshots'[j].cutoff = directives[i].cutoff
    BY <1>7 DEF Books
  <2> QED BY <1>6, <1>8, <2>1, <2>2, <2>3 DEF Books, Listed
<1>10. CASE proposals # {}
  <2>1. /\ m \in Nat /\ DOMAIN directives = 1..m /\ DOMAIN directives' = 1..(m + 1) /\ Listed(directives')
        /\ directives'[m + 1] = d /\ \A i \in 1..m : directives'[i] = directives[i]
    <3>1. Listed(directives)
      BY DEF Books
    <3>2. Listed(Append(directives, d)) /\ Len(Append(directives, d)) = m + 1
      BY <3>1, Appended
    <3>3. DOMAIN Append(directives, d) = 1..(m + 1)
      BY <3>2 DEF Listed
    <3>4. directives' = Append(directives, d)
      BY <1>5, <1>10
    <3> QED BY <3>1, <3>2, <3>3, <3>4, Appended
  <2>2. \A i \in DOMAIN directives' :
          /\ directives'[i].proposals \subseteq Names
          /\ \E j \in DOMAIN snapshots' : snapshots'[j].cutoff = directives'[i].cutoff
    <3> SUFFICES ASSUME NEW i \in 1..(m + 1)
                 PROVE  /\ directives'[i].proposals \subseteq Names
                        /\ \E j \in 1..(n + 1) : snapshots'[j].cutoff = directives'[i].cutoff
      BY <1>7, <2>1
    <3>1. CASE i = m + 1
      BY <1>2, <1>3, <1>7, <2>1, <3>1
    <3>2. CASE i \in 1..m
      BY <1>7, <2>1, <3>2 DEF Books
    <3> QED BY <2>1, <3>1, <3>2
  <2>3. Issued' = Issued \union {d.cutoff}
    BY <2>1 DEF Issued
  <2>4. queue' = [k \in DOMAIN queue \union Keys(d) |-> IF k \in Keys(d) THEN NewCandidate ELSE queue[k]]
    BY <1>5, <1>10 DEF Register
  <2>5. NewCandidate \in Candidates
    BY DEF NewCandidate, Candidates, Verdicts
  <2>6. queue' \in [DOMAIN queue' -> Candidates]
    BY <2>4, <2>5 DEF Books
  <2>7. \A k \in DOMAIN queue' : k \in CandidateKeys /\ k.cutoff \in Issued'
    <3>1. \A k \in Keys(d) : k \in CandidateKeys /\ k.cutoff = d.cutoff
      BY <1>2, <1>3 DEF Keys, CandidateKeys
    <3> QED BY <2>3, <2>4, <3>1 DEF Books
  <2>8. UNCHANGED <<sched, trigger, receipts>>
    BY FitIs
  <2> QED BY <1>6, <1>8, <2>1, <2>2, <2>3, <2>6, <2>7, <2>8 DEF Books
<1> QED BY <1>9, <1>10

-----------------------------------------------------------------------------
(* What consuming an artifact leaves as it was *)

\* A row of the artifact for its candidate n leads from a member of G to one.
NameStays(D, a, n, G) ==
  \A u \in Uses(D), i \in 1..Len(a.steps) : u \in G => Row(u, KeyOf(a, n), a, i) \in G

StaysIn(D, a, G) == \A n \in Proposed(D, a) : NameStays(D, a, n, G)

LEMMA CandidateStays ==
  ASSUME NEW D, NEW use \in Uses(D), NEW a, ArtifactTyped(a), NEW n \in Proposed(D, a),
         NEW G, use \in G, NameStays(D, a, n, G)
  PROVE  ConsumeCandidate(use, KeyOf(a, n), a) \in G
<1>1. n \in DOMAIN a.ratios /\ KeyOf(a, n) \in D
  BY DEF Proposed
<1>2. PICK f : RowsBy(D, use, KeyOf(a, n), a, f)
  BY <1>1, RowsFold, Zenon
<1> DEFINE m == Len(a.steps)
           H == {i \in 0..m : f[i] \in G}
<1>3. m \in Nat
  BY DEF ArtifactTyped
<1>4. 0 \in H
  BY <1>2, <1>3 DEF RowsBy
<1>5. ASSUME NEW i \in 1..m, i - 1 \in H PROVE i \in H
  <2>1. f[i - 1] \in Uses(D) /\ f[i - 1] \in G /\ i \in 0..m
    BY <1>2, <1>5 DEF RowsBy
  <2>2. f[i] = Row(f[i - 1], KeyOf(a, n), a, i)
    BY <1>2 DEF RowsBy
  <2> QED BY <2>1, <2>2 DEF NameStays
<1>6. Climbs(m, H)
  <2> HIDE DEF H
  <2> QED BY <1>4, <1>5 DEF Climbs
<1>7. m \in H
  <2> HIDE DEF H, m
  <2>1. \A i \in 0..m : i \in H
    BY <1>3, <1>6, Climb, Zenon
  <2> QED BY <1>3, <2>1
<1> QED BY <1>2, <1>7 DEF RowsBy

LEMMA NamesOf ==
  ASSUME NEW D, NEW a, ArtifactTyped(a)
  PROVE  /\ SetToSeq(Proposed(D, a)) \in Seq(Proposed(D, a))
         /\ Len(SetToSeq(Proposed(D, a))) \in Nat
         /\ \A n \in Proposed(D, a) :
              \E i \in 1..Len(SetToSeq(Proposed(D, a))) : SetToSeq(Proposed(D, a))[i] = n
         /\ \A i, j \in 1..Len(SetToSeq(Proposed(D, a))) :
              SetToSeq(Proposed(D, a))[i] = SetToSeq(Proposed(D, a))[j] => i = j
<1>1. IsFiniteSet(Proposed(D, a))
  BY ValuesAssumption, FS_Subset DEF Proposed, ArtifactTyped
<1> QED BY <1>1, Enumerated

LEMMA ConsumeStays ==
  ASSUME NEW D, NEW use \in Uses(D), NEW a, ArtifactTyped(a),
         NEW G, use \in G, StaysIn(D, a, G)
  PROVE  Consume(use, a) \in G
<1> DEFINE names == SetToSeq(Proposed(D, a))
           m == Len(names)
<1>1. PICK f : CandidatesBy(D, use, a, f)
  BY CandidatesFold, Zenon
<1> DEFINE H == {i \in 0..m : f[i] \in G}
<1>2. m \in Nat /\ names \in Seq(Proposed(D, a))
  BY NamesOf
<1>3. /\ f \in [0..m -> Uses(D)] /\ f[0] = use
      /\ \A i \in 1..m : f[i] = ConsumeCandidate(f[i - 1], KeyOf(a, names[i]), a)
      /\ Consume(use, a) = f[m]
  BY <1>1 DEF CandidatesBy
<1> HIDE DEF names
<1>4. 0 \in H
  BY <1>2, <1>3
<1>5. ASSUME NEW i \in 1..m, i - 1 \in H PROVE i \in H
  <2>1. f[i - 1] \in Uses(D) /\ f[i - 1] \in G /\ i \in 0..m /\ names[i] \in Proposed(D, a)
    BY <1>2, <1>3, <1>5
  <2>2. NameStays(D, a, names[i], G)
    BY <2>1 DEF StaysIn
  <2>3. ConsumeCandidate(f[i - 1], KeyOf(a, names[i]), a) \in G
    BY <2>1, <2>2, CandidateStays
  <2> QED BY <1>3, <2>1, <2>3
<1>6. Climbs(m, H)
  <2> HIDE DEF H
  <2> QED BY <1>4, <1>5 DEF Climbs
<1>7. m \in H
  <2> HIDE DEF H, m
  <2>1. \A i \in 0..m : i \in H
    BY <1>2, <1>6, Climb, Zenon
  <2> QED BY <1>2, <2>1
<1> QED BY <1>3, <1>7

\* A row for one candidate leaves the others alone.
LEMMA RowElsewhere ==
  ASSUME NEW D, NEW u \in Uses(D), NEW k, NEW a, NEW i, NEW other \in D, other # k
  PROVE  Row(u, k, a, i).queue[other] = u.queue[other]
<1>1. u.queue \in [D -> Candidates]
  BY DEF Uses
<1>2. Corroborate(u.queue, k, a.steps[i], a.ratios[k.name][i])[other] = u.queue[other]
  BY <1>1 DEF Corroborate
<1>3. Used(u, k, a, i).queue = Corroborate(u.queue, k, a.steps[i], a.ratios[k.name][i])
  BY DEF Used
<1> QED BY <1>2, <1>3 DEF Row

\* The books in which k is v.
With(D, k, v) == {u \in Uses(D) : u.queue[k] = v}

\* An artifact's rows for one candidate leave the others alone.
LEMMA ElsewhereStays ==
  ASSUME NEW D, NEW a, ArtifactTyped(a), NEW n \in Proposed(D, a), NEW k \in D, k # KeyOf(a, n), NEW v
  PROVE  NameStays(D, a, n, With(D, k, v))
<1> SUFFICES ASSUME NEW u \in Uses(D), NEW i \in 1..Len(a.steps), u \in With(D, k, v)
             PROVE  Row(u, KeyOf(a, n), a, i) \in With(D, k, v)
  BY DEF NameStays
<1>1. n \in DOMAIN a.ratios /\ KeyOf(a, n) \in D
  BY DEF Proposed
<1>2. Row(u, KeyOf(a, n), a, i) \in Uses(D)
  BY <1>1, RowTyped
<1>3. Row(u, KeyOf(a, n), a, i).queue[k] = u.queue[k]
  BY <1>1, RowElsewhere
<1> QED BY <1>2, <1>3 DEF With

LEMMA CandidateElsewhere ==
  ASSUME NEW D, NEW use \in Uses(D), NEW a, ArtifactTyped(a), NEW n \in Proposed(D, a),
         NEW k \in D, k # KeyOf(a, n)
  PROVE  ConsumeCandidate(use, KeyOf(a, n), a).queue[k] = use.queue[k]
<1> DEFINE G == With(D, k, use.queue[k])
<1>1. NameStays(D, a, n, G)
  BY ElsewhereStays, Zenon
<1>2. use \in G
  BY DEF With
<1>3. ConsumeCandidate(use, KeyOf(a, n), a) \in G
  <2> HIDE DEF G
  <2> QED BY <1>1, <1>2, CandidateStays
<1> QED BY <1>3 DEF With

\* An artifact leaves the candidates of other snapshots alone.
LEMMA ConsumeElsewhere ==
  ASSUME NEW D, NEW use \in Uses(D), NEW a, ArtifactTyped(a), NEW k \in D, k.cutoff # a.snapshot
  PROVE  Consume(use, a).queue[k] = use.queue[k]
<1> DEFINE G == With(D, k, use.queue[k])
<1>1. StaysIn(D, a, G)
  <2> SUFFICES ASSUME NEW n \in Proposed(D, a) PROVE NameStays(D, a, n, G)
    BY DEF StaysIn
  <2>1. k # KeyOf(a, n)
    BY DEF KeyOf
  <2> QED BY <2>1, ElsewhereStays, Zenon
<1>2. use \in G
  BY DEF With
<1>3. Consume(use, a) \in G
  <2> HIDE DEF G
  <2> QED BY <1>1, <1>2, ConsumeStays, Zenon
<1> QED BY <1>3 DEF With

-----------------------------------------------------------------------------
(* Scores *)

LEMMA RecordedTyped ==
  ASSUME Books, NEW k, NEW step
  PROVE  Recorded(k, step) \in Int
<1> DEFINE uses == {e \in Events(ledger, "corroboration", k.cutoff) : e.name = k.name /\ e.step = step}
<1>1. \A e \in uses : e.ratio \in Int
  <2> SUFFICES ASSUME NEW e \in Events(ledger, "corroboration", k.cutoff) PROVE e.ratio \in Int
    OBVIOUS
  <2>1. PICK i \in DOMAIN ledger : e = ledger[i] /\ ledger[i].type = "corroboration"
    BY DEF Events
  <2>2. e \in LedgerEvents
    BY <2>1 DEF Books
  <2>3. e \in UseEvents
    BY <2>1, <2>2 DEF LedgerEvents, SnapshotEvents, DirectiveEvents, ReceiptEventsSet
  <2> QED BY <2>3 DEF UseEvents
<1>2. Recorded(k, step) = IF uses = {} THEN 0 ELSE (CHOOSE e \in uses : TRUE).ratio
  BY DEF Recorded
<1>3. uses # {} => (CHOOSE e \in uses : TRUE) \in uses
  OBVIOUS
<1> HIDE DEF uses
<1> QED BY <1>1, <1>2, <1>3

\* A score that was accepted has the rows after its snapshot.
LEMMA ArtifactIs ==
  ASSUME Control, Lineage, Books, pc = "score", NEW c \in ScoreableSnapshots,
         NEW w \in Windows(c), NEW a \in Artifacts(c, w),
         ScoreAccepted(a, SnapshotOf(c), Prefix.log.rows)
  PROVE  /\ ArtifactTyped(a) /\ a.snapshot = c /\ a.through = Here.step
         /\ \E j \in 1..turn :
              /\ j < turn /\ j \in 1..Len(input.schedule) /\ c = input.schedule[j].step
              /\ EndAt(j) \in 1..HereCount
              /\ a.steps = After(EndAt(j), HereCount) /\ Len(a.steps) = HereCount - EndAt(j)
<1>1. PICK k \in DOMAIN queue : k.cutoff = c /\ c < Here.step /\ c \in DOMAIN receipts
  BY DEF ScoreableSnapshots, ScoreableNow, Scoreable
<1>2. c \in Issued
  BY <1>1 DEF Books
<1>3. /\ input \in Inputs /\ Accepted(input) /\ turn \in 1..Len(input.schedule) /\ c \in Nat
      /\ SnapshotOf(c) \in ToSet(snapshots) /\ SnapshotOf(c).cutoff = c
      /\ \E j \in 1..turn : j \in 1..Len(input.schedule) /\ c = input.schedule[j].step
  BY <1>2, IssuedAre DEF Control
<1>4. PICK j \in 1..turn : j \in 1..Len(input.schedule) /\ c = input.schedule[j].step
  BY <1>3
<1>5. j < turn
  BY <1>1, <1>3, <1>4, InputTyped DEF Here
<1> DEFINE later == LaterRows(Prefix.log.rows, c)
           m == HereCount - EndAt(j)
<1>6. /\ EndAt(j) \in 1..HereCount /\ HereCount \in 1..Len(input.rows)
      /\ later = [i \in 1..m |-> Marked.rows[EndAt(j) + i]]
      /\ Column(later, "step") = After(EndAt(j), HereCount)
  BY <1>3, <1>4, WindowIs
<1>7. /\ a.steps = Column(later, "step") /\ a.stations = Column(later, "station")
      /\ DOMAIN a.ratios = SnapshotOf(c).clusters /\ a.snapshot = c
  BY <1>3 DEF ScoreAccepted
<1> HIDE DEF later
<1>8. m \in Nat /\ \A i \in 1..m : EndAt(j) + i \in 1..Len(input.rows)
  BY <1>6
<1>9. a.steps \in Seq(Nat) /\ Len(a.steps) = m /\ a.steps = After(EndAt(j), HereCount)
  <2>1. a.steps = [i \in 1..m |-> input.rows[EndAt(j) + i].step]
    BY <1>6, <1>7 DEF After
  <2>2. \A i \in 1..m : input.rows[EndAt(j) + i].step \in Nat
    BY <1>3, <1>8, InputTyped
  <2>3. a.steps \in [1..m -> Nat]
    BY <2>1, <2>2
  <2> HIDE DEF m
  <2>4. a.steps \in Seq(Nat) /\ Len(a.steps) = m
    BY <1>8, <2>3, SMTT(40)
  <2> QED BY <1>6, <1>7, <2>4
<1>10. a.stations \in Seq(Nat) /\ Len(a.stations) = m
  <2>1. a.stations = [i \in 1..m |-> Marked.rows[EndAt(j) + i].station]
    BY <1>6, <1>7 DEF Column
  <2>2. \A i \in 1..m : Marked.rows[EndAt(j) + i].station \in Nat
    BY <1>3, <1>8, InputTyped, MarkedTyped
  <2>3. a.stations \in [1..m -> Nat]
    BY <2>1, <2>2
  <2> HIDE DEF m
  <2> QED BY <1>8, <2>3
<1> DEFINE open == {k2.name : k2 \in {j2 \in ScoreableNow : j2.cutoff = c}}
           fresh == {r.step : r \in {s \in ToSet(Prefix.log.rows) :
                  \E n \in open : s.step > c /\ Recorded([cutoff |-> c, name |-> n], s.step) = 0}}
<1>11. PICK ratio \in [open -> [fresh -> Ratios]] : a = Artifact(c, w, open, fresh, ratio)
  BY DEF Artifacts
<1> HIDE DEF open, fresh, m
<1>12. a.through = Here.step /\ Here.step \in Nat
  BY <1>3, <1>11, InputTyped DEF Here, Artifact
<1>13. DOMAIN w = 1..m
  <2>1. DOMAIN a.steps = DOMAIN w
    BY <1>11 DEF Column, Artifact
  <2> QED BY <1>9, <2>1
<1>14. DOMAIN a.ratios \subseteq Names
  BY <1>3, <1>7 DEF Books, ToSet
<1>15. ASSUME NEW n \in DOMAIN a.ratios, NEW i \in 1..m PROVE a.ratios[n][i] \in Int
  <2>1. a.ratios[n][i] = IF n \in open /\ w[i].step \in fresh THEN ratio[n][w[i].step]
                         ELSE Recorded([cutoff |-> c, name |-> n], w[i].step)
    BY <1>7, <1>11, <1>13 DEF Artifact
  <2>2. Recorded([cutoff |-> c, name |-> n], w[i].step) \in Int
    BY RecordedTyped
  <2>3. n \in open /\ w[i].step \in fresh => ratio[n][w[i].step] \in Int
    BY ValuesAssumption
  <2> QED BY <2>1, <2>2, <2>3
<1>16. ArtifactTyped(a)
  BY <1>3, <1>7, <1>9, <1>10, <1>12, <1>14, <1>15 DEF ArtifactTyped
<1> QED BY <1>4, <1>5, <1>6, <1>7, <1>9, <1>12, <1>16 DEF m

\* Artifacts are of stations that were reached, and there is always one to make.
Scoring ==
  /\ Listed(scores)
  /\ \A i \in DOMAIN scores : \E j \in 1..turn :
       scores[i].through = input.schedule[j].step /\ (pc = "pf" => j < turn)
  /\ pc = "score" => Unscored(scores) # {}

NoUse == [queue |-> queue, ledger |-> ledger, refused |-> FALSE]

\* The facts of a step that scores.
ScoreMakes(c, a) ==
  LET use == Consume(NoUse, a)
  IN  /\ c \in Unscored(scores)
      /\ (\E w \in Windows(c) : a \in Artifacts(c, w)) /\ ScoreAccepted(a, SnapshotOf(c), Prefix.log.rows)
      /\ scores' = Append(scores, a) /\ queue' = use.queue /\ ledger' = use.ledger
      /\ pc' = IF use.refused THEN "self_refused"
               ELSE IF Unscored(scores) = {c} THEN AfterScore(trigger)
               ELSE "score"

LEMMA ScoreIs ==
  ASSUME Control, Lineage, Books, Scoring, Score
  PROVE  /\ pc = "score" /\ input \in Inputs /\ Accepted(input) /\ turn \in 1..Len(input.schedule)
         /\ UNCHANGED <<input, disk, turn, sched, trigger, snapshots, directives, receipts, plans, finals>>
         /\ NoUse \in Uses(DOMAIN queue)
         /\ \E c, a : ScoreMakes(c, a)
<1>1. pc = "score" /\ input \in Inputs /\ Accepted(input) /\ turn \in 1..Len(input.schedule)
      /\ UNCHANGED <<input, disk, turn, sched, trigger, snapshots, directives, receipts, plans, finals>>
  BY DEF Score, Control, Active
<1>2. NoUse \in Uses(DOMAIN queue)
  BY DEF NoUse, Uses, Books
<1> DEFINE c == CHOOSE s \in Unscored(scores) : \A other \in Unscored(scores) : s <= other
<1>3. c \in Unscored(scores)
  <2>1. Unscored(scores) \subseteq Issued
    BY DEF Unscored, ScoreableSnapshots, ScoreableNow, Scoreable, Books
  <2>2. Unscored(scores) \subseteq Nat
    BY <2>1, IssuedAre
  <2>3. Unscored(scores) # {}
    BY <1>1 DEF Scoring
  <2>4. \E s \in Unscored(scores) : \A other \in Unscored(scores) : s <= other
    BY <2>2, <2>3, Least
  <2> QED BY <2>4
<1>4. \E a : ScoreMakes(c, a)
  <2>1. PICK w \in Windows(c) : \E a \in Artifacts(c, w) :
          LET use == Consume([queue |-> queue, ledger |-> ledger, refused |-> FALSE], a)
          IN  /\ ScoreAccepted(a, SnapshotOf(c), Prefix.log.rows)
              /\ scores' = Append(scores, a)
              /\ queue' = use.queue
              /\ ledger' = use.ledger
              /\ pc' = IF use.refused THEN "self_refused"
                       ELSE IF Unscored(scores) = {c} THEN AfterScore(trigger)
                       ELSE "score"
    BY DEF Score
  <2>2. PICK a \in Artifacts(c, w) :
          LET use == Consume([queue |-> queue, ledger |-> ledger, refused |-> FALSE], a)
          IN  /\ ScoreAccepted(a, SnapshotOf(c), Prefix.log.rows)
              /\ scores' = Append(scores, a)
              /\ queue' = use.queue
              /\ ledger' = use.ledger
              /\ pc' = IF use.refused THEN "self_refused"
                       ELSE IF Unscored(scores) = {c} THEN AfterScore(trigger)
                       ELSE "score"
    BY <2>1
  <2> HIDE DEF c
  <2> QED BY <1>3, <2>2 DEF ScoreMakes, NoUse
<1> QED BY <1>1, <1>2, <1>4

LEMMA BooksScore ==
  ASSUME Control, Lineage, Books, Scoring, Score
  PROVE  Books'
<1>1. PICK c, a : ScoreMakes(c, a)
  BY ScoreIs, Zenon
<1>2. c \in ScoreableSnapshots
  BY <1>1 DEF ScoreMakes, Unscored
<1>3. ArtifactTyped(a)
  BY <1>1, <1>2, ArtifactIs, ScoreIs DEF ScoreMakes
<1>4. Consume(NoUse, a) \in Uses(DOMAIN queue)
  BY <1>3, ScoreIs, ConsumeTyped
<1>5. queue' \in [DOMAIN queue -> Candidates] /\ ledger' \in Seq(LedgerEvents)
  BY <1>1, <1>4 DEF ScoreMakes, Uses
<1>6. UNCHANGED <<sched, trigger, snapshots, directives, receipts>>
  BY ScoreIs
<1>7. Issued' = Issued /\ DOMAIN queue' = DOMAIN queue
  BY <1>5, <1>6 DEF Issued
<1> QED BY <1>5, <1>6, <1>7 DEF Books, Listed

LEMMA ScoringScore ==
  ASSUME Control, Lineage, Books, Scoring, Score
  PROVE  Scoring'
<1>0. pc = "score" /\ input \in Inputs /\ Accepted(input) /\ turn \in 1..Len(input.schedule)
      /\ UNCHANGED <<input, turn, receipts>>
      /\ NoUse \in Uses(DOMAIN queue)
  BY ScoreIs
<1>1. PICK c, a : ScoreMakes(c, a)
  BY ScoreIs, Zenon
<1>2. c \in ScoreableSnapshots /\ c \in Unscored(scores)
  BY <1>1 DEF ScoreMakes, Unscored
<1>3. ArtifactTyped(a) /\ a.snapshot = c /\ a.through = Here.step
  BY <1>0, <1>1, <1>2, ArtifactIs DEF ScoreMakes
<1>4. scores' = Append(scores, a) /\ queue' = Consume(NoUse, a).queue
      /\ pc' \in {"self_refused", AfterScore(trigger), "score"}
      /\ (pc' = "score" => Unscored(scores) # {c})
  BY <1>1 DEF ScoreMakes, AfterScore, AfterFit
<1> DEFINE n == Len(scores)
<1>5. /\ n \in Nat /\ DOMAIN scores = 1..n /\ DOMAIN scores' = 1..(n + 1) /\ Listed(scores')
      /\ scores'[n + 1] = a /\ \A i \in 1..n : scores'[i] = scores[i]
  <2>1. Listed(scores)
    BY DEF Scoring
  <2>2. Listed(Append(scores, a)) /\ Len(Append(scores, a)) = n + 1
    BY <2>1, Appended
  <2>3. DOMAIN Append(scores, a) = 1..(n + 1)
    BY <2>2 DEF Listed
  <2> QED BY <1>4, <2>1, <2>2, <2>3, Appended
<1>6. pc' # "pf" /\ Here' = Here
  BY <1>0, <1>4 DEF AfterScore, AfterFit, Here
<1>7. ASSUME NEW i \in DOMAIN scores'
      PROVE  \E j \in 1..turn : scores'[i].through = input.schedule[j].step
  <2>1. CASE i = n + 1
    BY <1>0, <1>3, <1>5, <2>1, InputTyped DEF Here
  <2>2. CASE i \in 1..n
    BY <1>5, <2>2 DEF Scoring
  <2> QED BY <1>5, <2>1, <2>2
<1>8. ASSUME pc' = "score" PROVE Unscored(scores)' # {}
  <2>1. PICK other \in Unscored(scores) : other # c
    BY <1>2, <1>4, <1>8
  <2>2. PICK k \in ScoreableNow : k.cutoff = other
    BY <2>1 DEF Unscored, ScoreableSnapshots
  <2>3. k \in DOMAIN queue /\ k.cutoff # a.snapshot
    BY <1>3, <2>1, <2>2 DEF ScoreableNow, Scoreable
  <2>4. Consume(NoUse, a).queue[k] = NoUse.queue[k]
    BY <1>0, <1>3, <2>3, ConsumeElsewhere
  <2>5. queue'[k] = queue[k]
    BY <1>4, <2>4 DEF NoUse
  <2>6. Consume(NoUse, a) \in Uses(DOMAIN queue)
    BY <1>0, <1>3, ConsumeTyped
  <2>7. DOMAIN queue' = DOMAIN queue
    BY <1>4, <2>6 DEF Uses
  <2>8. k \in ScoreableNow'
    BY <1>0, <1>6, <2>2, <2>5, <2>7 DEF ScoreableNow, Scoreable
  <2>9. other \in ScoreableSnapshots'
    BY <2>2, <2>8 DEF ScoreableSnapshots
  <2>10. other \notin {b.snapshot : b \in {e \in ToSet(scores') : e.through = Here.step}}
    <3> SUFFICES ASSUME NEW i \in DOMAIN scores', scores'[i].through = Here.step, scores'[i].snapshot = other
                 PROVE  FALSE
      BY DEF ToSet
    <3>1. i \in 1..n
      BY <1>3, <1>5, <2>1
    <3>2. scores[i] \in ToSet(scores) /\ scores[i].through = Here.step /\ scores[i].snapshot = other
      BY <1>5, <3>1 DEF ToSet
    <3> QED BY <2>1, <3>2 DEF Unscored
  <2> QED BY <1>6, <2>9, <2>10 DEF Unscored
<1> QED BY <1>0, <1>5, <1>6, <1>7, <1>8 DEF Scoring

\* When the loop comes to a station, nothing was scored there.
LEMMA NoneScored ==
  ASSUME Control, Scoring, pc = "pf", NEW i \in DOMAIN scores
  PROVE  scores[i].through # Here.step
<1>0. input \in Inputs /\ Accepted(input) /\ turn \in 1..Len(input.schedule)
  BY DEF Control, Active
<1>1. PICK j \in 1..turn : scores[i].through = input.schedule[j].step /\ j < turn
  BY <1>0 DEF Scoring
<1>2. j \in 1..Len(input.schedule)
  BY <1>0, <1>1, InputTyped
<1>3. input.schedule[j].step < input.schedule[turn].step /\ input.schedule[j].step \in Nat
        /\ input.schedule[turn].step \in Nat
  BY <1>0, <1>1, <1>2, InputTyped
<1> QED BY <1>1, <1>3 DEF Here

LEMMA ScoringReplay ==
  ASSUME Control, Lineage, Books, Scoring, ReplayStation
  PROVE  Scoring'
<1>0. pc = "pf" /\ input \in Inputs /\ Accepted(input) /\ turn \in 1..Len(input.schedule)
      /\ UNCHANGED <<input, turn, scores, queue>>
  BY DEF ReplayStation, Control, Active
<1>1. /\ trigger' \in BOOLEAN
      /\ pc' = "self_refused" \/ pc' = AfterPF(trigger', Scoreable(queue, receipts'))
  BY DEF ReplayStation
<1>2. pc' # "pf" /\ (pc' = "score" => Scoreable(queue, receipts') # {})
  BY <1>1, StageAfter DEF AfterPF, AfterScore, AfterFit
<1>3. Here' = Here
  BY <1>0 DEF Here
<1>4. ASSUME NEW i \in DOMAIN scores PROVE scores[i].through # Here.step
  BY <1>0, NoneScored
<1>5. ASSUME pc' = "score" PROVE Unscored(scores)' # {}
  <2>1. ScoreableNow' # {}
    BY <1>0, <1>2, <1>3, <1>5 DEF ScoreableNow, Scoreable
  <2>2. ScoreableSnapshots' # {}
    BY <2>1 DEF ScoreableSnapshots
  <2>3. {b \in ToSet(scores') : b.through = Here'.step} = {}
    BY <1>0, <1>3, <1>4 DEF ToSet
  <2> QED BY <2>2, <2>3 DEF Unscored
<1>6. \A i \in DOMAIN scores : \E j \in 1..turn : scores[i].through = input.schedule[j].step
  BY DEF Scoring
<1> QED BY <1>0, <1>2, <1>5, <1>6 DEF Scoring, Listed

LEMMA ScoringNext == Control /\ Lineage /\ Books /\ Scoring /\ [Next]_vars => Books' /\ Scoring'
<1> SUFFICES ASSUME Control, Lineage, Books, Scoring, [Next]_vars PROVE Books' /\ Scoring'
  OBVIOUS
<1> USE DEF Active
<1>1. ASSUME FreshMemory', pc' # "score" PROVE Books' /\ Scoring'
  <2>1. Books'
    BY <1>1, BooksFresh, PTL
  <2>2. scores' = <<>>
    BY <1>1 DEF FreshMemory
  <2> QED BY <1>1, <2>1, <2>2, NoneListed DEF Scoring
<1>2. ASSUME UNCHANGED <<input, sched, trigger, snapshots, directives, receipts, queue, ledger, scores>>
      PROVE  Books'
  BY <1>2 DEF Books, Listed, Issued
<1>3. ASSUME UNCHANGED <<input, turn, scores>>, pc' # "score", pc' = "pf" => pc = "pf"
      PROVE  Scoring'
  BY <1>3 DEF Scoring, Listed
<1>4. CASE StartRefused
  BY <1>2, <1>3, <1>4 DEF StartRefused, memory, collected
<1>5. CASE Start
  <2>1. FreshMemory' /\ pc' \in {"pf", "discarded"}
    BY <1>5 DEF Start, Control, FreshMemory, memory, collected
  <2> QED BY <1>1, <2>1
<1>6. CASE ReplayStation
  BY <1>6, BooksReplay, ScoringReplay
<1>7. CASE Score
  BY <1>7, BooksScore, ScoringScore
<1>8. CASE Fit
  <2>1. UNCHANGED <<input, turn, scores>> /\ pc' \in {"self_refused", AfterFit}
    BY <1>8 DEF Fit
  <2> QED BY <1>3, <1>8, <2>1, BooksFit DEF AfterFit
<1>9. CASE Plan
  BY <1>2, <1>3, <1>9 DEF Plan
<1>10. CASE NextStation
  <2>1. pc = "next" /\ UNCHANGED <<input, sched, trigger, collected>>
        /\ pc' \in {"pf", "final_pf"} /\ (pc' = "pf" => turn' = turn + 1) /\ (pc' # "pf" => turn' = turn)
    BY <1>10 DEF NextStation
  <2>2. turn \in Nat
    BY <2>1, InputTyped DEF Control
  <2>3. ASSUME NEW i \in DOMAIN scores
        PROVE  \E j \in 1..turn' : scores[i].through = input.schedule[j].step /\ (pc' = "pf" => j < turn')
    <3>1. PICK j \in 1..turn : scores[i].through = input.schedule[j].step
      BY DEF Scoring
    <3> QED BY <2>1, <2>2, <3>1
  <2>4. Scoring'
    BY <2>1, <2>3 DEF Scoring, Listed, collected
  <2> QED BY <1>2, <2>1, <2>4 DEF collected
<1>11. CASE FinalPF
  <2>1. UNCHANGED <<input, turn, scores>> /\ pc' \in {"self_refused", "final_fits"}
    BY <1>11 DEF FinalPF
  <2> QED BY <1>3, <1>11, <2>1, BooksFinalPF
<1>12. CASE FinalFits
  BY <1>2, <1>3, <1>12 DEF FinalFits, collected
<1>13. CASE Publish
  <2>1. UNCHANGED <<input, memory>> /\ pc' \in {"self_refused", "published"}
    BY <1>13 DEF Publish
  <2> QED BY <1>2, <1>3, <2>1 DEF memory, collected
<1>14. CASE Discard \/ Kill \/ Rerun
  <2>1. FreshMemory' /\ pc' \in {"discarded", "killed", "idle"}
    BY <1>14 DEF Discard, Kill, Rerun, Forget, FreshMemory
  <2> QED BY <1>1, <2>1
<1>15. CASE UNCHANGED vars
  <2>1. Scoring'
    BY <1>15 DEF vars, memory, collected, Scoring, Listed, Unscored, ScoreableSnapshots, ScoreableNow,
                 Scoreable, Here
  <2> QED BY <1>2, <1>15, <2>1 DEF vars, memory, collected
<1> QED BY <1>4, <1>5, <1>6, <1>7, <1>8, <1>9, <1>10, <1>11, <1>12, <1>13, <1>14, <1>15 DEF Next

\* The four parts together are inductive.
LEMMA BooksInvariance == Spec => [](Control /\ Lineage /\ Books /\ Scoring)
<1>1. Init => FreshMemory /\ pc = "idle"
  BY DEF Init
<1>2. Init => Scoring
  BY <1>1, NoneListed DEF FreshMemory, Scoring
<1>3. Init => Books
  BY <1>1, BooksFresh
<1> QED BY <1>2, <1>3, ScoringNext, ControlInvariance, LineageInvariance, PTL DEF Spec

DiskTyped == disk \in [staging : BOOLEAN, target : BOOLEAN]

LEMMA DiskInvariance == Spec => []DiskTyped
<1>1. Init => DiskTyped
  BY DEF Init, DiskTyped
<1>2. DiskTyped /\ [Next]_vars => DiskTyped'
  <2> SUFFICES ASSUME DiskTyped, [Next]_vars PROVE DiskTyped'
    OBVIOUS
  <2>1. Accepted(input) \in BOOLEAN
    BY DEF Accepted, Configured, BoundariesAccepted, ScheduleCreated
  <2>2. ASSUME NEW b \in BOOLEAN, disk' = [disk EXCEPT !.staging = b] PROVE DiskTyped'
    BY <2>2 DEF DiskTyped
  <2>3. CASE Start
    BY <2>1, <2>2, <2>3 DEF Start
  <2>4. CASE Discard
    BY <2>2, <2>4 DEF Discard
  <2>5. CASE Publish
    <3>1. disk' = disk \/ disk' = [staging |-> FALSE, target |-> TRUE]
      BY <2>5 DEF Publish
    <3>2. [staging |-> FALSE, target |-> TRUE] \in [staging : BOOLEAN, target : BOOLEAN]
      OBVIOUS
    <3> QED BY <3>1, <3>2, Zenon DEF DiskTyped
  <2>6. ASSUME UNCHANGED disk PROVE DiskTyped'
    BY <2>6 DEF DiskTyped
  <2>7. CASE StartRefused \/ ReplayStation \/ Score \/ Fit \/ Plan \/ NextStation \/ FinalPF \/ FinalFits
    BY <2>6, <2>7 DEF StartRefused, ReplayStation, Score, Fit, Plan, NextStation, FinalPF, FinalFits
  <2>8. CASE Kill \/ Rerun \/ UNCHANGED vars
    BY <2>6, <2>8 DEF Kill, Rerun, vars
  <2> QED BY <2>3, <2>4, <2>5, <2>7, <2>8 DEF Next
<1> QED BY <1>1, <1>2, PTL DEF Spec

LEMMA TypesImplied == Control /\ Lineage /\ Books /\ DiskTyped => TypeOK
<1> SUFFICES ASSUME Control, Lineage, Books, DiskTyped PROVE TypeOK
  OBVIOUS
<1>1. turn \in 1..Len(input.schedule) \union {1}
  BY DEF Control, FreshMemory
<1>2. sched.core \in Sched!SchedulerStates /\ trigger \in BOOLEAN /\ DOMAIN receipts \subseteq Issued
  BY DEF Books, Schedulers
<1>3. \A k \in DOMAIN queue : k.cutoff \in Issued /\ queue[k].state \in Verdicts
  BY DEF Books, Candidates
<1>4. Issued \subseteq {s.cutoff : s \in ToSet(snapshots)}
  <2> SUFFICES ASSUME NEW c \in Issued PROVE \E s \in ToSet(snapshots) : s.cutoff = c
    OBVIOUS
  <2> QED BY IssuedAre
<1> QED BY <1>1, <1>2, <1>3, <1>4 DEF Control, DiskTyped, TypeOK

\* Control, station and books have their types, and the books refer to what
\* exists: receipts to directives, candidates to directives, directives to
\* snapshots (controller.py:1016-1240).
THEOREM TypesHold == Spec => []TypeOK
BY BooksInvariance, DiskInvariance, TypesImplied, PTL

-----------------------------------------------------------------------------
(* Evidence *)

FinalStages == {"final_pf", "final_fits", "publish", "published"}

\* The rows that a candidate can have been judged by.
Reach == IF pc = "pf" THEN DoneCount ELSE HereCount

Applied(c) == c \in DOMAIN receipts /\ receipts[c].status = "applied"

\* The candidate has to have used every row within reach.
Due(k) ==
  /\ queue[k].state = "pending"
  /\ \/ pc \in {"pf", "fit", "plan", "next", "final_pf"} /\ Applied(k.cutoff)
     \/ pc = "score" /\ Applied(k.cutoff) /\ k.cutoff \notin Unscored(scores)
     \/ pc \in {"final_fits", "publish", "published"} /\ queue[k].steps # <<>>

\* The candidate was judged by the rows right after its station's end.
Judged(k, j) ==
  /\ k.cutoff = input.schedule[j].step
  /\ \E q \in EndAt(j)..Reach : queue[k].steps = After(EndAt(j), q) /\ (Due(k) => q = Reach)

\* The snapshots taken at a candidate's cutoff found it.
Found(k) == \A i \in DOMAIN snapshots : snapshots[i].cutoff = k.cutoff => k.name \in snapshots[i].clusters

\* A candidate with evidence was applied; its snapshot found it.
EvidenceOf(k) ==
  /\ \E j \in Answered : Judged(k, j)
  /\ queue[k].steps # <<>> => Applied(k.cutoff)
  /\ Found(k)

\* The loop is over when the final replay begins.
Evidence ==
  /\ pc \in FinalStages => turn = Len(input.schedule)
  /\ \A k \in DOMAIN queue : EvidenceOf(k)

\* One row more.
LEMMA AfterGrows ==
  ASSUME input \in Inputs, Accepted(input), NEW m \in Nat, NEW q \in m..Len(input.rows)
  PROVE  /\ After(m, q) \in Seq(Nat) /\ Len(After(m, q)) = q - m
         /\ q < Len(input.rows) => Append(After(m, q), input.rows[q + 1].step) = After(m, q + 1)
<1> DEFINE d == q - m
<1>1. Len(input.rows) \in Nat /\ d \in Nat
  BY InputTyped
<1>2. \A i \in 1..d : input.rows[m + i].step \in Nat
  <2> TAKE i \in 1..d
  <2>1. m + i \in 1..Len(input.rows)
    BY <1>1
  <2> QED BY <2>1, InputTyped
<1>3. After(m, q) \in [1..d -> Nat]
  BY <1>2 DEF After
<1>4. After(m, q) \in Seq(Nat) /\ Len(After(m, q)) = d
  <2> HIDE DEF d
  <2> QED BY <1>1, <1>3
<1>5. ASSUME q < Len(input.rows)
      PROVE  Append(After(m, q), input.rows[q + 1].step) = After(m, q + 1)
  <2>1. After(m, q + 1) = [i \in 1..(d + 1) |-> input.rows[m + i].step]
    BY <1>1 DEF After
  <2>2. Append(After(m, q), input.rows[q + 1].step)
          = [i \in 1..(d + 1) |-> IF i = d + 1 THEN input.rows[q + 1].step ELSE After(m, q)[i]]
    <3> HIDE DEF d
    <3> QED BY <1>1, <1>4
  <2>3. \A i \in 1..d : After(m, q)[i] = input.rows[m + i].step
    BY DEF After
  <2>4. m + (d + 1) = q + 1
    BY <1>1
  <2> HIDE DEF d
  <2>5. ASSUME NEW i \in 1..(d + 1)
        PROVE  (IF i = d + 1 THEN input.rows[q + 1].step ELSE After(m, q)[i]) = input.rows[m + i].step
    BY <1>1, <2>3, <2>4
  <2> QED BY <2>1, <2>2, <2>5
<1> QED BY <1>4, <1>5

\* The first i rows of a window were used for k, unless it was resolved.
Advanced(u, k, m, n, i) ==
  \E q \in m..n : u.queue[k].steps = After(m, q) /\ (u.queue[k].state = "pending" => q >= m + i)

LEMMA RowAdvances ==
  ASSUME input \in Inputs, Accepted(input),
         NEW m \in Nat, NEW n \in m..Len(input.rows),
         NEW D, NEW u \in Uses(D), NEW a, ArtifactTyped(a), a.steps = After(m, n),
         NEW name \in DOMAIN a.ratios, KeyOf(a, name) \in D,
         NEW i \in 1..(n - m), Advanced(u, KeyOf(a, name), m, n, i - 1)
  PROVE  Advanced(Row(u, KeyOf(a, name), a, i), KeyOf(a, name), m, n, i)
<1> DEFINE k == KeyOf(a, name)
           step == a.steps[i]
<1>1. PICK q \in m..n : u.queue[k].steps = After(m, q) /\ (u.queue[k].state = "pending" => q >= m + (i - 1))
  BY DEF Advanced
<1>2. q \in m..Len(input.rows) /\ Len(input.rows) \in Nat /\ step = input.rows[m + i].step
      /\ m + i \in 1..Len(input.rows)
  BY InputTyped DEF After
<1>3. After(m, q) \in Seq(Nat) /\ Len(After(m, q)) = q - m
  BY <1>2, AfterGrows
<1>4. \A l \in 1..(q - m) : After(m, q)[l] = input.rows[m + l].step /\ m + l \in 1..Len(input.rows)
  BY <1>2 DEF After
<1>5. Contains(After(m, q), step) <=> i <= q - m
  <2>1. Contains(After(m, q), step) <=> \E l \in 1..(q - m) : After(m, q)[l] = step
    BY <1>3 DEF Contains
  <2>2. ASSUME NEW l \in 1..(q - m), After(m, q)[l] = step PROVE l = i
    <3>1. input.rows[m + l].step = input.rows[m + i].step /\ m + l \in 1..Len(input.rows)
      BY <1>2, <1>4, <2>2
    <3>2. ~(m + l < m + i) /\ ~(m + i < m + l)
      <4>1. input.rows[m + i].step \in Nat
        BY <1>2, StepsRise, Zenon
      <4>2. m + l < m + i => input.rows[m + l].step < input.rows[m + i].step
        BY <1>2, <3>1, StepsRise, Zenon
      <4>3. m + i < m + l => input.rows[m + i].step < input.rows[m + l].step
        BY <1>2, <3>1, StepsRise, Zenon
      <4> QED BY <3>1, <4>1, <4>2, <4>3
    <3> QED BY <3>2
  <2>3. ASSUME i <= q - m PROVE i \in 1..(q - m) /\ After(m, q)[i] = step
    BY <1>2, <1>4, <2>3
  <2> HIDE DEF step
  <2> QED BY <2>1, <2>2, <2>3
<1> HIDE DEF k, step
<1>6. CASE u.queue[k].state # "pending" \/ Contains(u.queue[k].steps, step)
  <2>1. Row(u, k, a, i) = u
    BY <1>6 DEF Row, step
  <2>2. u.queue[k].state = "pending" => q >= m + i
    BY <1>1, <1>5, <1>6
  <2> QED BY <1>1, <2>1, <2>2 DEF Advanced, k
<1>7. CASE u.queue[k].state = "pending" /\ ~Contains(u.queue[k].steps, step)
  <2>1. Row(u, k, a, i) = Used(u, k, a, i)
    BY <1>7 DEF Row, step
  <2>2. q = m + i - 1 /\ q + 1 \in m..n /\ q < Len(input.rows)
    <3>1. ~(i <= q - m) /\ q >= m + (i - 1)
      BY <1>1, <1>5, <1>7
    <3> QED BY <1>2, <3>1, SMTT(40)
  <2>3. u.queue \in [D -> Candidates] /\ k \in D
    BY DEF Uses, k
  <2>4. Used(u, k, a, i).queue[k].steps = Append(u.queue[k].steps, step)
    BY <2>3 DEF Used, Corroborate, step
  <2>5. Append(After(m, q), step) = After(m, q + 1)
    <3>1. step = input.rows[q + 1].step
      BY <1>2, <2>2
    <3> QED BY <1>2, <2>2, <3>1, AfterGrows
  <2>6. q + 1 >= m + i
    BY <2>2
  <2> QED BY <1>1, <2>1, <2>2, <2>4, <2>5, <2>6 DEF Advanced, k
<1> QED BY <1>6, <1>7

LEMMA CandidateAdvances ==
  ASSUME input \in Inputs, Accepted(input),
         NEW m \in Nat, NEW n \in m..Len(input.rows),
         NEW D, NEW use \in Uses(D), NEW a, ArtifactTyped(a), a.steps = After(m, n),
         NEW name \in Proposed(D, a), Advanced(use, KeyOf(a, name), m, n, 0)
  PROVE  Advanced(ConsumeCandidate(use, KeyOf(a, name), a), KeyOf(a, name), m, n, n - m)
<1> DEFINE k == KeyOf(a, name)
           d == n - m
<1>1. name \in DOMAIN a.ratios /\ KeyOf(a, name) \in D
  BY DEF Proposed
<1>2. PICK f : RowsBy(D, use, k, a, f)
  BY <1>1, RowsFold, Zenon
<1>3. d \in Nat /\ Len(a.steps) = d
  BY AfterGrows, InputTyped
<1> DEFINE G == {i \in 0..d : Advanced(f[i], k, m, n, i)}
<1>4. 0 \in G
  BY <1>2, <1>3 DEF RowsBy
<1>5. ASSUME NEW i \in 1..d, i - 1 \in G PROVE i \in G
  <2>1. f[i - 1] \in Uses(D) /\ f[i] = Row(f[i - 1], k, a, i) /\ i \in 0..d
    BY <1>2, <1>3 DEF RowsBy
  <2>2. Advanced(f[i - 1], k, m, n, i - 1)
    BY <1>5
  <2>3. Advanced(Row(f[i - 1], k, a, i), k, m, n, i)
    BY <1>1, <2>1, <2>2, RowAdvances
  <2> QED BY <2>1, <2>3
<1>6. Climbs(d, G)
  <2> HIDE DEF G
  <2> QED BY <1>4, <1>5 DEF Climbs
<1>7. d \in G
  <2> HIDE DEF G, d
  <2>1. \A i \in 0..d : i \in G
    BY <1>3, <1>6, Climb, Zenon
  <2> QED BY <1>3, <2>1
<1>8. ConsumeCandidate(use, k, a) = f[d]
  BY <1>2, <1>3 DEF RowsBy
<1> QED BY <1>7, <1>8

\* An artifact with all rows of a window uses them all for its candidates.
LEMMA ConsumeAdvances ==
  ASSUME input \in Inputs, Accepted(input),
         NEW m \in Nat, NEW n \in m..Len(input.rows),
         NEW D, NEW use \in Uses(D), NEW a, ArtifactTyped(a), a.steps = After(m, n),
         NEW name \in Proposed(D, a), Advanced(use, KeyOf(a, name), m, n, 0)
  PROVE  Advanced(Consume(use, a), KeyOf(a, name), m, n, n - m)
<1> DEFINE k == KeyOf(a, name)
           names == SetToSeq(Proposed(D, a))
           l == Len(names)
<1>1. PICK f : CandidatesBy(D, use, a, f)
  BY CandidatesFold, Zenon
<1>2. l \in Nat /\ names \in Seq(Proposed(D, a)) /\ \A i, j \in 1..l : names[i] = names[j] => i = j
  BY NamesOf
<1>3. PICK p \in 1..l : names[p] = name
  BY NamesOf
<1>4. /\ f \in [0..l -> Uses(D)] /\ f[0] = use
      /\ \A i \in 1..l : f[i] = ConsumeCandidate(f[i - 1], KeyOf(a, names[i]), a)
      /\ Consume(use, a) = f[l]
  BY <1>1 DEF CandidatesBy
<1> HIDE DEF names
<1> DEFINE G == {i \in 0..l : Advanced(f[i], k, m, n, IF i < p THEN 0 ELSE n - m)}
<1>5. 0 \in G
  BY <1>2, <1>3, <1>4
<1>6. ASSUME NEW i \in 1..l, i - 1 \in G PROVE i \in G
  <2>0. i \in 0..l /\ i - 1 \in 0..l /\ names[i] \in Proposed(D, a)
    BY <1>2
  <2>1. /\ f[i - 1] \in Uses(D) /\ i \in 0..l /\ names[i] \in Proposed(D, a)
        /\ f[i] = ConsumeCandidate(f[i - 1], KeyOf(a, names[i]), a)
        /\ Advanced(f[i - 1], k, m, n, IF i - 1 < p THEN 0 ELSE n - m)
    <3>1. Advanced(f[i - 1], k, m, n, IF i - 1 < p THEN 0 ELSE n - m)
      BY <1>6
    <3> QED BY <1>4, <2>0, <3>1
  <2>2. CASE i = p
    <3>1. Advanced(f[i - 1], k, m, n, 0)
      BY <1>3, <2>1, <2>2
    <3>2. Advanced(ConsumeCandidate(f[i - 1], k, a), k, m, n, n - m)
      BY <2>1, <3>1, CandidateAdvances
    <3> QED BY <1>3, <2>1, <2>2, <3>2
  <2>3. CASE i # p
    <3>1. names[i] # name
      BY <1>2, <1>3, <2>3
    <3>2. k # KeyOf(a, names[i]) /\ k \in D
      BY <3>1 DEF KeyOf, Proposed
    <3>3. f[i].queue[k] = f[i - 1].queue[k]
      BY <2>1, <3>2, CandidateElsewhere
    <3>4. (i - 1 < p) <=> (i < p)
      BY <1>2, <1>3, <2>3
    <3> HIDE DEF k
    <3>5. Advanced(f[i], k, m, n, IF i < p THEN 0 ELSE n - m)
      BY <2>1, <3>3, <3>4 DEF Advanced
    <3> QED BY <2>1, <3>5
  <2> QED BY <2>2, <2>3
<1>7. Climbs(l, G)
  <2> HIDE DEF G
  <2> QED BY <1>5, <1>6 DEF Climbs
<1>8. l \in G
  <2> HIDE DEF G, l
  <2>1. \A i \in 0..l : i \in G
    BY <1>2, <1>7, Climb, Zenon
  <2> QED BY <1>2, <2>1
<1>9. ~(l < p)
  BY <1>2, <1>3
<1> QED BY <1>4, <1>8, <1>9

\* Where a candidate comes from, while a run is on.
LEMMA Placed ==
  ASSUME Control, Evidence, NEW k \in DOMAIN queue, pc \in Active \union {"published", "self_refused"}
  PROVE  /\ input \in Inputs /\ Accepted(input) /\ turn \in 1..Len(input.schedule)
         /\ HereCount = EndAt(turn) /\ HereCount \in 1..Len(input.rows) /\ Reach \in 0..HereCount
         /\ \E j \in Answered :
              /\ j \in 1..turn /\ j \in 1..Len(input.schedule) /\ Judged(k, j)
              /\ EndAt(j) \in 1..HereCount
              /\ pc \in {"pf", "score", "fit"} => k.cutoff < Here.step /\ j < turn
<1>1. input \in Inputs /\ Accepted(input) /\ turn \in 1..Len(input.schedule)
  BY DEF Control
<1>2. HereCount = EndAt(turn) /\ HereCount \in 1..Len(input.rows) /\ DoneCount \in 0..(HereCount - 1)
  BY <1>1, PrefixIs, DoneIs
<1>3. PICK j \in Answered : Judged(k, j)
  BY DEF Evidence, EvidenceOf
<1>4. j \in 1..turn /\ j \in 1..Len(input.schedule) /\ (pc \in {"pf", "score", "fit"} => j < turn)
  BY <1>1, <1>3, InputTyped DEF Answered
<1>5. EndAt(j) \in 1..HereCount
  <2>1. EndAt(j) \in 1..Len(input.rows)
    BY <1>1, <1>4, EndAtRow
  <2>2. j < turn => EndAt(j) < EndAt(turn)
    BY <1>1, <1>4, EndsRise
  <2> QED BY <1>1, <1>2, <1>4, <2>1, <2>2, InputTyped
<1>6. j < turn => k.cutoff < Here.step
  BY <1>1, <1>3, <1>4, InputTyped DEF Judged, Here
<1>7. Reach \in 0..HereCount
  BY <1>1, <1>2, InputTyped DEF Reach
<1> QED BY <1>1, <1>2, <1>3, <1>4, <1>5, <1>6, <1>7

\* A candidate that is left alone, in a step that brings nothing due.
LEMMA EvidenceKept ==
  ASSUME NEW k \in DOMAIN queue, EvidenceOf(k), queue'[k] = queue[k], input' = input,
         Answered \subseteq Answered', \A j \in Answered : EndAt(j) \in Int,
         Reach \in Int, Reach' \in Int, Reach <= Reach',
         Due(k)' => Due(k) /\ Reach' = Reach,
         Applied(k.cutoff) => Applied(k.cutoff)',
         Found(k) => Found(k)'
  PROVE  EvidenceOf(k)'
<1>1. PICK j \in Answered : Judged(k, j)
  BY DEF EvidenceOf
<1>2. PICK q \in EndAt(j)..Reach : queue[k].steps = After(EndAt(j), q) /\ (Due(k) => q = Reach)
  BY <1>1 DEF Judged
<1>3. EndAt(j)' = EndAt(j) /\ After(EndAt(j), q)' = After(EndAt(j), q)
  BY DEF EndAt, Count, After
<1>4. q \in EndAt(j)..Reach'
  BY <1>1, <1>2
<1>5. Judged(k, j)'
  <2>1. k.cutoff = input'.schedule[j].step
    BY <1>1 DEF Judged
  <2>2. queue'[k].steps = After(EndAt(j), q)' /\ (Due(k)' => q = Reach')
    BY <1>2, <1>3
  <2> QED BY <1>3, <1>4, <2>1, <2>2 DEF Judged
<1>6. Applied(k.cutoff)' \/ queue'[k].steps = <<>>
  BY DEF EvidenceOf
<1> QED BY <1>1, <1>5, <1>6 DEF EvidenceOf

\* Steps that leave the queue alone and stay at the station.
LEMMA EvidenceStill ==
  ASSUME Control, Evidence, UNCHANGED <<input, turn, snapshots, queue>>,
         pc \in Active \union {"published", "self_refused"}, pc' # "pf",
         pc' \in {"pf", "score", "fit"} => pc \in {"pf", "score", "fit"},
         pc' \in FinalStages => turn = Len(input.schedule),
         \A c : Applied(c) => Applied(c)',
         \A k \in DOMAIN queue : Due(k)' => Due(k) /\ Reach' = Reach
  PROVE  Evidence'
<1>1. ASSUME NEW k \in DOMAIN queue PROVE EvidenceOf(k)'
  <2>1. turn \in 1..Len(input.schedule) /\ HereCount \in 1..Len(input.rows) /\ Reach \in 0..HereCount
        /\ input \in Inputs /\ Accepted(input)
    BY Placed
  <2>2. Reach' = HereCount
    BY DEF Reach, HereCount, Count, Here
  <2>3. Reach \in Int /\ Reach' \in Int /\ Reach <= Reach'
    BY <2>1, <2>2, InputTyped
  <2>4. Answered \subseteq Answered'
    BY <2>1, InputTyped DEF Answered
  <2>5. \A j \in Answered : EndAt(j) \in Int
    <3> TAKE j \in Answered
    <3>1. j \in 1..Len(input.schedule)
      BY <2>1, InputTyped DEF Answered
    <3> QED BY <2>1, <3>1, EndAtRow, InputTyped
  <2>6. Found(k) => Found(k)'
    BY DEF Found
  <2>7. EvidenceOf(k) /\ queue'[k] = queue[k] /\ input' = input
        /\ (Due(k)' => Due(k) /\ Reach' = Reach)
        /\ (Applied(k.cutoff) => Applied(k.cutoff)')
    BY DEF Evidence
  <2> QED BY <2>3, <2>4, <2>5, <2>6, <2>7, EvidenceKept
<1> QED BY <1>1 DEF Evidence

LEMMA EvidenceReplay ==
  ASSUME Control, Lineage, Books, Scoring, Evidence, ReplayStation
  PROVE  Evidence'
<1>0. pc = "pf" /\ input \in Inputs /\ Accepted(input) /\ turn \in 1..Len(input.schedule)
      /\ UNCHANGED <<input, turn, scores, queue, snapshots>>
  BY DEF ReplayStation, Control, Active
<1>1. /\ trigger' \in BOOLEAN
      /\ pc' = "self_refused" \/ pc' = AfterPF(trigger', Scoreable(queue, receipts'))
  BY DEF ReplayStation
<1>2. /\ pc' \in {"score", "fit", "plan", "next", "self_refused"}
      /\ pc' \in {"fit", "plan", "next"} => Scoreable(queue, receipts') = {}
  BY <1>1 DEF AfterPF, AfterScore, AfterFit
<1>3. Here' = Here
  BY <1>0 DEF Here
<1>4. \A c : Applied(c) => Applied(c)'
  BY DEF ReplayStation, IngestReceipts, Applied
<1>5. ASSUME NEW k \in DOMAIN queue, Due(k)' PROVE FALSE
  <2>1. k.cutoff < Here.step
    BY <1>0, Placed DEF Active
  <2>2. queue[k].state = "pending" /\ Applied(k.cutoff)' /\ pc' # "self_refused"
        /\ (pc' = "score" => k.cutoff \notin Unscored(scores)')
    BY <1>0, <1>2, <1>5 DEF Due
  <2>3. k \in Scoreable(queue, receipts')
    BY <2>1, <2>2 DEF Scoreable, Applied
  <2>4. pc' = "score"
    BY <1>2, <2>2, <2>3
  <2>5. k \in ScoreableNow'
    BY <1>0, <1>3, <2>3 DEF ScoreableNow, Scoreable
  <2>6. k.cutoff \in ScoreableSnapshots'
    BY <2>5 DEF ScoreableSnapshots
  <2>7. \A i \in DOMAIN scores : scores[i].through # Here.step
    BY <1>0, NoneScored
  <2>8. {b \in ToSet(scores') : b.through = Here'.step} = {}
    BY <1>0, <1>3, <2>7 DEF ToSet
  <2>9. k.cutoff \in Unscored(scores)'
    BY <2>6, <2>8 DEF Unscored
  <2> QED BY <2>2, <2>4, <2>9
<1>6. pc' # "pf" /\ pc' \notin FinalStages
  BY <1>2 DEF FinalStages
<1> QED BY <1>0, <1>4, <1>5, <1>6, EvidenceStill DEF Active

LEMMA EvidenceScore ==
  ASSUME Control, Lineage, Books, Scoring, Evidence, Score
  PROVE  Evidence'
<1>0. pc = "score" /\ input \in Inputs /\ Accepted(input) /\ turn \in 1..Len(input.schedule)
      /\ UNCHANGED <<input, turn, snapshots, receipts>>
      /\ NoUse \in Uses(DOMAIN queue)
  BY ScoreIs
<1>1. PICK c, a : ScoreMakes(c, a)
  BY ScoreIs, Zenon
<1>2. c \in ScoreableSnapshots /\ c \in Unscored(scores)
  BY <1>1 DEF ScoreMakes, Unscored
<1>3. /\ ArtifactTyped(a) /\ a.snapshot = c /\ a.through = Here.step
      /\ \E j \in 1..turn :
           /\ j < turn /\ j \in 1..Len(input.schedule) /\ c = input.schedule[j].step
           /\ EndAt(j) \in 1..HereCount
           /\ a.steps = After(EndAt(j), HereCount) /\ Len(a.steps) = HereCount - EndAt(j)
  BY <1>0, <1>1, <1>2, ArtifactIs DEF ScoreMakes
<1>4. PICK e \in 1..Len(input.schedule) :
        c = input.schedule[e].step /\ a.steps = After(EndAt(e), HereCount)
  BY <1>3
<1>5. scores' = Append(scores, a) /\ queue' = Consume(NoUse, a).queue
      /\ pc' \in {"self_refused", AfterScore(trigger), "score"}
      /\ (pc' \notin {"self_refused", "score"} => Unscored(scores) = {c})
      /\ ScoreAccepted(a, SnapshotOf(c), Prefix.log.rows)
  BY <1>1 DEF ScoreMakes, AfterScore, AfterFit
<1>6. Consume(NoUse, a) \in Uses(DOMAIN queue)
  BY <1>0, <1>3, ConsumeTyped
<1>7. DOMAIN queue' = DOMAIN queue
  BY <1>5, <1>6 DEF Uses
<1>8. pc' \in {"self_refused", "score", "fit", "plan", "next"} /\ Here' = Here
      /\ Reach = HereCount /\ Reach' = HereCount
  BY <1>0, <1>5 DEF AfterScore, AfterFit, Here, Reach, HereCount, Count
<1>9. Answered \subseteq Answered'
  BY <1>0, <1>8, InputTyped DEF Answered
<1>10. HereCount \in 1..Len(input.rows) /\ Len(input.rows) \in Nat
  BY <1>0, PrefixIs, InputTyped
<1>11. \A b : Applied(b)' <=> Applied(b)
  BY <1>0 DEF Applied
<1>12. ASSUME NEW k \in DOMAIN queue, k.cutoff # c
       PROVE  EvidenceOf(k)'
  <2>1. Consume(NoUse, a).queue[k] = NoUse.queue[k]
    BY <1>0, <1>3, <1>12, ConsumeElsewhere
  <2>2. queue'[k] = queue[k]
    BY <1>5, <2>1 DEF NoUse
  <2>3. k.cutoff < Here.step
    BY <1>0, Placed DEF Active
  <2>4. ASSUME Due(k)' PROVE Due(k)
    <3>1. queue[k].state = "pending" /\ Applied(k.cutoff)
          /\ (pc' = "score" => k.cutoff \notin Unscored(scores)') /\ pc' # "self_refused"
      BY <1>8, <1>11, <2>2, <2>4 DEF Due
    <3>2. CASE pc' = "score"
      <4>1. k \in ScoreableNow'
        BY <1>0, <1>7, <1>8, <2>2, <2>3, <3>1 DEF ScoreableNow, Scoreable, Applied
      <4>2. k.cutoff \in ScoreableSnapshots'
        BY <4>1 DEF ScoreableSnapshots
      <4>3. PICK i \in DOMAIN scores' : scores'[i].through = Here.step /\ scores'[i].snapshot = k.cutoff
        BY <1>8, <3>1, <3>2, <4>2 DEF Unscored, ToSet
      <4>4. i \in DOMAIN scores /\ scores[i] = scores'[i]
        <5>1. Listed(scores)
          BY DEF Scoring
        <5>2. DOMAIN scores' = 1..(Len(scores) + 1) /\ Len(scores) \in Nat /\ DOMAIN scores = 1..Len(scores)
              /\ scores'[Len(scores) + 1] = a /\ \A l \in 1..Len(scores) : scores'[l] = scores[l]
          <6>1. Listed(Append(scores, a)) /\ Len(Append(scores, a)) = Len(scores) + 1
            BY <5>1, Appended
          <6>2. DOMAIN Append(scores, a) = 1..(Len(scores) + 1)
            BY <6>1 DEF Listed
          <6> QED BY <1>5, <5>1, <6>2, Appended
        <5>3. i # Len(scores) + 1
          BY <1>3, <1>12, <4>3, <5>2
        <5> QED BY <5>2, <5>3
      <4>5. k.cutoff \notin Unscored(scores)
        BY <4>3, <4>4 DEF Unscored, ToSet
      <4> QED BY <1>0, <3>1, <4>5 DEF Due
    <3>3. CASE pc' # "score"
      <4>1. k.cutoff \notin Unscored(scores)
        BY <1>5, <1>12, <3>1, <3>3
      <4> QED BY <1>0, <3>1, <4>1 DEF Due
    <3> QED BY <3>2, <3>3
  <2>5. Reach \in Int /\ Reach' \in Int /\ Reach <= Reach' /\ Reach' = Reach
    BY <1>8, <1>10
  <2>6. \A j \in Answered : EndAt(j) \in Int
    <3> TAKE j \in Answered
    <3>1. j \in 1..Len(input.schedule)
      BY <1>0, InputTyped DEF Answered
    <3> QED BY <1>0, <3>1, EndAtRow, InputTyped
  <2>7. Found(k) => Found(k)'
    BY <1>0 DEF Found
  <2>8. EvidenceOf(k) /\ input' = input /\ (Applied(k.cutoff) => Applied(k.cutoff)')
    BY <1>0, <1>11 DEF Evidence
  <2> QED BY <1>9, <2>2, <2>4, <2>5, <2>6, <2>7, <2>8, EvidenceKept
<1>13. ASSUME NEW k \in DOMAIN queue, k.cutoff = c
       PROVE  EvidenceOf(k)'
  <2>1. PICK j \in Answered : j \in 1..Len(input.schedule) /\ Judged(k, j) /\ EndAt(j) \in 1..HereCount
    BY <1>0, Placed DEF Active
  <2>2. a.steps = After(EndAt(j), HereCount)
    <3>1. input.schedule[j].step = input.schedule[e].step
      BY <1>4, <1>13, <2>1 DEF Judged
    <3> QED BY <1>4, <3>1 DEF EndAt
  <2> DEFINE m == EndAt(j)
             n == HereCount
  <2>3. m \in Nat /\ n \in m..Len(input.rows) /\ m \in 1..n
    BY <1>10, <2>1
  <2>4. k = KeyOf(a, k.name)
    <3>1. k \in CandidateKeys
      BY DEF Books
    <3> QED BY <1>3, <1>13, <3>1 DEF CandidateKeys, KeyOf
  <2>5. k.name \in Proposed(DOMAIN queue, a)
    <3>1. c \in Issued
      BY <1>13 DEF Books
    <3>2. SnapshotOf(c) \in ToSet(snapshots) /\ SnapshotOf(c).cutoff = c
      BY <3>1, IssuedAre
    <3>3. Found(k)
      BY DEF Evidence, EvidenceOf
    <3>4. k.name \in SnapshotOf(c).clusters
      BY <1>13, <3>2, <3>3 DEF Found, ToSet
    <3>5. DOMAIN a.ratios = SnapshotOf(c).clusters
      BY <1>5 DEF ScoreAccepted
    <3> QED BY <2>4, <3>4, <3>5 DEF Proposed
  <2>6. Advanced(NoUse, k, m, n, 0)
    <3>1. PICK q \in m..n : queue[k].steps = After(m, q)
      BY <1>8, <2>1 DEF Judged
    <3>2. q >= m + 0
      BY <2>3, <3>1
    <3> QED BY <3>1, <3>2 DEF Advanced, NoUse
  <2>7. Advanced(Consume(NoUse, a), k, m, n, n - m)
    <3> HIDE DEF m, n
    <3>1. Advanced(NoUse, KeyOf(a, k.name), m, n, 0) /\ a.steps = After(m, n)
      BY <2>2, <2>4, <2>6 DEF m, n
    <3>2. Advanced(Consume(NoUse, a), KeyOf(a, k.name), m, n, n - m)
      BY <1>0, <1>3, <2>3, <2>5, <3>1, ConsumeAdvances
    <3> QED BY <2>4, <3>2
  <2>8. PICK q \in m..n : queue'[k].steps = After(m, q) /\ (queue'[k].state = "pending" => q = n)
    <3> HIDE DEF m, n
    <3>1. PICK q \in m..n : queue'[k].steps = After(m, q) /\ (queue'[k].state = "pending" => q >= m + (n - m))
      BY <1>5, <2>7 DEF Advanced
    <3>2. q >= m + (n - m) => q = n
      BY <2>3, <1>10
    <3> QED BY <3>1, <3>2
  <2>9. Judged(k, j)'
    <3>1. EndAt(j)' = m /\ After(EndAt(j), q)' = After(m, q)
      BY <1>0 DEF EndAt, Count, After
    <3>2. Due(k)' => queue'[k].state = "pending"
      BY DEF Due
    <3> HIDE DEF m, n
    <3> QED BY <1>0, <1>8, <2>1, <2>8, <3>1, <3>2 DEF Judged, n
  <2>10. Applied(k.cutoff)'
    BY <1>2, <1>11, <1>13 DEF ScoreableSnapshots, ScoreableNow, Scoreable, Applied
  <2>11. Found(k)'
    BY <1>0 DEF Found, Evidence, EvidenceOf
  <2> QED BY <1>9, <2>1, <2>9, <2>10, <2>11 DEF EvidenceOf
<1>14. pc' \notin FinalStages
  BY <1>8 DEF FinalStages
<1> QED BY <1>7, <1>12, <1>13, <1>14 DEF Evidence

LEMMA EvidenceFit ==
  ASSUME Control, Lineage, Books, Evidence, Fit
  PROVE  Evidence'
<1>0. /\ pc = "fit" /\ input \in Inputs /\ Accepted(input) /\ turn \in 1..Len(input.schedule)
      /\ Prefix.cutoff = Here.step /\ Here.step \in Nat
      /\ UNCHANGED <<input, turn, receipts>> /\ pc' \in {"self_refused", AfterFit}
  BY FitIs
<1>1. PICK fit \in FitOutputs, found \in SUBSET Names :
        \E proposals \in SUBSET found : FitMakes(fit, found, proposals)
  BY FitIs, Zenon
<1>2. PICK proposals \in SUBSET found : FitMakes(fit, found, proposals)
  BY <1>1, Zenon
<1> DEFINE s == BuiltSnapshot(Prefix, fit, found, Previous)
           d == BuiltDirective(s, proposals)
           n == Len(snapshots)
<1>3. s.clusters = found /\ s.cutoff = Here.step /\ d.cutoff = Here.step /\ d.proposals = proposals
  BY <1>0 DEF BuiltSnapshot, BuiltDirective
<1> HIDE DEF s, d
<1>4. snapshots' = Append(snapshots, s) /\ queue' = IF proposals # {} THEN Register(queue, d) ELSE queue
  BY <1>2 DEF FitMakes, s, d
<1>5. /\ DOMAIN snapshots = 1..n /\ DOMAIN snapshots' = 1..(n + 1) /\ n \in Nat
      /\ snapshots'[n + 1] = s /\ \A i \in 1..n : snapshots'[i] = snapshots[i]
  <2>1. Listed(snapshots)
    BY DEF Lineage
  <2>2. Listed(Append(snapshots, s)) /\ Len(Append(snapshots, s)) = n + 1
    BY <2>1, Appended
  <2>3. DOMAIN Append(snapshots, s) = 1..(n + 1)
    BY <2>2 DEF Listed
  <2> QED BY <1>4, <2>1, <2>3, Appended
<1>6. pc' \in {"self_refused", "plan", "next"} /\ Here' = Here /\ Reach = HereCount /\ Reach' = HereCount
  BY <1>0 DEF AfterFit, Here, Reach, HereCount, Count
<1>7. Answered' = 1..turn /\ turn \in Nat /\ Answered = 1..(turn - 1)
  BY <1>0, <1>6, InputTyped DEF Answered
<1>8. HereCount = EndAt(turn) /\ HereCount \in 1..Len(input.rows) /\ Len(input.rows) \in Nat
  BY <1>0, PrefixIs, InputTyped
<1>9. ASSUME NEW k \in DOMAIN queue PROVE k \notin Keys(d) /\ EvidenceOf(k)'
  <2>1. k.cutoff < Here.step /\ k.cutoff \in Nat
    BY <1>0, Placed DEF Active, Books, CandidateKeys
  <2>2. k \notin Keys(d)
    BY <1>0, <1>3, <2>1 DEF Keys
  <2>3. queue'[k] = queue[k]
    BY <1>4, <2>2 DEF Register
  <2>4. Found(k) => Found(k)'
    <3> SUFFICES ASSUME Found(k), NEW i \in 1..(n + 1), snapshots'[i].cutoff = k.cutoff
                 PROVE  k.name \in snapshots'[i].clusters
      BY <1>5 DEF Found
    <3>1. i # n + 1
      BY <1>0, <1>3, <1>5, <2>1
    <3>2. i \in 1..n
      BY <1>5, <3>1
    <3> QED BY <1>5, <3>2 DEF Found
  <2>5. Due(k)' => Due(k)
    BY <1>0, <1>6, <2>3 DEF Due, Applied
  <2>6. Reach \in Int /\ Reach' \in Int /\ Reach <= Reach' /\ Reach' = Reach
    BY <1>6, <1>8
  <2>7. \A j \in Answered : EndAt(j) \in Int
    <3> TAKE j \in Answered
    <3>1. j \in 1..Len(input.schedule)
      BY <1>0, <1>7, InputTyped
    <3> QED BY <1>0, <3>1, EndAtRow, InputTyped
  <2>8. Answered \subseteq Answered'
    BY <1>7
  <2>9. EvidenceOf(k) /\ input' = input /\ (Applied(k.cutoff) => Applied(k.cutoff)')
    BY <1>0 DEF Evidence, Applied
  <2> QED BY <2>2, <2>3, <2>4, <2>5, <2>6, <2>7, <2>8, <2>9, EvidenceKept
<1>10. ASSUME NEW k \in Keys(d), proposals # {} PROVE EvidenceOf(k)'
  <2>1. k.cutoff = Here.step /\ k.name \in found /\ queue'[k] = NewCandidate
    BY <1>3, <1>4, <1>10 DEF Keys, Register
  <2>2. queue'[k].steps = <<>>
    BY <2>1 DEF NewCandidate
  <2>3. EndAt(turn)' = EndAt(turn) /\ Reach' = EndAt(turn) /\ EndAt(turn) \in Int
    BY <1>0, <1>6, <1>8 DEF EndAt, Count
  <2>4. Judged(k, turn)'
    <3>1. \A x \in Int : After(x, x)' = <<>>
      <4> SUFFICES ASSUME NEW x \in Int PROVE [i \in 1..(x - x) |-> input'.rows[x + i].step] = <<>>
        BY DEF After
      <4>1. 1..(x - x) = {}
        OBVIOUS
      <4> QED BY <4>1
    <3>2. \E q \in EndAt(turn)..Reach' : queue'[k].steps = After(EndAt(turn), q)' /\ q = Reach'
      BY <2>2, <2>3, <3>1
    <3>3. k.cutoff = input'.schedule[turn'].step
      BY <1>0, <2>1 DEF Here
    <3> QED BY <1>0, <2>3, <3>2, <3>3 DEF Judged
  <2>5. turn \in Answered'
    BY <1>0, <1>7
  <2>6. Found(k)'
    <3> SUFFICES ASSUME NEW i \in 1..(n + 1), snapshots'[i].cutoff = Here.step
                 PROVE  k.name \in snapshots'[i].clusters
      BY <1>5, <2>1 DEF Found
    <3>1. ASSUME i \in 1..n PROVE FALSE
      <4>1. PICK j \in Answered : snapshots[i].cutoff = input.schedule[j].step
        BY <3>1 DEF Lineage, Origin
      <4>2. j \in 1..Len(input.schedule) /\ j < turn
        BY <1>0, <1>7, InputTyped
      <4>3. input.schedule[j].step < input.schedule[turn].step /\ input.schedule[j].step \in Nat
        BY <1>0, <4>2, InputTyped
      <4> QED BY <1>0, <1>5, <3>1, <4>1, <4>3 DEF Here
    <3> QED BY <1>3, <1>5, <2>1, <3>1
  <2> QED BY <1>0, <2>2, <2>4, <2>5, <2>6 DEF EvidenceOf
<1>11. ASSUME NEW k \in DOMAIN queue' PROVE k \in DOMAIN queue \/ (k \in Keys(d) /\ proposals # {})
  BY <1>4, <1>11 DEF Register
<1>12. pc' \notin FinalStages
  BY <1>6 DEF FinalStages
<1> QED BY <1>9, <1>10, <1>11, <1>12 DEF Evidence

LEMMA EvidenceNextStation ==
  ASSUME Control, Books, Evidence, NextStation
  PROVE  Evidence'
<1>0. /\ pc = "next" /\ UNCHANGED <<input, snapshots, receipts, queue>>
      /\ \/ turn < Len(input.schedule) /\ turn' = turn + 1 /\ pc' = "pf"
         \/ ~(turn < Len(input.schedule)) /\ turn' = turn /\ pc' = "final_pf"
  BY DEF NextStation, collected
<1>1. input \in Inputs /\ Accepted(input) /\ turn \in 1..Len(input.schedule) /\ Len(input.schedule) \in Nat
  BY <1>0, InputTyped DEF Control, Active
<1>2. pc' \in FinalStages => turn' = Len(input'.schedule)
  BY <1>0, <1>1 DEF FinalStages
<1>3. HereCount \in 1..Len(input.rows)
  BY <1>1, PrefixIs
<1>4. Reach = HereCount /\ Reach' = HereCount
  <2>1. CASE pc' = "pf"
    <3>1. turn' = turn + 1 /\ turn' # 1 /\ turn' - 1 = turn
      BY <1>0, <1>1, <2>1
    <3> QED BY <1>0, <2>1, <3>1 DEF Reach, DoneCount, HereCount, Here, Count
  <2>2. CASE pc' # "pf"
    BY <1>0, <2>2 DEF Reach, HereCount, Here, Count
  <2> QED BY <2>1, <2>2
<1>5. Answered \subseteq Answered'
  BY <1>0, <1>1 DEF Answered
<1>6. \A j \in Answered : EndAt(j) \in Int
  <2> TAKE j \in Answered
  <2>1. j \in 1..Len(input.schedule)
    BY <1>0, <1>1 DEF Answered
  <2> QED BY <1>1, <2>1, EndAtRow, InputTyped
<1>7. ASSUME NEW k \in DOMAIN queue PROVE EvidenceOf(k)'
  <2>1. Due(k)' => Due(k)
    BY <1>0 DEF Due, Applied
  <2>2. Reach \in Int /\ Reach' \in Int /\ Reach <= Reach' /\ Reach' = Reach
    BY <1>3, <1>4
  <2>3. EvidenceOf(k) /\ input' = input /\ (Applied(k.cutoff) => Applied(k.cutoff)')
        /\ (Found(k) => Found(k)') /\ queue'[k] = queue[k]
    BY <1>0 DEF Evidence, Applied, Found
  <2> QED BY <1>5, <1>6, <2>1, <2>2, <2>3, EvidenceKept
<1> QED BY <1>0, <1>2, <1>7 DEF Evidence

LEMMA EvidenceFinalPF ==
  ASSUME Control, Books, Evidence, FinalPF
  PROVE  Evidence'
<1>1. /\ pc = "final_pf" /\ UNCHANGED <<input, turn, snapshots, queue>>
      /\ pc' \in {"self_refused", "final_fits"}
  BY DEF FinalPF
<1>2. \A c : Applied(c) => Applied(c)'
  BY DEF FinalPF, IngestReceipts, Applied
<1>3. Reach' = Reach
  BY <1>1 DEF Reach, HereCount, Here, Count
<1>4. ASSUME NEW k \in DOMAIN queue, Due(k)' PROVE Due(k)
  <2>1. queue[k].state = "pending" /\ queue[k].steps # <<>>
    BY <1>1, <1>4 DEF Due
  <2>2. Applied(k.cutoff)
    BY <2>1 DEF Evidence, EvidenceOf
  <2> QED BY <1>1, <2>1, <2>2 DEF Due
<1>5. turn = Len(input.schedule)
  BY <1>1 DEF Evidence, FinalStages
<1> QED BY <1>1, <1>2, <1>3, <1>4, <1>5, EvidenceStill DEF Active

LEMMA EvidenceNext ==
  Control /\ Lineage /\ Books /\ Scoring /\ Evidence /\ [Next]_vars => Evidence'
<1> SUFFICES ASSUME Control, Lineage, Books, Scoring, Evidence, [Next]_vars PROVE Evidence'
  OBVIOUS
<1>1. ASSUME FreshMemory', pc' \notin FinalStages PROVE Evidence'
  BY <1>1 DEF FreshMemory, Evidence
<1>2. ASSUME UNCHANGED <<input, turn, snapshots, queue, receipts, scores>>,
             pc \in Active \ {"pf"}, pc' \notin {"pf", "score", "fit"},
             pc' \in FinalStages => pc \in FinalStages,
             \A k \in DOMAIN queue : Due(k)' => Due(k)
      PROVE  Evidence'
  <2>1. Reach' = Reach
    BY <1>2 DEF Reach, HereCount, Here, Count
  <2>2. \A c : Applied(c) => Applied(c)'
    BY <1>2 DEF Applied
  <2>3. turn = Len(input.schedule) \/ pc' \notin FinalStages
    BY <1>2 DEF Evidence
  <2> QED BY <1>2, <2>1, <2>2, <2>3, EvidenceStill
<1>3. CASE StartRefused
  <2>1. FreshMemory /\ UNCHANGED memory /\ pc' = "refused"
    BY <1>3 DEF StartRefused, Control, Active
  <2> QED BY <1>1, <2>1 DEF FreshMemory, memory, collected, FinalStages
<1>4. CASE Start
  <2>1. FreshMemory' /\ pc' \in {"pf", "discarded"}
    BY <1>4 DEF Start, Control, FreshMemory, memory, collected, Active
  <2> QED BY <1>1, <2>1 DEF FinalStages
<1>5. CASE ReplayStation
  BY <1>5, EvidenceReplay
<1>6. CASE Score
  BY <1>6, EvidenceScore
<1>7. CASE Fit
  BY <1>7, EvidenceFit
<1>8. CASE Plan
  BY <1>2, <1>8 DEF Plan, Active, FinalStages, Due, Applied
<1>9. CASE NextStation
  BY <1>9, EvidenceNextStation
<1>10. CASE FinalPF
  BY <1>10, EvidenceFinalPF
<1>11. CASE FinalFits
  BY <1>2, <1>11 DEF FinalFits, collected, Active, FinalStages, Due
<1>12. CASE Publish
  <2>1. pc = "publish" /\ UNCHANGED <<input, memory>> /\ pc' \in {"self_refused", "published"}
    BY <1>12 DEF Publish
  <2> QED BY <1>2, <2>1 DEF memory, collected, Active, FinalStages, Due
<1>13. CASE Discard \/ Kill \/ Rerun
  <2>1. FreshMemory' /\ pc' \in {"discarded", "killed", "idle"}
    BY <1>13 DEF Discard, Kill, Rerun, Forget, FreshMemory
  <2> QED BY <1>1, <2>1 DEF FinalStages
<1>14. CASE UNCHANGED vars
  <2>1. /\ UNCHANGED <<input, pc, turn, snapshots, receipts, queue, scores>>
        /\ Here' = Here /\ HereCount' = HereCount /\ DoneCount' = DoneCount
    BY <1>14 DEF vars, memory, collected, HereCount, DoneCount, Here, Count
  <2>2. Answered' = Answered /\ Reach' = Reach /\ Unscored(scores)' = Unscored(scores)
    BY <2>1 DEF Answered, Reach, Unscored, ScoreableSnapshots, ScoreableNow, Scoreable
  <2>3. ASSUME NEW k \in DOMAIN queue PROVE EvidenceOf(k)'
    <3>1. (Due(k)' <=> Due(k)) /\ (Found(k)' <=> Found(k)) /\ (Applied(k.cutoff)' <=> Applied(k.cutoff))
      BY <2>1, <2>2 DEF Due, Found, Applied
    <3>2. \A j : EndAt(j)' = EndAt(j)
      BY <2>1 DEF EndAt, Count
    <3>3. \A m, q : After(m, q)' = After(m, q)
      BY <2>1 DEF After
    <3>4. \A j : Judged(k, j) => Judged(k, j)'
      BY <2>1, <2>2, <3>1, <3>2, <3>3 DEF Judged
    <3>5. EvidenceOf(k)
      BY DEF Evidence
    <3> QED BY <2>1, <2>2, <3>1, <3>4, <3>5 DEF EvidenceOf
  <2> QED BY <2>1, <2>3 DEF Evidence
<1> QED BY <1>3, <1>4, <1>5, <1>6, <1>7, <1>8, <1>9, <1>10, <1>11, <1>12, <1>13, <1>14 DEF Next

LEMMA EvidenceInvariance == Spec => []Evidence
<1>1. Init => Evidence
  BY DEF Init, FreshMemory, Evidence, FinalStages
<1> QED BY <1>1, EvidenceNext, BooksInvariance, PTL DEF Spec

\* A declaration ends where the log does.
LEMMA LastEnd ==
  ASSUME input \in Inputs, Accepted(input)
  PROVE  EndAt(Len(input.schedule)) = Len(input.rows)
<1> DEFINE k == Len(input.schedule)
           n == Len(input.rows)
<1>1. k \in 1..k /\ n \in 1..n /\ k \in Nat /\ n \in Nat
  BY InputTyped
<1>2. input.schedule[k].step = input.rows[n].step
  BY DEF Accepted, BoundariesAccepted
<1>3. EndAt(k) \in 1..n /\ input.rows[EndAt(k)].step = input.schedule[k].step
  BY <1>1, EndAtRow
<1>4. ~(EndAt(k) < n)
  BY <1>1, <1>2, <1>3, InputTyped, SMTT(40)
<1> QED BY <1>1, <1>3, <1>4

LEMMA EvidenceImplies == Control /\ Lineage /\ Books /\ Evidence => EvidenceIsTheFuture
<1> SUFFICES ASSUME Control, Lineage, Books, Evidence, NEW k \in DOMAIN queue
             PROVE  LET later == LaterSteps(k.cutoff, Len(input.rows))
                        applied == k.cutoff \in DOMAIN receipts /\ receipts[k.cutoff].status = "applied"
                    IN  /\ IsPrefix(queue[k].steps, later)
                        /\ pc = "pf" /\ queue[k].state = "pending" /\ applied =>
                             queue[k].steps = LaterSteps(k.cutoff, DoneCount)
                        /\ pc = "published" /\ queue[k].state = "pending" =>
                             queue[k].steps \in {<<>>, later}
  BY DEF EvidenceIsTheFuture
<1>0. pc \in Active \union {"published", "self_refused"}
  BY DEF Control, FreshMemory
<1>1. /\ input \in Inputs /\ Accepted(input) /\ turn \in 1..Len(input.schedule)
      /\ HereCount = EndAt(turn) /\ HereCount \in 1..Len(input.rows) /\ Reach \in 0..HereCount
  BY <1>0, Placed
<1>2. PICK j \in 1..Len(input.schedule) : Judged(k, j) /\ EndAt(j) \in 1..HereCount
  BY <1>0, Placed
<1> DEFINE m == EndAt(j)
           n == Len(input.rows)
<1>3. PICK q \in m..Reach : queue[k].steps = After(m, q) /\ (Due(k) => q = Reach)
  BY <1>2 DEF Judged
<1>4. n \in Nat /\ m \in Nat /\ q \in m..n /\ n \in m..n /\ Reach \in m..n
  BY <1>1, <1>2, <1>3, InputTyped
<1>5. k.cutoff = input.schedule[j].step
  BY <1>2 DEF Judged
<1>6. LaterSteps(k.cutoff, n) = After(m, n) /\ LaterSteps(k.cutoff, Reach) = After(m, Reach)
  BY <1>1, <1>4, <1>5, LaterStepsAre
<1>7. IsPrefix(After(m, q), After(m, n))
  <2>1. After(m, q) \in Seq(Nat) /\ Len(After(m, q)) = q - m /\ After(m, n) \in Seq(Nat) /\ Len(After(m, n)) = n - m
    BY <1>1, <1>4, AfterGrows
  <2>2. q - m <= n - m /\ q - m \in Nat
    BY <1>4
  <2>3. SubSeq(After(m, n), 1, q - m) = [i \in 1..(q - m) |-> After(m, n)[i]]
    <3> DEFINE l == q - m
               s == After(m, n)
    <3>1. s \in Seq(Nat) /\ l \in Nat /\ l <= Len(s)
      BY <2>1, <2>2
    <3> HIDE DEF l, s
    <3>2. SubSeq(s, 1, l) = [i \in 1..l |-> s[i]]
      BY <3>1
    <3> QED BY <3>2 DEF l, s
  <2>4. \A i \in 1..(q - m) : After(m, n)[i] = input.rows[m + i].step
    BY <1>4 DEF After
  <2>5. SubSeq(After(m, n), 1, q - m) = After(m, q)
    BY <2>3, <2>4 DEF After
  <2> QED BY <2>1, <2>2, <2>5 DEF IsPrefix
<1>8. ASSUME pc = "pf", queue[k].state = "pending", Applied(k.cutoff)
      PROVE  queue[k].steps = LaterSteps(k.cutoff, DoneCount)
  <2>1. Due(k) /\ Reach = DoneCount
    BY <1>8 DEF Due, Reach
  <2> QED BY <1>3, <1>6, <2>1
<1>9. ASSUME pc = "published", queue[k].state = "pending"
      PROVE  queue[k].steps \in {<<>>, LaterSteps(k.cutoff, n)}
  <2>1. queue[k].steps = <<>> \/ Due(k)
    BY <1>9 DEF Due
  <2>2. Reach = n
    <3>1. turn = Len(input.schedule)
      BY <1>9 DEF Evidence, FinalStages
    <3> QED BY <1>1, <1>9, <3>1, LastEnd DEF Reach
  <2> QED BY <1>3, <1>6, <2>1, <2>2
<1> HIDE DEF m
<1> QED BY <1>3, <1>6, <1>7, <1>8, <1>9 DEF Applied

\* The evidence of every candidate is the unbroken run of the rows right after
\* its cutoff, complete when the loop comes to a station and when a run is
\* published (controller.py:935-1053, verification_queue.py:70).
THEOREM EvidenceIsUnbroken == Spec => []EvidenceIsTheFuture
BY BooksInvariance, EvidenceInvariance, EvidenceImplies, PTL

-----------------------------------------------------------------------------
(* What the ledger tells *)

\* f has the sums it goes through, number by number.
TotalsBy(seq, f) ==
  /\ f \in [0..Len(seq) -> Int]
  /\ f[0] = 0
  /\ \A i \in 1..Len(seq) : f[i] = f[i - 1] + seq[i]
  /\ Total(seq) = f[Len(seq)]

LEMMA TotalFold ==
  ASSUME NEW seq \in Seq(Int)
  PROVE  \E f : TotalsBy(seq, f)
<1> DEFINE n == Len(seq)
           C == Int
           F == [x \in (1..n) \X C |-> x[2] + seq[x[1]]]
           Step(p, iter) == IF p = {} THEN 0 ELSE iter[p \ {Max(p)}] + seq[Max(p)]
           Folds(iter) == iter = [p \in SUBSET DOMAIN seq |-> Step(p, iter)]
           it == CHOOSE iter : Folds(iter)
<1>1. Total(seq) = it[DOMAIN seq]
  BY DEF Total, FoldLeft, MapThenFoldSet
<1>2. n \in Nat /\ DOMAIN seq = 1..n
  OBVIOUS
<1>3. F \in [(1..n) \X C -> C] /\ 0 \in C
  <2> SUFFICES ASSUME NEW i \in 1..n, NEW u \in C PROVE u + seq[i] \in C /\ 0 \in C
    OBVIOUS
  <2>1. seq[i] \in Int
    OBVIOUS
  <2> QED BY <2>1
<1> HIDE DEF C
<1>4. Folds(it)
  <2>1. PICK iter \in [SUBSET (1..n) -> C] : IsFold(n, 0, F, iter)
    <3> HIDE DEF F, n
    <3> QED BY <1>2, <1>3, FoldExists, Zenon
  <2>2. ASSUME NEW p \in SUBSET (1..n), p # {}
        PROVE  F[<<Max(p), iter[p \ {Max(p)}]>>] = Step(p, iter)
    <3>1. Max(p) \in 1..n
      BY <1>2, <2>2, MaxOfRange
    <3>2. iter[p \ {Max(p)}] \in C
      BY <2>1
    <3> QED BY <2>2, <3>1, <3>2
  <2>3. Folds(iter)
    <3> HIDE DEF F
    <3> QED BY <1>2, <2>1, <2>2 DEF IsFold
  <2> HIDE DEF Folds
  <2> QED BY <2>3
<1> HIDE DEF it
<1>5. \A p \in SUBSET (1..n) : it[p] = Step(p, it)
  BY <1>2, <1>4
<1>6. GoesBy(n, C, 0, F, it)
  <2>1. ASSUME NEW p \in SUBSET (1..n), p # {}, it[p \ {Max(p)}] \in C
        PROVE  it[p] = F[<<Max(p), it[p \ {Max(p)}]>>]
    <3>1. Max(p) \in 1..n
      BY <1>2, <2>1, MaxOfRange
    <3> QED BY <1>2, <1>5, <2>1, <3>1
  <2>2. it[{}] = 0
    BY <1>5, {} \in SUBSET (1..n)
  <2> QED BY <2>1, <2>2 DEF GoesBy
<1>7. PICK f : RunOf(n, C, 0, F, it, f)
  <2> HIDE DEF F, n
  <2> QED BY <1>2, <1>3, <1>6, FoldRuns, Zenon
<1>8. f \in [0..n -> C] /\ f[0] = 0 /\ it[1..n] = f[n]
  BY <1>7 DEF RunOf
<1>9. ASSUME NEW i \in 1..n PROVE f[i] = f[i - 1] + seq[i]
  <2>1. f[i] = F[<<i, f[i - 1]>>] /\ f[i - 1] \in C
    BY <1>2, <1>7, i - 1 \in 0..n DEF RunOf
  <2> QED BY <2>1
<1> QED BY <1>1, <1>2, <1>8, <1>9 DEF TotalsBy, C

LEMMA TotalAppend ==
  ASSUME NEW seq \in Seq(Int), NEW e \in Int
  PROVE  /\ Total(seq) \in Int
         /\ Total(Append(seq, e)) = Total(seq) + e
<1> DEFINE more == Append(seq, e)
           n == Len(seq)
<1>1. more \in Seq(Int) /\ Len(more) = n + 1 /\ more[n + 1] = e /\ n \in Nat
      /\ \A i \in 1..n : more[i] = seq[i]
  OBVIOUS
<1> HIDE DEF more
<1>2. PICK f : TotalsBy(seq, f)
  BY TotalFold, Zenon
<1>3. PICK h : TotalsBy(more, h)
  BY <1>1, TotalFold, Zenon
<1>4. Alike(n, f, h)
  <2>1. ASSUME NEW i \in 1..n, f[i - 1] = h[i - 1] PROVE f[i] = h[i]
    <3>1. f[i] = f[i - 1] + seq[i]
      BY <1>2, Zenon DEF TotalsBy
    <3>2. i \in 1..Len(more) /\ more[i] = seq[i]
      BY <1>1
    <3>3. h[i] = h[i - 1] + more[i]
      BY <1>3, <3>2, Zenon DEF TotalsBy
    <3> QED BY <2>1, <3>1, <3>2, <3>3
  <2>2. f[0] = h[0]
    BY <1>2, <1>3, Zenon DEF TotalsBy
  <2> QED BY <2>1, <2>2 DEF Alike
<1>5. f[n] = h[n]
  BY <1>1, <1>4, SameSteps, Zenon
<1>6. h[n + 1] = h[n] + e
  <2>1. n + 1 \in 1..Len(more) /\ (n + 1) - 1 = n
    BY <1>1
  <2>2. h[n + 1] = h[(n + 1) - 1] + more[n + 1]
    BY <1>3, <2>1, Zenon DEF TotalsBy
  <2> QED BY <1>1, <2>1, <2>2
<1>7. n \in 0..n /\ f[n] \in Int
  BY <1>1, <1>2 DEF TotalsBy
<1>8. Total(seq) = f[n] /\ Total(more) = h[n + 1]
  BY <1>1, <1>2, <1>3 DEF TotalsBy
<1> QED BY <1>5, <1>6, <1>7, <1>8 DEF more

\* What a ledger can tell of the proposals' states.
States == UNION {[E -> Verdicts] : E \in SUBSET CandidateKeys}

LEMMA NoStates == <<>> \in States
<1>1. <<>> \in [{} -> Verdicts]
  OBVIOUS
<1> QED BY <1>1 DEF States

LEMMA ToldTyped ==
  ASSUME NEW s \in States, NEW e \in LedgerEvents
  PROVE  Told(s, e) \in States
<1>1. PICK E \in SUBSET CandidateKeys : s \in [E -> Verdicts]
  BY DEF States
<1>2. CASE e \in DirectiveEvents
  <2>1. e.type = "directive_issued" /\ Keys(e) \subseteq CandidateKeys
    BY <1>2 DEF DirectiveEvents, Keys, CandidateKeys
  <2>2. Told(s, e) = [k \in E \union Keys(e) |-> IF k \in Keys(e) THEN "pending" ELSE s[k]]
    BY <1>1, <2>1 DEF Told
  <2>3. Told(s, e) \in [E \union Keys(e) -> Verdicts]
    BY <1>1, <2>2 DEF Verdicts
  <2>4. E \union Keys(e) \in SUBSET CandidateKeys
    BY <2>1
  <2> QED BY <2>3, <2>4 DEF States
<1>3. CASE e \in UseEvents
  <2>1. e.type = "corroboration" /\ e.state \in Verdicts
    BY <1>3 DEF UseEvents
  <2>2. Told(s, e) = [s EXCEPT ![[cutoff |-> e.cutoff, name |-> e.name]] = e.state]
    BY <2>1 DEF Told
  <2>3. Told(s, e) \in [E -> Verdicts]
    BY <1>1, <2>1, <2>2
  <2> QED BY <2>3 DEF States
<1>4. CASE e \in SnapshotEvents \union ReceiptEventsSet
  <2>1. e.type \notin {"directive_issued", "corroboration"}
    BY <1>4 DEF SnapshotEvents, ReceiptEventsSet
  <2> QED BY <2>1 DEF Told
<1> QED BY <1>2, <1>3, <1>4 DEF LedgerEvents

\* f has the states it goes through, event by event.
ToldBy(book, f) ==
  /\ f \in [0..Len(book) -> States]
  /\ f[0] = <<>>
  /\ \A i \in 1..Len(book) : f[i] = Told(f[i - 1], book[i])
  /\ LedgerStates(book) = f[Len(book)]

LEMMA ToldFold ==
  ASSUME NEW book \in Seq(LedgerEvents)
  PROVE  \E f : ToldBy(book, f)
<1> DEFINE n == Len(book)
           C == States
           F == [x \in (1..n) \X C |-> Told(x[2], book[x[1]])]
           Step(p, iter) == IF p = {} THEN <<>> ELSE Told(iter[p \ {Max(p)}], book[Max(p)])
           Folds(iter) == iter = [p \in SUBSET DOMAIN book |-> Step(p, iter)]
           it == CHOOSE iter : Folds(iter)
<1>1. LedgerStates(book) = it[DOMAIN book]
  BY DEF LedgerStates, FoldLeft, MapThenFoldSet
<1>2. n \in Nat /\ DOMAIN book = 1..n
  OBVIOUS
<1> HIDE DEF C
<1>20. ASSUME NEW i \in 1..n, NEW u \in C PROVE Told(u, book[i]) \in C
  <2>1. book[i] \in LedgerEvents
    OBVIOUS
  <2> QED BY <2>1, ToldTyped DEF C
<1>21. <<>> \in C
  BY NoStates DEF C
<1>3. F \in [(1..n) \X C -> C] /\ <<>> \in C
  <2>1. ASSUME NEW x \in (1..n) \X C PROVE Told(x[2], book[x[1]]) \in C
    <3>1. x[1] \in 1..n /\ x[2] \in C
      OBVIOUS
    <3> QED BY <1>20, <3>1, Zenon
  <2> QED BY <1>21, <2>1, Zenon
<1>4. Folds(it)
  <2>1. PICK iter \in [SUBSET (1..n) -> C] : IsFold(n, <<>>, F, iter)
    <3> HIDE DEF F, n
    <3> QED BY <1>2, <1>3, FoldExists, Zenon
  <2>2. ASSUME NEW p \in SUBSET (1..n), p # {}
        PROVE  F[<<Max(p), iter[p \ {Max(p)}]>>] = Step(p, iter)
    <3>1. Max(p) \in 1..n
      BY <1>2, <2>2, MaxOfRange
    <3>2. iter[p \ {Max(p)}] \in C
      BY <2>1
    <3> QED BY <2>2, <3>1, <3>2
  <2>3. Folds(iter)
    <3> HIDE DEF F
    <3> QED BY <1>2, <2>1, <2>2 DEF IsFold
  <2> HIDE DEF Folds
  <2> QED BY <2>3
<1> HIDE DEF it
<1>5. \A p \in SUBSET (1..n) : it[p] = Step(p, it)
  BY <1>2, <1>4
<1>6. GoesBy(n, C, <<>>, F, it)
  <2>1. ASSUME NEW p \in SUBSET (1..n), p # {}, it[p \ {Max(p)}] \in C
        PROVE  it[p] = F[<<Max(p), it[p \ {Max(p)}]>>]
    <3>1. Max(p) \in 1..n
      BY <1>2, <2>1, MaxOfRange
    <3> QED BY <1>2, <1>5, <2>1, <3>1
  <2>2. it[{}] = <<>>
    BY <1>5, {} \in SUBSET (1..n)
  <2> QED BY <2>1, <2>2 DEF GoesBy
<1>7. PICK f : RunOf(n, C, <<>>, F, it, f)
  <2> HIDE DEF F, n
  <2> QED BY <1>2, <1>3, <1>6, FoldRuns, Zenon
<1>8. f \in [0..n -> C] /\ f[0] = <<>> /\ it[1..n] = f[n]
  BY <1>7 DEF RunOf
<1>9. ASSUME NEW i \in 1..n PROVE f[i] = Told(f[i - 1], book[i])
  <2>1. f[i] = F[<<i, f[i - 1]>>] /\ f[i - 1] \in C
    BY <1>2, <1>7, i - 1 \in 0..n DEF RunOf
  <2> QED BY <2>1
<1> QED BY <1>1, <1>2, <1>8, <1>9 DEF ToldBy, C

LEMMA ToldAppend ==
  ASSUME NEW book \in Seq(LedgerEvents), NEW e \in LedgerEvents
  PROVE  /\ LedgerStates(book) \in States
         /\ LedgerStates(Append(book, e)) = Told(LedgerStates(book), e)
<1> DEFINE more == Append(book, e)
           n == Len(book)
<1>1. more \in Seq(LedgerEvents) /\ Len(more) = n + 1 /\ more[n + 1] = e /\ n \in Nat
      /\ \A i \in 1..n : more[i] = book[i]
  OBVIOUS
<1> HIDE DEF more
<1>2. PICK f : ToldBy(book, f)
  BY ToldFold, Zenon
<1>3. PICK h : ToldBy(more, h)
  BY <1>1, ToldFold, Zenon
<1>4. Alike(n, f, h)
  <2>1. ASSUME NEW i \in 1..n, f[i - 1] = h[i - 1] PROVE f[i] = h[i]
    <3>1. f[i] = Told(f[i - 1], book[i])
      BY <1>2, Zenon DEF ToldBy
    <3>2. i \in 1..Len(more) /\ more[i] = book[i]
      BY <1>1
    <3>3. h[i] = Told(h[i - 1], more[i])
      BY <1>3, <3>2, Zenon DEF ToldBy
    <3> QED BY <2>1, <3>1, <3>2, <3>3
  <2>2. f[0] = h[0]
    BY <1>2, <1>3, Zenon DEF ToldBy
  <2> QED BY <2>1, <2>2 DEF Alike
<1>5. f[n] = h[n]
  BY <1>1, <1>4, SameSteps, Zenon
<1>6. h[n + 1] = Told(h[n], e)
  <2>1. n + 1 \in 1..Len(more) /\ (n + 1) - 1 = n
    BY <1>1
  <2>2. h[n + 1] = Told(h[(n + 1) - 1], more[n + 1])
    BY <1>3, <2>1, Zenon DEF ToldBy
  <2> QED BY <1>1, <2>1, <2>2
<1>7. n \in 0..n /\ f[n] \in States
  BY <1>1, <1>2 DEF ToldBy
<1>8. LedgerStates(book) = f[n] /\ LedgerStates(more) = h[n + 1]
  BY <1>1, <1>2, <1>3 DEF ToldBy
<1> QED BY <1>5, <1>6, <1>7, <1>8 DEF more

\* A use of candidate k in an artifact through t or before.
IsUse(e, k, t) ==
  e.type = "corroboration" /\ e.cutoff = k.cutoff /\ e.name = k.name /\ e.through <= t

LEMMA UsesAppend ==
  ASSUME NEW book \in Seq(LedgerEvents), NEW e \in LedgerEvents, NEW k, NEW t
  PROVE  /\ UsesOf(book, k, t) \in Seq(LedgerEvents)
         /\ UsesOf(Append(book, e), k, t) =
              IF IsUse(e, k, t) THEN Append(UsesOf(book, k, t), e) ELSE UsesOf(book, k, t)
<1> DEFINE more == Append(book, e)
           n == Len(book)
           old == {i \in DOMAIN book : IsUse(book[i], k, t)}
           new == {i \in DOMAIN more : IsUse(more[i], k, t)}
<1>1. more \in Seq(LedgerEvents) /\ Len(more) = n + 1 /\ more[n + 1] = e /\ n \in Nat
      /\ DOMAIN book = 1..n /\ DOMAIN more = 1..(n + 1)
      /\ \A i \in 1..n : more[i] = book[i]
  OBVIOUS
<1>2. UsesOf(book, k, t) = Kept(book, old) /\ UsesOf(more, k, t) = Kept(more, new)
  BY DEF UsesOf, IsUse
<1> HIDE DEF more
<1>3. \A i \in 1..Len(book) : i \in old <=> i \in new
  BY <1>1
<1>4. n + 1 \in new <=> IsUse(e, k, t)
  BY <1>1
<1> HIDE DEF old, new
<1>5. Kept(book, old) = Kept(book, new)
  BY <1>3, KeptSame
<1>6. /\ Kept(book, new) \in Seq(LedgerEvents)
      /\ Kept(more, new) = IF n + 1 \in new THEN Append(Kept(book, new), e) ELSE Kept(book, new)
  BY KeptAppend DEF more
<1> QED BY <1>2, <1>4, <1>5, <1>6 DEF more

LEMMA NoUses == \A k, t : UsesOf(<<>>, k, t) = <<>>
<1> SUFFICES ASSUME NEW k, NEW t PROVE UsesOf(<<>>, k, t) = <<>>
  OBVIOUS
<1>1. \A at : Kept(<<>>, at) = <<>>
  <2> TAKE at
  <2>1. <<>> \in Seq({}) /\ Len(<<>>) = 0
    OBVIOUS
  <2>2. PICK f : KeepsBy(<<>>, at, {}, f)
    BY <2>1, KeptFold, Zenon
  <2> QED BY <2>1, <2>2 DEF KeepsBy
<1> QED BY <1>1 DEF UsesOf

LEMMA NothingTotals == Total(<<>>) = 0 /\ LedgerStates(<<>>) = <<>>
<1>1. <<>> \in Seq(Int) /\ <<>> \in Seq(LedgerEvents) /\ Len(<<>>) = 0
  OBVIOUS
<1>2. PICK f : TotalsBy(<<>>, f)
  BY <1>1, TotalFold, Zenon
<1>3. PICK h : ToldBy(<<>>, h)
  BY <1>1, ToldFold, Zenon
<1> QED BY <1>1, <1>2, <1>3 DEF TotalsBy, ToldBy

\* The snapshots and the receipts of a ledger.
SnapshotsOf(book) == Kept(book, {i \in DOMAIN book : book[i].type = "snapshot_registered"})

ReceiptsOf(book) == {<<e.cutoff, e.status>> : e \in {f \in ToSet(book) : f.type = "directive_receipt"}}

LEMMA SnapshotsAppend ==
  ASSUME NEW book \in Seq(LedgerEvents), NEW e \in LedgerEvents
  PROVE  /\ SnapshotsOf(book) \in Seq(LedgerEvents)
         /\ SnapshotsOf(Append(book, e)) =
              IF e.type = "snapshot_registered" THEN Append(SnapshotsOf(book), e) ELSE SnapshotsOf(book)
<1> DEFINE more == Append(book, e)
           n == Len(book)
           old == {i \in DOMAIN book : book[i].type = "snapshot_registered"}
           new == {i \in DOMAIN more : more[i].type = "snapshot_registered"}
<1>1. more \in Seq(LedgerEvents) /\ Len(more) = n + 1 /\ more[n + 1] = e /\ n \in Nat
      /\ DOMAIN book = 1..n /\ DOMAIN more = 1..(n + 1)
      /\ \A i \in 1..n : more[i] = book[i]
  OBVIOUS
<1>2. SnapshotsOf(book) = Kept(book, old) /\ SnapshotsOf(more) = Kept(more, new)
  BY DEF SnapshotsOf
<1> HIDE DEF more
<1>3. \A i \in 1..Len(book) : i \in old <=> i \in new
  BY <1>1
<1>4. n + 1 \in new <=> e.type = "snapshot_registered"
  BY <1>1
<1> HIDE DEF old, new
<1>5. Kept(book, old) = Kept(book, new)
  BY <1>3, KeptSame
<1>6. /\ Kept(book, new) \in Seq(LedgerEvents)
      /\ Kept(more, new) = IF n + 1 \in new THEN Append(Kept(book, new), e) ELSE Kept(book, new)
  BY KeptAppend DEF more
<1> QED BY <1>2, <1>4, <1>5, <1>6 DEF more

LEMMA ReceiptsAppend ==
  ASSUME NEW book \in Seq(LedgerEvents), NEW e \in LedgerEvents
  PROVE  ReceiptsOf(Append(book, e)) =
           IF e.type = "directive_receipt"
             THEN ReceiptsOf(book) \union {<<e.cutoff, e.status>>}
             ELSE ReceiptsOf(book)
<1> DEFINE more == Append(book, e)
           n == Len(book)
<1>1. Len(more) = n + 1 /\ more[n + 1] = e /\ n \in Nat
      /\ DOMAIN book = 1..n /\ DOMAIN more = 1..(n + 1)
      /\ \A i \in 1..n : more[i] = book[i]
  OBVIOUS
<1> HIDE DEF more
<1>2. ToSet(more) = ToSet(book) \union {e}
  BY <1>1 DEF ToSet
<1> QED BY <1>2 DEF ReceiptsOf, more

LEMMA ColumnAppend ==
  ASSUME NEW seq, Listed(seq), NEW e
  PROVE  /\ Column(Append(seq, e), "step") = Append(Column(seq, "step"), e.step)
         /\ Column(Append(seq, e), "ratio") = Append(Column(seq, "ratio"), e.ratio)
         /\ Column(Append(seq, e), "cutoff") = Append(Column(seq, "cutoff"), e.cutoff)
<1> DEFINE more == Append(seq, e)
           n == Len(seq)
<1>1. n \in Nat /\ DOMAIN seq = 1..n /\ Listed(more) /\ Len(more) = n + 1 /\ more[n + 1] = e
      /\ \A i \in 1..n : more[i] = seq[i]
  BY Appended
<1>2. DOMAIN more = 1..(n + 1)
  BY <1>1 DEF Listed
<1> HIDE DEF more, n
<1>3. ASSUME NEW f \in {"step", "ratio", "cutoff"}
      PROVE  Column(more, f) = Append(Column(seq, f), e[f])
  <2> DEFINE col == [i \in 1..n |-> seq[i][f]]
  <2>1. Column(seq, f) = col /\ Column(more, f) = [i \in 1..(n + 1) |-> more[i][f]]
    BY <1>1, <1>2 DEF Column
  <2>2. col \in Seq({col[i] : i \in 1..n}) /\ Len(col) = n
    BY <1>1
  <2>3. Append(col, e[f]) = [i \in 1..(n + 1) |-> IF i = n + 1 THEN e[f] ELSE col[i]]
    <3> HIDE DEF col
    <3> QED BY <1>1, <2>2
  <2>4. \A i \in 1..(n + 1) : more[i][f] = IF i = n + 1 THEN e[f] ELSE col[i]
    BY <1>1
  <2> HIDE DEF col
  <2> QED BY <2>1, <2>3, <2>4
<1> QED BY <1>3 DEF more

\* A use makes an event of what it does to its candidate.
UseMade(u, k, a, i, e) ==
  LET v == Used(u, k, a, i)
  IN  /\ v.ledger = Append(u.ledger, e)
      /\ v.queue[k].steps = Append(u.queue[k].steps, e.step)
      /\ v.queue[k].sum = u.queue[k].sum + e.ratio
      /\ v.queue[k].state = e.state
      /\ e.type = "corroboration" /\ e.cutoff = k.cutoff /\ e.name = k.name /\ e.through = a.through
      /\ e.ratio \in Int

LEMMA UsedIs ==
  ASSUME NEW D, NEW u \in Uses(D), NEW a, ArtifactTyped(a), NEW n \in DOMAIN a.ratios,
         KeyOf(a, n) \in D, NEW i \in 1..Len(a.steps)
  PROVE  \E e \in LedgerEvents : UseMade(u, KeyOf(a, n), a, i, e)
<1> DEFINE k == KeyOf(a, n)
           q == Corroborate(u.queue, k, a.steps[i], a.ratios[k.name][i])
           e == UseEvent(k, a, i, q[k].state)
<1>1. /\ k.cutoff = a.snapshot /\ k.name = n /\ n \in Names /\ a.steps[i] \in Nat /\ a.stations[i] \in Nat
      /\ a.ratios[n][i] \in Int /\ a.snapshot \in Nat /\ a.through \in Nat
  <2>1. k.cutoff = a.snapshot /\ k.name = n
    BY DEF KeyOf
  <2>2. a.steps \in Seq(Nat) /\ a.stations \in Seq(Nat) /\ i \in 1..Len(a.stations)
    BY DEF ArtifactTyped
  <2>3. a.steps[i] \in Nat /\ a.stations[i] \in Nat
    BY <2>2
  <2>4. n \in Names /\ a.ratios[n][i] \in Int /\ a.snapshot \in Nat /\ a.through \in Nat
    BY DEF ArtifactTyped
  <2> QED BY <2>1, <2>3, <2>4
<1>2. u.queue \in [D -> Candidates] /\ k \in D
  BY DEF Uses
<1> HIDE DEF k
<1>3. /\ q[k].steps = Append(u.queue[k].steps, a.steps[i])
      /\ q[k].sum = u.queue[k].sum + a.ratios[k.name][i]
      /\ q[k].state \in Verdicts
  BY <1>2, VerdictTyped DEF Corroborate
<1> HIDE DEF q
<1>4. /\ e.type = "corroboration" /\ e.cutoff = k.cutoff /\ e.name = k.name /\ e.through = a.through
      /\ e.step = a.steps[i] /\ e.ratio = a.ratios[k.name][i] /\ e.state = q[k].state
  BY DEF UseEvent
<1>5. e \in LedgerEvents
  BY <1>1, <1>3 DEF UseEvents, UseEvent, LedgerEvents
<1>6. Used(u, k, a, i).queue = q /\ Used(u, k, a, i).ledger = Append(u.ledger, e)
  BY DEF Used, q, e
<1> HIDE DEF e
<1>7. e.ratio \in Int
  BY <1>1, <1>4
<1>8. UseMade(u, k, a, i, e)
  BY <1>3, <1>4, <1>6, <1>7 DEF UseMade
<1> QED BY <1>5, <1>8 DEF k

\* What the ledger tells of a candidate is what the queue says of it.
Accounted(u, k, t) ==
  LET uses == UsesOf(u.ledger, k, t)
  IN  /\ Column(uses, "step") = u.queue[k].steps
      /\ Column(uses, "ratio") \in Seq(Int) /\ Total(Column(uses, "ratio")) = u.queue[k].sum
      /\ u.queue[k].state = IF uses = <<>> THEN "pending" ELSE Last(uses).state

LEMMA RowAccounted ==
  ASSUME NEW D, D \subseteq CandidateKeys, NEW u \in Uses(D), NEW a, ArtifactTyped(a),
         NEW n \in DOMAIN a.ratios, KeyOf(a, n) \in D, NEW i \in 1..Len(a.steps),
         NEW t, a.through <= t, NEW k \in D, Accounted(u, k, t)
  PROVE  Accounted(Row(u, KeyOf(a, n), a, i), k, t)
<1> DEFINE key == KeyOf(a, n)
           v == Used(u, key, a, i)
           uses == UsesOf(u.ledger, k, t)
<1>1. PICK e \in LedgerEvents : UseMade(u, key, a, i, e)
  BY UsedIs
<1>2. u.ledger \in Seq(LedgerEvents)
  BY DEF Uses
<1>3. v.ledger = Append(u.ledger, e) /\ e.type = "corroboration"
      /\ e.cutoff = key.cutoff /\ e.name = key.name /\ e.through = a.through /\ e.ratio \in Int
  BY <1>1 DEF UseMade
<1>4. uses \in Seq(LedgerEvents)
      /\ UsesOf(v.ledger, k, t) = IF IsUse(e, k, t) THEN Append(uses, e) ELSE uses
  <2>1. /\ UsesOf(u.ledger, k, t) \in Seq(LedgerEvents)
        /\ UsesOf(Append(u.ledger, e), k, t)
             = IF IsUse(e, k, t) THEN Append(UsesOf(u.ledger, k, t), e) ELSE UsesOf(u.ledger, k, t)
    BY <1>2, UsesAppend, ZenonT(40)
  <2> HIDE DEF v
  <2> QED BY <1>3, <2>1
<1> HIDE DEF uses
<1>5. CASE key = k
  <2>1. IsUse(e, k, t)
    BY <1>3, <1>5 DEF IsUse
  <2>2. /\ v.queue[k].steps = Append(u.queue[k].steps, e.step)
        /\ v.queue[k].sum = u.queue[k].sum + e.ratio
        /\ v.queue[k].state = e.state
    BY <1>1, <1>5 DEF UseMade
  <2>3. /\ Column(uses, "step") = u.queue[k].steps
        /\ Column(uses, "ratio") \in Seq(Int) /\ Total(Column(uses, "ratio")) = u.queue[k].sum
    BY DEF Accounted, uses
  <2>4. UsesOf(v.ledger, k, t) = Append(uses, e) /\ Listed(uses)
    BY <1>4, <2>1 DEF Listed
  <2>5. /\ Column(Append(uses, e), "step") = Append(Column(uses, "step"), e.step)
        /\ Column(Append(uses, e), "ratio") = Append(Column(uses, "ratio"), e.ratio)
    BY <2>4, ColumnAppend
  <2>6. /\ Append(Column(uses, "ratio"), e.ratio) \in Seq(Int)
        /\ Total(Append(Column(uses, "ratio"), e.ratio)) = Total(Column(uses, "ratio")) + e.ratio
    <3>1. Total(Append(Column(uses, "ratio"), e.ratio)) = Total(Column(uses, "ratio")) + e.ratio
      BY <1>3, <2>3, TotalAppend
    <3>2. Append(Column(uses, "ratio"), e.ratio) \in Seq(Int)
      BY <1>3, <2>3
    <3> QED BY <3>1, <3>2
  <2>7. Append(uses, e) # <<>> /\ Last(Append(uses, e)) = e
    BY <1>4 DEF Last
  <2>8. Accounted(v, k, t)
    BY <2>2, <2>3, <2>4, <2>5, <2>6, <2>7 DEF Accounted
  <2> QED BY <1>5, <2>8 DEF Row
<1>6. CASE key # k
  <2>1. ~(k.cutoff = key.cutoff /\ k.name = key.name)
    BY <1>6 DEF CandidateKeys
  <2>2. ~IsUse(e, k, t)
    BY <1>3, <2>1 DEF IsUse
  <2>3. UsesOf(v.ledger, k, t) = uses
    BY <1>4, <2>2
  <2>4. Row(u, key, a, i).queue[k] = u.queue[k]
    BY <1>6, RowElsewhere
  <2>5. UsesOf(Row(u, key, a, i).ledger, k, t) = uses
    BY <2>3 DEF Row, uses
  <2> QED BY <2>4, <2>5 DEF Accounted, uses
<1> QED BY <1>5, <1>6

\* Uses through t or before, of candidates in D.
UsesKnown(D, book, t) ==
  \A i \in DOMAIN book : book[i].type = "corroboration" =>
    book[i].through <= t /\ [cutoff |-> book[i].cutoff, name |-> book[i].name] \in D

\* The ledger tells what the queue says.
Accounts(D, u, t, end) ==
  /\ LedgerStates(u.ledger) = [k \in D |-> u.queue[k].state]
  /\ \A k \in D : Accounted(u, k, end)
  /\ UsesKnown(D, u.ledger, t)

\* Two ledgers that differ in uses through t or later only.
SameBefore(book, other, t) ==
  /\ SnapshotsOf(other) = SnapshotsOf(book) /\ ReceiptsOf(other) = ReceiptsOf(book)
  /\ \A s \in Nat, k \in CandidateKeys : s < t => UsesOf(other, k, s) = UsesOf(book, k, s)

AccountsOf(D, book, t, end) == {u \in Uses(D) : Accounts(D, u, t, end) /\ SameBefore(book, u.ledger, t)}

LEMMA RowAccounts ==
  ASSUME NEW D, D \subseteq CandidateKeys, NEW u \in Uses(D), NEW a, ArtifactTyped(a),
         NEW n \in DOMAIN a.ratios, KeyOf(a, n) \in D, NEW i \in 1..Len(a.steps),
         NEW end, a.through <= end, Accounts(D, u, a.through, end)
  PROVE  Accounts(D, Row(u, KeyOf(a, n), a, i), a.through, end)
<1> DEFINE key == KeyOf(a, n)
           v == Used(u, key, a, i)
           t == a.through
<1>1. PICK e \in LedgerEvents : UseMade(u, key, a, i, e)
  BY UsedIs
<1>2. u.ledger \in Seq(LedgerEvents) /\ u.queue \in [D -> Candidates]
  BY DEF Uses
<1>3. v.ledger = Append(u.ledger, e) /\ e.type = "corroboration" /\ e.through = t
      /\ e.cutoff = key.cutoff /\ e.name = key.name /\ v.queue[key].state = e.state
  BY <1>1 DEF UseMade
<1>4. v \in Uses(D)
  BY UsedTyped
<1>5. key = [cutoff |-> e.cutoff, name |-> e.name] /\ key \in D
  BY <1>3 DEF CandidateKeys
<1>6. LedgerStates(v.ledger) = [k \in D |-> v.queue[k].state]
  <2>1. LedgerStates(v.ledger) = Told(LedgerStates(u.ledger), e)
    BY <1>2, <1>3, ToldAppend
  <2>2. LedgerStates(u.ledger) = [k \in D |-> u.queue[k].state]
    BY DEF Accounts
  <2>3. Told(LedgerStates(u.ledger), e) = [LedgerStates(u.ledger) EXCEPT ![key] = e.state]
    BY <1>3, <1>5 DEF Told
  <2>4. \A k \in D : k # key => v.queue[k] = u.queue[k]
    BY <1>2 DEF Used, Corroborate
  <2> HIDE DEF v, key
  <2>5. [LedgerStates(u.ledger) EXCEPT ![key] = e.state] = [k \in D |-> v.queue[k].state]
    <3>1. \A k \in D : (IF k = key THEN e.state ELSE u.queue[k].state) = v.queue[k].state
      BY <1>3, <2>4
    <3>2. [LedgerStates(u.ledger) EXCEPT ![key] = e.state]
            = [k \in D |-> IF k = key THEN e.state ELSE u.queue[k].state]
      BY <1>5, <2>2
    <3> QED BY <3>1, <3>2
  <2> QED BY <2>1, <2>3, <2>5
<1>7. UsesKnown(D, v.ledger, t)
  <2>1. Len(u.ledger) \in Nat /\ DOMAIN v.ledger = 1..(Len(u.ledger) + 1) /\ DOMAIN u.ledger = 1..Len(u.ledger)
        /\ v.ledger[Len(u.ledger) + 1] = e /\ \A j \in 1..Len(u.ledger) : v.ledger[j] = u.ledger[j]
    BY <1>2, <1>3
  <2>2. UsesKnown(D, u.ledger, t)
    BY DEF Accounts
  <2>3. e.through <= t
    BY <1>3 DEF ArtifactTyped
  <2> HIDE DEF v, key, t
  <2> QED BY <1>5, <2>1, <2>2, <2>3 DEF UsesKnown
<1>8. \A k \in D : Accounted(Row(u, key, a, i), k, end)
  BY RowAccounted DEF Accounts
<1>9. Row(u, key, a, i) = u \/ Row(u, key, a, i) = v
  BY DEF Row
<1> QED BY <1>6, <1>7, <1>8, <1>9 DEF Accounts

LEMMA RowSame ==
  ASSUME NEW D, NEW u \in Uses(D), NEW a, ArtifactTyped(a),
         NEW n \in DOMAIN a.ratios, KeyOf(a, n) \in D, NEW i \in 1..Len(a.steps),
         NEW book, SameBefore(book, u.ledger, a.through)
  PROVE  SameBefore(book, Row(u, KeyOf(a, n), a, i).ledger, a.through)
<1> DEFINE key == KeyOf(a, n)
           v == Used(u, key, a, i)
<1>1. PICK e \in LedgerEvents : UseMade(u, key, a, i, e)
  BY UsedIs
<1>2. u.ledger \in Seq(LedgerEvents)
  BY DEF Uses
<1>3. v.ledger = Append(u.ledger, e) /\ e.type = "corroboration" /\ e.through = a.through
  BY <1>1 DEF UseMade
<1>4. SnapshotsOf(v.ledger) = SnapshotsOf(u.ledger) /\ ReceiptsOf(v.ledger) = ReceiptsOf(u.ledger)
  BY <1>2, <1>3, SnapshotsAppend, ReceiptsAppend
<1>5. ASSUME NEW s \in Nat, NEW k \in CandidateKeys, s < a.through
      PROVE  UsesOf(v.ledger, k, s) = UsesOf(u.ledger, k, s)
  <2>1. ~IsUse(e, k, s)
    BY <1>3, <1>5 DEF IsUse, ArtifactTyped
  <2> QED BY <1>2, <1>3, <2>1, UsesAppend
<1>6. SameBefore(book, v.ledger, a.through)
  BY <1>4, <1>5 DEF SameBefore
<1> QED BY <1>6 DEF Row

LEMMA ConsumeAccounts ==
  ASSUME NEW D, D \subseteq CandidateKeys, NEW use \in Uses(D), NEW a, ArtifactTyped(a),
         NEW end, a.through <= end, Accounts(D, use, a.through, end)
  PROVE  /\ Accounts(D, Consume(use, a), a.through, end)
         /\ SameBefore(use.ledger, Consume(use, a).ledger, a.through)
<1> DEFINE G == AccountsOf(D, use.ledger, a.through, end)
<1>1. StaysIn(D, a, G)
  <2> SUFFICES ASSUME NEW n \in Proposed(D, a), NEW u \in Uses(D), NEW i \in 1..Len(a.steps), u \in G
               PROVE  Row(u, KeyOf(a, n), a, i) \in G
    BY DEF StaysIn, NameStays
  <2>1. n \in DOMAIN a.ratios /\ KeyOf(a, n) \in D
    BY DEF Proposed
  <2>2. Row(u, KeyOf(a, n), a, i) \in Uses(D)
    BY <2>1, RowTyped
  <2>3. Accounts(D, u, a.through, end) /\ SameBefore(use.ledger, u.ledger, a.through)
    BY DEF AccountsOf
  <2>4. Accounts(D, Row(u, KeyOf(a, n), a, i), a.through, end)
    BY <2>1, <2>3, RowAccounts
  <2>5. SameBefore(use.ledger, Row(u, KeyOf(a, n), a, i).ledger, a.through)
    BY <2>1, <2>3, RowSame
  <2> QED BY <2>2, <2>4, <2>5 DEF AccountsOf
<1>2. use \in G
  BY DEF AccountsOf, SameBefore
<1>3. Consume(use, a) \in G
  <2> HIDE DEF G
  <2> QED BY <1>1, <1>2, ConsumeStays, Zenon
<1> QED BY <1>3 DEF AccountsOf

\* Two ledgers that tell the same of proposals, uses and snapshots.
SameUses(book, other) ==
  /\ LedgerStates(other) = LedgerStates(book)
  /\ SnapshotsOf(other) = SnapshotsOf(book)
  /\ \A k, t : UsesOf(other, k, t) = UsesOf(book, k, t)

LEMMA ReceiptEntered ==
  ASSUME NEW book \in Seq(LedgerEvents), NEW e \in ReceiptEventsSet
  PROVE  SameUses(book, Append(book, e))
<1>1. e \in LedgerEvents /\ e.type = "directive_receipt"
  BY DEF LedgerEvents, ReceiptEventsSet
<1>2. LedgerStates(Append(book, e)) = LedgerStates(book)
  BY <1>1, ToldAppend DEF Told
<1>3. SnapshotsOf(Append(book, e)) = SnapshotsOf(book)
  BY <1>1, SnapshotsAppend
<1>4. ASSUME NEW k, NEW t PROVE UsesOf(Append(book, e), k, t) = UsesOf(book, k, t)
  <2>1. ~IsUse(e, k, t)
    BY <1>1 DEF IsUse
  <2> QED BY <1>1, <2>1, UsesAppend
<1> QED BY <1>2, <1>3, <1>4 DEF SameUses

\* book with the first i of some events.
Entered(book, events, i) ==
  [j \in 1..(Len(book) + i) |-> IF j <= Len(book) THEN book[j] ELSE events[j - Len(book)]]

LEMMA ReceiptsEntered ==
  ASSUME NEW book \in Seq(LedgerEvents), NEW events \in Seq(ReceiptEventsSet)
  PROVE  /\ SameUses(book, book \o events)
         /\ ReceiptsOf(book \o events)
              = ReceiptsOf(book) \union {<<events[i].cutoff, events[i].status>> : i \in 1..Len(events)}
         /\ \A D, t : UsesKnown(D, book, t) => UsesKnown(D, book \o events, t)
<1> DEFINE n == Len(book)
           m == Len(events)
           more == book \o events
<1>1. n \in Nat /\ m \in Nat /\ Len(more) = n + m /\ DOMAIN more = 1..(n + m) /\ DOMAIN book = 1..n
      /\ (\A j \in 1..n : more[j] = book[j]) /\ (\A j \in 1..m : more[n + j] = events[j])
  OBVIOUS
<1>2. \A i \in 1..m : events[i] \in ReceiptEventsSet /\ events[i].type = "directive_receipt"
  <2> TAKE i \in 1..m
  <2>1. events[i] \in ReceiptEventsSet
    OBVIOUS
  <2> QED BY <2>1 DEF ReceiptEventsSet
<1>3. \A j \in 1..n : book[j] \in LedgerEvents
  OBVIOUS
<1> HIDE DEF more
<1>20. book = Entered(book, events, 0)
  <2>1. n + 0 = n /\ \A j \in 1..n : j <= n
    BY <1>1
  <2>2. book = [j \in 1..n |-> book[j]]
    BY <1>1
  <2> QED BY <2>1, <2>2 DEF Entered
<1>21. more = Entered(book, events, m)
  <2>1. more = [j \in 1..(n + m) |-> more[j]]
    <3> DEFINE S == LedgerEvents \union ReceiptEventsSet
    <3>1. book \in Seq(S) /\ events \in Seq(S)
      OBVIOUS
    <3> HIDE DEF S
    <3>2. more \in Seq(S)
      BY <3>1 DEF more
    <3> HIDE DEF n, m
    <3> QED BY <1>1, <3>2
  <2>2. \A j \in 1..(n + m) : more[j] = IF j <= n THEN book[j] ELSE events[j - n]
    <3> TAKE j \in 1..(n + m)
    <3>1. CASE j <= n
      BY <1>1, <3>1
    <3>2. CASE ~(j <= n)
      <4>1. j - n \in 1..m /\ n + (j - n) = j
        BY <1>1, <3>2
      <4> QED BY <1>1, <3>2, <4>1
    <3> QED BY <3>1, <3>2
  <2> QED BY <2>1, <2>2 DEF Entered
<1>4. more = Entered(book, events, m) /\ book = Entered(book, events, 0)
  BY <1>20, <1>21
<1>5. \A j \in (n + 1)..(n + m) : more[j] = events[j - n] /\ j - n \in 1..m
  BY <1>1
<1>6. \A j \in (n + 1)..(n + m) : more[j].type = "directive_receipt"
  BY <1>2, <1>5
<1>7. SameUses(book, more)
  <2> DEFINE H == {i \in 0..m : Entered(book, events, i) \in Seq(LedgerEvents)
                                 /\ SameUses(book, Entered(book, events, i))}
  <2>1. 0 \in H
    BY <1>1, <1>4 DEF SameUses
  <2>2. ASSUME NEW i \in 1..m, i - 1 \in H PROVE i \in H
    <3> DEFINE b == Entered(book, events, i - 1)
               c == Entered(book, events, i)
    <3>1. b \in Seq(LedgerEvents) /\ SameUses(book, b)
      BY <2>2
    <3>2. Len(b) = n + (i - 1)
      BY <1>1 DEF Entered
    <3>3. c = Append(b, events[i])
      <4>1. c = [j \in 1..(n + i) |-> IF j <= n THEN book[j] ELSE events[j - n]]
        BY DEF Entered
      <4>2. \A j \in 1..(n + (i - 1)) : b[j] = IF j <= n THEN book[j] ELSE events[j - n]
        BY DEF Entered
      <4> HIDE DEF b
      <4>3. Append(b, events[i]) = [j \in 1..(n + i) |-> IF j = n + i THEN events[i] ELSE b[j]]
        BY <1>1, <3>1, <3>2
      <4>4. \A j \in 1..(n + i) :
              (IF j = n + i THEN events[i] ELSE b[j]) = IF j <= n THEN book[j] ELSE events[j - n]
        <5> TAKE j \in 1..(n + i)
        <5>1. CASE j = n + i
          <6>1. ~(j <= n) /\ j - n = i
            BY <1>1, <5>1
          <6> QED BY <5>1, <6>1
        <5>2. CASE j # n + i
          <6> HIDE DEF n, m, H
          <6>1. j \in 1..(n + (i - 1))
            BY <1>1, <5>2
          <6> QED BY <4>2, <5>2, <6>1
        <5> QED BY <5>1, <5>2
      <4> HIDE DEF c
      <4> QED BY <4>1, <4>3, <4>4
    <3> HIDE DEF b, c
    <3>4. events[i] \in LedgerEvents
      BY <1>2 DEF LedgerEvents
    <3>5. c \in Seq(LedgerEvents)
      <4> HIDE DEF LedgerEvents
      <4> QED BY <3>1, <3>3, <3>4
    <3>6. SameUses(b, c)
      BY <1>2, <3>1, <3>3, ReceiptEntered
    <3>7. SameUses(book, c)
      BY <3>1, <3>6 DEF SameUses
    <3>8. i \in 0..m
      BY <1>1
    <3> QED BY <3>5, <3>7, <3>8 DEF c
  <2>3. Climbs(m, H)
    <3> HIDE DEF H
    <3> QED BY <2>1, <2>2 DEF Climbs
  <2>4. m \in H
    <3> HIDE DEF H, m
    <3>1. \A i \in 0..m : i \in H
      BY <1>1, <2>3, Climb, Zenon
    <3> QED BY <1>1, <3>1
  <2> QED BY <1>4, <2>4
<1>8. ReceiptsOf(more) = ReceiptsOf(book) \union {<<events[i].cutoff, events[i].status>> : i \in 1..m}
  <2>1. ToSet(more) = ToSet(book) \union {events[i] : i \in 1..m}
    <3>1. \A j \in 1..m : n + j \in 1..(n + m)
      BY <1>1
    <3>2. \A j \in 1..(n + m) : j \in 1..n \/ j \in (n + 1)..(n + m)
      BY <1>1
    <3>3. 1..n \subseteq 1..(n + m)
      BY <1>1
    <3>4. \A j \in 1..m : more[n + j] = events[j]
      BY <1>1
    <3>5. \A j \in 1..n : more[j] = book[j]
      BY <1>1
    <3>6. DOMAIN more = 1..(n + m) /\ DOMAIN book = 1..n
      BY <1>1
    <3>7. ToSet(more) = {more[j] : j \in 1..(n + m)} /\ ToSet(book) = {book[j] : j \in 1..n}
      BY <3>6 DEF ToSet
    <3> HIDE DEF n, m
    <3>8. {more[j] : j \in 1..(n + m)} \subseteq {book[j] : j \in 1..n} \union {events[i] : i \in 1..m}
      <4> SUFFICES ASSUME NEW j \in 1..(n + m)
                   PROVE  more[j] \in {book[k] : k \in 1..n} \union {events[i] : i \in 1..m}
        OBVIOUS
      <4>1. CASE j \in 1..n
        BY <3>5, <4>1
      <4>2. CASE j \in (n + 1)..(n + m)
        BY <1>5, <4>2
      <4> QED BY <3>2, <4>1, <4>2
    <3>9. {book[j] : j \in 1..n} \subseteq {more[j] : j \in 1..(n + m)}
      BY <3>3, <3>5
    <3>10. {events[i] : i \in 1..m} \subseteq {more[j] : j \in 1..(n + m)}
      <4> SUFFICES ASSUME NEW i \in 1..m PROVE events[i] \in {more[j] : j \in 1..(n + m)}
        OBVIOUS
      <4> QED BY <3>1, <3>4
    <3> QED BY <3>7, <3>8, <3>9, <3>10
  <2> HIDE DEF m
  <2> QED BY <1>2, <2>1 DEF ReceiptsOf
<1>9. ASSUME NEW D, NEW t, UsesKnown(D, book, t) PROVE UsesKnown(D, more, t)
  <2> SUFFICES ASSUME NEW j \in 1..(n + m), more[j].type = "corroboration"
               PROVE  more[j].through <= t /\ [cutoff |-> more[j].cutoff, name |-> more[j].name] \in D
    BY <1>1 DEF UsesKnown
  <2>1. j \in 1..n
    <3>1. j \notin (n + 1)..(n + m)
      BY <1>6
    <3> QED BY <1>1, <3>1
  <2> QED BY <1>1, <1>9, <2>1 DEF UsesKnown
<1> QED BY <1>7, <1>8, <1>9 DEF more

LogEnd == Last(input.rows).step

\* The stations whose plan may have been made.
Planned == IF pc \in {"pf", "score", "fit", "plan"} THEN 1..(turn - 1) ELSE 1..turn

\* What the ledger lets a plan made at t include.
PlannedWith(t) ==
  {k \in DOMAIN queue : /\ k.cutoff <= t
                        /\ LET uses == UsesOf(ledger, k, t)
                           IN  uses # <<>> => Last(uses).state # "quarantined"}

PlanTold(i) ==
  /\ \E j \in Planned : plans[i].cutoff = input.schedule[j].step
  /\ plans[i].included = PlannedWith(plans[i].cutoff)

PlansTold == Listed(plans) /\ \A i \in DOMAIN plans : PlanTold(i)

Telling ==
  /\ Accounts(DOMAIN queue, NoUse, Here.step, LogEnd)
  /\ ReceiptsOf(ledger) = {<<c, receipts[c].status>> : c \in DOMAIN receipts}
  /\ Column(SnapshotsOf(ledger), "cutoff") = Column(snapshots, "cutoff")

LEMMA StepsWithin ==
  ASSUME input \in Inputs, Accepted(input), turn \in 1..Len(input.schedule)
  PROVE  Here.step \in Nat /\ LogEnd \in Nat /\ Here.step <= LogEnd
<1>1. HereCount \in 1..Len(input.rows) /\ input.rows[HereCount].step = Here.step
  BY EndAtRow DEF HereCount, Here, EndAt
<1>2. LogEnd = input.rows[Len(input.rows)].step /\ Len(input.rows) \in 1..Len(input.rows)
  BY InputTyped DEF LogEnd, Last
<1>3. HereCount = Len(input.rows) \/ HereCount < Len(input.rows)
  BY <1>1, InputTyped
<1> QED BY <1>1, <1>2, <1>3, InputTyped

LEMMA TellingFresh == FreshMemory => Telling /\ PlansTold
<1> SUFFICES ASSUME FreshMemory PROVE Telling /\ PlansTold
  OBVIOUS
<1>1. /\ queue = <<>> /\ ledger = <<>> /\ receipts = <<>> /\ snapshots = <<>> /\ plans = <<>>
      /\ DOMAIN <<>> = {} /\ <<>> \in Seq(LedgerEvents) /\ Len(<<>>) = 0
  BY DEF FreshMemory
<1>2. SnapshotsOf(<<>>) = <<>>
  <2>1. \A at : Kept(<<>>, at) = <<>>
    <3> TAKE at
    <3>1. PICK f : KeepsBy(<<>>, at, LedgerEvents, f)
      BY <1>1, KeptFold, Zenon
    <3> QED BY <1>1, <3>1 DEF KeepsBy
  <2> QED BY <2>1 DEF SnapshotsOf
<1>3. ReceiptsOf(<<>>) = {}
  BY DEF ReceiptsOf, ToSet
<1>4. [k \in {} |-> NoUse.queue[k].state] = <<>>
  OBVIOUS
<1>5. Accounts(DOMAIN queue, NoUse, Here.step, LogEnd)
  <2>1. NoUse.ledger = <<>>
    BY <1>1 DEF NoUse
  <2>2. UsesKnown(DOMAIN queue, NoUse.ledger, Here.step)
    BY <1>1, <2>1 DEF UsesKnown
  <2>3. LedgerStates(NoUse.ledger) = [k \in DOMAIN queue |-> NoUse.queue[k].state]
    BY <1>1, <1>4, <2>1, NothingTotals
  <2>4. \A k \in DOMAIN queue : Accounted(NoUse, k, LogEnd)
    BY <1>1
  <2> QED BY <2>2, <2>3, <2>4 DEF Accounts
<1>6. Telling
  BY <1>1, <1>2, <1>3, <1>5 DEF Telling
<1>7. PlansTold
  BY <1>1, NoneListed DEF PlansTold
<1> QED BY <1>6, <1>7

\* Plans that are left alone, with all they were made with.
LEMMA PlansKept ==
  ASSUME PlansTold, UNCHANGED <<input, plans>>, Planned \subseteq Planned',
         \A j \in Planned : PlannedWith(input.schedule[j].step)' = PlannedWith(input.schedule[j].step)
  PROVE  PlansTold'
<1>1. ASSUME NEW i \in DOMAIN plans PROVE PlanTold(i)'
  <2>1. PICK j \in Planned : plans[i].cutoff = input.schedule[j].step
    BY DEF PlansTold, PlanTold
  <2>2. plans[i].included = PlannedWith(input.schedule[j].step)
    BY <2>1 DEF PlansTold, PlanTold
  <2> QED BY <2>1, <2>2 DEF PlanTold
<1> QED BY <1>1 DEF PlansTold, Listed

LEMMA AccountsMoved ==
  ASSUME NEW D, NEW u, NEW v, NEW t, NEW end, Accounts(D, u, t, end),
         v.queue = u.queue, SameUses(u.ledger, v.ledger), UsesKnown(D, v.ledger, t)
  PROVE  Accounts(D, v, t, end)
<1>1. \A k \in D : Accounted(v, k, end)
  BY DEF Accounts, Accounted, SameUses
<1> QED BY <1>1 DEF Accounts, SameUses

\* The statuses that new receipts bring into the ledger.
LEMMA NewStatuses ==
  ASSUME Control, Lineage, Books, NEW emitted \in Emissions, EmissionAccepted(emitted)
  PROVE  LET events == ReceiptEvents(emitted)
         IN  {<<events[i].cutoff, events[i].status>> : i \in 1..Len(events)}
               = {<<c, emitted[c].status>> : c \in NewReceipts(emitted)}
<1> DEFINE events == ReceiptEvents(emitted)
           new == SetToSeq(NewReceipts(emitted))
<1>1. /\ IsFiniteSet(NewReceipts(emitted)) /\ NewReceipts(emitted) \subseteq DOMAIN emitted
      /\ Len(events) = Len(new)
  BY NewEventsTyped
<1>2. /\ new \in Seq(NewReceipts(emitted))
      /\ \A c \in NewReceipts(emitted) : \E i \in 1..Len(new) : new[i] = c
  BY <1>1, Enumerated
<1>3. ASSUME NEW i \in 1..Len(new)
      PROVE  new[i] \in NewReceipts(emitted) /\ events[i].cutoff = new[i] /\ events[i].status = emitted[new[i]].status
  <2>1. new[i] \in NewReceipts(emitted)
    BY <1>2
  <2>2. events[i] = ReceiptEvent(emitted[new[i]])
    BY <1>2 DEF ReceiptEvents
  <2>3. emitted[new[i]].directive = new[i]
    BY <1>1, <2>1, EmissionIs
  <2> QED BY <2>1, <2>2, <2>3 DEF ReceiptEvent
<1> HIDE DEF events, new
<1>4. {<<events[i].cutoff, events[i].status>> : i \in 1..Len(events)}
        = {<<c, emitted[c].status>> : c \in NewReceipts(emitted)}
  BY <1>1, <1>2, <1>3
<1> QED BY <1>4 DEF events

\* Receipts that are taken in are told by the ledger.
LEMMA TellingIngest ==
  ASSUME Control, Lineage, Books, Telling, PlansTold, NEW emitted \in Emissions, IngestReceipts(emitted),
         UNCHANGED <<input, turn, queue, snapshots, plans>>,
         pc \in Active, pc' \notin {"pf"}, Planned \subseteq Planned'
  PROVE  Telling' /\ PlansTold'
<1> DEFINE events == ReceiptEvents(emitted)
<1>1. EmissionAccepted(emitted) /\ ledger' = ledger \o events
  BY DEF IngestReceipts
<1>2. events \in Seq(ReceiptEventsSet) /\ ledger \in Seq(LedgerEvents)
  BY <1>1, NewEventsTyped DEF Books
<1>3. {<<events[i].cutoff, events[i].status>> : i \in 1..Len(events)}
        = {<<c, emitted[c].status>> : c \in NewReceipts(emitted)}
  BY <1>1, NewStatuses
<1> HIDE DEF events
<1>4. /\ SameUses(ledger, ledger')
      /\ ReceiptsOf(ledger') = ReceiptsOf(ledger)
                                 \union {<<events[i].cutoff, events[i].status>> : i \in 1..Len(events)}
      /\ \A D, t : UsesKnown(D, ledger, t) => UsesKnown(D, ledger', t)
  BY <1>1, <1>2, ReceiptsEntered
<1>5. Here' = Here /\ LogEnd' = LogEnd
  BY DEF Here, LogEnd
<1>6. Accounts(DOMAIN queue, NoUse, Here.step, LogEnd)'
  <2>1. NoUse.queue = queue /\ NoUse.ledger = ledger /\ NoUse'.queue = queue /\ NoUse'.ledger = ledger'
    BY DEF NoUse
  <2>2. Accounts(DOMAIN queue, NoUse, Here.step, LogEnd)
    BY DEF Telling
  <2>3. UsesKnown(DOMAIN queue, NoUse'.ledger, Here.step)
    BY <1>4, <2>1, <2>2 DEF Accounts
  <2>4. Accounts(DOMAIN queue, NoUse', Here.step, LogEnd)
    BY <1>4, <2>1, <2>2, <2>3, AccountsMoved
  <2> QED BY <1>5, <2>4
<1>7. ReceiptsOf(ledger') = {<<c, receipts'[c].status>> : c \in DOMAIN receipts'}
  <2>1. receipts' = [c \in DOMAIN receipts \union DOMAIN emitted |->
                       IF c \in DOMAIN receipts THEN receipts[c] ELSE emitted[c]]
    BY DEF IngestReceipts
  <2>2. DOMAIN receipts' = DOMAIN receipts \union NewReceipts(emitted)
    BY <2>1 DEF NewReceipts
  <2>3. /\ \A c \in DOMAIN receipts : receipts'[c].status = receipts[c].status
        /\ \A c \in NewReceipts(emitted) : receipts'[c].status = emitted[c].status
    BY <2>1 DEF NewReceipts
  <2>4. ReceiptsOf(ledger) = {<<c, receipts[c].status>> : c \in DOMAIN receipts}
    BY DEF Telling
  <2> QED BY <1>3, <1>4, <2>2, <2>3, <2>4
<1>8. Column(SnapshotsOf(ledger'), "cutoff") = Column(snapshots, "cutoff")
  BY <1>4 DEF Telling, SameUses
<1>9. Telling'
  BY <1>6, <1>7, <1>8 DEF Telling
<1>10. \A t : PlannedWith(t)' = PlannedWith(t)
  BY <1>4 DEF PlannedWith, SameUses
<1>11. PlansTold'
  BY <1>10, PlansKept
<1> QED BY <1>9, <1>11

\* So are those of a station's run of the filter,
LEMMA TellingReplay ==
  ASSUME Control, Lineage, Books, Telling, PlansTold, ReplayStation
  PROVE  Telling' /\ PlansTold'
<1>1. PICK emitted \in Emissions : IngestReceipts(emitted)
  BY DEF ReplayStation
<1>2. /\ pc = "pf" /\ UNCHANGED <<input, turn, queue, snapshots, plans>>
      /\ trigger' \in BOOLEAN
      /\ pc' = "self_refused" \/ pc' = AfterPF(trigger', Scoreable(queue, receipts'))
  BY DEF ReplayStation
<1>3. pc' \in {"score", "fit", "plan", "next", "self_refused"}
  BY <1>2 DEF AfterPF, AfterScore, AfterFit
<1>4. turn \in Nat
  BY <1>2, InputTyped DEF Control, Active
<1>5. Planned \subseteq Planned'
  BY <1>2, <1>3, <1>4 DEF Planned
<1> QED BY <1>1, <1>2, <1>3, <1>5, TellingIngest DEF Active

\* and those of the last one.
LEMMA TellingFinalPF ==
  ASSUME Control, Lineage, Books, Telling, PlansTold, FinalPF
  PROVE  Telling' /\ PlansTold'
<1>1. PICK emitted \in Emissions : IngestReceipts(emitted)
  BY DEF FinalPF
<1>2. /\ pc = "final_pf" /\ UNCHANGED <<input, turn, queue, snapshots, plans>>
      /\ pc' \in {"self_refused", "final_fits"}
  BY DEF FinalPF
<1>3. Planned \subseteq Planned'
  BY <1>2 DEF Planned
<1> QED BY <1>1, <1>2, <1>3, TellingIngest DEF Active

\* A score is told as it is consumed.
LEMMA TellingScore ==
  ASSUME Control, Lineage, Books, Scoring, Telling, PlansTold, Score
  PROVE  Telling' /\ PlansTold'
<1>0. pc = "score" /\ input \in Inputs /\ Accepted(input) /\ turn \in 1..Len(input.schedule)
      /\ UNCHANGED <<input, turn, snapshots, receipts, plans>>
      /\ NoUse \in Uses(DOMAIN queue)
  BY ScoreIs
<1>1. PICK c, a : ScoreMakes(c, a)
  BY ScoreIs, Zenon
<1>2. c \in ScoreableSnapshots
  BY <1>1 DEF ScoreMakes, Unscored
<1>3. ArtifactTyped(a) /\ a.through = Here.step
  BY <1>0, <1>1, <1>2, ArtifactIs DEF ScoreMakes
<1> DEFINE after == Consume(NoUse, a)
<1>4. queue' = after.queue /\ ledger' = after.ledger /\ pc' \in {"self_refused", AfterScore(trigger), "score"}
  BY <1>1 DEF ScoreMakes, AfterScore, AfterFit
<1>5. Here.step \in Nat /\ LogEnd \in Nat /\ Here.step <= LogEnd
  BY <1>0, StepsWithin
<1>6. DOMAIN queue \subseteq CandidateKeys
  BY DEF Books
<1>7. Accounts(DOMAIN queue, NoUse, a.through, LogEnd)
  BY <1>3 DEF Telling
<1>8. /\ Accounts(DOMAIN queue, after, a.through, LogEnd)
      /\ SameBefore(NoUse.ledger, after.ledger, a.through)
  BY <1>0, <1>3, <1>5, <1>6, <1>7, ConsumeAccounts
<1>9. after \in Uses(DOMAIN queue)
  BY <1>0, <1>3, ConsumeTyped
<1>10. DOMAIN queue' = DOMAIN queue
  BY <1>4, <1>9 DEF Uses
<1> HIDE DEF after
<1>11. Here' = Here /\ LogEnd' = LogEnd
  BY <1>0 DEF Here, LogEnd
<1>12. Accounts(DOMAIN queue, NoUse, Here.step, LogEnd)'
  <2>1. NoUse'.queue = after.queue /\ NoUse'.ledger = after.ledger
    BY <1>4 DEF NoUse
  <2>2. SameUses(after.ledger, NoUse'.ledger) /\ UsesKnown(DOMAIN queue, NoUse'.ledger, a.through)
    BY <1>8, <2>1 DEF SameUses, Accounts
  <2>3. Accounts(DOMAIN queue, NoUse', a.through, LogEnd)
    BY <1>8, <2>1, <2>2, AccountsMoved
  <2> QED BY <1>3, <1>10, <1>11, <2>3
<1>13. SameBefore(ledger, ledger', Here.step)
  BY <1>3, <1>4, <1>8 DEF NoUse
<1>14. Telling'
  BY <1>0, <1>12, <1>13 DEF Telling, SameBefore
<1>15. Planned \subseteq Planned' /\ Planned = 1..(turn - 1)
  <2>1. pc' \in {"self_refused", "score", "fit", "plan", "next"}
    BY <1>4 DEF AfterScore, AfterFit
  <2> QED BY <1>0, <2>1, InputTyped DEF Planned
<1>16. ASSUME NEW j \in Planned
       PROVE  PlannedWith(input.schedule[j].step)' = PlannedWith(input.schedule[j].step)
  <2> DEFINE s == input.schedule[j].step
  <2>1. s \in Nat /\ s < Here.step
    BY <1>0, <1>15, InputTyped DEF Here
  <2>2. s' = s
    BY <1>0
  <2> HIDE DEF s
  <2>3. \A k \in DOMAIN queue : UsesOf(ledger', k, s) = UsesOf(ledger, k, s)
    BY <1>6, <1>13, <2>1 DEF SameBefore
  <2>4. PlannedWith(s)' = PlannedWith(s)
    BY <1>10, <2>2, <2>3 DEF PlannedWith
  <2> QED BY <2>4 DEF s
<1>17. PlansTold'
  BY <1>0, <1>15, <1>16, PlansKept
<1> QED BY <1>14, <1>17

\* An event that is no use.
LEMMA OtherEntered ==
  ASSUME NEW book \in Seq(LedgerEvents), NEW e \in LedgerEvents, e.type # "corroboration"
  PROVE  /\ \A k, t : UsesOf(Append(book, e), k, t) = UsesOf(book, k, t)
         /\ \A D, t : UsesKnown(D, book, t) => UsesKnown(D, Append(book, e), t)
<1>1. ASSUME NEW k, NEW t PROVE UsesOf(Append(book, e), k, t) = UsesOf(book, k, t)
  <2>1. ~IsUse(e, k, t)
    BY DEF IsUse
  <2> QED BY <2>1, UsesAppend
<1>2. ASSUME NEW D, NEW t, UsesKnown(D, book, t) PROVE UsesKnown(D, Append(book, e), t)
  <2>1. Len(book) \in Nat /\ DOMAIN Append(book, e) = 1..(Len(book) + 1) /\ DOMAIN book = 1..Len(book)
        /\ Append(book, e)[Len(book) + 1] = e /\ \A j \in 1..Len(book) : Append(book, e)[j] = book[j]
    OBVIOUS
  <2> DEFINE more == Append(book, e)
  <2> HIDE DEF more
  <2>2. UsesKnown(D, more, t)
    BY <1>2, <2>1 DEF UsesKnown, more
  <2> QED BY <2>2 DEF more
<1> QED BY <1>1, <1>2

\* A candidate that is not known has no uses.
LEMMA UnknownUnused ==
  ASSUME NEW D, NEW book \in Seq(LedgerEvents), NEW t, UsesKnown(D, book, t),
         NEW k \in CandidateKeys, k \notin D, NEW s
  PROVE  UsesOf(book, k, s) = <<>>
<1> DEFINE at == {i \in DOMAIN book : /\ book[i].type = "corroboration"
                                     /\ book[i].cutoff = k.cutoff /\ book[i].name = k.name
                                     /\ book[i].through <= s}
<1>1. k = [cutoff |-> k.cutoff, name |-> k.name]
  BY DEF CandidateKeys
<1>2. \A i \in 1..Len(book) : i \notin at
  BY <1>1 DEF UsesKnown
<1>3. UsesOf(book, k, s) = Kept(book, at)
  BY DEF UsesOf
<1> HIDE DEF at
<1>4. Len(book) \in Nat /\ 0 \in 0..Len(book) /\ \A i \in 1..Len(book) : i \in at <=> i <= 0
  BY <1>2
<1>5. Kept(book, at) = SubSeq(book, 1, 0)
  BY <1>4, KeptFirst
<1>6. SubSeq(book, 1, 0) = <<>>
  OBVIOUS
<1> QED BY <1>3, <1>5, <1>6

\* A directive's candidates are registered, and nothing is known of them.
LEMMA RegisterAccounts ==
  ASSUME NEW D \in SUBSET CandidateKeys, NEW q \in [D -> Candidates],
         NEW book \in Seq(LedgerEvents), NEW v, NEW d, NEW t, NEW end,
         d.cutoff \in Nat, d.proposals \subseteq Names, Keys(d) \intersect D = {},
         \A k \in D : Accounted([queue |-> q, ledger |-> book, refused |-> FALSE], k, end),
         LedgerStates(book) = [k \in D |-> q[k].state],
         UsesKnown(D, book, t),
         v.queue = Register(q, d), v.ledger = Append(book, DirectiveEvent(d))
  PROVE  Accounts(D \union Keys(d), v, t, end)
<1> DEFINE e == DirectiveEvent(d)
           E == D \union Keys(d)
<1>1. e \in LedgerEvents /\ e.type = "directive_issued" /\ Keys(e) = Keys(d)
  BY DEF DirectiveEvent, LedgerEvents, DirectiveEvents, Keys
<1>2. v.queue = [k \in E |-> IF k \in Keys(d) THEN NewCandidate ELSE q[k]]
  BY DEF Register
<1>3. Keys(d) \subseteq CandidateKeys
  BY DEF Keys, CandidateKeys
<1> HIDE DEF e
<1>4. LedgerStates(v.ledger) = [k \in E |-> v.queue[k].state]
  <2>1. LedgerStates(v.ledger) = Told(LedgerStates(book), e)
    BY <1>1, ToldAppend DEF e
  <2>2. Told(LedgerStates(book), e)
          = [k \in DOMAIN LedgerStates(book) \union Keys(d) |->
               IF k \in Keys(d) THEN "pending" ELSE LedgerStates(book)[k]]
    BY <1>1 DEF Told
  <2>3. DOMAIN LedgerStates(book) = D /\ \A k \in D : LedgerStates(book)[k] = q[k].state
    OBVIOUS
  <2>4. \A k \in E : v.queue[k].state = IF k \in Keys(d) THEN "pending" ELSE q[k].state
    BY <1>2 DEF NewCandidate
  <2>5. LedgerStates(v.ledger)
          = [k \in E |-> IF k \in Keys(d) THEN "pending" ELSE LedgerStates(book)[k]]
    BY <2>1, <2>2, <2>3
  <2>6. \A k \in E : (IF k \in Keys(d) THEN "pending" ELSE LedgerStates(book)[k]) = v.queue[k].state
    BY <2>3, <2>4
  <2> HIDE DEF E
  <2> QED BY <2>5, <2>6, Zenon
<1>5. /\ \A k, s : UsesOf(v.ledger, k, s) = UsesOf(book, k, s)
      /\ UsesKnown(D, v.ledger, t)
  BY <1>1, OtherEntered DEF e
<1>6. UsesKnown(E, v.ledger, t)
  BY <1>5 DEF UsesKnown
<1>7. ASSUME NEW k \in D PROVE Accounted(v, k, end)
  <2>1. v.queue[k] = q[k]
    BY <1>2
  <2>2. Accounted([queue |-> q, ledger |-> book, refused |-> FALSE], k, end)
    OBVIOUS
  <2> QED BY <1>5, <2>1, <2>2 DEF Accounted
<1>8. ASSUME NEW k \in Keys(d) PROVE Accounted(v, k, end)
  <2>1. v.queue[k] = NewCandidate
    BY <1>2
  <2>2. UsesOf(book, k, end) = <<>>
    BY <1>3, UnknownUnused
  <2>3. Column(<<>>, "step") = <<>> /\ Column(<<>>, "ratio") = <<>> /\ <<>> \in Seq(Int)
    BY DEF Column
  <2>4. UsesOf(v.ledger, k, end) = <<>>
    BY <1>5, <2>2
  <2>5. Total(<<>>) = 0
    BY NothingTotals
  <2>6. v.queue[k].state = "pending" /\ v.queue[k].steps = <<>> /\ v.queue[k].sum = 0
    BY <2>1 DEF NewCandidate
  <2> QED BY <2>3, <2>4, <2>5, <2>6, Zenon DEF Accounted
<1> QED BY <1>4, <1>6, <1>7, <1>8 DEF Accounts

\* A snapshot and its directive are told as they are entered.
LEMMA TellingFit ==
  ASSUME Control, Lineage, Books, Evidence, Telling, PlansTold, Fit
  PROVE  Telling' /\ PlansTold'
<1>0. /\ pc = "fit" /\ input \in Inputs /\ Accepted(input) /\ turn \in 1..Len(input.schedule)
      /\ Here.step \in Nat /\ Prefix.cutoff = Here.step /\ Prefix.covered \in Seq(Nat)
      /\ UNCHANGED <<input, turn, receipts, plans>> /\ pc' \in {"self_refused", AfterFit}
  BY FitIs
<1>1. PICK fit \in FitOutputs, found \in SUBSET Names :
        \E proposals \in SUBSET found : FitMakes(fit, found, proposals)
  BY FitIs, Zenon
<1>2. PICK proposals \in SUBSET found : FitMakes(fit, found, proposals)
  BY <1>1, Zenon
<1> DEFINE s == BuiltSnapshot(Prefix, fit, found, Previous)
           d == BuiltDirective(s, proposals)
           entered == Append(ledger, SnapshotEvent(s))
<1>3. s.cutoff = Here.step /\ s.covered \in Seq(Nat)
      /\ d.cutoff = Here.step /\ d.proposals = proposals /\ proposals \subseteq Names
  BY <1>0 DEF BuiltSnapshot, BuiltDirective
<1> HIDE DEF s, d
<1>4. SnapshotEvent(s) \in LedgerEvents /\ SnapshotEvent(s).type = "snapshot_registered"
      /\ SnapshotEvent(s).cutoff = s.cutoff
  BY <1>0, <1>3 DEF SnapshotEvent, LedgerEvents, SnapshotEvents
<1>5. DirectiveEvent(d) \in LedgerEvents /\ DirectiveEvent(d).type = "directive_issued"
  BY <1>0, <1>3 DEF DirectiveEvent, LedgerEvents, DirectiveEvents
<1>6. /\ snapshots' = Append(snapshots, s)
      /\ queue' = IF proposals # {} THEN Register(queue, d) ELSE queue
      /\ ledger' = IF proposals # {} THEN Append(entered, DirectiveEvent(d)) ELSE entered
  BY <1>2 DEF FitMakes, s, d
<1>7. ledger \in Seq(LedgerEvents) /\ entered \in Seq(LedgerEvents)
      /\ DOMAIN queue \subseteq CandidateKeys /\ queue \in [DOMAIN queue -> Candidates]
  <2>1. ledger \in Seq(LedgerEvents)
    BY DEF Books
  <2>2. entered \in Seq(LedgerEvents)
    BY <1>4, <2>1
  <2> QED BY <2>1, <2>2 DEF Books
<1>8. /\ LedgerStates(entered) = LedgerStates(ledger)
      /\ SnapshotsOf(entered) = Append(SnapshotsOf(ledger), SnapshotEvent(s))
      /\ SnapshotsOf(ledger) \in Seq(LedgerEvents)
      /\ ReceiptsOf(entered) = ReceiptsOf(ledger)
      /\ \A k, t : UsesOf(entered, k, t) = UsesOf(ledger, k, t)
      /\ \A D, t : UsesKnown(D, ledger, t) => UsesKnown(D, entered, t)
  <2>1. LedgerStates(entered) = LedgerStates(ledger)
    BY <1>4, <1>7, ToldAppend DEF Told
  <2>2. /\ SnapshotsOf(entered) = Append(SnapshotsOf(ledger), SnapshotEvent(s))
        /\ SnapshotsOf(ledger) \in Seq(LedgerEvents)
    BY <1>4, <1>7, SnapshotsAppend
  <2>3. ReceiptsOf(entered) = ReceiptsOf(ledger)
    BY <1>4, <1>7, ReceiptsAppend
  <2> QED BY <1>4, <1>7, <2>1, <2>2, <2>3, OtherEntered
<1> HIDE DEF entered
<1>9. /\ SnapshotsOf(ledger') = SnapshotsOf(entered) /\ ReceiptsOf(ledger') = ReceiptsOf(entered)
      /\ \A k, t : UsesOf(ledger', k, t) = UsesOf(ledger, k, t)
  <2>1. CASE proposals # {}
    <3> DEFINE e == DirectiveEvent(d)
    <3>1. e \in LedgerEvents /\ e.type = "directive_issued" /\ ledger' = Append(entered, e)
      BY <1>5, <1>6, <2>1
    <3> HIDE DEF e
    <3>2. SnapshotsOf(Append(entered, e)) = SnapshotsOf(entered)
      BY <1>7, <3>1, SnapshotsAppend
    <3>3. ReceiptsOf(Append(entered, e)) = ReceiptsOf(entered)
      BY <1>7, <3>1, ReceiptsAppend
    <3>4. e.type # "corroboration"
      BY <3>1
    <3>5. \A k, t : UsesOf(Append(entered, e), k, t) = UsesOf(entered, k, t)
      BY <1>7, <3>1, <3>4, OtherEntered, Zenon
    <3> QED BY <1>8, <3>1, <3>2, <3>3, <3>5
  <2>2. CASE proposals = {}
    BY <1>6, <1>8, <2>2
  <2> QED BY <2>1, <2>2
<1>10. Column(SnapshotsOf(ledger'), "cutoff") = Column(snapshots', "cutoff")
  <2>1. Listed(snapshots) /\ Listed(SnapshotsOf(ledger))
    BY <1>8 DEF Lineage, Listed
  <2>2. Column(snapshots', "cutoff") = Append(Column(snapshots, "cutoff"), s.cutoff)
    BY <1>6, <2>1, ColumnAppend
  <2>3. Column(SnapshotsOf(ledger'), "cutoff") = Append(Column(SnapshotsOf(ledger), "cutoff"), s.cutoff)
    BY <1>4, <1>8, <1>9, <2>1, ColumnAppend, SMTT(40)
  <2> QED BY <2>2, <2>3 DEF Telling
<1>11. Here' = Here /\ LogEnd' = LogEnd
  BY <1>0 DEF Here, LogEnd
<1>12. NoUse.queue = queue /\ NoUse.ledger = ledger /\ NoUse'.queue = queue' /\ NoUse'.ledger = ledger'
  BY DEF NoUse
<1>13. Accounts(DOMAIN queue, NoUse, Here.step, LogEnd)
  BY DEF Telling
<1>14. \A k \in DOMAIN queue : k.cutoff < Here.step /\ k.cutoff \in Nat
  BY <1>0, Placed DEF Active, Books, CandidateKeys
<1>15. \A k \in Keys(d) : k.cutoff = Here.step
  BY <1>3 DEF Keys
<1>16. Accounts(DOMAIN queue, NoUse, Here.step, LogEnd)'
  <2>1. CASE proposals # {}
    <3> DEFINE u == [queue |-> queue, ledger |-> entered, refused |-> FALSE]
    <3>1. \A k \in DOMAIN queue : Accounted(u, k, LogEnd)
      <4> TAKE k \in DOMAIN queue
      <4>1. Accounted(NoUse, k, LogEnd)
        BY <1>13 DEF Accounts
      <4> QED BY <1>8, <1>12, <4>1 DEF Accounted
    <3> HIDE DEF u
    <3>2. Keys(d) \intersect DOMAIN queue = {}
      BY <1>0, <1>14, <1>15
    <3>3. LedgerStates(entered) = [k \in DOMAIN queue |-> queue[k].state]
      BY <1>8, <1>12, <1>13 DEF Accounts
    <3>4. UsesKnown(DOMAIN queue, entered, Here.step)
      BY <1>8, <1>12, <1>13 DEF Accounts
    <3>5. DOMAIN queue' = DOMAIN queue \union Keys(d)
      BY <1>6, <2>1 DEF Register
    <3>6. NoUse'.queue = Register(queue, d) /\ NoUse'.ledger = Append(entered, DirectiveEvent(d))
      BY <1>6, <1>12, <2>1
    <3>7. DOMAIN queue \in SUBSET CandidateKeys /\ d.cutoff \in Nat /\ d.proposals \subseteq Names
      BY <1>0, <1>3, <1>7
    <3>8. Accounts(DOMAIN queue \union Keys(d), NoUse', Here.step, LogEnd)
      BY <1>7, <3>1, <3>2, <3>3, <3>4, <3>6, <3>7, RegisterAccounts, Zenon DEF u
    <3> QED BY <1>11, <3>5, <3>8
  <2>2. CASE proposals = {}
    <3>1. queue' = queue /\ ledger' = entered
      BY <1>6, <2>2
    <3>2. UsesKnown(DOMAIN queue, ledger', Here.step)
      BY <1>8, <1>12, <1>13, <3>1 DEF Accounts
    <3>3. LedgerStates(ledger') = [k \in DOMAIN queue |-> queue[k].state]
      BY <1>8, <1>12, <1>13, <3>1 DEF Accounts
    <3>4. \A k \in DOMAIN queue : Accounted(NoUse', k, LogEnd)
      <4> TAKE k \in DOMAIN queue
      <4>1. Accounted(NoUse, k, LogEnd)
        BY <1>13 DEF Accounts
      <4> QED BY <1>9, <1>12, <3>1, <4>1 DEF Accounted
    <3>5. Accounts(DOMAIN queue, NoUse', Here.step, LogEnd)
      BY <1>12, <3>1, <3>2, <3>3, <3>4 DEF Accounts
    <3> QED BY <1>11, <3>1, <3>5
  <2> QED BY <2>1, <2>2
<1>17. Telling'
  BY <1>0, <1>8, <1>9, <1>10, <1>16 DEF Telling
<1>18. Planned \subseteq Planned' /\ Planned = 1..(turn - 1)
  BY <1>0, InputTyped DEF Planned, AfterFit
<1>19. ASSUME NEW j \in Planned
       PROVE  PlannedWith(input.schedule[j].step)' = PlannedWith(input.schedule[j].step)
  <2> DEFINE t == input.schedule[j].step
  <2>1. t \in Nat /\ t < Here.step
    <3>1. j \in 1..Len(input.schedule) /\ j < turn
      BY <1>0, <1>18, InputTyped
    <3> QED BY <1>0, <3>1, InputTyped DEF Here
  <2>2. t' = t
    BY <1>0
  <2> HIDE DEF t
  <2>3. \A k : k \in DOMAIN queue' /\ k.cutoff <= t <=> k \in DOMAIN queue /\ k.cutoff <= t
    <3>1. DOMAIN queue' = DOMAIN queue \/ DOMAIN queue' = DOMAIN queue \union Keys(d)
      BY <1>6 DEF Register
    <3>2. \A k \in Keys(d) : ~(k.cutoff <= t)
      BY <1>0, <1>15, <2>1
    <3> QED BY <3>1, <3>2
  <2>4. PlannedWith(t)' = PlannedWith(t)
    <3>1. PlannedWith(t)' = {k \in DOMAIN queue' :
                               /\ k.cutoff <= t
                               /\ LET uses == UsesOf(ledger', k, t)
                                  IN  uses # <<>> => Last(uses).state # "quarantined"}
      BY <2>2 DEF PlannedWith
    <3> QED BY <1>9, <2>3, <3>1 DEF PlannedWith
  <2> QED BY <2>4 DEF t
<1>20. PlansTold'
  BY <1>0, <1>18, <1>19, PlansKept
<1> QED BY <1>17, <1>20

\* Uses all lie within t.
LEMMA UsesWithin ==
  ASSUME NEW D, NEW book \in Seq(LedgerEvents), NEW t \in Nat, NEW end \in Nat, t <= end,
         UsesKnown(D, book, t), NEW k
  PROVE  UsesOf(book, k, t) = UsesOf(book, k, end)
<1> DEFINE uses(s) == {i \in DOMAIN book : /\ book[i].type = "corroboration"
                                          /\ book[i].cutoff = k.cutoff /\ book[i].name = k.name
                                          /\ book[i].through <= s}
<1>1. ASSUME NEW i \in 1..Len(book), book[i].type = "corroboration"
      PROVE  book[i].through <= t /\ book[i].through <= end
  <2>1. book[i] \in LedgerEvents /\ i \in DOMAIN book
    OBVIOUS
  <2>2. book[i].through \in Nat
    BY <1>1, <2>1 DEF LedgerEvents, SnapshotEvents, DirectiveEvents, ReceiptEventsSet, UseEvents
  <2>3. book[i].through <= t
    BY <1>1, <2>1 DEF UsesKnown
  <2> QED BY <2>2, <2>3
<1>2. \A i \in 1..Len(book) : i \in uses(t) <=> i \in uses(end)
  BY <1>1
<1>3. UsesOf(book, k, t) = Kept(book, uses(t)) /\ UsesOf(book, k, end) = Kept(book, uses(end))
  BY DEF UsesOf
<1> HIDE DEF uses
<1>4. Kept(book, uses(t)) = Kept(book, uses(end))
  BY <1>2, KeptSame
<1> QED BY <1>3, <1>4

\* A plan includes what the ledger lets it include.
LEMMA TellingPlan ==
  ASSUME Control, Lineage, Books, Evidence, Telling, PlansTold, Plan
  PROVE  Telling' /\ PlansTold'
<1>0. /\ pc = "plan" /\ pc' = "next" /\ input \in Inputs /\ Accepted(input) /\ turn \in 1..Len(input.schedule)
      /\ UNCHANGED <<input, turn, snapshots, receipts, queue, ledger>>
  BY DEF Plan, Control, Active
<1>1. PICK p \in Recommendations :
        /\ RecommendationAccepted(p, PlanningRequest(Here.step, Here.station, queue))
        /\ plans' = Append(plans, p)
  BY DEF Plan
<1>2. turn \in Nat /\ Here.step \in Nat /\ LogEnd \in Nat /\ Here.step <= LogEnd
  BY <1>0, StepsWithin, InputTyped
<1>3. Telling'
  <2>1. Here' = Here /\ LogEnd' = LogEnd /\ NoUse' = NoUse
    BY <1>0 DEF Here, LogEnd, NoUse
  <2> QED BY <1>0, <2>1 DEF Telling
<1>4. p.cutoff = Here.step
      /\ p.included = {k \in DOMAIN queue : queue[k].state \in {"pending", "verified"}}
  <2> DEFINE request == PlanningRequest(Here.step, Here.station, queue)
  <2>1. request.cutoff = Here.step /\ request.modes = [k \in DOMAIN queue |-> queue[k].state]
    BY DEF PlanningRequest
  <2>2. p.cutoff = request.cutoff
        /\ p.included = {k \in DOMAIN request.modes : request.modes[k] \in {"pending", "verified"}}
    BY <1>1 DEF RecommendationAccepted
  <2> HIDE DEF request
  <2> QED BY <2>1, <2>2
<1>5. ASSUME NEW k \in DOMAIN queue
      PROVE  /\ k.cutoff <= Here.step
             /\ queue[k].state \in {"pending", "verified"}
                  <=> LET uses == UsesOf(ledger, k, Here.step)
                      IN  uses # <<>> => Last(uses).state # "quarantined"
  <2>1. PICK j \in 1..turn : j \in 1..Len(input.schedule) /\ k.cutoff = input.schedule[j].step
    BY <1>0, Placed DEF Active, Judged
  <2>2. k.cutoff <= Here.step
    BY <1>0, <1>2, <2>1, InputTyped, SMTT(40) DEF Here
  <2>3. Accounted(NoUse, k, LogEnd) /\ UsesKnown(DOMAIN queue, ledger, Here.step)
    BY DEF Telling, Accounts, NoUse
  <2>4. UsesOf(ledger, k, Here.step) = UsesOf(ledger, k, LogEnd)
    BY <1>2, <2>3, UsesWithin DEF Books
  <2>5. queue[k].state = IF UsesOf(ledger, k, LogEnd) = <<>> THEN "pending"
                         ELSE Last(UsesOf(ledger, k, LogEnd)).state
    BY <2>3 DEF Accounted, NoUse
  <2>6. queue[k].state \in Verdicts
    BY DEF Books, Candidates
  <2> QED BY <2>2, <2>4, <2>5, <2>6 DEF Verdicts
<1>6. p.included = PlannedWith(Here.step)
  BY <1>4, <1>5 DEF PlannedWith
<1>7. \A t : PlannedWith(t)' = PlannedWith(t)
  BY <1>0 DEF PlannedWith
<1>8. Planned = 1..(turn - 1) /\ Planned' = 1..turn
  BY <1>0 DEF Planned
<1> DEFINE n == Len(plans)
<1>9. /\ n \in Nat /\ DOMAIN plans = 1..n /\ DOMAIN plans' = 1..(n + 1) /\ Listed(plans')
      /\ plans'[n + 1] = p /\ \A i \in 1..n : plans'[i] = plans[i]
  <2>1. Listed(plans)
    BY DEF PlansTold
  <2>2. Listed(Append(plans, p)) /\ Len(Append(plans, p)) = n + 1
    BY <2>1, Appended
  <2>3. DOMAIN Append(plans, p) = 1..(n + 1)
    BY <2>2 DEF Listed
  <2> QED BY <1>1, <2>1, <2>2, <2>3, Appended
<1> HIDE DEF n
<1>10. ASSUME NEW i \in 1..(n + 1) PROVE PlanTold(i)'
  <2>1. CASE i = n + 1
    <3>1. turn \in Planned' /\ p.cutoff = input'.schedule[turn].step
      BY <1>0, <1>2, <1>4, <1>8 DEF Here
    <3>2. p.included = PlannedWith(p.cutoff)'
      BY <1>4, <1>6, <1>7
    <3>3. plans'[i] = p
      BY <1>9, <2>1
    <3> QED BY <3>1, <3>2, <3>3 DEF PlanTold
  <2>2. CASE i \in 1..n
    <3>1. PlanTold(i) /\ plans'[i] = plans[i]
      BY <1>9, <2>2 DEF PlansTold
    <3>2. Planned \subseteq Planned'
      BY <1>2, <1>8
    <3> QED BY <1>0, <1>7, <3>1, <3>2 DEF PlanTold
  <2> QED BY <1>9, <2>1, <2>2
<1>11. PlansTold'
  BY <1>9, <1>10 DEF PlansTold
<1> QED BY <1>3, <1>11

\* The next station leaves what was told before it.
LEMMA TellingNextStation ==
  ASSUME Control, Books, Telling, PlansTold, NextStation
  PROVE  Telling' /\ PlansTold'
<1>0. /\ pc = "next" /\ UNCHANGED <<input, snapshots, receipts, queue, ledger, plans>>
      /\ \/ turn < Len(input.schedule) /\ turn' = turn + 1 /\ pc' = "pf"
         \/ ~(turn < Len(input.schedule)) /\ turn' = turn /\ pc' = "final_pf"
  BY DEF NextStation, collected
<1>1. /\ input \in Inputs /\ Accepted(input) /\ turn \in 1..Len(input.schedule) /\ Len(input.schedule) \in Nat
      /\ turn \in Nat
  BY <1>0, InputTyped DEF Control, Active
<1>2. LogEnd' = LogEnd /\ NoUse' = NoUse
  BY <1>0 DEF LogEnd, NoUse
<1>3. Here.step \in Nat /\ Here'.step \in Nat /\ Here.step <= Here'.step
  <2>1. Here = input.schedule[turn] /\ Here' = input.schedule[turn']
    BY <1>0 DEF Here
  <2>2. turn' \in 1..Len(input.schedule)
    BY <1>0, <1>1
  <2>3. turn' = turn \/ turn < turn'
    BY <1>0, <1>1
  <2>4. input.schedule[turn].step \in Nat /\ input.schedule[turn'].step \in Nat
    BY <1>1, <2>2, StepsRise, Zenon
  <2>5. turn < turn' => input.schedule[turn].step < input.schedule[turn'].step
    BY <1>1, <2>2, StepsRise, Zenon
  <2>6. input.schedule[turn].step <= input.schedule[turn'].step
    BY <2>3, <2>4, <2>5
  <2> QED BY <2>1, <2>4, <2>6
<1>4. UsesKnown(DOMAIN queue, ledger, Here'.step)
  <2>1. UsesKnown(DOMAIN queue, ledger, Here.step)
    BY DEF Telling, Accounts, NoUse
  <2> SUFFICES ASSUME NEW i \in DOMAIN ledger, ledger[i].type = "corroboration"
               PROVE  /\ ledger[i].through <= Here'.step
                      /\ [cutoff |-> ledger[i].cutoff, name |-> ledger[i].name] \in DOMAIN queue
    BY DEF UsesKnown
  <2>2. ledger[i].through <= Here.step
        /\ [cutoff |-> ledger[i].cutoff, name |-> ledger[i].name] \in DOMAIN queue
    BY <2>1 DEF UsesKnown
  <2>3. ledger[i] \in LedgerEvents
    BY DEF Books
  <2>4. ledger[i].through \in Nat
    BY <2>3 DEF LedgerEvents, SnapshotEvents, DirectiveEvents, ReceiptEventsSet, UseEvents
  <2> QED BY <1>3, <2>2, <2>4
<1>5. Telling'
  <2>1. Accounts(DOMAIN queue, NoUse, Here'.step, LogEnd)
    BY <1>4 DEF Telling, Accounts, NoUse
  <2> QED BY <1>0, <1>2, <2>1 DEF Telling
<1>6. Planned \subseteq Planned'
  BY <1>0, <1>1 DEF Planned
<1>7. \A t : PlannedWith(t)' = PlannedWith(t)
  BY <1>0 DEF PlannedWith
<1> QED BY <1>0, <1>5, <1>6, <1>7, PlansKept

\* Every step keeps the ledger telling.
LEMMA TellingNext ==
  /\ Control /\ Lineage /\ Books /\ Scoring /\ Evidence
  /\ Telling /\ PlansTold /\ [Next]_vars
  => Telling' /\ PlansTold'
<1> SUFFICES ASSUME Control, Lineage, Books, Scoring, Evidence, Telling, PlansTold, [Next]_vars
             PROVE  Telling' /\ PlansTold'
  OBVIOUS
<1>1. ASSUME FreshMemory' PROVE Telling' /\ PlansTold'
  BY <1>1, TellingFresh, PTL
<1>2. ASSUME UNCHANGED <<input, turn, snapshots, receipts, queue, ledger, plans>>,
             Planned \subseteq Planned'
      PROVE  Telling' /\ PlansTold'
  <2>1. Here' = Here /\ LogEnd' = LogEnd /\ NoUse' = NoUse
    BY <1>2 DEF Here, LogEnd, NoUse
  <2>2. \A t : PlannedWith(t)' = PlannedWith(t)
    BY <1>2 DEF PlannedWith
  <2> QED BY <1>2, <2>1, <2>2, PlansKept DEF Telling
<1>3. CASE StartRefused
  <2>1. FreshMemory /\ UNCHANGED memory
    BY <1>3 DEF StartRefused, Control, Active
  <2> QED BY <1>1, <2>1 DEF FreshMemory, memory, collected
<1>4. CASE Start
  BY <1>1, <1>4 DEF Start, Control, Active, FreshMemory, memory, collected
<1>5. CASE ReplayStation
  BY <1>5, TellingReplay
<1>6. CASE Score
  BY <1>6, TellingScore
<1>7. CASE Fit
  BY <1>7, TellingFit
<1>8. CASE Plan
  BY <1>8, TellingPlan
<1>9. CASE NextStation
  BY <1>9, TellingNextStation
<1>10. CASE FinalPF
  BY <1>10, TellingFinalPF
<1>11. CASE FinalFits
  <2>1. pc = "final_fits" /\ pc' = "publish" /\ UNCHANGED <<input, turn, collected>>
    BY <1>11 DEF FinalFits
  <2> QED BY <1>2, <2>1 DEF collected, Planned
<1>12. CASE Publish
  <2>1. pc = "publish" /\ UNCHANGED <<input, memory>> /\ pc' \in {"self_refused", "published"}
    BY <1>12 DEF Publish
  <2> QED BY <1>2, <2>1 DEF memory, collected, Planned
<1>13. CASE Discard \/ Kill \/ Rerun
  <2>1. FreshMemory'
    BY <1>13 DEF Discard, Kill, Rerun, Forget, FreshMemory
  <2> QED BY <1>1, <2>1
<1>14. CASE UNCHANGED vars
  BY <1>2, <1>14 DEF vars, memory, collected, Planned
<1> QED BY <1>3, <1>4, <1>5, <1>6, <1>7, <1>8, <1>9, <1>10, <1>11, <1>12, <1>13, <1>14 DEF Next

\* The ledger always tells all that the books have.
LEMMA TellingInvariance == Spec => [](Telling /\ PlansTold)
<1>1. Init => Telling /\ PlansTold
  BY TellingFresh DEF Init
<1> QED BY <1>1, TellingNext, BooksInvariance, EvidenceInvariance, PTL DEF Spec

\* What the ledger tells is what the property says.
LEMMA TellingImplies == Books /\ Telling /\ PlansTold => LedgerTellsAll
<1> SUFFICES ASSUME Books, Telling, PlansTold PROVE LedgerTellsAll
  OBVIOUS
<1>1. LedgerStates(ledger) = [k \in DOMAIN queue |-> queue[k].state]
  BY DEF Telling, Accounts, NoUse
<1>2. ASSUME NEW k \in DOMAIN queue
      PROVE  LET uses == UsesOf(ledger, k, Last(input.rows).step)
             IN  /\ Column(uses, "step") = queue[k].steps
                 /\ Total(Column(uses, "ratio")) = queue[k].sum
  <2>1. Accounted(NoUse, k, LogEnd)
    BY DEF Telling, Accounts
  <2> QED BY <2>1 DEF Accounted, NoUse, LogEnd
<1>3. {<<e.cutoff, e.status>> : e \in {f \in ToSet(ledger) : f.type = "directive_receipt"}}
        = {<<c, receipts[c].status>> : c \in DOMAIN receipts}
  BY DEF Telling, ReceiptsOf
<1>4. Column(Kept(ledger, {i \in DOMAIN ledger : ledger[i].type = "snapshot_registered"}), "cutoff")
        = Column(snapshots, "cutoff")
  BY DEF Telling, SnapshotsOf
<1>5. ASSUME NEW p \in ToSet(plans)
      PROVE  p.included = {k \in DOMAIN queue :
                             /\ k.cutoff <= p.cutoff
                             /\ LET uses == UsesOf(ledger, k, p.cutoff)
                                IN  uses # <<>> => Last(uses).state # "quarantined"}
  <2>1. PICK i \in DOMAIN plans : p = plans[i]
    BY DEF ToSet
  <2>2. p.included = PlannedWith(p.cutoff)
    BY <2>1 DEF PlansTold, PlanTold
  <2> QED BY <2>2 DEF PlannedWith
<1> QED BY <1>1, <1>2, <1>3, <1>4, <1>5 DEF LedgerTellsAll

\* The ledger alone tells the verdict, the evidence and the sum of every
\* candidate, the receipts, the snapshots, and what each plan was made with
\* (controller.py:1001-1053, ledger.py:228, verification_queue.py:69).
THEOREM LedgerTells == Spec => []LedgerTellsAll
BY BooksInvariance, TellingInvariance, TellingImplies, PTL

-----------------------------------------------------------------------------
(* What the scheduler hears *)

\* The rows since the station before are the station's own, and only its last
\* one is declared as an end.
LEMMA StationRows ==
  ASSUME input \in Inputs, Accepted(input), turn \in 1..Len(input.schedule),
         NEW i \in (DoneCount + 1)..HereCount
  PROVE  /\ i \in 1..Len(input.rows)
         /\ input.rows[i].station = Here.station
         /\ AssertsComplete(input.schedule, input.rows[i].station, input.rows[i].step) <=> i = HereCount
<1> DEFINE rows == input.rows
           schedule == input.schedule
<1>1. /\ HereCount = EndAt(turn) /\ HereCount \in 1..Len(rows)
      /\ DoneCount \in 0..(HereCount - 1) /\ DoneCount = IF turn = 1 THEN 0 ELSE EndAt(turn - 1)
  BY PrefixIs, DoneIs
<1>2. i \in 1..Len(rows) /\ Len(rows) \in Nat /\ Len(schedule) \in Nat
  BY <1>1, InputTyped
<1>3. DOMAIN rows = 1..Len(rows) /\ DOMAIN schedule = 1..Len(schedule)
  BY InputTyped
<1>4. PICK k \in 1..Len(schedule) : rows[i].station = schedule[k].station
  <2>1. rows[i].station \in {rows[l].station : l \in DOMAIN rows}
    BY <1>2, <1>3
  <2>2. rows[i].station \in {schedule[l].station : l \in DOMAIN schedule}
    BY <2>1 DEF Accepted, BoundariesAccepted
  <2> QED BY <1>3, <2>2
<1>5. EndAt(k) \in 1..Len(rows) /\ rows[EndAt(k)].step = schedule[k].step
  BY EndAtRow
<1>6. rows[i].step <= schedule[k].step
  BY <1>2, <1>3, <1>4 DEF Accepted, BoundariesAccepted
<1>7. i <= EndAt(k)
  <2>1. EndAt(k) < i => rows[EndAt(k)].step < rows[i].step
    BY <1>2, <1>5, StepsRise, Zenon
  <2>2. rows[i].step \in Nat /\ schedule[k].step \in Nat
    BY <1>2, StepsRise, Zenon
  <2> QED BY <1>2, <1>5, <1>6, <2>1, <2>2
<1>8. ~(k < turn)
  <2> SUFFICES ASSUME k < turn PROVE FALSE
    OBVIOUS
  <2>1. turn # 1 /\ turn - 1 \in 1..Len(schedule)
    BY <1>2
  <2>2. k < turn - 1 => EndAt(k) < EndAt(turn - 1)
    BY <2>1, EndsRise, Zenon
  <2>3. EndAt(k) <= EndAt(turn - 1)
    BY <1>5, <2>1, <2>2, EndAtRow
  <2> QED BY <1>1, <1>2, <1>5, <1>7, <2>1, <2>3
<1>9. ~(turn < k)
  <2> SUFFICES ASSUME turn < k PROVE FALSE
    OBVIOUS
  <2>1. schedule[turn].station < schedule[k].station
    BY InputTyped, Zenon
  <2>2. rows[HereCount].station = schedule[turn].station
    BY <1>1, EndAtRow
  <2>3. rows[i].station <= rows[HereCount].station
    <3>1. CASE i = HereCount
      <4>1. rows[i].station \in Nat
        BY <1>2, InputTyped, Zenon
      <4> QED BY <3>1, <4>1
    <3>2. CASE i < HereCount
      BY <1>1, <1>2, <3>2, InputTyped, Zenon
    <3> QED BY <1>1, <3>1, <3>2
  <2>4. schedule[turn].station \in Nat /\ schedule[k].station \in Nat
    BY InputTyped
  <2> QED BY <1>4, <2>1, <2>2, <2>3, <2>4
<1>10. k = turn
  BY <1>8, <1>9
<1>11. ASSUME i = HereCount PROVE AssertsComplete(schedule, rows[i].station, rows[i].step)
  BY <1>1, <1>3, <1>11, EndAtRow DEF AssertsComplete
<1>12. ASSUME AssertsComplete(schedule, rows[i].station, rows[i].step) PROVE i = HereCount
  <2>1. PICK l \in 1..Len(schedule) : schedule[l].station = rows[i].station /\ schedule[l].step = rows[i].step
    BY <1>3, <1>12 DEF AssertsComplete
  <2>2. ~(l < turn) /\ ~(turn < l)
    <3>1. l < turn => schedule[l].station < schedule[turn].station
      BY InputTyped, Zenon
    <3>2. turn < l => schedule[turn].station < schedule[l].station
      BY InputTyped, Zenon
    <3>3. schedule[l].station = schedule[turn].station /\ schedule[l].station \in Nat
      BY <1>4, <1>10, <2>1, InputTyped
    <3> QED BY <3>1, <3>2, <3>3
  <2>3. rows[i].step = rows[HereCount].step
    BY <1>1, <1>5, <1>10, <2>1, <2>2
  <2>4. ~(i < HereCount)
    <3>1. i < HereCount => rows[i].step < rows[HereCount].step
      BY <1>1, <1>2, StepsRise, Zenon
    <3>2. rows[i].step \in Nat
      BY <1>2, StepsRise
    <3> QED BY <2>3, <3>1, <3>2
  <2> QED BY <1>1, <2>4
<1> QED BY <1>2, <1>4, <1>10, <1>11, <1>12 DEF Here

\* The signals of a station.
LEMMA SignalsAre ==
  ASSUME Control, pc = "pf", NEW deviances \in [1..(HereCount - DoneCount) -> Deviances],
         NEW i \in 1..(HereCount - DoneCount)
  PROVE  LET g == Signals(deviances)[i]
         IN  /\ g.step = input.rows[DoneCount + i].step /\ g.station = Here.station
             /\ g.complete <=> i = HereCount - DoneCount
             /\ DoneCount + i \in 1..Len(input.rows)
<1>1. input \in Inputs /\ Accepted(input) /\ turn \in 1..Len(input.schedule)
  BY DEF Control, Active
<1>2. HereCount \in 1..Len(input.rows) /\ DoneCount \in 0..(HereCount - 1)
  BY <1>1, PrefixIs, DoneIs
<1>3. DoneCount + i \in (DoneCount + 1)..HereCount /\ DoneCount + i \in 1..Len(input.rows)
  BY <1>2
<1>4. /\ Marked.rows[DoneCount + i].step = input.rows[DoneCount + i].step
      /\ Marked.rows[DoneCount + i].station = input.rows[DoneCount + i].station
  BY <1>1, <1>3, MarkedTyped
<1>5. /\ Signals(deviances)[i].step = Marked.rows[DoneCount + i].step
      /\ Signals(deviances)[i].station = Marked.rows[DoneCount + i].station
      /\ Signals(deviances)[i].complete =
           AssertsComplete(input.schedule, Marked.rows[DoneCount + i].station, Marked.rows[DoneCount + i].step)
  BY DEF Signals
<1>6. /\ input.rows[DoneCount + i].station = Here.station
      /\ AssertsComplete(input.schedule, input.rows[DoneCount + i].station, input.rows[DoneCount + i].step)
           <=> DoneCount + i = HereCount
  BY <1>1, <1>3, StationRows
<1>7. DoneCount + i = HereCount <=> i = HereCount - DoneCount
  BY <1>2
<1> QED BY <1>3, <1>4, <1>5, <1>6, <1>7

\* The last station the scheduler has heard to the end, and its last step.
HeardTo == IF pc = "pf" THEN turn - 1 ELSE turn
InStep(s, k) ==
  /\ s.core.lastStep = (IF k = 0 THEN -1 ELSE input.schedule[k].step)
  /\ s.core.open = None
  /\ s.lastStation = (IF k = 0 THEN -1 ELSE input.schedule[k].station)

\* A signal that does not end its station cannot trigger.
LEMMA OpenFields ==
  ASSUME NEW c \in Sched!SchedulerStates, NEW g, ~g.complete
  PROVE  LET h == Sched!Considered(Policy, c, g)
         IN  h.lastStep = g.step /\ h.open = g.station /\ h.cutoffs = c.cutoffs
<1>1. Sched!Considered(Policy, c, g)
        = [c EXCEPT !.lastStep = g.step, !.open = g.station,
                    !.deviance = @ + g.deviance, !.bins = @ + g.bins]
  BY DEF Sched!Considered
<1> QED BY <1>1 DEF Sched!SchedulerStates

\* The scheduler is at the end of a station whenever the loop looks at it.
Listening == pc \in Active => InStep(sched, HeardTo)

\* A scheduler that has heard i of the station's rows, not yet the last.
Midway(s, i) ==
  /\ s \in Schedulers
  /\ s.core.lastStep = (IF DoneCount + i = 0 THEN -1 ELSE input.rows[DoneCount + i].step)
  /\ s.core.open \in {None, Here.station}
  /\ s.lastStation = (IF turn = 1 THEN -1 ELSE input.schedule[turn - 1].station)
  /\ s.core.cutoffs = sched.core.cutoffs

\* A station begins with none of its rows heard.
LEMMA MidwayStarts ==
  ASSUME Control, Books, Listening, pc = "pf"
  PROVE  Midway(sched, 0)
<1>1. input \in Inputs /\ Accepted(input) /\ turn \in 1..Len(input.schedule) /\ pc \in Active
  BY DEF Control, Active
<1>2. DoneCount = (IF turn = 1 THEN 0 ELSE EndAt(turn - 1)) /\ DoneCount \in Nat
  BY <1>1, DoneIs, PrefixIs
<1>3. CASE turn = 1
  BY <1>1, <1>2, <1>3 DEF Listening, InStep, HeardTo, Midway, Books
<1>4. CASE turn # 1
  <2>1. turn - 1 \in 1..Len(input.schedule) /\ turn - 1 # 0
    BY <1>1, <1>4, InputTyped
  <2>2. DoneCount # 0 /\ DoneCount + 0 = DoneCount /\ input.rows[DoneCount].step = input.schedule[turn - 1].step
    BY <1>1, <1>2, <1>4, <2>1, EndAtRow
  <2> QED BY <1>1, <1>2, <1>4, <2>1, <2>2 DEF Listening, InStep, HeardTo, Midway, Books
<1> QED BY <1>3, <1>4

\* The next signal is in order, and is heard.
LEMMA MidwayHears ==
  ASSUME Control, pc = "pf", NEW deviances \in [1..(HereCount - DoneCount) -> Deviances],
         NEW i \in 1..(HereCount - DoneCount), NEW s, Midway(s, i - 1)
  PROVE  LET g == Signals(deviances)[i]
         IN  /\ ~Unheard(s, g)
             /\ i < HereCount - DoneCount => Midway(Heard(s, g), i)
             /\ i = HereCount - DoneCount =>
                  /\ InStep(Heard(s, g), turn)
                  /\ Heard(s, g).core.cutoffs \subseteq sched.core.cutoffs \union {Here.step}
<1> DEFINE g == Signals(deviances)[i]
           n == HereCount - DoneCount
<1>1. input \in Inputs /\ Accepted(input) /\ turn \in 1..Len(input.schedule)
  BY DEF Control, Active
<1>2. /\ HereCount \in 1..Len(input.rows) /\ DoneCount \in 0..(HereCount - 1) /\ n \in Nat
      /\ HereCount = EndAt(turn)
  BY <1>1, PrefixIs, DoneIs
<1>3. /\ g.step = input.rows[DoneCount + i].step /\ g.station = Here.station
      /\ g.complete <=> i = n
      /\ DoneCount + i \in 1..Len(input.rows)
  BY SignalsAre
<1>4. g \in SignalSet
  <2>1. Signals(deviances) \in Seq(SignalSet) /\ Len(Signals(deviances)) = n
    BY SignalsTyped
  <2> HIDE DEF n
  <2> QED BY <1>2, <2>1 DEF n
<1>5. g.step \in Nat /\ g.station \in Nat
  BY <1>4 DEF SignalSet
<1>6. s.core.lastStep < g.step
  <2>1. CASE DoneCount + (i - 1) = 0
    BY <1>5, <2>1 DEF Midway
  <2>2. CASE DoneCount + (i - 1) # 0
    <3>1. DoneCount + (i - 1) \in 1..Len(input.rows) /\ DoneCount + (i - 1) < DoneCount + i
      <4>1. Len(input.rows) \in Nat
        BY <1>1, InputTyped
      <4> QED BY <1>2, <1>3, <2>2, <4>1, SMTT(40)
    <3>2. input.rows[DoneCount + (i - 1)].step < input.rows[DoneCount + i].step
      BY <1>1, <1>3, <3>1, StepsRise, Zenon
    <3> QED BY <1>3, <2>2, <3>2 DEF Midway
  <2> QED BY <2>1, <2>2
<1>7. s.lastStation < g.station
  <2>1. CASE turn = 1
    BY <1>5, <2>1 DEF Midway
  <2>2. CASE turn # 1
    <3>1. turn - 1 \in 1..Len(input.schedule) /\ turn - 1 < turn
      BY <1>1, <2>2, InputTyped
    <3>2. input.schedule[turn - 1].station < input.schedule[turn].station
      BY <1>1, <3>1, InputTyped, Zenon
    <3> QED BY <1>3, <2>2, <3>2 DEF Midway, Here
  <2> QED BY <2>1, <2>2
<1>8. ~Unheard(s, g)
  <2>1. s.core.lastStep \in Int /\ s.lastStation \in Int
    BY DEF Midway, Schedulers, Sched!SchedulerStates
  <2> QED BY <1>3, <1>5, <1>6, <1>7, <2>1 DEF Unheard, Sched!OutOfOrder, Midway
<1>9. Heard(s, g) \in Schedulers
  BY <1>4, HeardTyped DEF Midway
<1>10. ASSUME i < n PROVE Midway(Heard(s, g), i)
  <2>1. ~g.complete /\ DoneCount + i # 0
    BY <1>2, <1>3, <1>10
  <2>2. Heard(s, g) = [core |-> Sched!Considered(Policy, s.core, g), lastStation |-> s.lastStation]
    BY <2>1 DEF Heard
  <2>4. s.core \in Sched!SchedulerStates
    BY DEF Midway, Schedulers
  <2>5. /\ Heard(s, g).core.lastStep = g.step /\ Heard(s, g).core.open = g.station
        /\ Heard(s, g).core.cutoffs = s.core.cutoffs /\ Heard(s, g).lastStation = s.lastStation
    <3> HIDE DEF g, n
    <3>1. LET h == Sched!Considered(Policy, s.core, g)
          IN  h.lastStep = g.step /\ h.open = g.station /\ h.cutoffs = s.core.cutoffs
      BY <2>1, <2>4, OpenFields
    <3> QED BY <2>2, <3>1
  <2> HIDE DEF g, n
  <2> QED BY <1>3, <1>9, <2>1, <2>5 DEF Midway
<1>11. ASSUME i = n
       PROVE  /\ InStep(Heard(s, g), turn)
              /\ Heard(s, g).core.cutoffs \subseteq sched.core.cutoffs \union {Here.step}
  <2>1. g.complete /\ DoneCount + i = HereCount
    BY <1>2, <1>3, <1>11
  <2>2. Heard(s, g).lastStation = g.station /\ Heard(s, g).core = Sched!Considered(Policy, s.core, g)
    BY <2>1 DEF Heard
  <2>3. /\ Sched!Considered(Policy, s.core, g).lastStep = g.step
        /\ Sched!Considered(Policy, s.core, g).open = None
        /\ Sched!Considered(Policy, s.core, g).cutoffs \subseteq s.core.cutoffs \union {g.step}
    BY <2>1 DEF Sched!Considered
  <2>4. g.step = input.schedule[turn].step
    BY <1>1, <1>2, <1>3, <2>1, EndAtRow
  <2>5. turn # 0 /\ s.core.cutoffs = sched.core.cutoffs
    BY <1>1 DEF Midway
  <2> HIDE DEF g, n
  <2> QED BY <1>3, <2>2, <2>3, <2>4, <2>5 DEF InStep, Here
<1> QED BY <1>8, <1>10, <1>11

\* So are the signals of a part of the station.
LEMMA PartHeard ==
  ASSUME Control, Books, Listening, pc = "pf",
         NEW deviances \in [1..(HereCount - DoneCount) -> Deviances],
         NEW seq \in Seq(SignalSet), Len(seq) <= HereCount - DoneCount,
         \A i \in 1..Len(seq) : seq[i] = Signals(deviances)[i],
         NEW f, HearsBy(sched, seq, f),
         NEW m \in 0..Len(seq), m < HereCount - DoneCount
  PROVE  Midway(f[m], m)
<1> DEFINE G == {i \in 0..m : Midway(f[i], i)}
<1>1. f[0] = sched /\ Len(seq) \in Nat /\ \A i \in 1..Len(seq) : f[i] = Heard(f[i - 1], seq[i])
  BY DEF HearsBy
<1>2. 0 \in G
  BY <1>1, MidwayStarts
<1>3. ASSUME NEW i \in 1..m, i - 1 \in G PROVE i \in G
  <2>1. HereCount - DoneCount \in Int
    <3>1. input \in Inputs /\ Accepted(input) /\ turn \in 1..Len(input.schedule)
      BY DEF Control, Active
    <3>2. HereCount \in Int /\ DoneCount \in Int
      BY <3>1, PrefixIs, DoneIs
    <3> QED BY <3>2
  <2>2. i \in 1..Len(seq) /\ i \in 1..(HereCount - DoneCount) /\ i < HereCount - DoneCount /\ i \in 0..m
    BY <1>1, <2>1
  <2>3. Midway(f[i - 1], i - 1)
    BY <1>3
  <2>4. Midway(Heard(f[i - 1], Signals(deviances)[i]), i)
    BY <2>2, <2>3, MidwayHears
  <2>5. f[i] = Heard(f[i - 1], Signals(deviances)[i])
    BY <1>1, <2>2
  <2> QED BY <2>2, <2>4, <2>5
<1>4. Climbs(m, G)
  BY <1>2, <1>3 DEF Climbs
<1>5. m \in Nat /\ m \in 0..m
  BY <1>1
<1>6. m \in G
  <2> HIDE DEF G
  <2> QED BY <1>4, <1>5, Climb
<1> QED BY <1>6

\* The scheduler refuses none of a station's signals, is at the station's end
\* after them, and can only have triggered there.
LEMMA StationHeard ==
  ASSUME Control, Books, Listening, pc = "pf",
         NEW deviances \in [1..(HereCount - DoneCount) -> Deviances]
  PROVE  LET signals == Signals(deviances)
         IN  /\ SignalsInOrder(signals)
             /\ InStep(HeardAll(signals), turn)
             /\ HeardAll(signals).core.cutoffs \subseteq sched.core.cutoffs \union {Here.step}
<1> DEFINE signals == Signals(deviances)
           n == HereCount - DoneCount
<1>1. n \in Nat /\ n > 0
  <2>1. input \in Inputs /\ Accepted(input) /\ turn \in 1..Len(input.schedule)
    BY DEF Control, Active
  <2>2. HereCount \in Nat /\ DoneCount \in 0..(HereCount - 1)
    BY <2>1, PrefixIs, DoneIs
  <2> QED BY <2>2
<1>2. signals \in Seq(SignalSet) /\ Len(signals) = n
  BY SignalsTyped
<1>3. sched \in Schedulers
  BY DEF Books
<1> HIDE DEF signals
<1>4. ASSUME NEW i \in 1..n
      PROVE  ~Unheard(FoldLeft(Heard, sched, SubSeq(signals, 1, i - 1)), signals[i])
  <2> DEFINE part == SubSeq(signals, 1, i - 1)
  <2>1. part \in Seq(SignalSet) /\ Len(part) = i - 1 /\ \A j \in 1..(i - 1) : part[j] = signals[j]
    <3> HIDE DEF n
    <3> QED BY <1>1, <1>2
  <2> HIDE DEF part
  <2>2. PICK f : HearsBy(sched, part, f)
    BY <1>3, <2>1, HeardFold, Zenon
  <2>3. /\ i - 1 \in 0..Len(part) /\ i - 1 < HereCount - DoneCount /\ Len(part) <= HereCount - DoneCount
        /\ \A j \in 1..Len(part) : part[j] = Signals(deviances)[j]
    BY <1>1, <2>1 DEF signals
  <2>4. Midway(f[i - 1], i - 1)
    BY <2>1, <2>2, <2>3, PartHeard
  <2>5. FoldLeft(Heard, sched, part) = f[i - 1]
    BY <2>1, <2>2 DEF HearsBy
  <2>6. ~Unheard(f[i - 1], Signals(deviances)[i])
    BY <2>4, MidwayHears
  <2> QED BY <2>5, <2>6 DEF part, signals
<1>5. PICK f : HearsBy(sched, signals, f)
  BY <1>2, <1>3, HeardFold, Zenon
<1>6. Midway(f[n - 1], n - 1)
  <2>1. n - 1 \in 0..Len(signals) /\ n - 1 < HereCount - DoneCount /\ Len(signals) <= HereCount - DoneCount
    BY <1>1, <1>2
  <2>2. \A j \in 1..Len(signals) : signals[j] = Signals(deviances)[j]
    BY DEF signals
  <2> HIDE DEF n
  <2> QED BY <1>2, <1>5, <2>1, <2>2, PartHeard
<1>7. HeardAll(signals) = Heard(f[n - 1], Signals(deviances)[n])
  <2>1. n \in 1..n
    BY <1>1
  <2>2. f[n] = Heard(f[n - 1], signals[n]) /\ FoldLeft(Heard, sched, signals) = f[n]
    BY <1>2, <1>5, <2>1 DEF HearsBy
  <2> QED BY <2>2 DEF HeardAll, signals
<1>8. /\ InStep(HeardAll(signals), turn)
      /\ HeardAll(signals).core.cutoffs \subseteq sched.core.cutoffs \union {Here.step}
  BY <1>1, <1>6, <1>7, n \in 1..n, MidwayHears
<1>9. SignalsInOrder(signals)
  BY <1>2, <1>4 DEF SignalsInOrder
<1> QED BY <1>8, <1>9 DEF signals

\* Every prefix asserts that its station is complete, and its manifest has the
\* declarations so far.
LEMMA PrefixChecks ==
  ASSUME input \in Inputs, Accepted(input), turn \in 1..Len(input.schedule)
  PROVE  PrefixAllowed(Marked, HereCount) /\ PrefixBound(Prefix, input.schedule)
<1> DEFINE n == HereCount
           schedule == input.schedule
           at == {i \in DOMAIN Marked.rows : Marked.rows[i].complete}
           ends == [k \in 1..turn |-> EndAt(k)]
           marked == Kept(Records(Marked, n), at)
<1>1. /\ n = EndAt(turn) /\ n \in 1..Len(input.rows) /\ Len(input.rows) \in Nat
      /\ Prefix.log.rows = SubSeq(Marked.rows, 1, n)
      /\ Prefix.covered = Column(Prefix.log.rows, "step")
      /\ Prefix.cutoff = Here.step /\ Prefix.station = Here.station
  BY PrefixIs, InputTyped
<1>2. /\ Marked.rows \in Seq(MarkedEnds) /\ Len(Marked.rows) = Len(input.rows)
      /\ \A i \in 1..Len(input.rows) :
           /\ Marked.rows[i].step = input.rows[i].step
           /\ Marked.rows[i].station = input.rows[i].station
           /\ Marked.rows[i].complete =
                AssertsComplete(schedule, input.rows[i].station, input.rows[i].step)
  BY MarkedTyped
<1>3. schedule \in Seq(Ends) /\ Len(schedule) \in Nat /\ DOMAIN schedule = 1..Len(schedule)
  BY InputTyped
<1>4. \A k \in 1..turn : k \in 1..Len(schedule)
  BY <1>3
<1>5. ASSUME NEW k \in 1..turn
      PROVE  EndAt(k) \in 1..n /\ Marked.rows[EndAt(k)].complete
  <2>1. /\ EndAt(k) \in 1..Len(input.rows)
        /\ input.rows[EndAt(k)].step = schedule[k].step /\ input.rows[EndAt(k)].station = schedule[k].station
    BY <1>4, EndAtRow
  <2>2. k < turn => EndAt(k) < EndAt(turn)
    BY <1>4, EndsRise, Zenon
  <2>3. AssertsComplete(schedule, input.rows[EndAt(k)].station, input.rows[EndAt(k)].step)
    BY <1>3, <1>4, <2>1 DEF AssertsComplete
  <2> QED BY <1>1, <1>2, <2>1, <2>2, <2>3
<1>6. PrefixAllowed(Marked, n)
  BY <1>1, <1>5, <1>3 DEF PrefixAllowed
<1>7. Prefix.boundaries = SubSeq(schedule, 1, turn)
  <2>1. Marked.rows[n].step = schedule[turn].step
    BY <1>1, <1>2, EndAtRow
  <2>2. Prefix.boundaries = CoveredSchedule(schedule, schedule[turn].step)
    BY <2>1 DEF Prefix, PrefixThrough
  <2>3. ASSUME NEW k \in 1..Len(schedule)
        PROVE  k \in {l \in DOMAIN schedule : schedule[l].step <= schedule[turn].step} <=> k <= turn
    <3>1. schedule[k].step \in Nat /\ schedule[turn].step \in Nat
      BY StepsRise, Zenon
    <3>2. k < turn => schedule[k].step < schedule[turn].step
      BY StepsRise, Zenon
    <3>3. turn < k => schedule[turn].step < schedule[k].step
      BY StepsRise, Zenon
    <3>4. k < turn \/ k = turn \/ turn < k
      BY <1>3
    <3> QED BY <1>3, <3>1, <3>2, <3>3, <3>4
  <2>4. turn \in 0..Len(schedule)
    BY <1>3
  <2>5. Kept(schedule, {l \in DOMAIN schedule : schedule[l].step <= schedule[turn].step}) = SubSeq(schedule, 1, turn)
    BY <1>3, <2>3, <2>4, KeptFirst
  <2> QED BY <2>2, <2>5 DEF CoveredSchedule
<1>8. Prefix.log.manifest.prefix.boundaries
        = [k \in DOMAIN marked |-> [station |-> marked[k].station, step |-> marked[k].step]]
  BY DEF Prefix, PrefixThrough, PrefixLog, PrefixManifest, CoveredBoundaries
<1>9. Records(Marked, n) \in Seq(MarkedEnds) /\ Len(Records(Marked, n)) = n
      /\ \A i \in 1..n : Records(Marked, n)[i] = Marked.rows[i]
  BY <1>1, <1>2 DEF Records
<1>10. ListedBy(turn, ends, n, at)
  <2>1. ends \in [1..turn -> 1..n]
    BY <1>5
  <2>2. ASSUME NEW i \in 1..turn, NEW j \in 1..turn, i < j PROVE ends[i] < ends[j]
    BY <1>4, <2>2, EndsRise
  <2>3. ASSUME NEW i \in 1..n, i \in at PROVE \E k \in 1..turn : ends[k] = i
    <3>1. i \in 1..Len(input.rows) /\ Marked.rows[i].complete
      BY <1>1, <2>3
    <3>2. AssertsComplete(schedule, input.rows[i].station, input.rows[i].step)
      BY <1>2, <3>1
    <3>3. PICK k \in 1..Len(schedule) : schedule[k].step = input.rows[i].step
      BY <1>3, <3>2 DEF AssertsComplete
    <3>4. EndAt(k) \in 1..Len(input.rows) /\ input.rows[EndAt(k)].step = input.rows[i].step
      BY <3>3, EndAtRow
    <3>5. EndAt(k) = i
      <4>1. EndAt(k) < i => input.rows[EndAt(k)].step < input.rows[i].step
        BY <3>1, <3>4, StepsRise, Zenon
      <4>2. i < EndAt(k) => input.rows[i].step < input.rows[EndAt(k)].step
        BY <3>1, <3>4, StepsRise, Zenon
      <4>3. input.rows[i].step \in Nat
        BY <3>1, StepsRise, Zenon
      <4> QED BY <3>1, <3>4, <4>1, <4>2, <4>3
    <3>6. ~(turn < k)
      <4>1. turn < k => EndAt(turn) < EndAt(k)
        BY EndsRise, Zenon
      <4> QED BY <1>1, <3>5, <4>1
    <3>7. k \in 1..turn
      BY <1>3, <3>6
    <3> QED BY <3>5, <3>7
  <2>4. ASSUME NEW i \in 1..n, NEW k \in 1..turn, ends[k] = i PROVE i \in at
    <3>1. i \in 1..Len(Marked.rows) /\ Marked.rows[i].complete
      BY <1>1, <1>2, <1>5, <2>4
    <3> QED BY <1>2, <3>1
  <2> HIDE DEF ends, at, n
  <2> QED BY <2>1, <2>2, <2>3, <2>4 DEF ListedBy
<1>11. marked = Picked(turn, ends, Records(Marked, n))
  <2>1. turn \in Nat
    BY <1>3
  <2> HIDE DEF ends, at, n
  <2> QED BY <1>9, <1>10, <2>1, KeptAre
<1>12. DOMAIN marked = 1..turn /\ \A k \in 1..turn : marked[k] = Marked.rows[EndAt(k)]
  <2>1. \A k \in 1..turn : Records(Marked, n)[ends[k]] = Marked.rows[EndAt(k)]
    BY <1>5, <1>9
  <2> HIDE DEF ends, n, marked
  <2> QED BY <1>11, <2>1 DEF Picked
<1>13. SubSeq(schedule, 1, turn) = [k \in 1..turn |-> schedule[k]]
  BY <1>3
<1>14. ASSUME NEW k \in 1..turn
       PROVE  [station |-> marked[k].station, step |-> marked[k].step] = schedule[k]
  <2>1. /\ EndAt(k) \in 1..Len(input.rows)
        /\ input.rows[EndAt(k)].step = schedule[k].step /\ input.rows[EndAt(k)].station = schedule[k].station
    BY <1>4, EndAtRow
  <2>2. marked[k].step = schedule[k].step /\ marked[k].station = schedule[k].station
    BY <1>2, <1>12, <2>1
  <2>3. schedule[k] \in Ends
    BY <1>3, <1>4
  <2> HIDE DEF marked
  <2> QED BY <2>2, <2>3 DEF Ends
<1>15. Prefix.log.manifest.prefix.boundaries = Prefix.boundaries
  <2> HIDE DEF marked, schedule
  <2> QED BY <1>7, <1>8, <1>12, <1>13, <1>14
<1>16. AssertsComplete(schedule, Prefix.station, Prefix.cutoff)
  BY <1>1, <1>3 DEF AssertsComplete, Here
<1>17. /\ Prefix.boundaries # <<>>
       /\ Prefix.boundaries[Len(Prefix.boundaries)].step = Prefix.cutoff
  <2>1. turn \in Nat /\ turn \in 1..turn
    BY <1>3
  <2>2. Len([k \in 1..turn |-> schedule[k]]) = turn
    BY <2>1
  <2>3. Prefix.boundaries = [k \in 1..turn |-> schedule[k]] /\ Prefix.cutoff = schedule[turn].step
    BY <1>1, <1>7, <1>13 DEF Here
  <2>4. Len(Prefix.boundaries) = turn /\ Prefix.boundaries[turn] = schedule[turn]
    <3> HIDE DEF schedule
    <3> QED BY <2>1, <2>2, <2>3
  <2>5. Prefix.boundaries # <<>>
    <3>1. Len(<<>>) = 0 /\ turn # 0
      OBVIOUS
    <3> QED BY <2>4, <3>1
  <2> QED BY <2>3, <2>4, <2>5
<1> QED BY <1>1, <1>6, <1>15, <1>16, <1>17 DEF PrefixBound

\* A station's run of the filter leaves the scheduler at the station's end.
LEMMA ListeningReplay ==
  ASSUME Control, Books, Listening, ReplayStation
  PROVE  Listening'
<1>1. PICK deviances \in [1..(HereCount - DoneCount) -> Deviances] : sched' = HeardAll(Signals(deviances))
  BY DEF ReplayStation
<1>2. pc = "pf" /\ input' = input /\ turn' = turn
  BY DEF ReplayStation
<1>3. pc' # "pf"
  <2>1. \A b, S : AfterPF(b, S) # "pf"
    BY DEF AfterPF, AfterScore, AfterFit
  <2> QED BY <2>1 DEF ReplayStation
<1>4. InStep(HeardAll(Signals(deviances)), turn)
  BY <1>2, StationHeard
<1> QED BY <1>1, <1>2, <1>3, <1>4 DEF Listening, InStep, HeardTo

\* Every step leaves the scheduler at the end of a station.
LEMMA ListeningNext == Control /\ Books /\ Listening /\ [Next]_vars => Listening'
<1> SUFFICES ASSUME Control, Books, Listening, [Next]_vars PROVE Listening'
  OBVIOUS
<1> USE DEF Listening, Active
<1>1. CASE Start
  <2>1. pc = "idle" /\ turn' = 1 /\ sched' = FreshScheduler
    BY <1>1 DEF Start, Control, FreshMemory, memory
  <2>2. pc' \in Active => pc' = "pf"
    BY <1>1 DEF Start
  <2> QED BY <2>1, <2>2 DEF InStep, HeardTo, FreshScheduler, Sched!FreshScheduler
<1>2. CASE ReplayStation
  BY <1>2, ListeningReplay
<1>3. CASE Score \/ Fit \/ Plan
  <2>1. pc \in Active /\ pc # "pf" /\ UNCHANGED <<input, turn, sched>>
    BY <1>3 DEF Score, Fit, Plan, collected
  <2>2. pc' # "pf"
    <3>1. \A b : AfterScore(b) # "pf" /\ AfterFit # "pf"
      BY DEF AfterScore, AfterFit
    <3> QED BY <1>3, <3>1 DEF Score, Fit, Plan
  <2> QED BY <2>1, <2>2 DEF InStep, HeardTo
<1>4. CASE NextStation
  <2>1. pc = "next" /\ UNCHANGED <<input, sched>>
    BY <1>4 DEF NextStation
  <2>2. \/ turn' = turn + 1 /\ pc' = "pf"
        \/ turn' = turn /\ pc' = "final_pf"
    BY <1>4 DEF NextStation
  <2>3. turn \in Int
    BY <2>1 DEF Control
  <2>4. HeardTo' = HeardTo
    BY <2>1, <2>2, <2>3 DEF HeardTo
  <2> QED BY <2>1, <2>4 DEF InStep
<1>5. CASE FinalPF \/ FinalFits \/ Publish
  <2>1. pc \in Active /\ pc # "pf" /\ pc' # "pf" /\ UNCHANGED <<input, turn, sched>>
    BY <1>5 DEF FinalPF, FinalFits, Publish, memory
  <2> QED BY <2>1 DEF InStep, HeardTo
<1>6. CASE StartRefused \/ Discard \/ Kill \/ Rerun
  BY <1>6 DEF StartRefused, Discard, Kill, Rerun
<1>7. CASE UNCHANGED vars
  BY <1>7 DEF vars, memory, InStep, HeardTo
<1> QED BY <1>1, <1>2, <1>3, <1>4, <1>5, <1>6, <1>7 DEF Next

-----------------------------------------------------------------------------
(* The ledger and what was registered *)

\* The directives and the snapshots that a ledger names.
DirectivesOf(book) ==
  {<<e.cutoff, e.proposals>> : e \in {f \in ToSet(book) : f.type = "directive_issued"}}
RegisteredOf(book) == {e.cutoff : e \in {f \in ToSet(book) : f.type = "snapshot_registered"}}

\* What one more event adds to the directives and snapshots that a ledger names.
LEMMA EventsAppend ==
  ASSUME NEW book \in Seq(LedgerEvents), NEW e \in LedgerEvents
  PROVE  /\ DirectivesOf(Append(book, e)) =
              IF e.type = "directive_issued"
                THEN DirectivesOf(book) \union {<<e.cutoff, e.proposals>>}
                ELSE DirectivesOf(book)
         /\ RegisteredOf(Append(book, e)) =
              IF e.type = "snapshot_registered"
                THEN RegisteredOf(book) \union {e.cutoff}
                ELSE RegisteredOf(book)
         /\ ToSet(Append(book, e)) = ToSet(book) \union {e}
<1> DEFINE more == Append(book, e)
           n == Len(book)
<1>1. Len(more) = n + 1 /\ more[n + 1] = e /\ n \in Nat
      /\ DOMAIN book = 1..n /\ DOMAIN more = 1..(n + 1)
      /\ \A i \in 1..n : more[i] = book[i]
  OBVIOUS
<1> HIDE DEF more
<1>2. ToSet(more) = ToSet(book) \union {e}
  BY <1>1 DEF ToSet
<1>3. /\ DirectivesOf(more) = IF e.type = "directive_issued"
                                THEN DirectivesOf(book) \union {<<e.cutoff, e.proposals>>}
                                ELSE DirectivesOf(book)
  BY <1>2 DEF DirectivesOf
<1>4. RegisteredOf(more) = IF e.type = "snapshot_registered"
                             THEN RegisteredOf(book) \union {e.cutoff}
                             ELSE RegisteredOf(book)
  BY <1>2 DEF RegisteredOf
<1> QED BY <1>2, <1>3, <1>4 DEF more

\* The events of a kind and cutoff are the ledger's members of that kind.
LEMMA EventsAre ==
  ASSUME NEW book \in Seq(LedgerEvents), NEW type, NEW c, NEW e
  PROVE  e \in Events(book, type, c) <=> e \in ToSet(book) /\ e.type = type /\ e.cutoff = c
BY DEF Events, ToSet

\* A ledger in which none of the events was refused.
LEMMA SummaryAppend ==
  ASSUME NEW book \in Seq(LedgerEvents), LedgerSummaryAccepted(book),
         NEW e \in LedgerEvents, ~LedgerRefuses(book, e)
  PROVE  LedgerSummaryAccepted(Append(book, e))
<1> DEFINE more == Append(book, e)
           n == Len(book)
<1>1. Len(more) = n + 1 /\ more[n + 1] = e /\ n \in Nat
      /\ DOMAIN book = 1..n /\ DOMAIN more = 1..(n + 1)
      /\ \A i \in 1..n : more[i] = book[i]
  OBVIOUS
<1>2. EventAccepted(book, e)
  <2>1. e.type \in {"snapshot_registered", "directive_issued", "directive_receipt", "corroboration"}
        /\ (e.type = "corroboration" => e.state \in Verdicts /\ e.step \in Nat /\ e.cutoff \in Nat)
    BY DEF LedgerEvents, SnapshotEvents, DirectiveEvents, ReceiptEventsSet, UseEvents
  <2>2. CASE e.type = "snapshot_registered"
    BY <2>2 DEF EventAccepted
  <2>3. CASE e.type = "directive_issued"
    BY <2>3 DEF EventAccepted, LedgerRefuses
  <2>4. CASE e.type = "directive_receipt"
    BY <2>4 DEF EventAccepted, LedgerRefuses
  <2>5. CASE e.type = "corroboration"
    BY <2>1, <2>5 DEF EventAccepted, LedgerRefuses
  <2> QED BY <2>1, <2>2, <2>3, <2>4, <2>5
<1>3. SubSeq(more, 1, n) = book
  OBVIOUS
<1>4. ASSUME NEW i \in 1..n PROVE SubSeq(more, 1, i - 1) = SubSeq(book, 1, i - 1)
  OBVIOUS
<1> HIDE DEF more
<1>5. \A i \in 1..(n + 1) : EventAccepted(SubSeq(more, 1, i - 1), more[i])
  <2> TAKE i \in 1..(n + 1)
  <2>1. CASE i = n + 1
    <3>1. i - 1 = n
      BY <1>1, <2>1
    <3> QED BY <1>1, <1>2, <1>3, <2>1, <3>1
  <2>2. CASE i \in 1..n
    BY <1>1, <1>4, <2>2 DEF LedgerSummaryAccepted
  <2> QED BY <1>1, <2>1, <2>2
<1> QED BY <1>1, <1>5 DEF LedgerSummaryAccepted, more

\* The ledger names what was registered; directives are of increasing cutoffs,
\* and the queue has their proposals.
Booked ==
  /\ DirectivesOf(ledger) = {<<directives[i].cutoff, directives[i].proposals>> : i \in DOMAIN directives}
  /\ RegisteredOf(ledger) = {snapshots[i].cutoff : i \in DOMAIN snapshots}
  /\ DOMAIN queue = UNION {Keys(directives[i]) : i \in DOMAIN directives}
  /\ \A i, j \in DOMAIN directives : i < j => directives[i].cutoff < directives[j].cutoff
  /\ LedgerSummaryAccepted(ledger)

\* Nothing is booked at first.
LEMMA BookedFresh == FreshMemory => Booked
<1> SUFFICES ASSUME FreshMemory PROVE Booked
  OBVIOUS
<1>1. ledger = <<>> /\ directives = <<>> /\ snapshots = <<>> /\ queue = <<>>
  BY DEF FreshMemory
<1>2. ToSet(<<>>) = {} /\ DOMAIN <<>> = {}
  BY DEF ToSet
<1> QED BY <1>1, <1>2 DEF Booked, DirectivesOf, RegisteredOf, LedgerSummaryAccepted

-----------------------------------------------------------------------------
(* Receipts *)

\* Events of receipts among those that are entered with them.
LEMMA EnteredBefore ==
  ASSUME NEW book \in Seq(LedgerEvents), NEW events \in Seq(ReceiptEventsSet),
         NEW i \in 1..Len(events)
  PROVE  LET before == book \o SubSeq(events, 1, i - 1)
         IN  /\ before \in Seq(LedgerEvents)
             /\ ToSet(before) = ToSet(book) \union {events[j] : j \in 1..(i - 1)}
<1> DEFINE part == SubSeq(events, 1, i - 1)
           before == book \o part
           n == Len(book)
<1>1. part \in Seq(ReceiptEventsSet) /\ Len(part) = i - 1 /\ \A j \in 1..(i - 1) : part[j] = events[j]
  OBVIOUS
<1> HIDE DEF part
<1>2. part \in Seq(LedgerEvents)
  <2>1. ReceiptEventsSet \subseteq LedgerEvents
    BY DEF LedgerEvents
  <2> QED BY <1>1, <2>1
<1>3. /\ before \in Seq(LedgerEvents) /\ Len(before) = n + (i - 1) /\ n \in Nat
      /\ \A j \in 1..n : before[j] = book[j]
      /\ \A j \in 1..(i - 1) : before[n + j] = part[j]
  BY <1>1, <1>2
<1>4. DOMAIN book = 1..n /\ DOMAIN before = 1..(n + (i - 1))
  BY <1>3
<1> HIDE DEF before, n
<1>5. ASSUME NEW e \in ToSet(before) PROVE e \in ToSet(book) \union {events[j] : j \in 1..(i - 1)}
  <2>1. PICK k \in 1..(n + (i - 1)) : before[k] = e
    BY <1>4 DEF ToSet
  <2>2. CASE k \in 1..n
    BY <1>3, <1>4, <2>1, <2>2 DEF ToSet
  <2>3. CASE k \notin 1..n
    <3>1. k - n \in 1..(i - 1) /\ k = n + (k - n)
      BY <1>3, <2>3
    <3> QED BY <1>1, <1>3, <2>1, <3>1
  <2> QED BY <2>2, <2>3
<1>6. ASSUME NEW e \in ToSet(book) PROVE e \in ToSet(before)
  <2>1. PICK k \in 1..n : book[k] = e
    BY <1>4 DEF ToSet
  <2>2. k \in 1..(n + (i - 1))
    BY <1>3
  <2> QED BY <1>3, <1>4, <2>1, <2>2 DEF ToSet
<1>7. ASSUME NEW j \in 1..(i - 1) PROVE events[j] \in ToSet(before)
  <2>1. n + j \in 1..(n + (i - 1))
    BY <1>3
  <2> QED BY <1>1, <1>3, <1>4, <2>1 DEF ToSet
<1> QED BY <1>3, <1>5, <1>6, <1>7 DEF before, part

\* A ledger that takes in all the receipts it is given stays accepted.
LEMMA SummaryEntered ==
  ASSUME NEW book \in Seq(LedgerEvents), NEW events \in Seq(ReceiptEventsSet),
         LedgerSummaryAccepted(book), AllEntered(book, events)
  PROVE  LedgerSummaryAccepted(book \o events)
<1> DEFINE more == book \o events
           n == Len(book)
           m == Len(events)
<1>1. /\ n \in Nat /\ m \in Nat /\ DOMAIN book = 1..n /\ DOMAIN more = 1..(n + m) /\ DOMAIN events = 1..m
      /\ \A i \in 1..n : more[i] = book[i]
      /\ \A i \in 1..m : more[n + i] = events[i]
  OBVIOUS
<1>2. ASSUME NEW i \in 1..n PROVE SubSeq(more, 1, i - 1) = SubSeq(book, 1, i - 1)
  OBVIOUS
<1>3. ASSUME NEW i \in 1..m PROVE SubSeq(more, 1, n + i - 1) = book \o SubSeq(events, 1, i - 1)
  OBVIOUS
<1> HIDE DEF more, n, m
<1>4. ASSUME NEW i \in 1..m PROVE EventAccepted(SubSeq(more, 1, n + i - 1), more[n + i])
  <2>1. ~LedgerRefuses(book \o SubSeq(events, 1, i - 1), events[i])
    BY <1>1 DEF AllEntered
  <2>2. events[i] \in ReceiptEventsSet
    BY <1>1
  <2>3. EventAccepted(book \o SubSeq(events, 1, i - 1), events[i])
    BY <2>1, <2>2 DEF EventAccepted, LedgerRefuses, ReceiptEventsSet
  <2> QED BY <1>1, <1>3, <2>3
<1>5. ASSUME NEW i \in 1..(n + m) PROVE EventAccepted(SubSeq(more, 1, i - 1), more[i])
  <2>1. CASE i \in 1..n
    BY <1>1, <1>2, <2>1 DEF LedgerSummaryAccepted
  <2>2. CASE i \notin 1..n
    <3>1. i - n \in 1..m /\ n + (i - n) = i /\ n + (i - n) - 1 = i - 1
      BY <1>1, <2>2
    <3> QED BY <1>4, <3>1
  <2> QED BY <2>1, <2>2
<1> QED BY <1>1, <1>5 DEF LedgerSummaryAccepted, more

\* The receipts of a run that were accepted can be rebuilt and entered.
LEMMA IngestAccepted ==
  ASSUME Control, Lineage, Books, Telling, Booked, NEW emitted \in Emissions, EmissionAccepted(emitted)
  PROVE  IngestChecks(emitted)
<1> DEFINE new == SetToSeq(NewReceipts(emitted))
           events == ReceiptEvents(emitted)
<1>1. /\ IsFiniteSet(NewReceipts(emitted)) /\ NewReceipts(emitted) \subseteq DOMAIN emitted
      /\ events \in Seq(ReceiptEventsSet) /\ Len(events) = Len(new)
  BY NewEventsTyped
<1>2. /\ new \in Seq(NewReceipts(emitted))
      /\ \A i, j \in 1..Len(new) : new[i] = new[j] => i = j
  BY <1>1, Enumerated
<1>3. ASSUME NEW i \in 1..Len(new)
      PROVE  /\ new[i] \in NewReceipts(emitted)
             /\ events[i].type = "directive_receipt" /\ events[i].cutoff = new[i]
  <2>1. new[i] \in NewReceipts(emitted)
    BY <1>2
  <2>2. events[i] = ReceiptEvent(emitted[new[i]])
    BY <1>2 DEF ReceiptEvents
  <2>3. emitted[new[i]].directive = new[i]
    BY <1>1, <2>1, EmissionIs
  <2> QED BY <2>1, <2>2, <2>3 DEF ReceiptEvent
<1>4. ASSUME NEW c \in NewReceipts(emitted) PROVE ReceiptConstructs(emitted[c])
  <2>1. PICK S \in SUBSET Issued : emitted \in [S -> UNION {PossibleReceipts(b) : b \in S}]
    BY DEF Emissions
  <2>2. PICK b \in S : emitted[c] \in PossibleReceipts(b)
    BY <1>1, <2>1
  <2>3. ReceiptAccepted(emitted[c], DirectiveOf(c))
    BY <1>1 DEF EmissionAccepted
  <2> SUFFICES ASSUME NEW p \in DOMAIN emitted[c].outcomes PROVE OutcomeConstructs(emitted[c].outcomes[p])
    BY DEF ReceiptConstructs
  <2>4. OutcomeAccepted(emitted[c].status, emitted[c].outcomes[p])
    BY <2>3 DEF ReceiptAccepted
  <2>5. CASE emitted[c].status = "applied"
    BY <2>4, <2>5 DEF OutcomeAccepted, OutcomeConstructs
  <2>6. CASE emitted[c].status # "applied"
    <3>1. emitted[c].outcomes = [n \in DirectiveOf(b).proposals |->
                  [label |-> "not_applied", attempts |-> 0, accepted |-> 0, rejected |-> 0,
                   notSampled |-> 0, eligible |-> 0, scalars |-> FALSE]]
      BY <2>2, <2>6 DEF PossibleReceipts
    <3>2. emitted[c].outcomes[p] = [label |-> "not_applied", attempts |-> 0, accepted |-> 0, rejected |-> 0,
                                    notSampled |-> 0, eligible |-> 0, scalars |-> FALSE]
      BY <3>1
    <3> QED BY <3>2 DEF OutcomeConstructs, CountsAgree, LabelOf
  <2> QED BY <2>5, <2>6
<1> HIDE DEF new
<1>5. ASSUME NEW i \in 1..Len(events)
      PROVE  ~LedgerRefuses(ledger \o SubSeq(events, 1, i - 1), events[i])
  <2> DEFINE before == ledger \o SubSeq(events, 1, i - 1)
             c == new[i]
  <2>1. ledger \in Seq(LedgerEvents)
    BY DEF Books
  <2>2. before \in Seq(LedgerEvents) /\ ToSet(before) = ToSet(ledger) \union {events[j] : j \in 1..(i - 1)}
    <3> HIDE DEF events
    <3> QED BY <1>1, <2>1, EnteredBefore
  <2>3. i \in 1..Len(new) /\ c \in NewReceipts(emitted) /\ events[i].type = "directive_receipt" /\ events[i].cutoff = c
    BY <1>1, <1>3
  <2> HIDE DEF before, events
  <2>4. Events(before, "directive_issued", c) # {}
    <3>1. c \in Issued
      BY <1>1, <2>3, EmissionIs
    <3>2. PICK d \in DOMAIN directives : directives[d].cutoff = c
      BY <3>1 DEF Issued
    <3>3. <<directives[d].cutoff, directives[d].proposals>> \in DirectivesOf(ledger)
      BY DEF Booked
    <3>4. PICK e \in ToSet(ledger) : e.type = "directive_issued" /\ e.cutoff = c
      BY <3>2, <3>3 DEF DirectivesOf
    <3>5. e \in {f \in ToSet(before) : f.type = "directive_issued" /\ f.cutoff = c}
      BY <2>2, <3>4
    <3>6. e \in Events(before, "directive_issued", c)
      BY <2>2, <3>5, EventsAre
    <3> QED BY <3>6
  <2>5. Events(before, "directive_receipt", c) = {}
    <3> SUFFICES ASSUME NEW e \in ToSet(before), e.type = "directive_receipt", e.cutoff = c
                 PROVE  FALSE
      BY <2>2, EventsAre
    <3>1. CASE e \in ToSet(ledger)
      <4>1. <<c, e.status>> \in ReceiptsOf(ledger)
        BY <3>1 DEF ReceiptsOf
      <4>2. c \in DOMAIN receipts
        BY <4>1 DEF Telling
      <4> QED BY <2>3, <4>2 DEF NewReceipts
    <3>2. CASE e \notin ToSet(ledger)
      <4>1. PICK j \in 1..(i - 1) : e = events[j]
        BY <2>2, <3>2
      <4>2. j \in 1..Len(new) /\ j # i
        BY <2>3
      <4>3. new[j] = c
        BY <1>3, <4>1, <4>2
      <4> QED BY <1>2, <2>3, <4>2, <4>3
    <3> QED BY <3>1, <3>2
  <2>6. ~LedgerRefuses(before, events[i])
    BY <2>3, <2>4, <2>5 DEF LedgerRefuses
  <2> QED BY <2>6 DEF before
<1>6. AllEntered(ledger, events)
  <2> HIDE DEF events
  <2> QED BY <1>1, <1>5 DEF AllEntered
<1> QED BY <1>4, <1>6 DEF IngestChecks

\* Receipts leave the bookings.
LEMMA BookedIngest ==
  ASSUME Control, Lineage, Books, Telling, Booked, NEW emitted \in Emissions, IngestReceipts(emitted),
         UNCHANGED <<snapshots, directives, queue>>
  PROVE  Booked'
<1> DEFINE events == ReceiptEvents(emitted)
<1>1. EmissionAccepted(emitted) /\ ledger' = ledger \o events
  BY DEF IngestReceipts
<1>2. events \in Seq(ReceiptEventsSet) /\ ledger \in Seq(LedgerEvents)
  BY <1>1, NewEventsTyped DEF Books
<1>3. AllEntered(ledger, events)
  BY <1>1, IngestAccepted DEF IngestChecks
<1> HIDE DEF events
<1>4. LedgerSummaryAccepted(ledger')
  BY <1>1, <1>2, <1>3, SummaryEntered DEF Booked
<1>5. ToSet(ledger') = ToSet(ledger) \union {events[j] : j \in 1..Len(events)}
  <2>1. CASE Len(events) = 0
    BY <1>1, <1>2, <2>1
  <2>2. CASE Len(events) # 0
    <3> DEFINE n == Len(events)
    <3>1. n \in 1..n /\ n \in Nat
      BY <1>2, <2>2
    <3>2. ToSet(ledger \o SubSeq(events, 1, n - 1)) = ToSet(ledger) \union {events[j] : j \in 1..(n - 1)}
      BY <1>2, <3>1, EnteredBefore
    <3>3. ledger' = Append(ledger \o SubSeq(events, 1, n - 1), events[n])
      BY <1>1, <1>2, <3>1
    <3>4. ledger \o SubSeq(events, 1, n - 1) \in Seq(LedgerEvents) /\ events[n] \in LedgerEvents
      BY <1>2, <3>1, EnteredBefore DEF LedgerEvents
    <3>5. ToSet(ledger') = ToSet(ledger \o SubSeq(events, 1, n - 1)) \union {events[n]}
      BY <3>3, <3>4, EventsAppend
    <3>6. {events[j] : j \in 1..n} = {events[j] : j \in 1..(n - 1)} \union {events[n]}
      <4>1. 1..n = (1..(n - 1)) \union {n}
        BY <3>1
      <4> HIDE DEF n
      <4> QED BY <4>1
    <3> QED BY <3>2, <3>5, <3>6
  <2> QED BY <2>1, <2>2
<1>6. ASSUME NEW j \in 1..Len(events) PROVE events[j].type = "directive_receipt"
  <2>1. events[j] \in ReceiptEventsSet
    BY <1>2
  <2> QED BY <2>1 DEF ReceiptEventsSet
<1>7. DirectivesOf(ledger') = DirectivesOf(ledger) /\ RegisteredOf(ledger') = RegisteredOf(ledger)
  BY <1>5, <1>6 DEF DirectivesOf, RegisteredOf
<1> QED BY <1>4, <1>7 DEF Booked

-----------------------------------------------------------------------------
(* Snapshots and directives *)

\* What was registered or issued before belongs to an earlier station.
LEMMA FitIsLater ==
  ASSUME Control, Lineage, Books, pc = "fit"
  PROVE  /\ Here.step \in Nat
         /\ \A i \in DOMAIN snapshots : snapshots[i].cutoff \in Nat /\ snapshots[i].cutoff < Here.step
         /\ \A i \in DOMAIN directives : directives[i].cutoff \in Nat /\ directives[i].cutoff < Here.step
<1>1. input \in Inputs /\ Accepted(input) /\ turn \in 1..Len(input.schedule)
  BY DEF Control, Active
<1>2. Here.step \in Nat
  BY <1>1, StepsRise DEF Here
<1>3. ASSUME NEW i \in DOMAIN snapshots PROVE snapshots[i].cutoff \in Nat /\ snapshots[i].cutoff < Here.step
  <2>1. i \in 1..Len(snapshots)
    BY DEF Lineage, Listed
  <2>2. PICK k \in 1..(turn - 1) : snapshots[i].cutoff = input.schedule[k].step
    BY <2>1 DEF Lineage, Origin, Answered
  <2>3. k \in 1..Len(input.schedule) /\ k < turn
    BY <1>1, InputTyped
  <2>4. input.schedule[k].step < input.schedule[turn].step
    BY <1>1, <2>3, StepsRise, Zenon
  <2> QED BY <1>1, <2>2, <2>3, <2>4, StepsRise DEF Here
<1>4. ASSUME NEW i \in DOMAIN directives PROVE directives[i].cutoff \in Nat /\ directives[i].cutoff < Here.step
  <2>1. PICK j \in DOMAIN snapshots : snapshots[j].cutoff = directives[i].cutoff
    BY DEF Books
  <2> QED BY <1>3, <2>1
<1> QED BY <1>2, <1>3, <1>4

\* The steps through a station's end, as the snapshot covers them.
LEMMA StepsCover ==
  ASSUME input \in Inputs, Accepted(input), turn \in 1..Len(input.schedule)
  PROVE  Increasing(StepsThrough(HereCount)) /\ Last(StepsThrough(HereCount)) = Here.step
<1> DEFINE n == HereCount
           steps == StepsThrough(n)
<1>1. n \in 1..Len(input.rows) /\ n = EndAt(turn) /\ input.rows[n].step = Here.step
  BY PrefixIs, EndAtRow DEF Here
<1>2. Len(input.rows) \in Nat /\ input.rows \in Seq(Ends)
  BY InputTyped
<1>3. SubSeq(input.rows, 1, n) = [i \in 1..n |-> input.rows[i]] /\ n \in Nat
  BY <1>1, <1>2
<1>4. steps = [i \in 1..n |-> input.rows[i].step]
  BY <1>3 DEF StepsThrough, Column
<1>5. \A i \in 1..n : i \in 1..Len(input.rows)
  BY <1>1, <1>2
<1>6. steps \in [1..n -> Nat]
  BY <1>4, <1>5, StepsRise
<1> HIDE DEF steps
<1>7. Increasing(steps)
  <2> SUFFICES ASSUME NEW i \in 1..n, NEW j \in 1..n, i < j PROVE steps[i] < steps[j]
    BY <1>6 DEF Increasing
  <2>1. i \in 1..Len(input.rows) /\ j \in 1..Len(input.rows)
    BY <1>5
  <2>2. input.rows[i].step < input.rows[j].step
    BY <2>1, StepsRise, Zenon
  <2> QED BY <1>4, <2>2
<1>8. Len(steps) = n /\ n \in 1..n
  BY <1>1, <1>3, <1>6
<1>9. Last(steps) = Here.step
  BY <1>1, <1>4, <1>8 DEF Last
<1> QED BY <1>7, <1>9 DEF steps

\* The controller's checks of a snapshot and its directive.
FitChecks(fit, found, proposals) ==
  LET s == BuiltSnapshot(Prefix, fit, found, Previous)
      d == BuiltDirective(s, proposals)
      entered == Append(ledger, SnapshotEvent(s))
  IN  /\ SnapshotAccepted(s, Prefix, Previous)
      /\ ~LedgerRefuses(ledger, SnapshotEvent(s))
      /\ proposals # {} => /\ DirectiveAccepted(d, s)
                           /\ ~LedgerRefuses(entered, DirectiveEvent(d))
                           /\ ~RegisterRefused(queue, d)

\* A fit ends in the check of what it makes.
LEMMA FitJudged ==
  ASSUME Control, Fit
  PROVE  \E fit \in FitOutputs, found \in SUBSET Names : \E proposals \in SUBSET found :
           /\ FitMakes(fit, found, proposals)
           /\ pc' = IF FitChecks(fit, found, proposals) THEN AfterFit ELSE "self_refused"
<1> DEFINE Made(fit, found, proposals) ==
             LET s == BuiltSnapshot(Prefix, fit, found, Previous)
                 d == BuiltDirective(s, proposals)
                 proposed == proposals # {}
                 entered == Append(ledger, SnapshotEvent(s))
             IN  /\ FitAccepted(fit, Prefix.log.rows, Previous)
                 /\ snapshots' = Append(snapshots, s)
                 /\ directives' = IF proposed THEN Append(directives, d) ELSE directives
                 /\ queue' = IF proposed THEN Register(queue, d) ELSE queue
                 /\ ledger' = IF proposed THEN Append(entered, DirectiveEvent(d)) ELSE entered
                 /\ pc' = IF /\ SnapshotAccepted(s, Prefix, Previous)
                             /\ ~LedgerRefuses(ledger, SnapshotEvent(s))
                             /\ proposed => /\ DirectiveAccepted(d, s)
                                            /\ ~LedgerRefuses(entered, DirectiveEvent(d))
                                            /\ ~RegisterRefused(queue, d)
                            THEN AfterFit
                            ELSE "self_refused"
<1>1. \E fit \in FitOutputs, found \in SUBSET Names : \E proposals \in SUBSET found :
        Made(fit, found, proposals)
  BY Zenon DEF Fit
<1>2. ASSUME NEW fit, NEW found, NEW proposals, Made(fit, found, proposals)
      PROVE  /\ FitMakes(fit, found, proposals)
             /\ pc' = IF FitChecks(fit, found, proposals) THEN AfterFit ELSE "self_refused"
  BY <1>2, Zenon DEF FitMakes, FitChecks
<1> HIDE DEF Made
<1> QED BY <1>1, <1>2, Zenon

\* They pass, and what was booked stays so.
LEMMA FitPasses ==
  ASSUME Control, Lineage, Books, Booked, pc = "fit",
         NEW fit \in FitOutputs, NEW found \in SUBSET Names, NEW proposals \in SUBSET found,
         FitMakes(fit, found, proposals)
  PROVE  FitChecks(fit, found, proposals) /\ Booked'
<1> DEFINE s == BuiltSnapshot(Prefix, fit, found, Previous)
           d == BuiltDirective(s, proposals)
           es == SnapshotEvent(s)
           ed == DirectiveEvent(d)
           entered == Append(ledger, es)
           n == Len(snapshots)
           m == Len(directives)
<1>1. input \in Inputs /\ Accepted(input) /\ turn \in 1..Len(input.schedule)
  BY DEF Control, Active
<1>2. /\ Prefix.cutoff = Here.step /\ Prefix.covered = StepsThrough(HereCount)
      /\ Column(Prefix.log.rows, "step") = StepsThrough(HereCount)
  BY <1>1, PrefixIs
<1>3. Here.step \in Nat
  BY FitIsLater
<1>4. fit.rows = Prefix.log.rows
  BY DEF FitMakes, FitAccepted
<1>5. SnapshotAccepted(s, Prefix, Previous)
  BY <1>1, <1>2, <1>4, StepsCover DEF SnapshotAccepted, BuiltSnapshot, SnapshotCovers
<1>6. /\ s.cutoff = Here.step /\ s.clusters = found /\ s.covered = StepsThrough(HereCount)
      /\ d.cutoff = Here.step /\ d.proposals = proposals
  BY <1>2 DEF BuiltSnapshot, BuiltDirective
<1>7. proposals # {} => DirectiveAccepted(d, s)
  BY <1>1, <1>2, StepsCover DEF DirectiveAccepted, BuiltDirective, BuiltSnapshot
<1>8. StepsThrough(HereCount) \in Seq(Nat)
  <2>1. HereCount \in 1..Len(input.rows) /\ Len(input.rows) \in Nat /\ input.rows \in Seq(Ends)
    BY <1>1, PrefixIs, InputTyped
  <2>2. SubSeq(input.rows, 1, HereCount) = [i \in 1..HereCount |-> input.rows[i]] /\ HereCount \in Nat
    BY <2>1
  <2>3. StepsThrough(HereCount) = [i \in 1..HereCount |-> input.rows[i].step]
    BY <2>2 DEF StepsThrough, Column
  <2>4. \A i \in 1..HereCount : i \in 1..Len(input.rows)
    BY <2>1
  <2>5. StepsThrough(HereCount) \in [1..HereCount -> Nat]
    BY <1>1, <2>3, <2>4, StepsRise
  <2> QED BY <2>2, <2>5
<1>9. /\ es \in LedgerEvents /\ es.type = "snapshot_registered" /\ es.cutoff = Here.step
      /\ ed \in LedgerEvents /\ ed.type = "directive_issued" /\ ed.cutoff = Here.step
      /\ ed.proposals = proposals
  <2>1. proposals \subseteq Names
    OBVIOUS
  <2> HIDE DEF s, d
  <2> QED BY <1>3, <1>6, <1>8, <2>1 DEF SnapshotEvent, DirectiveEvent, LedgerEvents, SnapshotEvents, DirectiveEvents
<1>10. /\ snapshots' = Append(snapshots, s)
       /\ directives' = IF proposals # {} THEN Append(directives, d) ELSE directives
       /\ queue' = IF proposals # {} THEN Register(queue, d) ELSE queue
       /\ ledger' = IF proposals # {} THEN Append(entered, ed) ELSE entered
  BY DEF FitMakes
<1> HIDE DEF s, d, es, ed
<1>11. ledger \in Seq(LedgerEvents) /\ entered \in Seq(LedgerEvents)
  BY <1>9 DEF Books
<1>12. ~LedgerRefuses(ledger, es)
  <2>1. ASSUME NEW e \in Events(ledger, "snapshot_registered", Here.step) PROVE FALSE
    <3>1. e \in ToSet(ledger) /\ e.type = "snapshot_registered" /\ e.cutoff = Here.step
      BY <1>11, EventsAre
    <3>2. Here.step \in RegisteredOf(ledger)
      BY <3>1 DEF RegisteredOf
    <3>3. PICK i \in DOMAIN snapshots : snapshots[i].cutoff = Here.step
      BY <3>2 DEF Booked
    <3> QED BY <1>3, <3>3, FitIsLater
  <2> QED BY <1>9, <2>1 DEF LedgerRefuses
<1>13. /\ ToSet(entered) = ToSet(ledger) \union {es}
       /\ DirectivesOf(entered) = DirectivesOf(ledger)
       /\ RegisteredOf(entered) = RegisteredOf(ledger) \union {Here.step}
  BY <1>9, <1>11, EventsAppend
<1> HIDE DEF entered
<1>14. ~LedgerRefuses(entered, ed)
  <2>1. es \in Events(entered, "snapshot_registered", Here.step)
    BY <1>9, <1>11, <1>13, EventsAre
  <2>2. ASSUME NEW e \in Events(entered, "directive_issued", Here.step) PROVE FALSE
    <3>1. e \in ToSet(entered) /\ e.type = "directive_issued" /\ e.cutoff = Here.step
      BY <1>11, EventsAre
    <3>2. <<e.cutoff, e.proposals>> \in DirectivesOf(entered)
      BY <3>1 DEF DirectivesOf
    <3>3. <<Here.step, e.proposals>> \in {<<directives[i].cutoff, directives[i].proposals>> : i \in DOMAIN directives}
      BY <1>13, <3>1, <3>2 DEF Booked
    <3>4. PICK i \in DOMAIN directives : directives[i].cutoff = Here.step
      BY <3>3
    <3> QED BY <1>3, <3>4, FitIsLater
  <2> QED BY <1>9, <2>1, <2>2 DEF LedgerRefuses
<1>15. \A k \in DOMAIN queue : k.cutoff # Here.step
  <2> SUFFICES ASSUME NEW k \in DOMAIN queue PROVE k.cutoff # Here.step
    OBVIOUS
  <2>1. PICK i \in DOMAIN directives : directives[i].cutoff = k.cutoff
    BY DEF Books, Issued
  <2> QED BY <1>3, <2>1, FitIsLater
<1>16. ~RegisterRefused(queue, d)
  BY <1>6, <1>15 DEF RegisterRefused
<1>17. FitChecks(fit, found, proposals)
  BY <1>5, <1>7, <1>12, <1>14, <1>16 DEF FitChecks, s, d, es, ed, entered
<1>18. LedgerSummaryAccepted(entered)
  <2>1. LedgerSummaryAccepted(Append(ledger, es))
    BY <1>9, <1>11, <1>12, SummaryAppend DEF Booked
  <2> QED BY <2>1 DEF entered
<1>19. RegisteredOf(entered) = {snapshots'[i].cutoff : i \in DOMAIN snapshots'}
  <2>1. Listed(snapshots)
    BY DEF Lineage
  <2>2. /\ n \in Nat /\ DOMAIN snapshots = 1..n /\ Listed(snapshots') /\ Len(snapshots') = n + 1
        /\ snapshots'[n + 1] = s /\ \A i \in 1..n : snapshots'[i] = snapshots[i]
    BY <1>10, <2>1, Appended
  <2>3. DOMAIN snapshots' = 1..(n + 1)
    BY <2>2 DEF Listed
  <2>4. RegisteredOf(ledger) = {snapshots[i].cutoff : i \in DOMAIN snapshots}
    BY DEF Booked
  <2> HIDE DEF n
  <2>5. {snapshots'[i].cutoff : i \in 1..(n + 1)} = {snapshots[i].cutoff : i \in 1..n} \union {Here.step}
    BY <1>6, <2>2
  <2> QED BY <1>13, <2>2, <2>3, <2>4, <2>5
<1>20. CASE proposals = {}
  <2>1. directives' = directives /\ queue' = queue /\ ledger' = entered
    BY <1>10, <1>20
  <2> QED BY <1>13, <1>17, <1>18, <1>19, <2>1 DEF Booked
<1>21. CASE proposals # {}
  <2>1. directives' = Append(directives, d) /\ queue' = Register(queue, d) /\ ledger' = Append(entered, ed)
    BY <1>10, <1>21
  <2>2. LedgerSummaryAccepted(ledger')
    BY <1>9, <1>11, <1>14, <1>18, <2>1, SummaryAppend
  <2>3. RegisteredOf(ledger') = RegisteredOf(entered)
        /\ DirectivesOf(ledger') = DirectivesOf(ledger) \union {<<Here.step, proposals>>}
    BY <1>9, <1>11, <1>13, <2>1, EventsAppend
  <2>4. Listed(directives)
    BY DEF Books
  <2>5. /\ m \in Nat /\ DOMAIN directives = 1..m /\ Listed(directives') /\ Len(directives') = m + 1
        /\ directives'[m + 1] = d /\ \A i \in 1..m : directives'[i] = directives[i]
    BY <2>1, <2>4, Appended
  <2>6. DOMAIN directives' = 1..(m + 1)
    BY <2>5 DEF Listed
  <2> HIDE DEF m
  <2>7. {<<directives'[i].cutoff, directives'[i].proposals>> : i \in 1..(m + 1)}
          = {<<directives[i].cutoff, directives[i].proposals>> : i \in 1..m} \union {<<Here.step, proposals>>}
    BY <1>6, <2>5
  <2>8. DirectivesOf(ledger') = {<<directives'[i].cutoff, directives'[i].proposals>> : i \in DOMAIN directives'}
    BY <2>3, <2>5, <2>6, <2>7 DEF Booked
  <2>9. DOMAIN queue' = DOMAIN queue \union Keys(d)
    BY <2>1 DEF Register
  <2>10. UNION {Keys(directives'[i]) : i \in 1..(m + 1)} = (UNION {Keys(directives[i]) : i \in 1..m}) \union Keys(d)
    <3>1. ASSUME NEW k PROVE (\E i \in 1..(m + 1) : k \in Keys(directives'[i]))
                               <=> (\E i \in 1..m : k \in Keys(directives[i])) \/ k \in Keys(d)
      BY <2>5
    <3> QED BY <3>1
  <2>11. DOMAIN queue' = UNION {Keys(directives'[i]) : i \in DOMAIN directives'}
    BY <2>5, <2>6, <2>9, <2>10 DEF Booked
  <2>12. ASSUME NEW i \in 1..(m + 1), NEW j \in 1..(m + 1), i < j
         PROVE  directives'[i].cutoff < directives'[j].cutoff
    <3>1. CASE j \in 1..m
      <4>1. i \in 1..m
        BY <2>5, <2>12, <3>1
      <4>2. directives[i].cutoff < directives[j].cutoff
        BY <2>5, <2>12, <3>1, <4>1 DEF Booked
      <4> QED BY <2>5, <3>1, <4>1, <4>2
    <3>2. CASE j = m + 1
      <4>1. i \in 1..m
        BY <2>5, <2>12, <3>2
      <4>2. directives[i].cutoff < Here.step
        BY <2>5, <4>1, FitIsLater
      <4> QED BY <1>6, <2>5, <3>2, <4>1, <4>2
    <3> QED BY <2>5, <3>1, <3>2
  <2> QED BY <1>17, <1>19, <2>2, <2>3, <2>6, <2>8, <2>11, <2>12 DEF Booked
<1> QED BY <1>20, <1>21

\* So a fit goes on to the next stage.
LEMMA BookedFit ==
  ASSUME Control, Lineage, Books, Booked, Fit
  PROVE  Booked' /\ pc' = AfterFit
<1>1. pc = "fit"
  BY FitIs
<1>2. PICK fit \in FitOutputs, found \in SUBSET Names : \E proposals \in SUBSET found :
           /\ FitMakes(fit, found, proposals)
           /\ pc' = IF FitChecks(fit, found, proposals) THEN AfterFit ELSE "self_refused"
  BY FitJudged, Zenon
<1>3. PICK proposals \in SUBSET found :
           /\ FitMakes(fit, found, proposals)
           /\ pc' = IF FitChecks(fit, found, proposals) THEN AfterFit ELSE "self_refused"
  BY <1>2, Zenon
<1>4. FitChecks(fit, found, proposals) /\ Booked'
  BY <1>1, <1>3, FitPasses
<1> QED BY <1>3, <1>4

-----------------------------------------------------------------------------
(* Uses *)

\* Row n of artifact a is the use that event e tells of.
Backs(a, e) ==
  \E n \in DOMAIN a.steps :
    /\ a.snapshot = e.cutoff
    /\ a.through = e.through
    /\ a.steps[n] = e.step
    /\ a.stations[n] = e.station
    /\ a.ratios[e.name][n] = e.ratio

\* The queue has had every use in the ledger.
UsesHad(q, book) ==
  \A e \in ToSet(book) : e.type = "corroboration" =>
    LET k == [cutoff |-> e.cutoff, name |-> e.name]
    IN  k \in DOMAIN q /\ Contains(q[k].steps, e.step)

\* Books in which nothing was refused and that grew from book by rows of a.
Sound(D, a, book, u) ==
  /\ u \in Uses(D) /\ ~u.refused
  /\ LedgerSummaryAccepted(u.ledger)
  /\ UsesHad(u.queue, u.ledger)
  /\ ReceiptsOf(u.ledger) = ReceiptsOf(book)
  /\ DirectivesOf(u.ledger) = DirectivesOf(book)
  /\ RegisteredOf(u.ledger) = RegisteredOf(book)
  /\ \A e \in ToSet(u.ledger) : e.type = "corroboration" => e \in ToSet(book) \/ Backs(a, e)

\* The artifact has the rows after the m-th, where its snapshot was taken,
\* through the n-th, and the candidates it is consumed for were applied.
Eligible(D, a, book, m, n) ==
  /\ m \in 1..n /\ n \in 1..Len(input.rows)
  /\ a.steps = After(m, n) /\ a.snapshot = input.rows[m].step
  /\ <<a.snapshot, "applied">> \in ReceiptsOf(book)
  /\ \A name \in Proposed(D, a) : \E p : <<a.snapshot, p>> \in DirectivesOf(book) /\ name \in p

\* Where the next row of a window goes.
LEMMA RowIsNext ==
  ASSUME input \in Inputs, Accepted(input),
         NEW m \in Nat, NEW n \in m..Len(input.rows), NEW i \in 1..(n - m),
         NEW q \in m..n, q >= m + (i - 1), ~Contains(After(m, q), After(m, n)[i])
  PROVE  /\ q = m + i - 1 /\ After(m, n)[i] = input.rows[q + 1].step /\ q + 1 \in 1..Len(input.rows)
         /\ m > 0 => input.rows[m].step < After(m, n)[i]
         /\ After(m, q) # <<>> => Last(After(m, q)) < After(m, n)[i]
<1>1. Len(input.rows) \in Nat /\ m + i \in 1..Len(input.rows) /\ q \in m..Len(input.rows)
  BY InputTyped
<1>2. After(m, n)[i] = input.rows[m + i].step
  BY DEF After
<1>3. After(m, q) \in Seq(Nat) /\ Len(After(m, q)) = q - m
  BY <1>1, AfterGrows
<1>4. \A l \in 1..(q - m) : After(m, q)[l] = input.rows[m + l].step
  BY DEF After
<1>5. ~(i <= q - m)
  <2> SUFFICES ASSUME i <= q - m PROVE FALSE
    OBVIOUS
  <2>1. i \in 1..(q - m)
    BY <1>1
  <2>2. After(m, q)[i] = After(m, n)[i] /\ i \in 1..Len(After(m, q))
    BY <1>2, <1>3, <1>4, <2>1
  <2> QED BY <1>3, <2>2 DEF Contains
<1>6. q = m + i - 1 /\ q + 1 = m + i
  BY <1>1, <1>5
<1>7. ASSUME m > 0 PROVE input.rows[m].step < After(m, n)[i]
  <2>1. m \in 1..Len(input.rows) /\ m < m + i
    BY <1>1, <1>7
  <2> QED BY <1>1, <1>2, <2>1, StepsRise, Zenon
<1>8. ASSUME After(m, q) # <<>> PROVE Last(After(m, q)) < After(m, n)[i]
  <2>1. q - m \in 1..(q - m)
    BY <1>1, <1>3, <1>8
  <2>2. Last(After(m, q)) = After(m, q)[q - m]
    BY <1>3 DEF Last
  <2>3. m + (q - m) = q
    BY <1>1
  <2>4. After(m, q)[q - m] = input.rows[q].step
    BY <1>4, <2>1, <2>3
  <2>5. q \in 1..Len(input.rows) /\ q < m + i
    BY <1>1, <1>6, <2>1
  <2>6. input.rows[q].step < input.rows[m + i].step
    BY <1>1, <2>5, StepsRise, Zenon
  <2> QED BY <1>2, <2>2, <2>4, <2>6
<1> QED BY <1>1, <1>2, <1>6, <1>7, <1>8

\* The last and the members of a list of steps.
LEMMA NatSequences ==
  ASSUME NEW s \in Seq(Nat), NEW x \in Nat
  PROVE  /\ s # <<>> => Last(s) \in Nat
         /\ Contains(Append(s, x), x)
         /\ \A y : Contains(s, y) => Contains(Append(s, x), y)
<1>1. /\ Len(Append(s, x)) = Len(s) + 1 /\ Append(s, x)[Len(s) + 1] = x /\ Len(s) \in Nat
      /\ \A i \in 1..Len(s) : Append(s, x)[i] = s[i]
  OBVIOUS
<1>2. s # <<>> => Last(s) \in Nat
  BY DEF Last
<1>3. Len(s) + 1 \in 1..(Len(s) + 1) /\ \A i \in 1..Len(s) : i \in 1..(Len(s) + 1)
  BY <1>1
<1> QED BY <1>1, <1>2, <1>3 DEF Contains

\* A row that is consumed is refused by neither queue nor ledger.
LEMMA RowSound ==
  ASSUME input \in Inputs, Accepted(input), NEW D, NEW a, ArtifactTyped(a), NEW book,
         NEW m, NEW n, Eligible(D, a, book, m, n),
         NEW name \in Proposed(D, a), NEW i \in 1..(n - m),
         NEW u, Sound(D, a, book, u), Advanced(u, KeyOf(a, name), m, n, i - 1)
  PROVE  Sound(D, a, book, Row(u, KeyOf(a, name), a, i))
<1> DEFINE k == KeyOf(a, name)
           step == a.steps[i]
           v == Used(u, k, a, i)
           qq == Corroborate(u.queue, k, a.steps[i], a.ratios[k.name][i])
           e == UseEvent(k, a, i, qq[k].state)
<1>1. name \in DOMAIN a.ratios /\ k \in D /\ k.cutoff = a.snapshot /\ k.name = name
  BY DEF Proposed, KeyOf
<1>2. /\ u \in Uses(D) /\ u.queue \in [D -> Candidates] /\ u.ledger \in Seq(LedgerEvents)
      /\ k \in DOMAIN u.queue
  BY <1>1 DEF Sound, Uses
<1>3. CASE u.queue[k].state # "pending" \/ Contains(u.queue[k].steps, step)
  <2>1. Row(u, k, a, i) = u
    BY <1>3 DEF Row
  <2> QED BY <2>1
<1>4. CASE u.queue[k].state = "pending" /\ ~Contains(u.queue[k].steps, step)
  <2>1. Row(u, k, a, i) = v
    BY <1>4 DEF Row
  <2>2. /\ Len(input.rows) \in Nat /\ m \in Nat /\ m > 0 /\ n \in m..Len(input.rows)
        /\ a.steps = After(m, n) /\ a.snapshot = input.rows[m].step
    BY InputTyped DEF Eligible
  <2>3. Len(a.steps) = n - m /\ i \in 1..Len(a.steps) /\ DOMAIN a.steps = 1..Len(a.steps)
        /\ step \in Nat /\ a.snapshot \in Nat
    <3>1. a.steps \in Seq(Nat) /\ a.snapshot \in Nat
      BY DEF ArtifactTyped
    <3>2. Len(a.steps) = n - m
      BY <2>2, AfterGrows
    <3> QED BY <3>1, <3>2
  <2>4. PICK q \in m..n : u.queue[k].steps = After(m, q) /\ q >= m + (i - 1)
    BY <1>4 DEF Advanced
  <2>5. ~Contains(After(m, q), After(m, n)[i])
    BY <1>4, <2>2, <2>4
  <2>6. /\ a.snapshot < step
        /\ u.queue[k].steps # <<>> => Last(u.queue[k].steps) < step
    <3>1. input.rows[m].step < After(m, n)[i] /\ (After(m, q) # <<>> => Last(After(m, q)) < After(m, n)[i])
      BY <2>2, <2>4, <2>5, RowIsNext
    <3> QED BY <2>2, <2>4, <3>1
  <2>7. ~CorroborateRefused(u.queue, k, step)
    <3>1. k.cutoff = a.snapshot /\ k \in DOMAIN u.queue /\ u.queue[k].state = "pending"
      BY <1>1, <1>2, <1>4
    <3>2. ~(step < k.cutoff + 1)
      <4> HIDE DEF step, k
      <4> QED BY <1>1, <2>3, <2>6
    <3>3. u.queue[k].steps # <<>> => ~(step <= Last(u.queue[k].steps))
      <4> SUFFICES ASSUME u.queue[k].steps # <<>> PROVE ~(step <= Last(u.queue[k].steps))
        OBVIOUS
      <4>1. u.queue[k].steps \in Seq(Nat)
        BY <2>2, <2>4, AfterGrows
      <4>2. Last(u.queue[k].steps) \in Nat
        BY <2>3, <4>1, NatSequences
      <4> HIDE DEF step, k
      <4> QED BY <2>3, <2>6, <4>2
    <3> HIDE DEF step, k
    <3> QED BY <3>1, <3>2, <3>3 DEF CorroborateRefused
  <2>8. /\ e.type = "corroboration" /\ e.cutoff = a.snapshot /\ e.name = name
        /\ e.step = step /\ e.through = a.through /\ e.station = a.stations[i]
        /\ e.ratio = a.ratios[name][i]
    BY <1>1 DEF UseEvent
  <2>9. e \in LedgerEvents
    <3>1. qq[k].state \in Verdicts
      <4>1. qq[k].state = VerdictOf(Append(u.queue[k].steps, a.steps[i]), u.queue[k].sum + a.ratios[k.name][i])
        BY <1>2 DEF Corroborate
      <4> QED BY <4>1, VerdictTyped
    <3>2. a.stations[i] \in Nat /\ a.through \in Nat /\ name \in Names /\ a.ratios[name][i] \in Int
      <4>1. a.stations \in Seq(Nat) /\ i \in 1..Len(a.stations)
        BY <2>3 DEF ArtifactTyped
      <4>2. a.stations[i] \in Nat
        BY <4>1
      <4> QED BY <1>1, <2>3, <4>2 DEF ArtifactTyped
    <3> HIDE DEF qq, step
    <3>3. e.state = qq[k].state
      BY DEF UseEvent
    <3> QED BY <1>1, <2>3, <3>1, <3>2 DEF UseEvents, UseEvent, LedgerEvents, step
  <2>10. /\ v.queue = qq /\ v.ledger = Append(u.ledger, e)
         /\ v.refused = (u.refused \/ CorroborateRefused(u.queue, k, step) \/ LedgerRefuses(u.ledger, e))
    BY DEF Used
  <2>11. v \in Uses(D)
    BY <1>1, <1>2, <2>3, UsedTyped
  <2>12. \A other \in D : other # k => qq[other] = u.queue[other]
    BY <1>2 DEF Corroborate
  <2>13. qq[k].steps = Append(u.queue[k].steps, step) /\ DOMAIN qq = D
    BY <1>2 DEF Corroborate
  <2> HIDE DEF v, qq, e, step
  <2>14. ~LedgerRefuses(u.ledger, e)
    <3>1. \E r \in Events(u.ledger, "directive_receipt", e.cutoff) : r.status = "applied"
      <4>1. <<a.snapshot, "applied">> \in ReceiptsOf(u.ledger)
        BY DEF Sound, Eligible
      <4>2. PICK r \in ToSet(u.ledger) : r.type = "directive_receipt" /\ r.cutoff = a.snapshot /\ r.status = "applied"
        BY <4>1 DEF ReceiptsOf
      <4>3. r \in Events(u.ledger, "directive_receipt", e.cutoff)
        BY <1>2, <2>8, <4>2, EventsAre
      <4> QED BY <4>2, <4>3
    <3>2. \E d \in Events(u.ledger, "directive_issued", e.cutoff) : e.name \in d.proposals
      <4>1. PICK p : <<a.snapshot, p>> \in DirectivesOf(u.ledger) /\ name \in p
        BY DEF Sound, Eligible
      <4>2. PICK d \in ToSet(u.ledger) : d.type = "directive_issued" /\ d.cutoff = a.snapshot /\ d.proposals = p
        BY <4>1 DEF DirectivesOf
      <4>3. d \in Events(u.ledger, "directive_issued", e.cutoff)
        BY <1>2, <2>8, <4>2, EventsAre
      <4> QED BY <2>8, <4>1, <4>2, <4>3
    <3>3. ~(e.step <= e.cutoff)
      BY <2>3, <2>6, <2>8
    <3>4. ASSUME NEW w \in Events(u.ledger, "corroboration", e.cutoff), w.name = e.name, w.step = e.step
          PROVE  FALSE
      <4>1. w \in ToSet(u.ledger) /\ w.type = "corroboration" /\ w.cutoff = e.cutoff
        BY <1>2, EventsAre
      <4>2. [cutoff |-> w.cutoff, name |-> w.name] = k
        BY <2>8, <3>4, <4>1 DEF KeyOf
      <4>3. Contains(u.queue[k].steps, w.step)
        BY <4>1, <4>2 DEF Sound, UsesHad
      <4> QED BY <1>4, <2>8, <3>4, <4>3
    <3> QED BY <2>8, <3>1, <3>2, <3>3, <3>4 DEF LedgerRefuses
  <2>15. ~v.refused
    BY <2>7, <2>10, <2>14 DEF Sound
  <2>16. LedgerSummaryAccepted(v.ledger)
    BY <1>2, <2>9, <2>10, <2>14, SummaryAppend DEF Sound
  <2>17. /\ ToSet(v.ledger) = ToSet(u.ledger) \union {e}
         /\ DirectivesOf(v.ledger) = DirectivesOf(u.ledger)
         /\ RegisteredOf(v.ledger) = RegisteredOf(u.ledger)
         /\ ReceiptsOf(v.ledger) = ReceiptsOf(u.ledger)
    BY <1>2, <2>8, <2>9, <2>10, EventsAppend, ReceiptsAppend
  <2>18. Backs(a, e)
    BY <2>3, <2>8 DEF Backs, step
  <2>19. UsesHad(v.queue, v.ledger)
    <3> SUFFICES ASSUME NEW w \in ToSet(v.ledger), w.type = "corroboration"
                 PROVE  LET kk == [cutoff |-> w.cutoff, name |-> w.name]
                        IN  kk \in D /\ Contains(qq[kk].steps, w.step)
      BY <2>10, <2>13 DEF UsesHad
    <3> DEFINE kk == [cutoff |-> w.cutoff, name |-> w.name]
    <3>0. u.queue[k].steps \in Seq(Nat)
      BY <2>2, <2>4, AfterGrows
    <3>1. ASSUME w = e PROVE kk \in D /\ Contains(qq[kk].steps, w.step)
      <4>1. kk = k
        BY <2>8, <3>1 DEF KeyOf
      <4>2. Contains(Append(u.queue[k].steps, step), step)
        BY <2>3, <3>0, NatSequences
      <4> HIDE DEF kk, k
      <4> QED BY <1>1, <2>8, <2>13, <3>1, <4>1, <4>2
    <3>2. ASSUME w # e PROVE kk \in D /\ Contains(qq[kk].steps, w.step)
      <4>1. w \in ToSet(u.ledger)
        BY <2>17, <3>2
      <4>2. kk \in D /\ Contains(u.queue[kk].steps, w.step)
        BY <1>2, <4>1 DEF Sound, UsesHad
      <4> HIDE DEF kk, k
      <4>3. CASE kk = k
        <5>1. Contains(Append(u.queue[k].steps, step), w.step)
          BY <2>3, <3>0, <4>2, <4>3, NatSequences
        <5> QED BY <2>13, <4>2, <4>3, <5>1
      <4>4. CASE kk # k
        BY <2>12, <4>2, <4>4
      <4> QED BY <4>3, <4>4
    <3>3. kk \in D /\ Contains(qq[kk].steps, w.step)
      BY <3>1, <3>2
    <3> QED BY <3>3
  <2>20. \A w \in ToSet(v.ledger) : w.type = "corroboration" => w \in ToSet(book) \/ Backs(a, w)
    BY <2>17, <2>18 DEF Sound
  <2>21. Sound(D, a, book, v)
    BY <2>11, <2>15, <2>16, <2>17, <2>19, <2>20 DEF Sound
  <2> QED BY <2>1, <2>21
<1> QED BY <1>3, <1>4

\* Nor is any row of one candidate.
LEMMA CandidateSound ==
  ASSUME input \in Inputs, Accepted(input), NEW D, NEW a, ArtifactTyped(a), NEW book,
         NEW m \in Nat, NEW n \in m..Len(input.rows), Eligible(D, a, book, m, n),
         NEW name \in Proposed(D, a),
         NEW use, Sound(D, a, book, use), Advanced(use, KeyOf(a, name), m, n, 0)
  PROVE  Sound(D, a, book, ConsumeCandidate(use, KeyOf(a, name), a))
<1> DEFINE k == KeyOf(a, name)
           d == n - m
<1>1. name \in DOMAIN a.ratios /\ KeyOf(a, name) \in D /\ use \in Uses(D) /\ a.steps = After(m, n)
  BY DEF Proposed, Sound, Eligible
<1>2. PICK f : RowsBy(D, use, k, a, f)
  BY <1>1, RowsFold, Zenon
<1>3. d \in Nat /\ Len(a.steps) = d
  BY <1>1, AfterGrows, InputTyped
<1> DEFINE G == {i \in 0..d : Advanced(f[i], k, m, n, i) /\ Sound(D, a, book, f[i])}
<1>4. 0 \in G
  BY <1>2, <1>3 DEF RowsBy
<1>5. ASSUME NEW i \in 1..d, i - 1 \in G PROVE i \in G
  <2>1. f[i - 1] \in Uses(D) /\ f[i] = Row(f[i - 1], k, a, i) /\ i \in 0..d
    BY <1>2, <1>3 DEF RowsBy
  <2>2. Advanced(f[i - 1], k, m, n, i - 1) /\ Sound(D, a, book, f[i - 1])
    BY <1>5
  <2>3. Advanced(Row(f[i - 1], k, a, i), k, m, n, i)
    BY <1>1, <2>1, <2>2, RowAdvances
  <2>4. Sound(D, a, book, Row(f[i - 1], k, a, i))
    <3> HIDE DEF G
    <3> QED BY <2>2, RowSound
  <2> QED BY <2>1, <2>3, <2>4
<1>6. Climbs(d, G)
  <2> HIDE DEF G
  <2> QED BY <1>4, <1>5 DEF Climbs
<1>7. d \in G
  <2> HIDE DEF G, d
  <2>1. \A i \in 0..d : i \in G
    BY <1>3, <1>6, Climb, Zenon
  <2> QED BY <1>3, <2>1
<1>8. ConsumeCandidate(use, k, a) = f[d]
  BY <1>2, <1>3 DEF RowsBy
<1> QED BY <1>7, <1>8

\* Nothing is refused while an artifact is consumed.
LEMMA ConsumeSound ==
  ASSUME input \in Inputs, Accepted(input), NEW D, NEW a, ArtifactTyped(a), NEW book,
         NEW m \in Nat, NEW n \in m..Len(input.rows), Eligible(D, a, book, m, n),
         NEW use, Sound(D, a, book, use),
         \A name \in Proposed(D, a) : Advanced(use, KeyOf(a, name), m, n, 0)
  PROVE  Sound(D, a, book, Consume(use, a))
<1> DEFINE names == SetToSeq(Proposed(D, a))
           l == Len(names)
<1>0. use \in Uses(D)
  BY DEF Sound
<1>1. PICK f : CandidatesBy(D, use, a, f)
  BY <1>0, CandidatesFold, Zenon
<1>2. l \in Nat /\ names \in Seq(Proposed(D, a)) /\ \A i, j \in 1..l : names[i] = names[j] => i = j
  BY NamesOf
<1>4. /\ f \in [0..l -> Uses(D)] /\ f[0] = use
      /\ \A i \in 1..l : f[i] = ConsumeCandidate(f[i - 1], KeyOf(a, names[i]), a)
      /\ Consume(use, a) = f[l]
  BY <1>1 DEF CandidatesBy
<1> HIDE DEF names
<1> DEFINE Ready(i) == \A p \in 1..l : i < p => Advanced(f[i], KeyOf(a, names[p]), m, n, 0)
           G == {i \in 0..l : Sound(D, a, book, f[i]) /\ Ready(i)}
<1>5. 0 \in G
  <2>1. \A p \in 1..l : names[p] \in Proposed(D, a)
    BY <1>2
  <2> QED BY <1>2, <1>4, <2>1
<1>6. ASSUME NEW i \in 1..l, i - 1 \in G PROVE i \in G
  <2>0. i \in 0..l /\ i - 1 \in 0..l /\ names[i] \in Proposed(D, a)
    BY <1>2
  <2>1. Sound(D, a, book, f[i - 1]) /\ Ready(i - 1)
    BY <1>6
  <2>2. f[i] = ConsumeCandidate(f[i - 1], KeyOf(a, names[i]), a) /\ f[i - 1] \in Uses(D)
    BY <1>4, <2>0
  <2>3. Advanced(f[i - 1], KeyOf(a, names[i]), m, n, 0)
    BY <2>0, <2>1
  <2>4. Sound(D, a, book, f[i])
    BY <2>0, <2>1, <2>2, <2>3, CandidateSound
  <2>5. ASSUME NEW p \in 1..l, i < p PROVE Advanced(f[i], KeyOf(a, names[p]), m, n, 0)
    <3>1. names[p] # names[i] /\ names[p] \in Proposed(D, a)
      BY <1>2, <2>5
    <3>2. KeyOf(a, names[p]) # KeyOf(a, names[i]) /\ KeyOf(a, names[p]) \in D
      BY <3>1 DEF KeyOf, Proposed
    <3>3. f[i].queue[KeyOf(a, names[p])] = f[i - 1].queue[KeyOf(a, names[p])]
      BY <2>0, <2>2, <3>2, CandidateElsewhere
    <3>4. Advanced(f[i - 1], KeyOf(a, names[p]), m, n, 0)
      <4>1. i - 1 < p
        BY <2>5
      <4> QED BY <2>1, <4>1
    <3> QED BY <3>3, <3>4 DEF Advanced
  <2> QED BY <2>0, <2>4, <2>5
<1>7. Climbs(l, G)
  <2> HIDE DEF G
  <2> QED BY <1>5, <1>6 DEF Climbs
<1>8. l \in G
  <2> HIDE DEF G, l
  <2>1. \A i \in 0..l : i \in G
    BY <1>2, <1>7, Climb, Zenon
  <2> QED BY <1>2, <2>1
<1> QED BY <1>4, <1>8

\* Every use in the ledger was had by the queue and is a row of its artifact.
Grounded ==
  /\ UsesHad(queue, ledger)
  /\ \A e \in ToSet(ledger) : e.type = "corroboration" => \E i \in DOMAIN scores : Backs(scores[i], e)

\* No use is had at first.
LEMMA GroundedFresh == FreshMemory => Grounded
BY DEF FreshMemory, Grounded, UsesHad, ToSet

\* A score is consumed for candidates that wait for its first row.
LEMMA ScoreAdvances ==
  ASSUME Control, Lineage, Books, Scoring, Evidence, pc = "score",
         NEW c \in ScoreableSnapshots, NEW a, ArtifactTyped(a), a.snapshot = c,
         NEW e \in 1..Len(input.schedule), c = input.schedule[e].step,
         NEW name \in Proposed(DOMAIN queue, a)
  PROVE  Advanced(NoUse, KeyOf(a, name), EndAt(e), HereCount, 0)
<1> DEFINE k == KeyOf(a, name)
<1>1. k \in DOMAIN queue /\ k.cutoff = c
  BY DEF Proposed, KeyOf
<1> HIDE DEF k
<1>2. PICK j \in Answered : j \in 1..Len(input.schedule) /\ Judged(k, j) /\ EndAt(j) \in 1..HereCount
  BY <1>1, Placed DEF Active
<1>3. input.schedule[j].step = input.schedule[e].step
  BY <1>1, <1>2 DEF Judged
<1>4. EndAt(j) = EndAt(e)
  BY <1>3 DEF EndAt
<1>5. Reach = HereCount
  BY DEF Reach
<1>6. PICK q \in EndAt(e)..HereCount : queue[k].steps = After(EndAt(e), q)
  BY <1>2, <1>4, <1>5 DEF Judged
<1>7. HereCount \in Int /\ EndAt(e) \in Int
  <2>1. input \in Inputs /\ Accepted(input) /\ turn \in 1..Len(input.schedule)
    BY DEF Control, Active
  <2> QED BY <2>1, <1>2, <1>4, PrefixIs
<1>8. q >= EndAt(e) + 0
  BY <1>6, <1>7
<1> QED BY <1>6, <1>8 DEF Advanced, NoUse, k

\* So a score is never refused by the books.
LEMMA BookedScore ==
  ASSUME Control, Lineage, Books, Scoring, Evidence, Telling, Booked, Grounded, Score
  PROVE  Booked' /\ Grounded' /\ pc' # "self_refused"
<1>0. pc = "score" /\ input \in Inputs /\ Accepted(input) /\ turn \in 1..Len(input.schedule)
      /\ UNCHANGED <<input, turn, snapshots, directives, receipts>>
      /\ NoUse \in Uses(DOMAIN queue)
  BY ScoreIs
<1>1. PICK c, a : ScoreMakes(c, a)
  BY ScoreIs, Zenon
<1>2. c \in ScoreableSnapshots
  BY <1>1 DEF ScoreMakes, Unscored
<1>3. /\ ArtifactTyped(a) /\ a.snapshot = c /\ a.through = Here.step
      /\ \E j \in 1..turn :
           /\ j < turn /\ j \in 1..Len(input.schedule) /\ c = input.schedule[j].step
           /\ EndAt(j) \in 1..HereCount
           /\ a.steps = After(EndAt(j), HereCount) /\ Len(a.steps) = HereCount - EndAt(j)
  BY <1>0, <1>1, <1>2, ArtifactIs DEF ScoreMakes
<1>4. PICK e \in 1..Len(input.schedule) :
        c = input.schedule[e].step /\ a.steps = After(EndAt(e), HereCount) /\ EndAt(e) \in 1..HereCount
  BY <1>3
<1> DEFINE D == DOMAIN queue
           m == EndAt(e)
           n == HereCount
           after == Consume(NoUse, a)
<1>5. m \in Nat /\ n \in 1..Len(input.rows) /\ n \in m..Len(input.rows) /\ input.rows[m].step = c
  <2>1. n \in 1..Len(input.rows) /\ Len(input.rows) \in Nat
    BY <1>0, PrefixIs, InputTyped
  <2>2. input.rows[m].step = c
    BY <1>0, <1>4, EndAtRow
  <2> QED BY <1>4, <2>1, <2>2
<1>6. scores' = Append(scores, a) /\ queue' = after.queue /\ ledger' = after.ledger
      /\ pc' = IF after.refused THEN "self_refused"
               ELSE IF Unscored(scores) = {c} THEN AfterScore(trigger)
               ELSE "score"
  BY <1>1 DEF ScoreMakes
<1>7. \A name \in Proposed(D, a) : Advanced(NoUse, KeyOf(a, name), m, n, 0)
  BY <1>0, <1>2, <1>3, <1>4, ScoreAdvances
<1>8. Eligible(D, a, ledger, m, n)
  <2>1. <<c, "applied">> \in ReceiptsOf(ledger)
    <3>1. c \in DOMAIN receipts /\ receipts[c].status = "applied"
      BY <1>2 DEF ScoreableSnapshots, ScoreableNow, Scoreable
    <3> QED BY <3>1 DEF Telling
  <2>2. ASSUME NEW name \in Proposed(D, a)
        PROVE  \E p : <<c, p>> \in DirectivesOf(ledger) /\ name \in p
    <3>1. KeyOf(a, name) \in DOMAIN queue
      BY DEF Proposed
    <3>2. PICK i \in DOMAIN directives : KeyOf(a, name) \in Keys(directives[i])
      BY <3>1 DEF Booked
    <3>3. directives[i].cutoff = c /\ name \in directives[i].proposals
      BY <1>3, <3>2 DEF Keys, KeyOf
    <3>4. <<directives[i].cutoff, directives[i].proposals>> \in DirectivesOf(ledger)
      BY DEF Booked
    <3> QED BY <3>3, <3>4
  <2> HIDE DEF D, m, n
  <2> QED BY <1>3, <1>4, <1>5, <2>1, <2>2 DEF Eligible, m, n
<1>9. NoUse.queue = queue /\ NoUse.ledger = ledger /\ NoUse.refused = FALSE
  BY DEF NoUse
<1>10. Sound(D, a, ledger, NoUse)
  BY <1>0, <1>9 DEF Sound, Booked, Grounded
<1>11. Sound(D, a, ledger, after)
  <2> HIDE DEF D, m, n
  <2> QED BY <1>0, <1>3, <1>5, <1>7, <1>8, <1>10, ConsumeSound
<1> HIDE DEF after
<1>12. pc' # "self_refused"
  BY <1>6, <1>11 DEF Sound, AfterScore, AfterFit
<1>13. DOMAIN queue' = D
  BY <1>6, <1>11 DEF Sound, Uses
<1>14. Booked'
  BY <1>0, <1>6, <1>11, <1>13 DEF Booked, Sound
<1>15. Grounded'
  <2> DEFINE l == Len(scores)
  <2>1. /\ l \in Nat /\ DOMAIN scores = 1..l /\ DOMAIN scores' = 1..(l + 1)
        /\ scores'[l + 1] = a /\ \A i \in 1..l : scores'[i] = scores[i]
    <3>1. Listed(scores)
      BY DEF Scoring
    <3>2. Listed(Append(scores, a)) /\ Len(Append(scores, a)) = l + 1
      BY <3>1, Appended
    <3>3. DOMAIN Append(scores, a) = 1..(l + 1)
      BY <3>2 DEF Listed
    <3> QED BY <1>6, <3>1, <3>3, Appended
  <2>2. ASSUME NEW w \in ToSet(ledger'), w.type = "corroboration"
        PROVE  \E i \in DOMAIN scores' : Backs(scores'[i], w)
    <3>1. w \in ToSet(ledger) \/ Backs(a, w)
      BY <1>6, <1>11, <2>2 DEF Sound
    <3>2. CASE w \in ToSet(ledger)
      <4>1. PICK i \in DOMAIN scores : Backs(scores[i], w)
        BY <2>2, <3>2 DEF Grounded
      <4>2. i \in DOMAIN scores' /\ scores'[i] = scores[i]
        BY <2>1
      <4> QED BY <4>1, <4>2
    <3>3. CASE Backs(a, w)
      <4>1. l + 1 \in DOMAIN scores'
        BY <2>1
      <4> QED BY <2>1, <3>3, <4>1
    <3> QED BY <3>1, <3>2, <3>3
  <2>3. UsesHad(queue', ledger')
    BY <1>6, <1>11 DEF Sound
  <2> QED BY <2>2, <2>3 DEF Grounded
<1> QED BY <1>12, <1>14, <1>15

\* Receipts leave the uses,
LEMMA GroundedIngest ==
  ASSUME Control, Lineage, Books, Grounded, NEW emitted \in Emissions, IngestReceipts(emitted),
         UNCHANGED <<queue, scores>>
  PROVE  Grounded'
<1> DEFINE events == ReceiptEvents(emitted)
           n == Len(ledger)
           m == Len(events)
<1>1. ledger' = ledger \o events /\ events \in Seq(ReceiptEventsSet) /\ ledger \in Seq(LedgerEvents)
  BY NewEventsTyped DEF IngestReceipts, Books
<1> HIDE DEF events
<1>2. /\ n \in Nat /\ m \in Nat /\ DOMAIN ledger = 1..n /\ DOMAIN ledger' = 1..(n + m)
      /\ \A i \in 1..n : ledger'[i] = ledger[i]
      /\ \A i \in 1..m : ledger'[n + i] = events[i]
  BY <1>1
<1>3. ASSUME NEW e \in ToSet(ledger'), e.type = "corroboration" PROVE e \in ToSet(ledger)
  <2>1. PICK i \in 1..(n + m) : ledger'[i] = e
    BY <1>2 DEF ToSet
  <2>2. i \in 1..n
    <3> SUFFICES ASSUME i \notin 1..n PROVE FALSE
      OBVIOUS
    <3>1. i - n \in 1..m /\ n + (i - n) = i
      BY <1>2
    <3>2. e = events[i - n]
      BY <1>2, <2>1, <3>1
    <3>3. events[i - n] \in ReceiptEventsSet
      BY <1>1, <3>1
    <3> QED BY <1>3, <3>2, <3>3 DEF ReceiptEventsSet
  <2> QED BY <1>2, <2>1, <2>2 DEF ToSet
<1> QED BY <1>3 DEF Grounded, UsesHad

\* and so does a fit.
LEMMA GroundedFit ==
  ASSUME Control, Lineage, Books, Grounded, Fit
  PROVE  Grounded'
<1>1. PICK fit \in FitOutputs, found \in SUBSET Names :
        \E proposals \in SUBSET found : FitMakes(fit, found, proposals)
  BY FitIs, Zenon
<1>2. PICK proposals \in SUBSET found : FitMakes(fit, found, proposals)
  BY <1>1, Zenon
<1> DEFINE s == BuiltSnapshot(Prefix, fit, found, Previous)
           d == BuiltDirective(s, proposals)
           es == SnapshotEvent(s)
           ed == DirectiveEvent(d)
           entered == Append(ledger, es)
<1>3. /\ pc = "fit" /\ Prefix.cutoff = Here.step /\ Here.step \in Nat /\ Prefix.covered \in Seq(Nat)
      /\ scores' = scores
  BY FitIs
<1>4. s.cutoff = Here.step /\ s.covered \in Seq(Nat)
      /\ d.cutoff = Here.step /\ d.proposals = proposals /\ proposals \subseteq Names
  BY <1>3 DEF BuiltSnapshot, BuiltDirective
<1>5. /\ queue' = IF proposals # {} THEN Register(queue, d) ELSE queue
      /\ ledger' = IF proposals # {} THEN Append(entered, ed) ELSE entered
  BY <1>2 DEF FitMakes
<1> HIDE DEF s, d
<1>6. es \in LedgerEvents /\ es.type = "snapshot_registered"
  BY <1>3, <1>4 DEF SnapshotEvent, LedgerEvents, SnapshotEvents
<1>7. ed \in LedgerEvents /\ ed.type = "directive_issued"
  BY <1>3, <1>4 DEF DirectiveEvent, LedgerEvents, DirectiveEvents
<1> HIDE DEF es, ed
<1>8. ledger \in Seq(LedgerEvents) /\ entered \in Seq(LedgerEvents)
  BY <1>6 DEF Books
<1>9. ToSet(entered) = ToSet(ledger) \union {es}
  BY <1>6, <1>8, EventsAppend
<1> HIDE DEF entered
<1>10. ToSet(ledger') \subseteq ToSet(ledger) \union {es, ed}
  <2>1. CASE proposals # {}
    <3>1. ToSet(Append(entered, ed)) = ToSet(entered) \union {ed}
      BY <1>7, <1>8, EventsAppend
    <3> QED BY <1>5, <1>9, <2>1, <3>1
  <2>2. CASE proposals = {}
    BY <1>5, <1>9, <2>2
  <2> QED BY <2>1, <2>2
<1>11. ASSUME NEW e \in ToSet(ledger'), e.type = "corroboration" PROVE e \in ToSet(ledger)
  BY <1>6, <1>7, <1>10, <1>11
<1>12. ASSUME NEW k \in DOMAIN queue PROVE k \in DOMAIN queue' /\ queue'[k] = queue[k]
  <2>1. PICK i \in DOMAIN directives : directives[i].cutoff = k.cutoff
    BY DEF Books, Issued
  <2>2. k.cutoff # Here.step
    BY <1>3, <2>1, FitIsLater
  <2>3. k \notin Keys(d)
    BY <1>4, <2>2 DEF Keys
  <2> QED BY <1>5, <2>3 DEF Register
<1>13. UsesHad(queue', ledger')
  <2> SUFFICES ASSUME NEW e \in ToSet(ledger'), e.type = "corroboration"
               PROVE  LET k == [cutoff |-> e.cutoff, name |-> e.name]
                      IN  k \in DOMAIN queue' /\ Contains(queue'[k].steps, e.step)
    BY DEF UsesHad
  <2> DEFINE k == [cutoff |-> e.cutoff, name |-> e.name]
  <2>1. k \in DOMAIN queue /\ Contains(queue[k].steps, e.step)
    BY <1>11 DEF Grounded, UsesHad
  <2>2. k \in DOMAIN queue' /\ Contains(queue'[k].steps, e.step)
    BY <1>12, <2>1
  <2> QED BY <2>2
<1>14. \A e \in ToSet(ledger') : e.type = "corroboration" => \E i \in DOMAIN scores' : Backs(scores'[i], e)
  BY <1>3, <1>11 DEF Grounded
<1> QED BY <1>13, <1>14 DEF Grounded

\* The checks at a station pass.
LEMMA ReplayPasses ==
  ASSUME Control, Lineage, Books, Telling, Booked, Grounded, Listening, ReplayStation
  PROVE  Booked' /\ Grounded' /\ pc' # "self_refused"
<1>1. PICK deviances \in [1..(HereCount - DoneCount) -> Deviances] : \E emitted \in Emissions :
        LET signals == Signals(deviances)
            stage == AfterPF(trigger', Scoreable(queue, receipts'))
        IN  /\ IngestReceipts(emitted)
            /\ sched' = HeardAll(signals)
            /\ trigger' = (sched'.core.cutoffs # sched.core.cutoffs)
            /\ pc' = IF /\ IngestChecks(emitted)
                        /\ SignalsInOrder(signals)
                        /\ sched'.core.cutoffs \ sched.core.cutoffs \subseteq {Here.step}
                        /\ stage # "next" => /\ PrefixAllowed(Marked, HereCount)
                                             /\ PrefixBound(Prefix, input.schedule)
                       THEN stage
                       ELSE "self_refused"
  BY Zenon DEF ReplayStation
<1>2. PICK emitted \in Emissions :
        LET signals == Signals(deviances)
            stage == AfterPF(trigger', Scoreable(queue, receipts'))
        IN  /\ IngestReceipts(emitted)
            /\ sched' = HeardAll(signals)
            /\ trigger' = (sched'.core.cutoffs # sched.core.cutoffs)
            /\ pc' = IF /\ IngestChecks(emitted)
                        /\ SignalsInOrder(signals)
                        /\ sched'.core.cutoffs \ sched.core.cutoffs \subseteq {Here.step}
                        /\ stage # "next" => /\ PrefixAllowed(Marked, HereCount)
                                             /\ PrefixBound(Prefix, input.schedule)
                       THEN stage
                       ELSE "self_refused"
  BY <1>1, Zenon
<1>3. /\ pc = "pf" /\ UNCHANGED <<snapshots, directives, queue, scores>>
      /\ input \in Inputs /\ Accepted(input) /\ turn \in 1..Len(input.schedule)
  BY DEF ReplayStation, Control, Active
<1>4. Booked'
  BY <1>2, <1>3, BookedIngest
<1>5. Grounded'
  BY <1>2, <1>3, GroundedIngest
<1>6. IngestChecks(emitted)
  BY <1>2, IngestAccepted DEF IngestReceipts
<1>7. /\ SignalsInOrder(Signals(deviances))
      /\ HeardAll(Signals(deviances)).core.cutoffs \subseteq sched.core.cutoffs \union {Here.step}
  BY <1>3, StationHeard
<1>8. sched'.core.cutoffs \ sched.core.cutoffs \subseteq {Here.step}
  BY <1>2, <1>7
<1>9. PrefixAllowed(Marked, HereCount) /\ PrefixBound(Prefix, input.schedule)
  BY <1>3, PrefixChecks
<1>10. pc' = AfterPF(trigger', Scoreable(queue, receipts'))
  BY <1>2, <1>6, <1>7, <1>8, <1>9
<1>11. pc' # "self_refused"
  BY <1>10 DEF AfterPF, AfterScore, AfterFit
<1> QED BY <1>4, <1>5, <1>11

\* The checks of the last receipts pass.
LEMMA FinalPasses ==
  ASSUME Control, Lineage, Books, Telling, Booked, Grounded, FinalPF
  PROVE  Booked' /\ Grounded' /\ pc' = "final_fits"
<1>1. PICK emitted \in Emissions :
        /\ IngestReceipts(emitted)
        /\ pc' = IF IngestChecks(emitted) THEN "final_fits" ELSE "self_refused"
  BY DEF FinalPF
<1>2. UNCHANGED <<snapshots, directives, queue, scores>>
  BY DEF FinalPF
<1>3. IngestChecks(emitted)
  BY <1>1, IngestAccepted DEF IngestReceipts
<1> QED BY <1>1, <1>2, <1>3, BookedIngest, GroundedIngest

\* The books, and what the controller has of them besides.
Kit ==
  /\ Control /\ Lineage /\ Books /\ Scoring /\ Evidence
  /\ Telling /\ PlansTold /\ Listening /\ Booked /\ Grounded

\* Every step keeps all of it.
LEMMA KitNext == Kit /\ [Next]_vars => Kit'
<1> SUFFICES ASSUME Kit, [Next]_vars PROVE Kit'
  OBVIOUS
<1> USE DEF Kit
<1>1. /\ Control' /\ Lineage' /\ Books' /\ Scoring' /\ Evidence' /\ Telling' /\ PlansTold' /\ Listening'
  BY ControlNext, LineageNext, ScoringNext, EvidenceNext, TellingNext, ListeningNext
<1>2. ASSUME FreshMemory' PROVE Booked' /\ Grounded'
  BY <1>2, BookedFresh, GroundedFresh, PTL
<1>3. ASSUME UNCHANGED <<snapshots, directives, queue, ledger, scores>> PROVE Booked' /\ Grounded'
  BY <1>3 DEF Booked, Grounded
<1>10. Booked' /\ Grounded'
  <2>4. CASE StartRefused \/ Start \/ Plan \/ NextStation \/ FinalFits \/ Publish \/ UNCHANGED vars
    BY <1>3, <2>4 DEF StartRefused, Start, Plan, NextStation, FinalFits, Publish, vars, memory, collected
  <2>5. CASE ReplayStation
    BY <2>5, ReplayPasses
  <2>6. CASE Score
    BY <2>6, BookedScore
  <2>7. CASE Fit
    BY <2>7, BookedFit, GroundedFit
  <2>8. CASE FinalPF
    BY <2>8, FinalPasses
  <2>9. CASE Discard \/ Kill \/ Rerun
    <3>1. FreshMemory'
      BY <2>9 DEF Discard, Kill, Rerun, Forget, FreshMemory
    <3> QED BY <1>2, <3>1
  <2> QED BY <2>4, <2>5, <2>6, <2>7, <2>8, <2>9 DEF Next
<1> QED BY <1>1, <1>10

\* It holds throughout a run.
LEMMA KitInvariance == Spec => []Kit
<1>1. Init => Listening /\ Booked /\ Grounded
  BY BookedFresh, GroundedFresh DEF Init, Listening, Active
<1> QED BY <1>1, KitNext, ListeningNext, TellingInvariance, BooksInvariance, EvidenceInvariance, PTL DEF Spec, Kit

-----------------------------------------------------------------------------
(* Sums *)

\* What the recursion of a sum says of its values.
SumSolves(f, iter) ==
  iter = [s \in SUBSET DOMAIN f |->
            IF s = {} THEN 0
            ELSE LET x == CHOOSE y \in s : TRUE IN f[x] + iter[s \ {x}]]

\* What solves the equation of the sum is the sum.
LEMMA SumIs ==
  ASSUME NEW f, IsFiniteSet(DOMAIN f), NEW g, SumSolves(f, g)
  PROVE  SumFunction(f) = g[DOMAIN f]
<1> DEFINE D == DOMAIN f
           it == CHOOSE iter : SumSolves(f, iter)
           One(s) == CHOOSE y \in s : TRUE
           Bad == {s \in SUBSET D : it[s] # g[s]}
           Sizes == {Cardinality(s) : s \in Bad}
<1>1. SumFunction(f) = it[D]
  BY DEF SumFunction, SumFunctionOnSet, FoldFunctionOnSet, MapThenFoldSet, SumSolves
<1>2. SumSolves(f, it)
  <2> HIDE DEF it
  <2> QED BY DEF it
<1> HIDE DEF it
<1>3. ASSUME NEW s \in SUBSET D, s # {}
      PROVE  /\ it[s] = f[One(s)] + it[s \ {One(s)}]
             /\ g[s] = f[One(s)] + g[s \ {One(s)}]
             /\ One(s) \in s
  BY <1>2, <1>3 DEF SumSolves
<1>4. it[{}] = 0 /\ g[{}] = 0
  BY <1>2 DEF SumSolves
<1>5. Bad = {}
  <2> SUFFICES ASSUME Bad # {} PROVE FALSE
    OBVIOUS
  <2>1. Sizes \subseteq Nat /\ Sizes # {}
    BY FS_Subset, FS_CardinalityType
  <2>2. PICK n \in Sizes : \A m \in Sizes : n <= m
    <3> HIDE DEF Sizes
    <3> QED BY <2>1, Least
  <2>3. PICK s \in Bad : n = Cardinality(s)
    OBVIOUS
  <2>4. s # {} /\ s \in SUBSET D /\ IsFiniteSet(s)
    BY <1>4, FS_Subset
  <2>5. s \ {One(s)} \in Bad
    BY <1>3, <2>3, <2>4
  <2>6. Cardinality(s \ {One(s)}) = n - 1 /\ n \in Nat
    BY <1>3, <2>3, <2>4, FS_RemoveElement, FS_CardinalityType
  <2> QED BY <2>2, <2>5, <2>6
<1> QED BY <1>1, <1>5

\* Finite sets that have no element in common, of the sizes f.
Parts(f, T) ==
  /\ \A x \in DOMAIN f : IsFiniteSet(T[x]) /\ f[x] = Cardinality(T[x])
  /\ \A x, y \in DOMAIN f : x # y => T[x] \cap T[y] = {}

\* The sizes sum up to that of the union.
SumsUp(f, T) ==
  LET all == UNION {T[x] : x \in DOMAIN f}
  IN  IsFiniteSet(all) /\ SumFunction(f) = Cardinality(all)

\* The sizes of the parts add up to the size of the whole.
LEMMA SumOfSizes ==
  ASSUME NEW f, IsFiniteSet(DOMAIN f), NEW T, Parts(f, T)
  PROVE  SumsUp(f, T)
<1> DEFINE D == DOMAIN f
           All(s) == UNION {T[x] : x \in s}
           g == [s \in SUBSET D |-> Cardinality(All(s))]
           One(s) == CHOOSE y \in s : TRUE
           Bad == {s \in SUBSET D : ~IsFiniteSet(All(s))}
           Sizes == {Cardinality(s) : s \in Bad}
<1>1. ASSUME NEW s \in SUBSET D, s # {}
      PROVE  /\ One(s) \in s /\ All(s) = T[One(s)] \union All(s \ {One(s)})
             /\ T[One(s)] \cap All(s \ {One(s)}) = {}
  <2>1. One(s) \in s
    BY <1>1
  <2> HIDE DEF One
  <2>2. All(s) = T[One(s)] \union All(s \ {One(s)})
    BY <2>1
  <2>3. T[One(s)] \cap All(s \ {One(s)}) = {}
    BY <2>1 DEF Parts
  <2> QED BY <2>1, <2>2, <2>3
<1>2. \A s \in SUBSET D : IsFiniteSet(All(s))
  <2> SUFFICES ASSUME Bad # {} PROVE FALSE
    OBVIOUS
  <2>1. Sizes \subseteq Nat /\ Sizes # {}
    <3> HIDE DEF All
    <3> QED BY FS_Subset, FS_CardinalityType
  <2>2. PICK n \in Sizes : \A m \in Sizes : n <= m
    <3> HIDE DEF Sizes
    <3> QED BY <2>1, Least
  <2>3. PICK s \in Bad : n = Cardinality(s)
    OBVIOUS
  <2>4. s \in SUBSET D /\ IsFiniteSet(s) /\ ~IsFiniteSet(All(s))
    BY <2>3, FS_Subset
  <2>5. s # {}
    BY <2>4, FS_EmptySet
  <2>6. Cardinality(s \ {One(s)}) = n - 1 /\ n \in Nat /\ s \ {One(s)} \in SUBSET D
    BY <1>1, <2>3, <2>4, <2>5, FS_RemoveElement, FS_CardinalityType
  <2> HIDE DEF One
  <2>7. s \ {One(s)} \in Bad
    <3>1. IsFiniteSet(T[One(s)])
      BY <1>1, <2>4, <2>5 DEF Parts
    <3>2. ~IsFiniteSet(All(s \ {One(s)}))
      <4>1. All(s) = T[One(s)] \union All(s \ {One(s)})
        BY <1>1, <2>4, <2>5
      <4> DEFINE A == T[One(s)]
                 B == All(s \ {One(s)})
      <4> SUFFICES ASSUME IsFiniteSet(B) PROVE FALSE
        OBVIOUS
      <4>2. All(s) = A \union B /\ IsFiniteSet(A)
        BY <3>1, <4>1
      <4> HIDE DEF A, B, All
      <4>3. IsFiniteSet(A \union B)
        BY <4>2, FS_Union
      <4> QED BY <2>4, <4>2, <4>3
    <3> QED BY <2>6, <3>2
  <2>8. n - 1 \in Sizes
    BY <2>6, <2>7
  <2> HIDE DEF Sizes
  <2> QED BY <2>2, <2>6, <2>8
<1>3. SumSolves(f, g)
  <2> SUFFICES ASSUME NEW s \in SUBSET D
               PROVE  g[s] = IF s = {} THEN 0 ELSE f[One(s)] + g[s \ {One(s)}]
    BY DEF SumSolves
  <2>1. CASE s = {}
    BY <2>1, FS_EmptySet
  <2>2. CASE s # {}
    <3> DEFINE x == One(s)
               rest == s \ {x}
    <3>1. x \in D /\ rest \in SUBSET D /\ All(s) = T[x] \union All(rest) /\ T[x] \cap All(rest) = {}
      BY <1>1, <2>2
    <3> HIDE DEF x, rest
    <3>2. IsFiniteSet(T[x]) /\ IsFiniteSet(All(rest)) /\ f[x] = Cardinality(T[x])
      BY <1>2, <3>1 DEF Parts
    <3> HIDE DEF All
    <3>3. Cardinality(All(s)) = Cardinality(T[x]) + Cardinality(All(rest)) - Cardinality({})
      BY <3>1, <3>2, FS_Union
    <3>4. Cardinality(All(s)) = Cardinality(T[x]) + Cardinality(All(rest))
      BY <3>2, <3>3, FS_EmptySet, FS_CardinalityType
    <3> QED BY <2>2, <3>1, <3>2, <3>4 DEF rest, x
  <2> QED BY <2>1, <2>2
<1>4. g[D] = Cardinality(All(D))
  OBVIOUS
<1> HIDE DEF g
<1>5. SumFunction(f) = Cardinality(All(D)) /\ IsFiniteSet(All(D))
  BY <1>2, <1>3, <1>4, SumIs
<1> QED BY <1>5 DEF SumsUp

-----------------------------------------------------------------------------
(* Sorting *)

\* A strictly rising choice of all positions leaves them where they are.
LEMMA RisingSelf ==
  ASSUME NEW n \in Nat, NEW p \in [1..n -> 1..n], \A i, j \in 1..n : i < j => p[i] < p[j]
  PROVE  \A i \in 1..n : p[i] = i
<1> DEFINE Low == {i \in 1..n : p[i] < i}
           High == {m \in 0..n : m < n /\ p[n - m] > n - m}
<1>1. Low = {}
  <2> SUFFICES ASSUME Low # {} PROVE FALSE
    OBVIOUS
  <2>1. PICK i \in Low : \A y \in Low : i <= y
    <3>1. Low \subseteq Nat
      OBVIOUS
    <3> HIDE DEF Low
    <3> QED BY <3>1, Least
  <2>2. i \in 1..n /\ p[i] < i /\ p[i] \in 1..n
    OBVIOUS
  <2>3. i - 1 \in 1..n /\ p[i - 1] < p[i] /\ p[i - 1] \in 1..n
    BY <2>2, SMTT(40)
  <2>4. i - 1 \in Low
    BY <2>2, <2>3
  <2> QED BY <2>1, <2>2, <2>4
<1>2. High = {}
  <2> SUFFICES ASSUME High # {} PROVE FALSE
    OBVIOUS
  <2>1. PICK m \in High : \A y \in High : m <= y
    <3>1. High \subseteq Nat
      OBVIOUS
    <3> HIDE DEF High
    <3> QED BY <3>1, Least
  <2>2. m \in 0..n /\ m < n /\ n - m \in 1..n /\ p[n - m] > n - m /\ p[n - m] \in 1..n
    OBVIOUS
  <2>3. m > 0
    <3> DEFINE v == p[n - m]
    <3>1. m \in 0..n /\ v > n - m /\ v \in 1..n
      BY <2>2
    <3> HIDE DEF v
    <3> QED BY <3>1
  <2>4. n - (m - 1) \in 1..n /\ m - 1 \in 0..n
    BY <2>2, <2>3
  <2>5. p[n - m] < p[n - (m - 1)] /\ p[n - (m - 1)] \in 1..n
    <3> DEFINE a == n - m
               b == n - (m - 1)
    <3>1. a \in 1..n /\ b \in 1..n /\ a < b
      BY <2>2, <2>3, <2>4
    <3> HIDE DEF a, b, High, Low
    <3>2. p[a] < p[b] /\ p[b] \in 1..n
      BY <3>1
    <3> QED BY <3>2 DEF a, b
  <2>6. p[n - (m - 1)] > n - (m - 1)
    BY <2>2, <2>3, <2>5
  <2>7. m - 1 \in High
    BY <2>2, <2>4, <2>6
  <2>8. m <= m - 1
    <3> HIDE DEF High
    <3> QED BY <2>1, <2>7
  <2> QED BY <2>2, <2>8
<1>3. ASSUME NEW i \in 1..n PROVE p[i] = i
  <2>1. ~(p[i] < i) /\ p[i] \in 1..n
    BY <1>1
  <2>2. n - i \in 0..n /\ n - i < n /\ n - (n - i) = i
    OBVIOUS
  <2>3. ~(p[i] > i)
    BY <1>2, <2>2
  <2> QED BY <2>1, <2>3
<1> QED BY <1>3

\* All the positions, each once.
LEMMA PositionsAre ==
  ASSUME NEW n \in Nat
  PROVE  /\ IsFiniteSet(1..n) /\ Cardinality(1..n) = n
         /\ SetToSeqs(1..n) = {p \in [1..n -> 1..n] : \A i, j \in 1..n : i # j => p[i] # p[j]}
<1>1. IsFiniteSet(1..n) /\ Cardinality(1..n) = n
  BY FS_Interval
<1> QED BY <1>1 DEF SetToSeqs

\* A list of rising cutoffs is sorted as it is.
Rising(seq) ==
  /\ \A i \in 1..Len(seq) : seq[i].cutoff \in Nat
  /\ \A i, j \in 1..Len(seq) : i < j => seq[i].cutoff < seq[j].cutoff

\* A list of rising cutoffs is its own sorted form.
LEMMA SortedAlready ==
  ASSUME NEW seq, Listed(seq), Rising(seq)
  PROVE  ByCutoff(seq) = seq
<1> DEFINE n == Len(seq)
           InOrder(p) == \A i, j \in DOMAIN p : i < j => seq[p[i]].cutoff <= seq[p[j]].cutoff
           order == CHOOSE p \in SetToSeqs(DOMAIN seq) : InOrder(p)
           same == [i \in 1..n |-> i]
<1>1. PICK X : seq \in Seq(X)
  BY DEF Listed
<1>2. n \in Nat /\ DOMAIN seq = 1..n /\ seq = [i \in 1..n |-> seq[i]]
  BY <1>1
<1>3. ByCutoff(seq) = [i \in DOMAIN seq |-> seq[order[i]]]
  BY DEF ByCutoff
<1>4. \A i \in 1..n : seq[i].cutoff \in Nat
  BY DEF Rising
<1>5. \A i, j \in 1..n : i < j => seq[i].cutoff < seq[j].cutoff
  BY DEF Rising
<1> HIDE DEF n
<1>6. same \in SetToSeqs(1..n) /\ InOrder(same)
  <2>1. same \in SetToSeqs(1..n)
    BY <1>2, PositionsAre
  <2>2. ASSUME NEW i \in 1..n, NEW j \in 1..n, i < j
        PROVE  seq[same[i]].cutoff <= seq[same[j]].cutoff
    BY <1>4, <1>5, <2>2
  <2> QED BY <2>1, <2>2
<1>7. order \in SetToSeqs(1..n) /\ InOrder(order)
  <2> HIDE DEF same, InOrder
  <2> QED BY <1>2, <1>6
<1> HIDE DEF order
<1>8. order \in [1..n -> 1..n] /\ \A i, j \in 1..n : i # j => order[i] # order[j]
  BY <1>2, <1>7, PositionsAre
<1>9. ASSUME NEW i \in 1..n, NEW j \in 1..n, i < j
      PROVE  order[i] < order[j]
  <2>1. order[i] \in 1..n /\ order[j] \in 1..n /\ order[i] # order[j]
    BY <1>2, <1>8, <1>9
  <2>2. seq[order[i]].cutoff <= seq[order[j]].cutoff
    BY <1>7, <1>8, <1>9
  <2>3. order[j] < order[i] => seq[order[j]].cutoff < seq[order[i]].cutoff
    BY <1>5, <2>1
  <2>4. seq[order[i]].cutoff \in Nat /\ seq[order[j]].cutoff \in Nat
    BY <1>4, <2>1
  <2>5. ~(order[j] < order[i])
    BY <2>2, <2>3, <2>4
  <2> QED BY <1>2, <2>1, <2>5
<1>10. \A i \in 1..n : order[i] = i
  BY <1>2, <1>8, <1>9, RisingSelf
<1> QED BY <1>2, <1>3, <1>10

\* x comes before y, by a and then by b.
Before(a, b, x, y) == a[x] < a[y] \/ (a[x] = a[y] /\ b[x] <= b[y])

\* q lists the positions of S in that order.
Orders(q, S, a, b) ==
  /\ q \in SetToSeqs(S)
  /\ \A i, j \in 1..Cardinality(S) : i < j => Before(a, b, q[i], q[j])

\* The first of a set of positions.
LEMMA FirstOf ==
  ASSUME NEW n \in Nat, NEW a \in [1..n -> Nat], NEW b \in [1..n -> Nat],
         NEW S \in SUBSET (1..n), S # {}
  PROVE  \E x \in S : \A y \in S : Before(a, b, x, y)
<1> DEFINE As == {a[x] : x \in S}
<1>1. PICK v \in As : \A y \in As : v <= y
  <2>1. As \subseteq Nat /\ As # {}
    OBVIOUS
  <2> HIDE DEF As
  <2> QED BY <2>1, Least
<1> DEFINE Bs == {b[x] : x \in {y \in S : a[y] = v}}
<1>2. PICK w \in Bs : \A y \in Bs : w <= y
  <2>1. Bs \subseteq Nat
    OBVIOUS
  <2>2. Bs # {}
    OBVIOUS
  <2> HIDE DEF Bs
  <2> QED BY <2>1, <2>2, Least
<1>3. PICK x \in S : a[x] = v /\ b[x] = w
  BY <1>2
<1>4. ASSUME NEW y \in S PROVE Before(a, b, x, y)
  <2>1. v <= a[y] /\ a[y] \in Nat /\ v \in Nat
    BY <1>1, <1>3
  <2>2. a[y] = v => w <= b[y]
    BY <1>2
  <2> QED BY <1>3, <2>1, <2>2 DEF Before
<1> QED BY <1>4

\* Every set of positions can be listed so.
LEMMA OrderExists ==
  ASSUME NEW n \in Nat, NEW a \in [1..n -> Nat], NEW b \in [1..n -> Nat]
  PROVE  \E q : Orders(q, 1..n, a, b)
<1> DEFINE Bad == {S \in SUBSET (1..n) : ~ \E q : Orders(q, S, a, b)}
           Sizes == {Cardinality(S) : S \in Bad}
<1>1. \A S \in SUBSET (1..n) : IsFiniteSet(S) /\ Cardinality(S) \in Nat
  <2>1. IsFiniteSet(1..n)
    BY FS_Interval
  <2> SUFFICES ASSUME NEW S \in SUBSET (1..n) PROVE IsFiniteSet(S) /\ Cardinality(S) \in Nat
    OBVIOUS
  <2> QED BY <2>1, FS_Subset, FS_CardinalityType
<1>2. Bad = {}
  <2> SUFFICES ASSUME Bad # {} PROVE FALSE
    OBVIOUS
  <2>1. PICK c \in Sizes : \A d \in Sizes : c <= d
    <3>1. Sizes \subseteq Nat /\ Sizes # {}
      BY <1>1
    <3> HIDE DEF Sizes
    <3> QED BY <3>1, Least
  <2>2. PICK S \in Bad : c = Cardinality(S)
    OBVIOUS
  <2>3. S \in SUBSET (1..n) /\ IsFiniteSet(S) /\ c \in Nat /\ ~ \E q : Orders(q, S, a, b)
    BY <1>1, <2>2
  <2>4. S # {}
    <3> SUFFICES ASSUME S = {} PROVE FALSE
      OBVIOUS
    <3>1. c = 0
      BY <2>2, FS_EmptySet
    <3>2. Orders(<<>>, S, a, b)
      BY <2>2, <3>1 DEF Orders, SetToSeqs
    <3> QED BY <2>3, <3>2
  <2>5. PICK x \in S : \A y \in S : Before(a, b, x, y)
    BY <2>3, <2>4, FirstOf
  <2> DEFINE R == S \ {x}
  <2>6. R \in SUBSET (1..n) /\ Cardinality(R) = c - 1 /\ c \in Nat \ {0}
    <3>1. R \in SUBSET (1..n)
      BY <2>3
    <3>2. Cardinality(R) = c - 1
      BY <2>2, <2>3, <2>5, FS_RemoveElement
    <3>3. c # 0
      BY <2>2, <2>3, <2>4, FS_EmptySet
    <3> QED BY <2>3, <3>1, <3>2, <3>3
  <2>7. PICK q : Orders(q, R, a, b)
    <3>1. R \notin Bad
      <4> SUFFICES ASSUME R \in Bad PROVE FALSE
        OBVIOUS
      <4>1. c - 1 \in Sizes
        BY <2>6
      <4> HIDE DEF Sizes
      <4> QED BY <2>1, <2>3, <4>1
    <3> HIDE DEF R
    <3> QED BY <2>6, <3>1
  <2>8. /\ q \in [1..(c - 1) -> R]
        /\ \A i, j \in 1..(c - 1) : i # j => q[i] # q[j]
        /\ \A i, j \in 1..(c - 1) : i < j => Before(a, b, q[i], q[j])
    BY <2>6, <2>7 DEF Orders, SetToSeqs
  <2> DEFINE p == [i \in 1..c |-> IF i = 1 THEN x ELSE q[i - 1]]
  <2>9. \A i \in 2..c : i - 1 \in 1..(c - 1) /\ p[i] = q[i - 1] /\ p[i] \in R /\ i \in 1..c
    BY <2>6, <2>8, SMTT(40)
  <2>10. p[1] = x /\ x \in S
    BY <2>6
  <2>11. p \in [1..c -> S]
    <3> SUFFICES ASSUME NEW i \in 1..c PROVE p[i] \in S
      OBVIOUS
    <3>1. i = 1 \/ i \in 2..c
      BY <2>6
    <3> HIDE DEF p
    <3> QED BY <2>9, <2>10, <3>1
  <2> HIDE DEF p
  <2>12. ASSUME NEW i \in 1..c, NEW j \in 1..c, i < j
         PROVE  p[i] # p[j] /\ Before(a, b, p[i], p[j])
    <3>1. j \in 2..c
      BY <2>3, <2>12
    <3>2. CASE i = 1
      <4>1. p[j] \in R /\ p[j] \in S /\ p[j] # x
        BY <2>9, <3>1
      <4> QED BY <2>5, <2>10, <3>2, <4>1
    <3>3. CASE i # 1
      <4>1. i \in 2..c /\ i - 1 < j - 1 /\ i - 1 # j - 1
        BY <2>3, <2>12, <3>3
      <4>2. p[i] = q[i - 1] /\ p[j] = q[j - 1] /\ i - 1 \in 1..(c - 1) /\ j - 1 \in 1..(c - 1)
        BY <2>9, <3>1, <4>1
      <4>3. /\ q[i - 1] # q[j - 1]
            /\ Before(a, b, q[i - 1], q[j - 1])
        BY <2>8, <4>1, <4>2, Zenon
      <4> QED BY <4>2, <4>3, Zenon
    <3> QED BY <3>2, <3>3
  <2>13. ASSUME NEW i \in 1..c, NEW j \in 1..c, i # j PROVE p[i] # p[j]
    <3>1. i < j \/ j < i
      BY <2>3, <2>13
    <3> QED BY <2>12, <3>1
  <2>14. Orders(p, S, a, b)
    BY <2>2, <2>11, <2>12, <2>13 DEF Orders, SetToSeqs
  <2> QED BY <2>3, <2>14
<1> QED BY <1>2

\* The scores are listed each once.
LEMMA WindowsListed ==
  ASSUME NEW seq, Listed(seq),
         \A i \in 1..Len(seq) : seq[i].snapshot \in Nat /\ Last(seq[i].steps) \in Nat
  PROVE  \E p \in [1..Len(seq) -> 1..Len(seq)] :
           /\ \A i, j \in 1..Len(seq) : i # j => p[i] # p[j]
           /\ ByWindow(seq) = [i \in 1..Len(seq) |-> seq[p[i]]]
<1> DEFINE n == Len(seq)
           InOrder(p) == \A i, j \in DOMAIN p : i < j =>
                           \/ seq[p[i]].snapshot < seq[p[j]].snapshot
                           \/ /\ seq[p[i]].snapshot = seq[p[j]].snapshot
                              /\ Last(seq[p[i]].steps) <= Last(seq[p[j]].steps)
           order == CHOOSE p \in SetToSeqs(DOMAIN seq) : InOrder(p)
           a == [i \in 1..n |-> seq[i].snapshot]
           b == [i \in 1..n |-> Last(seq[i].steps)]
<1>1. n \in Nat /\ DOMAIN seq = 1..n
  BY DEF Listed
<1>2. ByWindow(seq) = [i \in 1..n |-> seq[order[i]]]
  BY <1>1 DEF ByWindow
<1>3. a \in [1..n -> Nat] /\ b \in [1..n -> Nat]
  OBVIOUS
<1>4. PICK q : Orders(q, 1..n, a, b)
  <2> HIDE DEF a, b, n
  <2> QED BY <1>1, <1>3, OrderExists, Zenon
<1>5. q \in SetToSeqs(1..n) /\ q \in [1..n -> 1..n] /\ Cardinality(1..n) = n
  <2> HIDE DEF n, a, b
  <2> QED BY <1>1, <1>4, PositionsAre DEF Orders
<1>6. InOrder(q)
  <2> SUFFICES ASSUME NEW i \in 1..n, NEW j \in 1..n, i < j
               PROVE  \/ seq[q[i]].snapshot < seq[q[j]].snapshot
                      \/ /\ seq[q[i]].snapshot = seq[q[j]].snapshot
                         /\ Last(seq[q[i]].steps) <= Last(seq[q[j]].steps)
    BY <1>5
  <2>1. Before(a, b, q[i], q[j])
    <3> HIDE DEF a, b, n
    <3> QED BY <1>4, <1>5 DEF Orders
  <2>2. q[i] \in 1..n /\ q[j] \in 1..n
    BY <1>5
  <2> QED BY <2>1, <2>2 DEF Before
<1>7. order \in SetToSeqs(1..n)
  <2> HIDE DEF InOrder, n
  <2> QED BY <1>1, <1>5, <1>6
<1> HIDE DEF order
<1>8. order \in [1..n -> 1..n] /\ \A i, j \in 1..n : i # j => order[i] # order[j]
  BY <1>1, <1>7, PositionsAre
<1> QED BY <1>2, <1>8

-----------------------------------------------------------------------------
(* What a run has collected when it is reported *)

\* A later item keeps a list rising.
LEMMA RisingAppend ==
  ASSUME NEW s, NEW e, Listed(s), Rising(s), e.cutoff \in Nat,
         \A i \in 1..Len(s) : s[i].cutoff < e.cutoff
  PROVE  Rising(Append(s, e))
<1>1. /\ Len(s) \in Nat /\ Len(Append(s, e)) = Len(s) + 1 /\ Append(s, e)[Len(s) + 1] = e
      /\ \A i \in 1..Len(s) : Append(s, e)[i] = s[i]
  BY Appended
<1> DEFINE t == Append(s, e)
           n == Len(s)
<1> HIDE DEF t, n
<1>2. ASSUME NEW i \in 1..(n + 1) PROVE t[i].cutoff \in Nat
  <2>1. i \in 1..n \/ i = n + 1
    BY <1>1 DEF n
  <2> QED BY <1>1, <2>1 DEF t, n, Rising
<1>3. ASSUME NEW i \in 1..(n + 1), NEW j \in 1..(n + 1), i < j
      PROVE  t[i].cutoff < t[j].cutoff
  <2>1. i \in 1..n /\ (j \in 1..n \/ j = n + 1)
    BY <1>1, <1>3 DEF n
  <2>2. CASE j \in 1..n
    BY <1>1, <1>3, <2>1, <2>2 DEF t, n, Rising
  <2>3. CASE j = n + 1
    BY <1>1, <2>1, <2>3 DEF t, n
  <2> QED BY <2>1, <2>2, <2>3
<1> QED BY <1>1, <1>2, <1>3 DEF Rising, t, n

\* A score of a snapshot's later rows, in order.
Windowed(a) ==
  /\ \E k \in DOMAIN snapshots : snapshots[k].cutoff = a.snapshot
  /\ a.snapshot \in Nat /\ a.steps \in Seq(Nat) /\ a.steps # <<>>
  /\ Increasing(a.steps) /\ Head(a.steps) > a.snapshot /\ Last(a.steps) = a.through

\* No two scores are of the same snapshot and end; plans, snapshots and
\* directives are of rising cutoffs; receipts and final fits are complete when
\* they are reported.
Reported ==
  /\ \A i \in DOMAIN scores : Windowed(scores[i])
  /\ \A i, j \in DOMAIN scores : i < j =>
       <<scores[i].snapshot, scores[i].through>> # <<scores[j].snapshot, scores[j].through>>
  /\ Rising(plans) /\ Rising(snapshots)
  /\ pc \in {"final_fits", "publish"} => Issued \subseteq DOMAIN receipts
  /\ pc = "publish" =>
       /\ FinalFitAccepted(finals.count, "count", Marked.rows)
       /\ FinalFitAccepted(finals.spectral, "spectral", Marked.rows)

\* An empty list rises.
LEMMA NoneRising == Rising(<<>>)
BY NoneListed DEF Rising

Unfinished == pc \notin {"final_fits", "publish"}

\* There is nothing to report at first.
LEMMA ReportedFresh == FreshMemory /\ Unfinished => Reported
BY NoneRising DEF FreshMemory, Reported, Unfinished

\* A score that was accepted is of its snapshot's later rows.
LEMMA ScoreWindowed ==
  ASSUME Control, Lineage, Books, pc = "score", NEW c \in ScoreableSnapshots,
         NEW w \in Windows(c), NEW a \in Artifacts(c, w),
         ScoreAccepted(a, SnapshotOf(c), Prefix.log.rows)
  PROVE  Windowed(a)
<1>1. c \in Issued
  BY DEF ScoreableSnapshots, ScoreableNow, Scoreable, Books
<1>2. /\ input \in Inputs /\ Accepted(input) /\ turn \in 1..Len(input.schedule) /\ c \in Nat
      /\ SnapshotOf(c) \in ToSet(snapshots) /\ SnapshotOf(c).cutoff = c
  BY <1>1, IssuedAre DEF Control
<1>3. ArtifactTyped(a) /\ a.snapshot = c /\ a.through = Here.step
  BY ArtifactIs
<1>4. PICK j \in 1..turn :
         /\ j < turn /\ j \in 1..Len(input.schedule) /\ c = input.schedule[j].step
         /\ EndAt(j) \in 1..HereCount
         /\ a.steps = After(EndAt(j), HereCount) /\ Len(a.steps) = HereCount - EndAt(j)
  BY ArtifactIs
<1>5. /\ Increasing(a.steps) /\ a.steps # <<>> /\ Head(a.steps) > a.snapshot
  BY <1>2, <1>3 DEF ScoreAccepted
<1>6. Last(a.steps) = a.through
  <2>1. HereCount = EndAt(turn) /\ HereCount \in 1..Len(input.rows) /\ input.rows[HereCount].step = Here.step
    BY <1>2, PrefixIs, EndAtRow DEF Here
  <2>2. EndAt(j) < HereCount
    BY <1>2, <1>4, <2>1, EndsRise
  <2> DEFINE m == EndAt(j)
             n == HereCount
  <2>3. m \in Nat /\ n \in Nat /\ m < n /\ n - m \in 1..(n - m) /\ m + (n - m) = n
    BY <1>4, <2>1, <2>2, InputTyped
  <2>4. a.steps[n - m] = input.rows[m + (n - m)].step
    BY <1>4, <2>3 DEF After
  <2>5. Last(a.steps) = a.steps[Len(a.steps)]
    BY DEF Last
  <2> QED BY <1>3, <1>4, <2>1, <2>3, <2>4, <2>5
<1>7. \E k \in DOMAIN snapshots : snapshots[k].cutoff = a.snapshot
  BY <1>2, <1>3 DEF ToSet
<1> QED BY <1>3, <1>5, <1>6, <1>7 DEF Windowed, ArtifactTyped

\* A score is a new one,
LEMMA ReportedScore ==
  ASSUME Control, Lineage, Books, Scoring, Reported, Score
  PROVE  Reported'
<1>0. pc = "score" /\ input \in Inputs /\ Accepted(input) /\ turn \in 1..Len(input.schedule)
      /\ UNCHANGED <<snapshots, plans>>
  BY ScoreIs
<1>1. PICK c, a : ScoreMakes(c, a)
  BY ScoreIs, Zenon
<1>2. c \in ScoreableSnapshots
  BY <1>1 DEF ScoreMakes, Unscored
<1>3. a.snapshot = c /\ a.through = Here.step
  BY <1>0, <1>1, <1>2, ArtifactIs DEF ScoreMakes
<1>4. Windowed(a)
  BY <1>0, <1>1, <1>2, ScoreWindowed DEF ScoreMakes
<1>5. scores' = Append(scores, a) /\ pc' \in {"self_refused", AfterScore(trigger), "score"}
  BY <1>1 DEF ScoreMakes
<1>6. pc' \notin {"final_fits", "publish"}
  BY <1>5 DEF AfterScore, AfterFit
<1> DEFINE n == Len(scores)
<1>7. /\ n \in Nat /\ DOMAIN scores = 1..n /\ DOMAIN scores' = 1..(n + 1)
      /\ scores'[n + 1] = a /\ \A i \in 1..n : scores'[i] = scores[i]
  <2>1. Listed(scores)
    BY DEF Scoring
  <2>2. Listed(Append(scores, a)) /\ Len(Append(scores, a)) = n + 1
    BY <2>1, Appended
  <2>3. DOMAIN Append(scores, a) = 1..(n + 1)
    BY <2>2 DEF Listed
  <2> QED BY <1>5, <2>1, <2>2, <2>3, Appended
<1> HIDE DEF n
<1>8. ASSUME NEW i \in 1..(n + 1) PROVE Windowed(scores[i])'
  <2>1. \A b : Windowed(b) => Windowed(b)'
    BY <1>0 DEF Windowed
  <2>2. Windowed(scores'[i])
    <3>1. i \in 1..n \/ i = n + 1
      BY <1>7
    <3> QED BY <1>4, <1>7, <3>1 DEF Reported
  <2> QED BY <1>0, <2>2 DEF Windowed
<1>9. ASSUME NEW i \in 1..n
      PROVE  <<scores[i].snapshot, scores[i].through>> # <<a.snapshot, a.through>>
  <2>1. c \notin {b.snapshot : b \in {b \in ToSet(scores) : b.through = Here.step}}
    BY <1>1 DEF ScoreMakes, Unscored
  <2>2. scores[i] \in ToSet(scores)
    BY <1>7 DEF ToSet
  <2> QED BY <1>3, <2>1, <2>2
<1>10. ASSUME NEW i \in 1..(n + 1), NEW j \in 1..(n + 1), i < j
       PROVE  <<scores'[i].snapshot, scores'[i].through>> # <<scores'[j].snapshot, scores'[j].through>>
  <2>1. i \in 1..n /\ (j \in 1..n \/ j = n + 1)
    BY <1>7, <1>10
  <2>2. CASE j \in 1..n
    BY <1>7, <1>10, <2>1, <2>2 DEF Reported
  <2>3. CASE j = n + 1
    BY <1>7, <1>9, <2>1, <2>3
  <2> QED BY <2>1, <2>2, <2>3
<1>11. Rising(plans') /\ Rising(snapshots')
  BY <1>0 DEF Reported
<1> QED BY <1>6, <1>7, <1>8, <1>10, <1>11 DEF Reported

\* a snapshot a later one,
LEMMA ReportedFit ==
  ASSUME Control, Lineage, Books, Reported, Fit
  PROVE  Reported'
<1>1. /\ pc = "fit" /\ UNCHANGED <<scores, plans>> /\ Prefix.cutoff = Here.step
      /\ pc' \in {"self_refused", AfterFit}
  BY FitIs
<1>2. PICK fit \in FitOutputs, found \in SUBSET Names : \E proposals \in SUBSET found :
         FitMakes(fit, found, proposals)
  BY FitIs, Zenon
<1> DEFINE s == BuiltSnapshot(Prefix, fit, found, Previous)
<1>3. snapshots' = Append(snapshots, s) /\ s.cutoff = Here.step
  BY <1>1, <1>2 DEF FitMakes, BuiltSnapshot
<1> HIDE DEF s
<1>4. Listed(snapshots) /\ DOMAIN snapshots = 1..Len(snapshots)
  BY DEF Lineage, Listed
<1>5. Rising(snapshots')
  BY <1>1, <1>3, <1>4, FitIsLater, RisingAppend DEF Reported
<1>6. \A i \in DOMAIN snapshots : i \in DOMAIN snapshots' /\ snapshots'[i] = snapshots[i]
  <2>1. Listed(snapshots') /\ Len(snapshots') = Len(snapshots) + 1
        /\ \A i \in 1..Len(snapshots) : snapshots'[i] = snapshots[i]
    BY <1>3, <1>4, Appended
  <2>2. DOMAIN snapshots' = 1..(Len(snapshots) + 1) /\ Len(snapshots) \in Nat
    BY <1>4, <2>1 DEF Listed
  <2> QED BY <1>4, <2>1, <2>2
<1>7. \A b : Windowed(b) => Windowed(b)'
  BY <1>6 DEF Windowed
<1>8. \A i \in DOMAIN scores : Windowed(scores[i])'
  BY <1>1, <1>7 DEF Reported
<1>9. pc' \notin {"final_fits", "publish"}
  BY <1>1 DEF AfterFit
<1> QED BY <1>1, <1>5, <1>8, <1>9 DEF Reported

\* and a plan too.
LEMMA ReportedPlan ==
  ASSUME Control, PlansTold, Reported, Plan
  PROVE  Reported'
<1>1. /\ pc = "plan" /\ pc' = "next" /\ input \in Inputs /\ Accepted(input)
      /\ turn \in 1..Len(input.schedule) /\ UNCHANGED <<scores, snapshots>>
  BY DEF Plan, Control, Active
<1>2. PICK p \in Recommendations : plans' = Append(plans, p)
  BY DEF Plan
<1>3. p.cutoff = Here.step
  BY DEF Recommendations
<1>4. Here.step \in Nat
  BY <1>1, StepsRise DEF Here
<1>5. ASSUME NEW i \in 1..Len(plans) PROVE plans[i].cutoff < Here.step
  <2>1. i \in DOMAIN plans
    BY DEF PlansTold, Listed
  <2>2. PICK j \in 1..(turn - 1) : plans[i].cutoff = input.schedule[j].step
    BY <1>1, <2>1 DEF PlansTold, PlanTold, Planned
  <2>3. j \in 1..Len(input.schedule) /\ j < turn
    BY <1>1, InputTyped
  <2>4. input.schedule[j].step < input.schedule[turn].step
    BY <1>1, <2>3, StepsRise, Zenon
  <2> QED BY <2>2, <2>4 DEF Here
<1>6. Rising(plans')
  BY <1>2, <1>3, <1>4, <1>5, RisingAppend DEF Reported, PlansTold
<1>7. \A b : Windowed(b) => Windowed(b)'
  BY <1>1 DEF Windowed
<1>8. \A i \in DOMAIN scores : Windowed(scores[i])'
  BY <1>1, <1>7 DEF Reported
<1> QED BY <1>1, <1>6, <1>8 DEF Reported

\* Every step keeps what is to be reported in order.
LEMMA ReportedNext ==
  /\ Control /\ Lineage /\ Books /\ Scoring /\ PlansTold /\ Reported /\ [Next]_vars
  => Reported'
<1> SUFFICES ASSUME Control, Lineage, Books, Scoring, PlansTold, Reported, [Next]_vars
             PROVE  Reported'
  OBVIOUS
<1>1. ASSUME FreshMemory', Unfinished' PROVE Reported'
  BY <1>1, ReportedFresh, PTL
<1>2. ASSUME UNCHANGED <<snapshots, scores, plans>> 
      PROVE  /\ \A i \in DOMAIN scores' : Windowed(scores[i])'
             /\ \A i, j \in DOMAIN scores' : i < j =>
                  <<scores'[i].snapshot, scores'[i].through>> # <<scores'[j].snapshot, scores'[j].through>>
             /\ Rising(plans)' /\ Rising(snapshots)'
  <2>1. \A b : Windowed(b) => Windowed(b)'
    BY <1>2 DEF Windowed
  <2>2. \A i \in DOMAIN scores' : Windowed(scores[i])'
    BY <1>2, <2>1 DEF Reported
  <2> QED BY <1>2, <2>2 DEF Reported
<1>3. ASSUME UNCHANGED <<snapshots, scores, plans>>, pc' \notin {"final_fits", "publish"} PROVE Reported'
  BY <1>2, <1>3 DEF Reported
<1>4. CASE StartRefused \/ Start
  <2>1. pc' \notin {"final_fits", "publish"} /\ UNCHANGED <<snapshots, scores, plans>>
    BY <1>4 DEF StartRefused, Start, memory, collected
  <2> QED BY <1>3, <2>1
<1>5. CASE ReplayStation
  <2>1. UNCHANGED <<snapshots, scores, plans>>
        /\ (pc' = "self_refused" \/ pc' = AfterPF(trigger', Scoreable(queue, receipts')))
    BY <1>5 DEF ReplayStation
  <2> QED BY <1>3, <2>1 DEF AfterPF, AfterScore, AfterFit
<1>6. CASE Score
  BY <1>6, ReportedScore
<1>7. CASE Fit
  BY <1>7, ReportedFit
<1>8. CASE Plan
  BY <1>8, ReportedPlan
<1>9. CASE NextStation
  <2>1. pc' \in {"pf", "final_pf"} /\ UNCHANGED <<snapshots, scores, plans>>
    BY <1>9 DEF NextStation, collected
  <2> QED BY <1>3, <2>1
<1>10. CASE FinalPF
  <2>1. UNCHANGED <<snapshots, scores, plans, directives>> /\ Issued \subseteq DOMAIN receipts'
        /\ pc' \in {"final_fits", "self_refused"}
    BY <1>10 DEF FinalPF
  <2>2. Issued' = Issued
    BY <2>1 DEF Issued
  <2> QED BY <1>2, <2>1, <2>2 DEF Reported
<1>11. CASE FinalFits
  <2>1. /\ pc = "final_fits" /\ pc' = "publish" /\ UNCHANGED <<input, disk, turn, sched, trigger, collected>>
        /\ \E count \in FinalOutputs("count"), spectral \in FinalOutputs("spectral") :
             /\ FinalFitAccepted(count, "count", Marked.rows)
             /\ FinalFitAccepted(spectral, "spectral", Marked.rows)
             /\ finals' = [count |-> count, spectral |-> spectral]
    BY <1>11 DEF FinalFits
  <2>2. Marked' = Marked /\ Issued' = Issued
    BY <2>1 DEF Marked, Source, Issued, collected
  <2>3. /\ FinalFitAccepted(finals'.count, "count", Marked.rows)
        /\ FinalFitAccepted(finals'.spectral, "spectral", Marked.rows)
    BY <2>1
  <2>4. Issued' \subseteq DOMAIN receipts'
    BY <2>1, <2>2 DEF Reported, collected
  <2> QED BY <1>2, <2>1, <2>2, <2>3, <2>4 DEF Reported, collected
<1>12. CASE Publish
  <2>1. UNCHANGED <<snapshots, scores, plans>> /\ pc' \in {"self_refused", "published"}
    BY <1>12 DEF Publish, memory, collected
  <2> QED BY <1>3, <2>1
<1>13. CASE Discard \/ Kill \/ Rerun
  <2>1. FreshMemory' /\ pc' \in {"discarded", "killed", "idle"}
    BY <1>13 DEF Discard, Kill, Rerun, Forget, FreshMemory
  <2>2. Unfinished'
    BY <2>1 DEF Unfinished
  <2> QED BY <1>1, <2>1, <2>2
<1>14. CASE UNCHANGED vars
  <2>1. UNCHANGED <<input, pc, receipts, finals, directives, snapshots, scores, plans>>
    BY <1>14 DEF vars, memory, collected
  <2>2. Marked' = Marked /\ Issued' = Issued
    BY <2>1 DEF Marked, Source, Issued
  <2> QED BY <1>2, <2>1, <2>2 DEF Reported
<1> QED BY <1>4, <1>5, <1>6, <1>7, <1>8, <1>9, <1>10, <1>11, <1>12, <1>13, <1>14 DEF Next

-----------------------------------------------------------------------------
(* The audit *)

\* Everything that was collected lies within the log.
LEMMA CollectedWithin ==
  ASSUME Control, Lineage, PlansTold, pc = "publish"
  PROVE  /\ LogEnd \in Nat
         /\ \A i \in 1..Len(snapshots) : snapshots[i].cutoff <= LogEnd
         /\ \A i \in 1..Len(plans) : plans[i].cutoff <= LogEnd
<1>1. input \in Inputs /\ Accepted(input) /\ turn \in 1..Len(input.schedule)
  BY DEF Control, Active
<1>2. LogEnd \in Nat
  BY <1>1, StepsWithin
<1>3. ASSUME NEW k \in 1..turn PROVE input.schedule[k].step <= LogEnd
  <2>1. k \in 1..Len(input.schedule) /\ (k = turn \/ k < turn)
    BY <1>1, InputTyped
  <2>2. Here.step \in Nat /\ Here.step <= LogEnd
    BY <1>1, StepsWithin
  <2>3. k < turn => input.schedule[k].step < input.schedule[turn].step
    BY <1>1, <2>1, StepsRise, Zenon
  <2>4. input.schedule[k].step \in Nat
    BY <1>1, <2>1, StepsRise, Zenon
  <2> QED BY <1>2, <2>1, <2>2, <2>3, <2>4 DEF Here
<1>4. ASSUME NEW i \in 1..Len(snapshots) PROVE snapshots[i].cutoff <= LogEnd
  <2>1. PICK k \in Answered : Origin(snapshots[i], k)
    BY DEF Lineage
  <2> QED BY <1>3, <2>1 DEF Answered, Origin
<1>5. ASSUME NEW i \in 1..Len(plans) PROVE plans[i].cutoff <= LogEnd
  <2>1. PICK k \in Planned : plans[i].cutoff = input.schedule[k].step
    BY DEF PlansTold, PlanTold, Listed
  <2> QED BY <1>3, <2>1 DEF Planned
<1> QED BY <1>2, <1>4, <1>5

\* Directives are issued at rising cutoffs.
LEMMA DirectivesRise ==
  ASSUME Control, Lineage, Books, Booked
  PROVE  Rising(directives)
<1>1. Listed(directives) /\ DOMAIN directives = 1..Len(directives)
  BY DEF Books, Listed
<1>2. ASSUME NEW i \in 1..Len(directives) PROVE directives[i].cutoff \in Nat
  <2>1. directives[i].cutoff \in Issued
    BY <1>1 DEF Issued
  <2> QED BY <2>1, IssuedAre
<1> QED BY <1>1, <1>2 DEF Rising, Booked

\* The logs have the same rows.
LEMMA LogsAgree ==
  ASSUME Control, pc = "publish"
  PROVE  /\ Len(Source.rows) = Len(Marked.rows) /\ Last(Marked.rows).step = LogEnd
         /\ Column(Source.rows, "step") = Column(Marked.rows, "step")
<1>1. input \in Inputs /\ Accepted(input)
  BY DEF Control, Active
<1> DEFINE n == Len(input.rows)
<1>2. n \in Nat /\ n > 0 /\ DOMAIN input.rows = 1..n
  BY <1>1, InputTyped
<1>3. /\ Marked.rows \in Seq(MarkedEnds) /\ Len(Marked.rows) = n
      /\ \A i \in 1..n : Marked.rows[i].step = input.rows[i].step
  BY <1>1, MarkedTyped
<1>4. Source.rows = [i \in 1..n |-> [station |-> input.rows[i].station, step |-> input.rows[i].step,
                                     complete |-> FALSE]]
  BY <1>2 DEF Source, SourceLog
<1> HIDE DEF n
<1>5. Len(Source.rows) = n
  BY <1>2, <1>4
<1>6. Last(Marked.rows).step = LogEnd
  BY <1>2, <1>3 DEF Last, LogEnd, n
<1>7. Column(Source.rows, "step") = Column(Marked.rows, "step")
  <2>1. DOMAIN Source.rows = 1..n /\ DOMAIN Marked.rows = 1..n
    BY <1>2, <1>3, <1>4
  <2>2. \A i \in 1..n : Source.rows[i].step = Marked.rows[i].step
    BY <1>3, <1>4
  <2> QED BY <2>1, <2>2 DEF Column
<1> QED BY <1>3, <1>5, <1>6, <1>7

-----------------------------------------------------------------------------
(* References *)

\* The snapshot references rise and lie within the log,
LEMMA SnapshotRefsPass ==
  ASSUME Control, Lineage, PlansTold, Reported, pc = "publish"
  PROVE  LET refs == SnapshotRefs(snapshots)
         IN  /\ DOMAIN refs = DOMAIN snapshots
             /\ \A i \in DOMAIN snapshots : refs[i].cutoff = snapshots[i].cutoff
             /\ Increasing(Column(refs, "cutoff"))
             /\ \A i \in DOMAIN refs : refs[i].cutoff <= LogEnd
<1> DEFINE refs == SnapshotRefs(snapshots)
           n == Len(snapshots)
<1>1. Listed(snapshots) /\ DOMAIN snapshots = 1..n /\ Rising(snapshots)
  BY DEF Lineage, Reported, Listed
<1>2. refs = [i \in DOMAIN snapshots |->
                [cutoff |-> snapshots[i].cutoff, station |-> snapshots[i].station,
                 warm |-> snapshots[i].warm # None]]
  BY <1>1, SortedAlready DEF SnapshotRefs
<1> HIDE DEF refs, n
<1>3. DOMAIN refs = 1..n /\ \A i \in 1..n : refs[i].cutoff = snapshots[i].cutoff
  BY <1>1, <1>2
<1>4. Increasing(Column(refs, "cutoff"))
  BY <1>1, <1>3 DEF Increasing, Column, Rising, n
<1>5. \A i \in DOMAIN refs : refs[i].cutoff <= LogEnd
  BY <1>3, CollectedWithin DEF n
<1> QED BY <1>1, <1>3, <1>4, <1>5 DEF refs

\* and so do those of the plans.
LEMMA PlanRefsPass ==
  ASSUME Control, Lineage, PlansTold, Reported, pc = "publish"
  PROVE  LET refs == PlanRefs(plans)
         IN  /\ Increasing(Column(refs, "cutoff"))
             /\ \A i \in DOMAIN refs : refs[i].cutoff <= LogEnd
<1> DEFINE refs == PlanRefs(plans)
           n == Len(plans)
<1>1. Listed(plans) /\ DOMAIN plans = 1..n /\ Rising(plans)
  BY DEF PlansTold, Reported, Listed
<1>2. refs = [i \in DOMAIN plans |-> [cutoff |-> plans[i].cutoff, station |-> plans[i].station]]
  BY <1>1, SortedAlready DEF PlanRefs
<1> HIDE DEF refs, n
<1>3. DOMAIN refs = 1..n /\ \A i \in 1..n : refs[i].cutoff = plans[i].cutoff
  BY <1>1, <1>2
<1>4. Increasing(Column(refs, "cutoff"))
  BY <1>1, <1>3 DEF Increasing, Column, Rising, n
<1>5. \A i \in DOMAIN refs : refs[i].cutoff <= LogEnd
  BY <1>3, CollectedWithin DEF n
<1> QED BY <1>4, <1>5 DEF refs

\* The score references are those of the scores, each once.
LEMMA ScoreRefsPass ==
  ASSUME Scoring, Reported
  PROVE  LET refs == ScoreRefs(scores)
         IN  /\ \A i \in DOMAIN refs :
                  /\ \E k \in DOMAIN snapshots : snapshots[k].cutoff = refs[i].snapshot
                  /\ Head(refs[i].steps) > refs[i].snapshot /\ Increasing(refs[i].steps)
             /\ \A i, j \in DOMAIN refs : i # j => refs[i] # refs[j]
<1> DEFINE refs == ScoreRefs(scores)
           n == Len(scores)
<1>1. Listed(scores) /\ DOMAIN scores = 1..n /\ n \in Nat
  BY DEF Scoring, Listed
<1>2. ASSUME NEW i \in 1..n PROVE scores[i].snapshot \in Nat /\ Last(scores[i].steps) \in Nat
  BY <1>1, <1>2, NatSequences DEF Reported, Windowed
<1>3. PICK p \in [1..n -> 1..n] :
        /\ \A i, j \in 1..n : i # j => p[i] # p[j]
        /\ ByWindow(scores) = [i \in 1..n |-> scores[p[i]]]
  BY <1>1, <1>2, WindowsListed
<1>4. refs = [i \in 1..n |-> [snapshot |-> scores[p[i]].snapshot, steps |-> scores[p[i]].steps]]
  BY <1>3 DEF ScoreRefs
<1> HIDE DEF refs, n
<1>5. ASSUME NEW i \in 1..n
      PROVE  /\ \E k \in DOMAIN snapshots : snapshots[k].cutoff = refs[i].snapshot
             /\ Head(refs[i].steps) > refs[i].snapshot /\ Increasing(refs[i].steps)
  <2>1. Windowed(scores[p[i]])
    BY <1>1, <1>3 DEF Reported
  <2> QED BY <1>4, <2>1 DEF Windowed
<1>6. ASSUME NEW i \in 1..n, NEW j \in 1..n, i # j PROVE refs[i] # refs[j]
  <2>1. p[i] \in 1..n /\ p[j] \in 1..n /\ p[i] # p[j]
    BY <1>3, <1>6
  <2>2. p[i] < p[j] \/ p[j] < p[i]
    BY <1>1, <2>1
  <2>3. <<scores[p[i]].snapshot, scores[p[i]].through>> # <<scores[p[j]].snapshot, scores[p[j]].through>>
    BY <1>1, <2>1, <2>2 DEF Reported
  <2>4. Last(scores[p[i]].steps) = scores[p[i]].through /\ Last(scores[p[j]].steps) = scores[p[j]].through
    BY <1>1, <2>1 DEF Reported, Windowed
  <2> QED BY <1>4, <2>3, <2>4
<1> QED BY <1>4, <1>5, <1>6 DEF refs

\* Each directive has one receipt.
LEMMA ReceiptRefsPass ==
  ASSUME Control, Lineage, Books, Booked, Reported, pc = "publish"
  PROVE  LET refs == DirectiveRefs(directives)
             issued == {refs[i].cutoff : i \in DOMAIN refs}
         IN  /\ issued = Issued /\ Cardinality(issued) = Len(refs)
             /\ {r.directive : r \in ReceiptRefs(receipts)} = issued
             /\ Cardinality(ReceiptRefs(receipts)) = Cardinality(issued)
<1> DEFINE refs == DirectiveRefs(directives)
           issued == {refs[i].cutoff : i \in DOMAIN refs}
           n == Len(directives)
<1>1. Listed(directives) /\ DOMAIN directives = 1..n /\ n \in Nat /\ Rising(directives)
  BY DirectivesRise DEF Books, Listed
<1>2. refs = [i \in 1..n |-> [cutoff |-> directives[i].cutoff,
                              proposals |-> Cardinality(directives[i].proposals)]]
  BY <1>1, SortedAlready DEF DirectiveRefs
<1> HIDE DEF refs
<1>3. DOMAIN refs = 1..n /\ Len(refs) = n /\ \A i \in 1..n : refs[i].cutoff = directives[i].cutoff
  BY <1>1, <1>2
<1>4. issued = Issued
  BY <1>1, <1>3 DEF Issued
<1>5. Cardinality(Issued) = n
  <2> DEFINE f == [i \in 1..n |-> directives[i].cutoff]
  <2>1. f \in [1..n -> Issued]
    BY <1>1 DEF Issued
  <2>2. ASSUME NEW i \in 1..n, NEW j \in 1..n, f[i] = f[j] PROVE i = j
    <3>1. ~(i < j) /\ ~(j < i)
      BY <1>1, <2>2 DEF Rising
    <3> QED BY <1>1, <3>1
  <2>3. \A c \in Issued : \E i \in 1..n : f[i] = c
    BY <1>1 DEF Issued
  <2> HIDE DEF f
  <2>4. f \in Bijection(1..n, Issued)
    BY <2>1, <2>2, <2>3 DEF Bijection, Injection, Surjection, IsInjective
  <2> HIDE DEF n
  <2> QED BY <1>1, <2>4, FS_CountingElements DEF ExistsBijection
<1>6. Issued = DOMAIN receipts
  BY DEF Books, Reported
<1>7. ReceiptRefs(receipts) = {[directive |-> c, status |-> receipts[c].status] : c \in Issued}
  BY <1>6 DEF ReceiptRefs
<1>8. {r.directive : r \in ReceiptRefs(receipts)} = Issued
  <2>1. ASSUME NEW r \in ReceiptRefs(receipts) PROVE r.directive \in Issued
    BY <1>7
  <2>2. ASSUME NEW c \in Issued PROVE \E r \in ReceiptRefs(receipts) : r.directive = c
    <3>1. [directive |-> c, status |-> receipts[c].status] \in ReceiptRefs(receipts)
      BY <1>7
    <3> QED BY <3>1
  <2> QED BY <2>1, <2>2
<1>9. Cardinality(ReceiptRefs(receipts)) = Cardinality(Issued)
  <2> DEFINE R == ReceiptRefs(receipts)
             f == [c \in Issued |-> [directive |-> c, status |-> receipts[c].status]]
  <2>1. f \in [Issued -> R]
    BY <1>7
  <2>2. \A c, d \in Issued : f[c] = f[d] => c = d
    OBVIOUS
  <2>3. \A r \in R : \E c \in Issued : f[c] = r
    BY <1>7
  <2> HIDE DEF f, R
  <2>4. f \in Bijection(Issued, R)
    BY <2>1, <2>2, <2>3 DEF Bijection, Injection, Surjection, IsInjective
  <2>5. IsFiniteSet(Issued)
    BY <1>1, IssuedFinite
  <2> QED BY <2>4, <2>5, FS_Bijection DEF ExistsBijection, R
<1> QED BY <1>3, <1>4, <1>5, <1>8, <1>9 DEF refs

\* The directives' proposals are the candidates of the queue.
LEMMA ProposalsAre ==
  ASSUME Control, Lineage, Books, Booked
  PROVE  /\ IsFiniteSet(DOMAIN queue)
         /\ ProposalsOf(DirectiveRefs(directives)) = Cardinality(DOMAIN queue)
<1> DEFINE refs == DirectiveRefs(directives)
           n == Len(directives)
           T == [i \in 1..n |-> Keys(directives[i])]
           sizes == [i \in DOMAIN refs |-> refs[i].proposals]
<1>1. Listed(directives) /\ DOMAIN directives = 1..n /\ n \in Nat /\ Rising(directives)
  BY DirectivesRise DEF Books, Listed
<1>2. refs = [i \in 1..n |-> [cutoff |-> directives[i].cutoff,
                              proposals |-> Cardinality(directives[i].proposals)]]
  BY <1>1, SortedAlready DEF DirectiveRefs
<1> HIDE DEF refs
<1>3. DOMAIN sizes = 1..n /\ \A i \in 1..n : sizes[i] = Cardinality(directives[i].proposals)
  BY <1>2
<1>4. ASSUME NEW i \in 1..n
      PROVE  IsFiniteSet(T[i]) /\ Cardinality(T[i]) = Cardinality(directives[i].proposals)
  <2> DEFINE P == directives[i].proposals
             c == directives[i].cutoff
             K == Keys(directives[i])
             f == [name \in P |-> [cutoff |-> c, name |-> name]]
  <2>1. IsFiniteSet(P)
    <3>1. P \subseteq Names
      BY <1>1 DEF Books
    <3> QED BY <3>1, ValuesAssumption, FS_Subset
  <2>2. f \in [P -> K] /\ \A k \in K : \E name \in P : f[name] = k
    BY DEF Keys
  <2>3. \A x, y \in P : f[x] = f[y] => x = y
    OBVIOUS
  <2> HIDE DEF f, P, K
  <2>4. f \in Bijection(P, K)
    BY <2>2, <2>3 DEF Bijection, Injection, Surjection, IsInjective
  <2>5. IsFiniteSet(K) /\ Cardinality(K) = Cardinality(P)
    BY <2>1, <2>4, FS_Bijection DEF ExistsBijection
  <2> QED BY <2>5 DEF K, P
<1>5. ASSUME NEW i \in 1..n, NEW j \in 1..n, i # j PROVE T[i] \cap T[j] = {}
  <2>1. i < j \/ j < i
    BY <1>1, <1>5
  <2>2. directives[i].cutoff # directives[j].cutoff
    BY <1>1, <2>1 DEF Rising
  <2> QED BY <2>2 DEF Keys
<1>6. UNION {T[i] : i \in 1..n} = DOMAIN queue
  <2>1. DOMAIN queue = UNION {Keys(directives[i]) : i \in 1..n}
    BY <1>1 DEF Booked
  <2> QED BY <2>1
<1> HIDE DEF T, sizes
<1>7. Parts(sizes, T)
  BY <1>3, <1>4, <1>5 DEF Parts
<1>8. IsFiniteSet(DOMAIN sizes)
  BY <1>1, <1>3, FS_Interval
<1>9. IsFiniteSet(UNION {T[i] : i \in DOMAIN sizes})
      /\ SumFunction(sizes) = Cardinality(UNION {T[i] : i \in DOMAIN sizes})
  <2>1. SumsUp(sizes, T)
    BY <1>7, <1>8, SumOfSizes
  <2> QED BY <2>1 DEF SumsUp
<1>10. ProposalsOf(refs) = SumFunction(sizes)
  BY DEF ProposalsOf, sizes
<1> QED BY <1>3, <1>6, <1>9, <1>10 DEF refs

\* The counts of the verdicts add up to the queue.
LEMMA CountsAddUp ==
  ASSUME Books, IsFiniteSet(DOMAIN queue)
  PROVE  SumFunction(QueueCounts(queue)) = Cardinality(DOMAIN queue)
<1> DEFINE counts == QueueCounts(queue)
           T == [v \in Verdicts |-> {k \in DOMAIN queue : queue[k].state = v}]
<1>1. DOMAIN counts = Verdicts /\ \A v \in Verdicts : counts[v] = Cardinality(T[v])
  <2> DEFINE states == [k \in DOMAIN queue |-> queue[k].state]
  <2>1. counts = [v \in Verdicts |-> Cardinality({k \in DOMAIN states : states[k] = v})]
    BY DEF QueueCounts, CountsOf
  <2>2. ASSUME NEW v \in Verdicts PROVE {k \in DOMAIN states : states[k] = v} = T[v]
    OBVIOUS
  <2> HIDE DEF states, T
  <2> QED BY <2>1, <2>2
<1>2. \A v \in Verdicts : IsFiniteSet(T[v])
  BY FS_Subset
<1>3. \A v, w \in Verdicts : v # w => T[v] \cap T[w] = {}
  OBVIOUS
<1>4. UNION {T[v] : v \in Verdicts} = DOMAIN queue
  <2>1. ASSUME NEW k \in DOMAIN queue PROVE \E v \in Verdicts : k \in T[v]
    BY DEF Books, Candidates
  <2>2. \A v \in Verdicts : T[v] \subseteq DOMAIN queue
    OBVIOUS
  <2> HIDE DEF T
  <2> QED BY <2>1, <2>2
<1>5. IsFiniteSet(Verdicts)
  <2>1. IsFiniteSet({"pending"})
    BY FS_Singleton
  <2>2. IsFiniteSet({"pending"} \union {"verified"})
    BY <2>1, FS_AddElement
  <2>3. IsFiniteSet(({"pending"} \union {"verified"}) \union {"quarantined"})
    BY <2>2, FS_AddElement
  <2>4. Verdicts = ({"pending"} \union {"verified"}) \union {"quarantined"}
    BY DEF Verdicts
  <2> QED BY <2>3, <2>4
<1> HIDE DEF counts, T
<1>6. Parts(counts, T)
  BY <1>1, <1>2, <1>3 DEF Parts
<1>7. SumFunction(counts) = Cardinality(UNION {T[v] : v \in DOMAIN counts})
  <2>1. SumsUp(counts, T)
    BY <1>1, <1>5, <1>6, SumOfSizes
  <2> QED BY <2>1 DEF SumsUp
<1> QED BY <1>1, <1>4, <1>7 DEF counts

\* The parts of a run,
LEMMA RunIs ==
  /\ Run.source = Source /\ Run.log = Marked /\ Run.snapshots = snapshots
  /\ Run.directives = directives /\ Run.receipts = receipts /\ Run.queue = queue
  /\ Run.ledger = ledger /\ Run.scores = scores /\ Run.plans = plans
  /\ Run.count = finals.count /\ Run.spectral = finals.spectral
BY DEF Run

\* and of its report.
LEMMA ResultIs ==
  ASSUME NEW w
  PROVE  LET result == HybridResult(w)
         IN  /\ result.sourceCount = Len(w.source.rows) /\ result.inferenceCount = Len(w.log.rows)
             /\ result.finalStep = Last(w.log.rows).step
             /\ result.snapshots = SnapshotRefs(w.snapshots)
             /\ result.directives = DirectiveRefs(w.directives)
             /\ result.receipts = ReceiptRefs(w.receipts)
             /\ result.scores = ScoreRefs(w.scores) /\ result.plans = PlanRefs(w.plans)
             /\ result.events = Len(w.ledger) /\ result.counts = QueueCounts(w.queue)
             /\ result.mhPerformed = (AppliedReceipts(ReceiptRefs(w.receipts)) # {})
             /\ result.report = w.spectral /\ result.diagnostic = w.count
BY DEF HybridResult

\* Every use in the ledger is a row of its artifact.
LEMMA UsesAreBound ==
  ASSUME Books, Grounded
  PROVE  UsesBound(Run)
<1> SUFFICES ASSUME NEW i \in DOMAIN ledger, ledger[i].type = "corroboration"
             PROVE  \E k \in DOMAIN scores : \E n \in DOMAIN scores[k].steps :
                      /\ scores[k].snapshot = ledger[i].cutoff
                      /\ scores[k].through = ledger[i].through
                      /\ scores[k].steps[n] = ledger[i].step
                      /\ scores[k].stations[n] = ledger[i].station
                      /\ scores[k].ratios[ledger[i].name][n] = ledger[i].ratio
  BY RunIs DEF UsesBound
<1>1. ledger[i] \in ToSet(ledger)
  BY DEF ToSet
<1>2. PICK k \in DOMAIN scores : Backs(scores[k], ledger[i])
  BY <1>1 DEF Grounded
<1> QED BY <1>2 DEF Backs

\* What build_hybrid_result asks of the run.
LEMMA RunIsReportable ==
  ASSUME Control, Lineage, Books, Telling, Booked, Reported, pc = "publish",
         finals.spectral.converged
  PROVE  Reportable(Run)
<1> DEFINE result == HybridResult(Run)
<1>1. Len(Run.source.rows) = Len(Run.log.rows)
  BY LogsAgree, RunIs
<1>2. FinalFitsReportable(Run)
  BY RunIs DEF FinalFitsReportable, Reported
<1>3. result.counts = QueueCounts(queue) /\ result.directives = DirectiveRefs(directives)
  BY ResultIs, RunIs
<1> HIDE DEF result
<1>4. QueueCounts(queue) = CountsOf(LedgerStates(ledger))
  BY DEF QueueCounts, Telling, Accounts, NoUse
<1>5. SumFunction(QueueCounts(queue)) = ProposalsOf(DirectiveRefs(directives))
  BY CountsAddUp, ProposalsAre
<1>6. /\ result.counts = CountsOf(LedgerStates(Run.ledger))
      /\ SumFunction(result.counts) = ProposalsOf(result.directives)
  BY <1>3, <1>4, <1>5, RunIs
<1> QED BY <1>1, <1>2, <1>6 DEF Reportable, result

\* What validate_hybrid_result asks of the references.
LEMMA RefsPass ==
  ASSUME Control, Lineage, Books, Scoring, PlansTold, Booked, Reported, pc = "publish"
  PROVE  LET result == HybridResult(Run)
         IN  /\ SnapshotRefsSound(result) /\ ScoreRefsSound(result)
             /\ PlanRefsSound(result) /\ ReceiptRefsSound(result)
<1> DEFINE result == HybridResult(Run)
           taken == SnapshotRefs(snapshots)
<1>1. /\ result.snapshots = taken /\ result.scores = ScoreRefs(scores)
      /\ result.plans = PlanRefs(plans) /\ result.directives = DirectiveRefs(directives)
      /\ result.receipts = ReceiptRefs(receipts)
  BY ResultIs, RunIs
<1>2. result.finalStep = LogEnd
  BY ResultIs, RunIs, LogsAgree
<1> HIDE DEF result
<1>3. /\ DOMAIN taken = DOMAIN snapshots
      /\ \A i \in DOMAIN snapshots : taken[i].cutoff = snapshots[i].cutoff
      /\ Increasing(Column(taken, "cutoff"))
      /\ \A i \in DOMAIN taken : taken[i].cutoff <= LogEnd
  BY SnapshotRefsPass
<1> HIDE DEF taken
<1>4. SnapshotRefsSound(result)
  BY <1>1, <1>2, <1>3 DEF SnapshotRefsSound
<1>5. PlanRefsSound(result)
  BY <1>1, <1>2, PlanRefsPass DEF PlanRefsSound
<1>6. ScoreRefsSound(result)
  <2> DEFINE scored == ScoreRefs(scores)
  <2>1. /\ \A i \in DOMAIN scored :
             /\ \E k \in DOMAIN snapshots : snapshots[k].cutoff = scored[i].snapshot
             /\ Head(scored[i].steps) > scored[i].snapshot /\ Increasing(scored[i].steps)
        /\ \A i, j \in DOMAIN scored : i # j => scored[i] # scored[j]
    BY ScoreRefsPass
  <2> HIDE DEF scored
  <2>2. result.scores = scored
    BY <1>1 DEF scored
  <2>3. ASSUME NEW i \in DOMAIN scored
        PROVE  \E k \in DOMAIN taken : taken[k].cutoff = scored[i].snapshot
                                       /\ Head(scored[i].steps) > taken[k].cutoff
    BY <1>3, <2>1
  <2> QED BY <1>1, <2>1, <2>2, <2>3 DEF ScoreRefsSound
<1>7. ReceiptRefsSound(result)
  <2> DEFINE refs == DirectiveRefs(directives)
             issued == {refs[i].cutoff : i \in DOMAIN refs}
  <2>1. /\ issued = Issued /\ Cardinality(issued) = Len(refs)
        /\ {r.directive : r \in ReceiptRefs(receipts)} = issued
        /\ Cardinality(ReceiptRefs(receipts)) = Cardinality(issued)
    BY ReceiptRefsPass
  <2>2. Issued \subseteq {taken[k].cutoff : k \in DOMAIN taken}
    <3> SUFFICES ASSUME NEW c \in Issued PROVE \E k \in DOMAIN taken : taken[k].cutoff = c
      OBVIOUS
    <3>1. PICK i \in DOMAIN directives : directives[i].cutoff = c
      BY DEF Issued
    <3>2. PICK j \in DOMAIN snapshots : snapshots[j].cutoff = c
      BY <3>1 DEF Books
    <3> QED BY <1>3, <3>2
  <2>3. /\ {result.directives[i].cutoff : i \in DOMAIN result.directives} = Issued
        /\ Len(result.directives) = Cardinality(Issued)
    BY <1>1, <2>1
  <2>4. {r.directive : r \in result.receipts} = Issued
        /\ Cardinality(result.receipts) = Cardinality(Issued)
    BY <1>1, <2>1
  <2>5. Issued \subseteq {result.snapshots[k].cutoff : k \in DOMAIN result.snapshots}
    BY <1>1, <2>2
  <2> HIDE DEF refs, issued
  <2> QED BY <2>3, <2>4, <2>5 DEF ReceiptRefsSound
<1> QED BY <1>4, <1>5, <1>6, <1>7 DEF result

\* The audit of a run whose estimators' outputs were accepted finds nothing.
LEMMA AuditIsPassed ==
  ASSUME Kit, Reported, pc = "publish", finals.spectral.converged
  PROVE  AuditPasses(Run)
<1> DEFINE result == HybridResult(Run)
<1>1. /\ Control /\ Lineage /\ Books /\ Scoring /\ Telling /\ PlansTold /\ Booked /\ Grounded
  BY DEF Kit
<1>2. LedgerSummaryAccepted(Run.ledger)
  BY <1>1, RunIs DEF Booked
<1>3. Reportable(Run)
  BY <1>1, RunIsReportable
<1>4. /\ SnapshotRefsSound(result) /\ ScoreRefsSound(result)
      /\ PlanRefsSound(result) /\ ReceiptRefsSound(result)
  BY <1>1, RefsPass
<1>5. ClaimsSound(result, Run)
  BY <1>3, ResultIs DEF ClaimsSound, Reportable
<1>6. LogsSound(result, Run)
  BY <1>1, ResultIs, RunIs, LogsAgree DEF LogsSound
<1>7. FinalsSound(result, Run)
  BY <1>1, ResultIs, RunIs DEF FinalsSound, Reported
<1>8. LedgerSound(result, Run)
  BY <1>3, ResultIs DEF LedgerSound, Reportable
<1>9. RefsSound(result, Run)
  BY ResultIs DEF RefsSound
<1>10. UsesBound(Run)
  BY <1>1, UsesAreBound
<1>11. ResultAccepted(result, Run)
  BY <1>4, <1>5, <1>6, <1>7, <1>8, <1>9, <1>10 DEF ResultAccepted
<1> QED BY <1>2, <1>3, <1>11 DEF AuditPasses

\* No step is the one at which a check fires.
LEMMA ChecksNext ==
  ASSUME Kit, Reported, ChecksNeverFire, [Next]_vars
  PROVE  ChecksNeverFire'
<1> USE DEF ChecksNeverFire
<1>1. CASE StartRefused \/ Start \/ Plan \/ NextStation \/ FinalFits \/ UNCHANGED vars
  BY <1>1 DEF StartRefused, Start, Plan, NextStation, FinalFits, vars
<1>2. CASE ReplayStation
  BY <1>2, ReplayPasses DEF Kit
<1>3. CASE Score
  BY <1>3, BookedScore DEF Kit
<1>4. CASE Fit
  <2>1. pc' = AfterFit
    BY <1>4, BookedFit DEF Kit
  <2> QED BY <2>1 DEF AfterFit
<1>5. CASE FinalPF
  BY <1>5, FinalPasses DEF Kit
<1>6. CASE Publish
  <2>1. pc = "publish" /\ finals.spectral.converged
    BY <1>6 DEF Publish
  <2>2. AuditPasses(Run)
    BY <2>1, AuditIsPassed
  <2>3. pc' = "published"
    BY <1>6, <2>2 DEF Publish
  <2> QED BY <2>3
<1>7. CASE Discard \/ Kill \/ Rerun
  BY <1>7 DEF Discard, Kill, Rerun
<1> QED BY <1>1, <1>2, <1>3, <1>4, <1>5, <1>6, <1>7 DEF Next

\* The checks the controller makes of its own artifacts, scheduler, books and
\* report never fire: a run whose estimators' outputs were all accepted is
\* published (controller.py:477-684, ledger.py:228, validators.py:2320).
THEOREM OwnChecksPass == Spec => []ChecksNeverFire
<1>1. Init => Reported /\ ChecksNeverFire
  <2> SUFFICES ASSUME Init PROVE Reported /\ ChecksNeverFire
    OBVIOUS
  <2>1. FreshMemory /\ Unfinished
    BY DEF Init, Unfinished
  <2> QED BY <2>1, ReportedFresh DEF Init, ChecksNeverFire
<1>2. Kit /\ Reported /\ ChecksNeverFire /\ [Next]_vars => Reported' /\ ChecksNeverFire'
  BY ReportedNext, ChecksNext DEF Kit
<1> QED BY <1>1, <1>2, KitInvariance, PTL DEF Spec

=============================================================================
