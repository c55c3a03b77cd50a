--------------------------- MODULE StationLogProofs ---------------------------
(***************************************************************************)
(* Facts about any valid log and any policies: what a fold over a sequence *)
(* computes step by step, that a verdict follows from its evidence however *)
(* the evidence came in, that the blocks of a station are all new to a     *)
(* candidate that has seen only stations before it, and that the scheduler *)
(* keeps its types over a station.                                         *)
(***************************************************************************)
EXTENDS StationLog, SequenceTheorems, FiniteSetTheorems, WellFoundedInduction, TLAPS

\* A nonempty set of natural numbers has a least one: what stands in for an
\* induction over positions.
LEMMA Least ==
  ASSUME NEW T, T \subseteq Nat, T # {}
  PROVE  \E x \in T : \A y \in T : x <= y
<1>1. IsWellFoundedOn(OpToRel(<, Nat), Nat)
  BY NatLessThanWellFounded
<1>2. PICK x \in T : \A y \in T : ~(<<y, x>> \in OpToRel(<, Nat))
  BY <1>1, WFMin
<1>3. \A y \in T : <<y, x>> \in OpToRel(<, Nat) <=> y < x
  BY DEF OpToRel
<1>4. \A y \in T : ~(y < x)
  BY <1>2, <1>3, Zenon
<1>5. \A y \in T : x <= y
  BY <1>4
<1> QED BY <1>5

\* An element that bounds a set is its maximum.
LEMMA MaxIs ==
  ASSUME NEW s, NEW n \in s, \A m \in s : m \in Int /\ m <= n
  PROVE  Max(s) = n
BY DEF Max

\* A nonempty set of positions has a maximum.
LEMMA MaxOfRange ==
  ASSUME NEW n \in Nat, NEW s \in SUBSET (1..n), s # {}
  PROVE  Max(s) \in s /\ \A y \in s : y <= Max(s)
<1> DEFINE Above == {k \in 0..n : \A y \in s : y <= k}
<1>1. n \in Above /\ Above \subseteq Nat
  OBVIOUS
<1>2. PICK k \in Above : \A l \in Above : k <= l
  BY <1>1, Least
<1>3. k # 0
  <2>1. PICK y \in s : TRUE
    OBVIOUS
  <2>2. y >= 1 /\ y <= k
    BY <1>2
  <2> QED BY <2>2
<1>4. k - 1 \notin Above /\ k - 1 \in 0..n
  BY <1>2, <1>3
<1>5. k \in s /\ \A y \in s : y \in Int /\ y <= k
  BY <1>2, <1>4
<1> QED BY <1>5, MaxIs

\* What the recursion of a fold over 1..n, from c on, says of its values.
IsFold(n, c, F, iter) ==
  \A s \in SUBSET (1..n) :
    iter[s] = IF s = {} THEN c ELSE F[<<Max(s), iter[s \ {Max(s)}]>>]

\* A fold of the typed steps F over the subsets of 1..n exists.
LEMMA FoldExists ==
  ASSUME NEW n \in Nat, NEW C, NEW c \in C, NEW F \in [(1..n) \X C -> C]
  PROVE  \E iter \in [SUBSET (1..n) -> C] : IsFold(n, c, F, iter)
<1> DEFINE Folds(m, iter) ==
             /\ iter \in [SUBSET (1..m) -> C]
             /\ iter[{}] = c
             /\ \A s \in SUBSET (1..m) : \A x \in s :
                  (\A y \in s : y <= x) => iter[s] = F[<<x, iter[s \ {x}]>>]
           Bad == {m \in 0..n : ~\E iter : Folds(m, iter)}
<1>1. Bad = {}
  <2> SUFFICES ASSUME Bad # {} PROVE FALSE
    OBVIOUS
  <2>0. Bad \subseteq Nat
    OBVIOUS
  <2>1. PICK m \in Bad : \A k \in Bad : m <= k
    <3> HIDE DEF Bad
    <3> QED BY <2>0, Least
  <2>2. 0 \notin Bad
    <3>1. Folds(0, [s \in SUBSET (1..0) |-> c])
      OBVIOUS
    <3> HIDE DEF Folds
    <3> QED BY <3>1
  <2>3. m - 1 \in 0..n /\ m - 1 \notin Bad /\ m \in 1..n
    <3>1. m \in 0..n
      OBVIOUS
    <3> HIDE DEF Bad
    <3> QED BY <2>1, <2>2, <3>1
  <2>4. PICK iter : Folds(m - 1, iter)
    <3> HIDE DEF Folds
    <3> QED BY <2>3
  <2> DEFINE more == [s \in SUBSET (1..m) |->
                        IF m \in s THEN F[<<m, iter[s \ {m}]>>] ELSE iter[s]]
  <2>5. \A s \in SUBSET (1..m) : s \ {m} \in SUBSET (1..(m - 1)) /\ (m \notin s => s = s \ {m})
    BY <2>3
  <2>6. more \in [SUBSET (1..m) -> C]
    BY <2>3, <2>4, <2>5
  <2>7. more[{}] = c
    BY <2>4
  <2>8. ASSUME NEW s \in SUBSET (1..m), NEW x \in s, \A y \in s : y <= x
        PROVE  more[s] = F[<<x, more[s \ {x}]>>]
    <3>1. CASE m \in s
      <4>1. x = m
        BY <2>3, <2>8, <3>1
      <4>2. s \ {m} \in SUBSET (1..m) /\ m \notin s \ {m}
        OBVIOUS
      <4> QED BY <3>1, <4>1, <4>2
    <3>2. CASE m \notin s
      <4>1. s \in SUBSET (1..(m - 1)) /\ s \ {x} \in SUBSET (1..m) /\ m \notin s \ {x}
        BY <2>5, <3>2
      <4> QED BY <2>4, <2>8, <3>2, <4>1
    <3> QED BY <3>1, <3>2
  <2>9. Folds(m, more)
    BY <2>6, <2>7, <2>8
  <2> HIDE DEF Folds
  <2> QED BY <2>1, <2>9
<1>2. PICK iter : Folds(n, iter)
  <2> HIDE DEF Folds
  <2> QED BY <1>1
<1>3. ASSUME NEW s \in SUBSET (1..n), s # {}
      PROVE  iter[s] = F[<<Max(s), iter[s \ {Max(s)}]>>]
  <2>1. Max(s) \in s /\ \A y \in s : y <= Max(s)
    BY <1>3, MaxOfRange
  <2> QED BY <1>2, <2>1
<1>4. IsFold(n, c, F, iter)
  BY <1>2, <1>3 DEF IsFold
<1> QED BY <1>2, <1>4

\* The fold over a prefix of a sequence's domain.
LEMMA PrefixOfDomain ==
  ASSUME NEW i \in Nat \ {0}
  PROVE  Max(1..i) = i /\ (1..i) \ {i} = 1..(i - 1) /\ 1..i # {}
<1>1. i \in 1..i /\ \A m \in 1..i : m \in Int /\ m <= i
  OBVIOUS
<1>2. Max(1..i) = i
  BY <1>1, MaxIs, Zenon
<1> QED BY <1>1, <1>2

\* The sum of the ratios, prefix by prefix.
LEMMA SumFold ==
  ASSUME NEW evidence \in Seq(Evidence)
  PROVE  \E f \in [0..Len(evidence) -> Int] :
           /\ f[0] = 0
           /\ \A i \in 1..Len(evidence) : f[i] = f[i - 1] + evidence[i].llr
           /\ SumOf(evidence) = f[Len(evidence)]
<1> DEFINE n == Len(evidence)
           F == [x \in (1..n) \X Int |-> x[2] + evidence[x[1]].llr]
           Step(s, iter) == IF s = {} THEN 0
                            ELSE iter[s \ {Max(s)}] + evidence[Max(s)].llr
           Folds(iter) == iter = [s \in SUBSET DOMAIN evidence |-> Step(s, iter)]
           it == CHOOSE iter : Folds(iter)
           f == [i \in 0..n |-> it[1..i]]
<1>1. SumOf(evidence) = it[DOMAIN evidence]
  BY DEF SumOf, FoldLeft, MapThenFoldSet
<1>2. n \in Nat /\ DOMAIN evidence = 1..n /\ \A i \in 1..n : evidence[i].llr \in Int
  <2>1. \A i \in 1..n : evidence[i] \in Evidence
    OBVIOUS
  <2> QED BY <2>1 DEF Evidence
<1>3. Folds(it)
  <2>1. F \in [(1..n) \X Int -> Int]
    BY <1>2
  <2>2. PICK iter \in [SUBSET (1..n) -> Int] : IsFold(n, 0, F, iter)
    <3>1. 0 \in Int
      OBVIOUS
    <3> HIDE DEF F, n
    <3> QED BY <1>2, <2>1, <3>1, FoldExists, Zenon
  <2>3. ASSUME NEW s \in SUBSET (1..n), s # {}
        PROVE  F[<<Max(s), iter[s \ {Max(s)}]>>] = iter[s \ {Max(s)}] + evidence[Max(s)].llr
    <3>1. Max(s) \in 1..n
      BY <1>2, <2>3, MaxOfRange
    <3>2. iter[s \ {Max(s)}] \in Int
      BY <2>2
    <3> QED BY <3>1, <3>2
  <2>4. Folds(iter)
    BY <1>2, <2>2, <2>3 DEF IsFold
  <2> HIDE DEF Folds
  <2> QED BY <2>4
<1> HIDE DEF it, n
<1>3a. \A s \in SUBSET (1..n) : it[s] = Step(s, it)
  BY <1>2, <1>3
<1>4. f[0] = 0
  <2>1. 1..0 = {} /\ 0 \in 0..n
    BY <1>2
  <2> QED BY <1>3a, <2>1
<1>5. ASSUME NEW i \in 1..n PROVE f[i] = f[i - 1] + evidence[i].llr
  <2>1. Max(1..i) = i /\ (1..i) \ {i} = 1..(i - 1) /\ 1..i # {}
    BY PrefixOfDomain
  <2>2. it[1..i] = Step(1..i, it)
    BY <1>2, <1>3a, 1..i \in SUBSET (1..n)
  <2>3. i \in 0..n /\ i - 1 \in 0..n
    BY <1>2
  <2> QED BY <2>1, <2>2, <2>3
<1>6. f \in [0..n -> Int]
  <2> DEFINE Bad == {i \in 0..n : f[i] \notin Int}
  <2> HIDE DEF f
  <2> SUFFICES Bad = {}
    BY DEF f
  <2> SUFFICES ASSUME Bad # {} PROVE FALSE
    OBVIOUS
  <2>1. PICK i \in Bad : \A j \in Bad : i <= j
    BY <1>2, Least, Bad \subseteq Nat
  <2>2. i # 0 /\ i \in 1..n /\ i - 1 \in 0..n
    BY <1>2, <1>4, <2>1
  <2>3. f[i - 1] \in Int
    BY <1>2, <2>1, <2>2
  <2>4. f[i] \in Int
    <3>1. f[i] = f[i - 1] + evidence[i].llr /\ evidence[i].llr \in Int
      BY <1>2, <1>5, <2>2
    <3> QED BY <2>3, <3>1
  <2> QED BY <2>4, <2>1
<1>7. SumOf(evidence) = f[n]
  BY <1>1, <1>2
<1> HIDE DEF f
<1> QED BY <1>4, <1>5, <1>6, <1>7 DEF n
\* Two runs of the same steps from the same start end alike.
LEMMA SameSteps ==
  ASSUME NEW n \in Nat, NEW f, NEW g, f[0] = g[0],
         \A i \in 1..n : f[i - 1] = g[i - 1] => f[i] = g[i]
  PROVE  f[n] = g[n]
<1> DEFINE Bad == {i \in 0..n : f[i] # g[i]}
<1> SUFFICES ASSUME Bad # {} PROVE FALSE
  OBVIOUS
<1>1. PICK i \in Bad : \A j \in Bad : i <= j
  BY Least, Bad \subseteq Nat
<1>2. i # 0 /\ i \in 1..n /\ i - 1 \in 0..n
  BY <1>1
<1>3. f[i - 1] = g[i - 1]
  BY <1>1, <1>2
<1> QED BY <1>1, <1>2, <1>3

\* One more block adds its ratio to the sum.
LEMMA SumAppend ==
  ASSUME NEW evidence \in Seq(Evidence), NEW e \in Evidence
  PROVE  /\ SumOf(evidence) \in Int
         /\ SumOf(Append(evidence, e)) = SumOf(evidence) + e.llr
<1> DEFINE n == Len(evidence)
           more == Append(evidence, e)
<1>1. n \in Nat /\ more \in Seq(Evidence) /\ Len(more) = n + 1 /\ more[n + 1] = e
      /\ \A i \in 1..n : more[i] = evidence[i]
  OBVIOUS
<1>2. PICK f \in [0..n -> Int] :
        /\ f[0] = 0
        /\ \A i \in 1..n : f[i] = f[i - 1] + evidence[i].llr
        /\ SumOf(evidence) = f[n]
  BY SumFold
<1>3. PICK g \in [0..Len(more) -> Int] :
        /\ g[0] = 0
        /\ \A i \in 1..Len(more) : g[i] = g[i - 1] + more[i].llr
        /\ SumOf(more) = g[Len(more)]
  BY <1>1, SumFold
<1> HIDE DEF more, n
<1>4. ASSUME NEW i \in 1..n, f[i - 1] = g[i - 1] PROVE f[i] = g[i]
  <2>1. i \in 1..Len(more) /\ more[i] = evidence[i]
    BY <1>1
  <2>2. f[i] = f[i - 1] + evidence[i].llr
    BY <1>2
  <2>3. g[i] = g[i - 1] + more[i].llr
    BY <1>3, <2>1
  <2> QED BY <1>4, <2>1, <2>2, <2>3
<1>5. f[n] = g[n]
  <2>1. f[0] = g[0]
    BY <1>2, <1>3
  <2> QED BY <1>1, <1>4, <2>1, SameSteps
<1>6. g[n + 1] = g[n] + e.llr
  <2>1. n + 1 \in 1..Len(more) /\ (n + 1) - 1 = n
    BY <1>1
  <2> QED BY <1>1, <1>3, <2>1
<1>7. f[n] \in Int
  BY <1>1, <1>2
<1>8. SumOf(more) = SumOf(evidence) + e.llr
  <2>1. SumOf(more) = g[n + 1] /\ SumOf(evidence) = f[n]
    BY <1>1, <1>2, <1>3, Zenon
  <2> QED BY <1>5, <1>6, <2>1
<1>9. SumOf(evidence) \in Int
  BY <1>2, <1>7
<1> QED BY <1>8, <1>9 DEF more

\* No evidence sums to nothing.
LEMMA SumEmpty == SumOf(<<>>) = 0
<1>1. <<>> \in Seq(Evidence) /\ Len(<<>>) = 0
  OBVIOUS
<1> QED BY <1>1, SumFold

-----------------------------------------------------------------------------
(* Candidates *)

\* Corroborating keeps the types and only grows the evidence.
LEMMA CorroboratedIs ==
  ASSUME NEW c \in Candidates, NEW e \in Evidence
  PROVE  /\ Corroborated(c, e) \in Candidates
         /\ Corroborated(c, e).cutoff = c.cutoff
         /\ Corroborated(c, e).evidence = Append(c.evidence, e)
         /\ Corroborated(c, e).sum = c.sum + e.llr
         /\ Corroborated(c, e).state = StateFor(Append(c.evidence, e), c.sum + e.llr)
<1> DEFINE s == StateFor(Append(c.evidence, e), c.sum + e.llr)
<1>1. s \in {"pending", "verified", "quarantined"}
  BY DEF StateFor
<1>2. Append(c.evidence, e) \in Seq(Evidence) /\ c.sum + e.llr \in Int
  <2>1. c.evidence \in Seq(Evidence) /\ c.sum \in Int /\ e.llr \in Int
    BY DEF Candidates, Evidence
  <2> QED BY <2>1
<1> HIDE DEF s
<1> QED BY <1>1, <1>2 DEF Corroborated, Candidates, s

\* What the minima ask of evidence, one field at a time or read off at once.
LEMMA EnoughIsObservable ==
  ASSUME NEW evidence
  PROVE  Enough(evidence) <=> Observable(evidence)
BY DEF Enough, Observable, Distinct

\* A verdict is that of the whole evidence, and the parts before it were not
\* decisive.
LEMMA JustifiedStep ==
  ASSUME NEW c \in Candidates, NEW e \in Evidence,
         c.state = "pending", c.sum = SumOf(c.evidence), Justified(c)
  PROVE  /\ Corroborated(c, e).sum = SumOf(Corroborated(c, e).evidence)
         /\ Justified(Corroborated(c, e))
<1> DEFINE d == Corroborated(c, e)
           n == Len(c.evidence)
<1>1. c.evidence \in Seq(Evidence) /\ c.sum \in Int
  BY DEF Candidates
<1>2. d.evidence = Append(c.evidence, e) /\ d.sum = c.sum + e.llr
      /\ d.state = StateFor(d.evidence, d.sum)
  BY CorroboratedIs
<1>3. SumOf(d.evidence) = d.sum /\ d.sum \in Int
  <2>1. e.llr \in Int
    BY DEF Evidence
  <2> QED BY <1>1, <1>2, <2>1, SumAppend
<1>4. Len(d.evidence) = n + 1 /\ n \in Nat
  BY <1>1, <1>2
<1>5. \A i \in 0..n : SubSeq(d.evidence, 1, i) = SubSeq(c.evidence, 1, i)
  BY <1>1, <1>2
<1>6. SubSeq(c.evidence, 1, n) = c.evidence
  BY <1>1
<1>7. Enough(c.evidence) => SumOf(c.evidence) \in (Reject + 1)..(Support - 1)
  BY <1>1, ThresholdsAssumption DEF Justified
<1> HIDE DEF d
<1>8. (d.state = "verified") <=> (Enough(d.evidence) /\ SumOf(d.evidence) >= Support)
  BY <1>2, <1>3, EnoughIsObservable, ThresholdsAssumption DEF StateFor
<1>9. (d.state = "quarantined") <=> (Enough(d.evidence) /\ SumOf(d.evidence) <= Reject)
  BY <1>2, <1>3, EnoughIsObservable, ThresholdsAssumption DEF StateFor
<1>10. ASSUME NEW i \in 0..n, Enough(SubSeq(d.evidence, 1, i))
       PROVE  SumOf(SubSeq(d.evidence, 1, i)) \in (Reject + 1)..(Support - 1)
  <2>1. CASE i = n
    BY <1>4, <1>5, <1>6, <1>7, <1>10, <2>1
  <2>2. CASE i # n
    <3>1. i \in 0..(n - 1)
      BY <1>4, <2>2
    <3>2. SubSeq(d.evidence, 1, i) = SubSeq(c.evidence, 1, i)
      BY <1>5
    <3> QED BY <1>10, <3>1, <3>2 DEF Justified
  <2> QED BY <2>1, <2>2
<1> QED BY <1>3, <1>4, <1>8, <1>9, <1>10 DEF Justified, d

\* A new candidate has no evidence, which is never enough.
LEMMA JustifiedNew ==
  ASSUME NEW cutoff \in Nat
  PROVE  LET c == NewCandidate(cutoff)
         IN  c \in Candidates /\ c.sum = SumOf(c.evidence) /\ Justified(c)
<1>1. ~Enough(<<>>)
  BY MinimaAssumption DEF Enough
<1>2. NewCandidate(cutoff) \in Candidates
  BY DEF NewCandidate, Candidates
<1> QED BY <1>1, <1>2, SumEmpty DEF NewCandidate, Justified

\* Scoring a pending candidate on a single block is corroborating it.
LEMMA ScoredOnce ==
  ASSUME NEW c, c.state = "pending", NEW e
  PROVE  Scored(c, <<e>>) = Corroborated(c, e)
<1> DEFINE Folds(iter) ==
             iter = [s \in SUBSET DOMAIN <<e>> |->
                       IF s = {} THEN c ELSE Corroborated(iter[s \ {Max(s)}], <<e>>[Max(s)])]
           some == [s \in SUBSET {1} |-> IF s = {} THEN c ELSE Corroborated(c, e)]
           it == CHOOSE iter : Folds(iter)
<1>1. FoldLeft(Corroborated, c, <<e>>) = it[DOMAIN <<e>>]
  BY DEF FoldLeft, MapThenFoldSet
<1>2. DOMAIN <<e>> = {1} /\ <<e>>[1] = e /\ Max({1}) = 1 /\ {1} \ {1} = {}
  BY MaxIs
<1>3. \A s \in SUBSET {1} : s = {} \/ s = {1}
  OBVIOUS
<1>4. Folds(some)
  <2>1. ASSUME NEW s \in SUBSET {1}
        PROVE  some[s] = IF s = {} THEN c ELSE Corroborated(some[s \ {Max(s)}], <<e>>[Max(s)])
    <3>1. CASE s = {}
      BY <3>1
    <3>2. CASE s = {1}
      <4>1. s \ {Max(s)} = {} /\ <<e>>[Max(s)] = e
        BY <1>2, <3>2
      <4> QED BY <3>2, <4>1
    <3> QED BY <1>3, <3>1, <3>2
  <2> QED BY <1>2, <2>1
<1>5. Folds(it)
  <2> HIDE DEF Folds, some
  <2> QED BY <1>4
<1>6. it[{1}] = Corroborated(it[{}], e) /\ it[{}] = c
  <2> HIDE DEF it
  <2> QED BY <1>2, <1>5
<1> HIDE DEF it
<1> QED BY <1>1, <1>2, <1>6 DEF Scored

\* A fold over nothing is where it began.
LEMMA NoScores ==
  ASSUME NEW c
  PROVE  FoldLeft(Corroborated, c, <<>>) = c
<1> DEFINE Folds(iter) ==
             iter = [s \in SUBSET DOMAIN <<>> |->
                       IF s = {} THEN c ELSE Corroborated(iter[s \ {Max(s)}], <<>>[Max(s)])]
           it == CHOOSE iter : Folds(iter)
<1>1. FoldLeft(Corroborated, c, <<>>) = it[DOMAIN <<>>]
  BY DEF FoldLeft, MapThenFoldSet
<1>2. SUBSET DOMAIN <<>> = {{}} /\ DOMAIN <<>> = {}
  OBVIOUS
<1>3. Folds([s \in SUBSET DOMAIN <<>> |-> c])
  BY <1>2
<1>4. Folds(it)
  <2> HIDE DEF Folds
  <2> QED BY <1>3
<1>5. it[{}] = c
  <2> HIDE DEF it
  <2> QED BY <1>2, <1>4
<1> HIDE DEF it
<1> QED BY <1>1, <1>2, <1>5

\* The scores of a single block are rejected where the block is.
LEMMA RejectsOnce ==
  ASSUME NEW c, NEW e
  PROVE  Rejects(c, <<e>>) <=> c.state = "pending" /\ Reuses(c, e)
<1>2. DOMAIN <<e>> = {1} /\ SubSeq(<<e>>, 1, 1 - 1) = <<>> /\ <<e>>[1] = e
  OBVIOUS
<1>3. Rejects(c, <<e>>) <=>
        c.state = "pending" /\ Reuses(FoldLeft(Corroborated, c, SubSeq(<<e>>, 1, 1 - 1)), <<e>>[1])
  BY <1>2, Zenon DEF Rejects
<1> QED BY <1>2, <1>3, NoScores, Zenon

-----------------------------------------------------------------------------
(* The rows of a station *)

\* A station is an interval of rows that ends with its last one.
LEMMA StationIsInterval ==
  ASSUME NEW k \in DOMAIN Log
  PROVE  /\ Steps(k) \subseteq Nat /\ EndStep(k) \in Nat
         /\ EndStep(k) \in Steps(k) /\ \A m \in Steps(k) : m <= EndStep(k)
         /\ \E first \in Nat :
              /\ first <= EndStep(k) /\ Steps(k) = first..EndStep(k)
              /\ Cardinality(Steps(k)) = EndStep(k) - first + 1
<1>1. Steps(k) \subseteq Nat
  <2>1. \A i \in DOMAIN Log[k] : Log[k][i] \in Blocks
    BY LogAssumption
  <2> QED BY <2>1 DEF Steps, Blocks
<1>2. EndStep(k) \in Steps(k) /\ \A m \in Steps(k) : m <= EndStep(k)
  BY RowsAssumption DEF EndStep
<1>3. PICK first \in Steps(k) : \A m \in Steps(k) : first <= m
  BY <1>1, <1>2, Least
<1>4. Steps(k) = first..EndStep(k)
  <2>1. first..EndStep(k) \subseteq Steps(k)
    BY <1>2, <1>3, RowsAssumption
  <2>2. \A m \in Steps(k) : m \in Nat /\ first \in Nat /\ EndStep(k) \in Nat
                             /\ first <= m /\ m <= EndStep(k)
    BY <1>1, <1>2, <1>3
  <2>3. Steps(k) \subseteq first..EndStep(k)
    BY <2>2
  <2> QED BY <2>1, <2>3
<1>5. first \in Nat /\ EndStep(k) \in Nat /\ first <= EndStep(k)
  BY <1>1, <1>2, <1>3
<1>6. Cardinality(first..EndStep(k)) = EndStep(k) - first + 1
  BY <1>5, FS_Interval
<1> QED BY <1>1, <1>2, <1>4, <1>5, <1>6

\* The rows of a later station are later.
LEMMA LaterStation ==
  ASSUME NEW k \in DOMAIN Log, NEW l \in DOMAIN Log, k < l,
         NEW m \in Steps(k), NEW n \in Steps(l)
  PROVE  m < n
BY RowsAssumption

\* A block belongs to its station.
LEMMA BlockOfStation ==
  ASSUME NEW k \in DOMAIN Log, NEW i \in DOMAIN Log[k]
  PROVE  /\ Log[k][i] \in Blocks /\ Log[k][i].station = k
         /\ Log[k][i].steps # {} /\ Log[k][i].steps \subseteq Steps(k)
<1>1. Log[k][i] \in Blocks
  BY LogAssumption
<1> QED BY <1>1, BlocksAssumption DEF Steps

\* A pending candidate frozen at station s whose evidence is of other blocks,
\* none of them shared, takes a block of a later station.
LEMMA LaterBlockIsNew ==
  ASSUME NEW s \in DOMAIN Log, NEW k \in DOMAIN Log, s < k, NEW i \in DOMAIN Log[k],
         NEW c, c.state = "pending", c.cutoff = EndStep(s),
         NEW e, e.block = Log[k][i],
         \A h \in DOMAIN c.evidence :
           \E l \in DOMAIN Log : \E j \in DOMAIN Log[l] :
             /\ c.evidence[h].block = Log[l][j]
             /\ l < k \/ (l = k /\ j # i)
  PROVE  ~Reuses(c, e)
<1>1. /\ Log[k][i] \in Blocks /\ Log[k][i].station = k
      /\ Log[k][i].steps # {} /\ Log[k][i].steps \subseteq Steps(k)
  BY BlockOfStation
<1>2. ~\E n \in e.block.steps : n <= c.cutoff
  <2>1. EndStep(s) \in Steps(s) /\ EndStep(s) \in Nat
    BY StationIsInterval
  <2>2. \A n \in Steps(k) : EndStep(s) < n /\ n \in Nat
    <3>1. \A n \in Steps(k) : n \in Nat
      BY StationIsInterval
    <3> QED BY <2>1, <3>1, LaterStation
  <2> QED BY <1>1, <2>1, <2>2
<1>3. ASSUME NEW h \in DOMAIN c.evidence
      PROVE  c.evidence[h].block.steps \intersect e.block.steps = {}
  <2>0. PICK l \in DOMAIN Log :
          \E j \in DOMAIN Log[l] : /\ c.evidence[h].block = Log[l][j]
                                   /\ l < k \/ (l = k /\ j # i)
    OBVIOUS
  <2>1. PICK j \in DOMAIN Log[l] : /\ c.evidence[h].block = Log[l][j]
                                   /\ l < k \/ (l = k /\ j # i)
    BY <2>0
  <2>2. CASE l = k /\ j # i
    BY <2>1, <2>2, BlocksAssumption
  <2>3. CASE l < k
    <3>1. Log[l][j].steps \subseteq Steps(l)
      BY BlockOfStation
    <3>2. \A m \in Steps(l), n \in Steps(k) : m < n /\ m \in Nat /\ n \in Nat
      <4>1. Steps(l) \subseteq Nat /\ Steps(k) \subseteq Nat
        BY StationIsInterval
      <4> QED BY <2>3, <4>1, LaterStation
    <3> QED BY <1>1, <2>1, <3>1, <3>2
  <2> QED BY <2>1, <2>2, <2>3
<1> QED BY <1>1, <1>2, <1>3 DEF Reuses

-----------------------------------------------------------------------------
(* The scheduler *)

Signals == [step : Nat, station : Nat, complete : BOOLEAN, deviance : Nat, bins : Nat]

\* One signal keeps the types of the scheduler.
LEMMA ConsideredIs ==
  ASSUME NEW s \in SchedulerStates, NEW g \in Signals
  PROVE  Considered(Policy, s, g) \in SchedulerStates
<1>1. StreakAfter(Policy, s, g) \in Nat
  BY DEF StreakAfter, SchedulerStates
<1>2. CASE g.complete
  <2> DEFINE trigger == Triggers(Policy, s, g)
  <2>1. (IF trigger THEN s.completed + 1 ELSE s.lastTrigger) \in Nat \union {None}
    BY DEF SchedulerStates
  <2>2. (IF trigger THEN s.cutoffs \union {g.step} ELSE s.cutoffs) \in SUBSET Nat
    BY DEF SchedulerStates, Signals
  <2> HIDE DEF trigger
  <2>3. s.completed + 1 \in Nat /\ g.step \in Nat
    BY DEF SchedulerStates, Signals
  <2> QED BY <1>1, <1>2, <2>1, <2>2, <2>3 DEF Considered, SchedulerStates, trigger
<1>3. CASE ~g.complete
  <2>1. /\ g.step \in Nat /\ g.station \in Nat
        /\ s.deviance + g.deviance \in Nat /\ s.bins + g.bins \in Nat
    BY DEF SchedulerStates, Signals
  <2>2. Considered(Policy, s, g) =
          [s EXCEPT !.lastStep = g.step, !.open = g.station,
                    !.deviance = @ + g.deviance, !.bins = @ + g.bins]
    BY <1>3 DEF Considered
  <2> QED BY <2>1, <2>2 DEF SchedulerStates
<1> QED BY <1>2, <1>3

\* A run of signals keeps them too.
LEMMA SignalFold ==
  ASSUME NEW s \in SchedulerStates, NEW signals \in Seq(Signals)
  PROVE  FoldLeft(LAMBDA t, g : Considered(Policy, t, g), s, signals) \in SchedulerStates
<1> DEFINE n == Len(signals)
           F == [x \in (1..n) \X SchedulerStates |-> Considered(Policy, x[2], signals[x[1]])]
           Step(r, iter) == IF r = {} THEN s
                            ELSE Considered(Policy, iter[r \ {Max(r)}], signals[Max(r)])
           Folds(iter) == iter = [r \in SUBSET DOMAIN signals |-> Step(r, iter)]
           it == CHOOSE iter : Folds(iter)
           f == [i \in 0..n |-> it[1..i]]
<1>1. FoldLeft(LAMBDA t, g : Considered(Policy, t, g), s, signals) = it[DOMAIN signals]
  BY DEF FoldLeft, MapThenFoldSet
<1>2. n \in Nat /\ DOMAIN signals = 1..n /\ \A i \in 1..n : signals[i] \in Signals
  OBVIOUS
<1>3. Folds(it)
  <2>1. F \in [(1..n) \X SchedulerStates -> SchedulerStates]
    BY <1>2, ConsideredIs
  <2>2. PICK iter \in [SUBSET (1..n) -> SchedulerStates] : IsFold(n, s, F, iter)
    <3> HIDE DEF F, n
    <3> QED BY <1>2, <2>1, FoldExists, Zenon
  <2>3. ASSUME NEW r \in SUBSET (1..n), r # {}
        PROVE  F[<<Max(r), iter[r \ {Max(r)}]>>] = Step(r, iter)
    <3>1. Max(r) \in 1..n
      BY <1>2, <2>3, MaxOfRange
    <3>2. iter[r \ {Max(r)}] \in SchedulerStates
      BY <2>2
    <3> QED BY <2>3, <3>1, <3>2
  <2>4. Folds(iter)
    BY <1>2, <2>2, <2>3 DEF IsFold
  <2> HIDE DEF Folds
  <2> QED BY <2>4
<1> HIDE DEF it, n
<1>4. \A r \in SUBSET (1..n) : it[r] = Step(r, it)
  BY <1>2, <1>3
<1>5. f[0] = s
  <2>1. 1..0 = {} /\ 0 \in 0..n
    BY <1>2
  <2> QED BY <1>4, <2>1
<1>6. ASSUME NEW i \in 1..n PROVE f[i] = Considered(Policy, f[i - 1], signals[i])
  <2>1. Max(1..i) = i /\ (1..i) \ {i} = 1..(i - 1) /\ 1..i # {}
    BY PrefixOfDomain
  <2>2. it[1..i] = Step(1..i, it)
    BY <1>2, <1>4, 1..i \in SUBSET (1..n)
  <2>3. i \in 0..n /\ i - 1 \in 0..n
    BY <1>2
  <2> QED BY <2>1, <2>2, <2>3
<1>7. f[n] \in SchedulerStates
  <2> HIDE DEF f
  <2> DEFINE Bad == {i \in 0..n : f[i] \notin SchedulerStates}
  <2> SUFFICES ASSUME Bad # {} PROVE FALSE
    BY <1>2
  <2>1. PICK i \in Bad : \A j \in Bad : i <= j
    BY <1>2, Least, Bad \subseteq Nat
  <2>2. i # 0 /\ i \in 1..n /\ i - 1 \in 0..n
    BY <1>2, <1>5, <2>1
  <2>3. f[i - 1] \in SchedulerStates
    BY <1>2, <2>1, <2>2
  <2> QED BY <1>2, <1>6, <2>1, <2>2, <2>3, ConsideredIs
<1>8. n \in 0..n
  BY <1>2
<1> QED BY <1>1, <1>2, <1>7, <1>8

\* The scheduler keeps its types over a station, whatever the filter returns.
LEMMA AfterStationIs ==
  ASSUME NEW s \in SchedulerStates, NEW k \in DOMAIN Log, NEW dev \in [Steps(k) -> Deviances]
  PROVE  /\ AfterStation(s, k, dev) \in SchedulerStates
         /\ AfterStation(s, k, dev).open = None
         /\ AfterStation(s, k, dev).lastStep = EndStep(k)
<1> DEFINE n == Cardinality(Steps(k))
           signals == SignalsOf(k, dev)
<1>1. PICK first \in Nat : /\ first <= EndStep(k) /\ Steps(k) = first..EndStep(k)
                          /\ n = EndStep(k) - first + 1
  BY StationIsInterval
<1>2. k \in Nat /\ EndStep(k) \in Nat /\ n \in Nat \ {0}
  BY <1>1, StationIsInterval, LogAssumption
<1>3. /\ signals \in Seq(Signals) /\ Len(signals) = n
      /\ signals[n].complete /\ signals[n].step = EndStep(k)
  <2>1. EndStep(k) - n + 1 = first
    BY <1>1, <1>2
  <2>2. \A i \in 1..n : first + i - 1 \in Steps(k) /\ first + i - 1 \in Nat
    BY <1>1, <1>2
  <2>3. \A i \in 1..n : dev[first + i - 1] \in Nat
    BY <2>2, DeviancesAssumption
  <2> DEFINE Signal(i) == [step |-> first + i - 1, station |-> k, complete |-> i = n,
                           deviance |-> dev[first + i - 1], bins |-> 1]
  <2>4. signals = [i \in 1..n |-> Signal(i)]
    BY <2>1 DEF SignalsOf
  <2>5. \A i \in 1..n : Signal(i) \in Signals
    BY <1>2, <2>2, <2>3 DEF Signals
  <2>6. Signal(n).complete /\ Signal(n).step = EndStep(k)
    <3>1. first + n - 1 = EndStep(k)
      BY <1>1, <1>2
    <3>2. Signal(n).complete
      OBVIOUS
    <3>3. Signal(n).step = first + n - 1
      OBVIOUS
    <3> QED BY <3>1, <3>2, <3>3, Zenon
  <2> HIDE DEF Signal, n, signals
  <2>7. signals \in Seq(Signals) /\ Len(signals) = n
    BY <1>2, <2>4, <2>5
  <2>8. n \in 1..n
    BY <1>2
  <2>9. signals[n] = Signal(n)
    BY <2>4, <2>8
  <2> QED BY <2>6, <2>7, <2>9
<1> HIDE DEF n, signals
<1>4. /\ Front(signals) \in Seq(Signals) /\ Last(signals) \in Signals
      /\ Last(signals).complete /\ Last(signals).step = EndStep(k)
  BY <1>2, <1>3 DEF Front, Last
<1>5. BeforeLast(s, k, dev) \in SchedulerStates
  BY <1>4, SignalFold DEF BeforeLast, signals
<1>6. /\ AfterStation(s, k, dev).open = None
      /\ AfterStation(s, k, dev).lastStep = EndStep(k)
  BY <1>4 DEF AfterStation, Considered, signals
<1> QED BY <1>4, <1>5, <1>6, ConsideredIs DEF AfterStation, signals

-----------------------------------------------------------------------------
(* Candidates *)

\* Finitely many candidates can ever be found.
LEMMA IdsFinite == IsFiniteSet(Ids)
<1> DEFINE pair == [c \in Ids |-> <<c.snapshot, c.name>>]
<1>1. IsFiniteSet(DOMAIN Log)
  <2>1. Len(Log) \in Nat /\ DOMAIN Log = 1..Len(Log)
    BY LogAssumption
  <2> QED BY <2>1, FS_Interval
<1>2. IsFiniteSet((DOMAIN Log) \X Names)
  BY <1>1, NamesAssumption, FS_Product
<1>3. pair \in [Ids -> (DOMAIN Log) \X Names]
  BY DEF Ids
<1>4. \A c, d \in Ids : pair[c] = pair[d] => c = d
  BY DEF Ids
<1>5. pair \in Injection(Ids, (DOMAIN Log) \X Names)
  BY <1>3, <1>4 DEF Injection, IsInjective
<1> QED BY <1>2, <1>5, FS_Injection

\* Their parts are numbers.
LEMMA IdsAre ==
  ASSUME NEW c \in Ids
  PROVE  c.snapshot \in DOMAIN Log /\ c.snapshot \in Nat \ {0} /\ c.name \in Nat \ {0}
<1>1. DOMAIN Log \subseteq Nat \ {0}
  <2>1. DOMAIN Log = 1..Len(Log)
    BY LogAssumption
  <2> QED BY <2>1
<1>2. c.snapshot \in DOMAIN Log /\ c.name \in Names
  BY DEF Ids
<1> QED BY <1>1, <1>2, NamesAssumption

-----------------------------------------------------------------------------
(* The evidence of a candidate *)

\* The evidence of a candidate of station s is the stations since, one block
\* each, and its verdict that of its evidence.
Evidenced(last, s, c) ==
  /\ c.sum = SumOf(c.evidence) /\ Justified(c)
  /\ Len(c.evidence) <= last - s
  /\ c.state = "pending" => Len(c.evidence) = last - s
  /\ \A i \in 1..Len(c.evidence) : c.evidence[i].block = Log[s + i][1]

\* A new block's score belongs to the evidence.
LEMMA ScoreIsEvidence ==
  ASSUME NEW k \in DOMAIN Log, Len(Log[k]) = 1, NEW llr \in Ratios
  PROVE  [block |-> Log[k][1], llr |-> llr] \in Evidence
<1>1. 1 \in DOMAIN Log[k]
  BY LogAssumption
<1> QED BY <1>1, BlockOfStation, RatiosAssumption DEF Evidence

\* What the next station makes of a candidate frozen at station s.
LEMMA EvidencedStep ==
  ASSUME NEW k \in DOMAIN Log, Len(Log[k]) = 1, NEW s \in 1..(k - 1), NEW c \in Candidates,
         c.state = "pending", Evidenced(k - 1, s, c), NEW llr \in Ratios
  PROVE  LET d == Corroborated(c, [block |-> Log[k][1], llr |-> llr])
         IN  d \in Candidates /\ Evidenced(k, s, d) /\ Len(d.evidence) = k - s
<1> DEFINE e == [block |-> Log[k][1], llr |-> llr]
           d == Corroborated(c, e)
<1>1. e \in Evidence /\ e.block = Log[k][1]
  BY ScoreIsEvidence
<1> HIDE DEF e
<1>2. /\ d \in Candidates /\ d.evidence = Append(c.evidence, e)
  BY <1>1, CorroboratedIs
<1>3. d.sum = SumOf(d.evidence) /\ Justified(d)
  BY <1>1, JustifiedStep DEF Evidenced
<1>4. c.evidence \in Seq(Evidence) /\ Len(c.evidence) = (k - 1) - s /\ k \in Nat
  BY LogAssumption DEF Evidenced, Candidates
<1> HIDE DEF d
<1>5. Len(d.evidence) = k - s
  BY <1>2, <1>4
<1>6. ASSUME NEW i \in 1..Len(d.evidence) PROVE d.evidence[i].block = Log[s + i][1]
  <2>1. CASE i = k - s
    <3>1. i = Len(c.evidence) + 1 /\ s + i = k
      BY <1>4, <2>1
    <3> QED BY <1>1, <1>2, <1>4, <3>1
  <2>2. CASE i # k - s
    <3>1. i \in 1..Len(c.evidence)
      BY <1>4, <1>5, <2>2
    <3> QED BY <1>2, <1>4, <3>1 DEF Evidenced
  <2> QED BY <2>1, <2>2
<1>7. Len(d.evidence) <= k - s
  BY <1>4, <1>5
<1> QED BY <1>2, <1>3, <1>5, <1>6, <1>7 DEF Evidenced, d, e

\* A resolved candidate stays as it is.
LEMMA EvidencedStays ==
  ASSUME NEW k \in DOMAIN Log, NEW s \in 1..(k - 1), NEW c \in Candidates,
         c.state # "pending", Evidenced(k - 1, s, c)
  PROVE  Evidenced(k, s, c)
<1>1. k \in Nat /\ Len(c.evidence) \in Nat
  BY LogAssumption DEF Candidates
<1> QED BY <1>1 DEF Evidenced

\* A new candidate has no evidence yet.
LEMMA EvidencedNew ==
  ASSUME NEW k \in DOMAIN Log
  PROVE  NewCandidate(EndStep(k)) \in Candidates /\ Evidenced(k, k, NewCandidate(EndStep(k)))
<1>1. k \in Nat /\ EndStep(k) \in Nat
  BY LogAssumption, StationIsInterval
<1> QED BY <1>1, JustifiedNew DEF Evidenced, NewCandidate

-----------------------------------------------------------------------------
(* The checkpoint *)

\* A sequence with one element and then m more behind it.
Extends(old, x, steps, cp) ==
  /\ Len(old) \in Nat /\ Len(steps) \in Nat
  /\ Len(cp) = Len(old) + 1 + Len(steps) /\ DOMAIN cp = 1..Len(cp)
  /\ \A i \in 1..Len(old) : cp[i] = old[i]
  /\ cp[Len(old) + 1] = x
  /\ \A i \in 1..Len(steps) : cp[Len(old) + 1 + i] = steps[i]
  /\ \A i \in DOMAIN cp : \/ i \in 1..Len(old)
                         \/ i = Len(old) + 1
                         \/ \E j \in 1..Len(steps) : i = Len(old) + 1 + j

\* What concatenation gives.
LEMMA Extended ==
  ASSUME NEW S, NEW old \in Seq(S), NEW x \in S, NEW steps \in Seq(S)
  PROVE  LET cp == old \o <<x>> \o steps
         IN  cp \in Seq(S) /\ Extends(old, x, steps, cp)
<1> DEFINE cp == old \o <<x>> \o steps
<1>1. <<x>> \in Seq(S) /\ Len(<<x>>) = 1 /\ <<x>>[1] = x
  OBVIOUS
<1> DEFINE mid == old \o <<x>>
<1>2. mid \in Seq(S) /\ Len(mid) = Len(old) + 1 /\ mid[Len(old) + 1] = x
      /\ \A i \in 1..Len(old) : mid[i] = old[i]
  BY <1>1
<1> HIDE DEF mid
<1>3. /\ cp \in Seq(S) /\ Len(cp) = Len(mid) + Len(steps)
      /\ \A i \in 1..Len(mid) : cp[i] = mid[i]
      /\ \A i \in 1..Len(steps) : cp[Len(mid) + i] = steps[i]
  <2>1. cp = mid \o steps
    BY DEF mid
  <2> QED BY <1>2, <2>1
<1> HIDE DEF cp
<1>4. Len(old) \in Nat /\ Len(steps) \in Nat /\ DOMAIN cp = 1..Len(cp)
  BY <1>3
<1>5. \A i \in 1..(Len(old) + 1 + Len(steps)) :
        i \in 1..Len(old) \/ i = Len(old) + 1 \/ \E j \in 1..Len(steps) : i = Len(old) + 1 + j
  <2> SUFFICES ASSUME NEW i \in 1..(Len(old) + 1 + Len(steps)), i > Len(old) + 1
               PROVE  \E j \in 1..Len(steps) : i = Len(old) + 1 + j
    BY <1>4
  <2>1. i - (Len(old) + 1) \in 1..Len(steps) /\ i = Len(old) + 1 + (i - (Len(old) + 1))
    BY <1>4
  <2> QED BY <2>1
<1>6. \A i \in 1..Len(old) : cp[i] = old[i]
  BY <1>2, <1>3, <1>4
<1>7. cp[Len(old) + 1] = x
  BY <1>2, <1>3, <1>4
<1> QED BY <1>2, <1>3, <1>4, <1>5, <1>6, <1>7 DEF cp, Extends

=============================================================================
