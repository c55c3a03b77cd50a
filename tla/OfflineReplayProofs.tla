-------------------------- MODULE OfflineReplayProofs --------------------------
(***************************************************************************)
(* Theorems and proofs about OfflineReplay, for every valid log, every     *)
(* policy and every set of ratios.                                         *)
(*                                                                         *)
(* A candidate is scored once, on a whole artifact.  The invariant says,   *)
(* per snapshot and by whether the scoring loop has passed it, either that *)
(* its candidates are as they were registered or that they have used every *)
(* later block; and it says how far the checkpoint has come at each place  *)
(* of run().                                                               *)
(***************************************************************************)
EXTENDS OfflineReplay, StationLogProofs

-----------------------------------------------------------------------------
(* An artifact, block by block *)

\* Folding an artifact into a candidate goes through its prefixes.
LEMMA ArtifactFold ==
  ASSUME NEW c \in Candidates, NEW scores \in Seq(Evidence)
  PROVE  \E f \in [0..Len(scores) -> Candidates] :
           /\ f[0] = c
           /\ \A i \in 1..Len(scores) : f[i] = Corroborated(f[i - 1], scores[i])
           /\ FoldLeft(Corroborated, c, scores) = f[Len(scores)]
<1> DEFINE n == Len(scores)
           F == [x \in (1..n) \X Candidates |-> Corroborated(x[2], scores[x[1]])]
           Step(s, iter) == IF s = {} THEN c
                            ELSE Corroborated(iter[s \ {Max(s)}], scores[Max(s)])
           Folds(iter) == iter = [s \in SUBSET DOMAIN scores |-> Step(s, iter)]
           it == CHOOSE iter : Folds(iter)
           f == [i \in 0..n |-> it[1..i]]
<1>1. FoldLeft(Corroborated, c, scores) = it[DOMAIN scores]
  BY DEF FoldLeft, MapThenFoldSet
<1>2. n \in Nat /\ DOMAIN scores = 1..n /\ \A i \in 1..n : scores[i] \in Evidence
  OBVIOUS
<1>3. Folds(it)
  <2>1. F \in [(1..n) \X Candidates -> Candidates]
    BY <1>2, CorroboratedIs
  <2>2. PICK iter \in [SUBSET (1..n) -> Candidates] : IsFold(n, c, F, iter)
    <3> HIDE DEF F, n
    <3> QED BY <1>2, <2>1, FoldExists, Zenon
  <2>3. ASSUME NEW s \in SUBSET (1..n), s # {}
        PROVE  F[<<Max(s), iter[s \ {Max(s)}]>>] = Step(s, iter)
    <3>1. Max(s) \in 1..n
      BY <1>2, <2>3, MaxOfRange
    <3>2. iter[s \ {Max(s)}] \in Candidates
      BY <2>2
    <3> QED BY <2>3, <3>1, <3>2
  <2>4. Folds(iter)
    BY <1>2, <2>2, <2>3 DEF IsFold
  <2> HIDE DEF Folds
  <2> QED BY <2>4
<1> HIDE DEF it, n
<1>4. \A s \in SUBSET (1..n) : it[s] = Step(s, it)
  BY <1>2, <1>3
<1>5. f[0] = c
  <2>1. 1..0 = {} /\ 0 \in 0..n
    BY <1>2
  <2> QED BY <1>4, <2>1
<1>6. ASSUME NEW i \in 1..n PROVE f[i] = Corroborated(f[i - 1], scores[i])
  <2>1. Max(1..i) = i /\ (1..i) \ {i} = 1..(i - 1) /\ 1..i # {}
    BY PrefixOfDomain
  <2>2. it[1..i] = Step(1..i, it)
    BY <1>2, <1>4, 1..i \in SUBSET (1..n)
  <2>3. i \in 0..n /\ i - 1 \in 0..n
    BY <1>2
  <2> QED BY <2>1, <2>2, <2>3
<1>7. f \in [0..n -> Candidates]
  <2> DEFINE Bad == {i \in 0..n : f[i] \notin Candidates}
  <2> HIDE DEF f
  <2> SUFFICES Bad = {}
    BY DEF f
  <2> SUFFICES ASSUME Bad # {} PROVE FALSE
    OBVIOUS
  <2>1. PICK i \in Bad : \A j \in Bad : i <= j
    BY <1>2, Least, Bad \subseteq Nat
  <2>2. i # 0 /\ i \in 1..n /\ i - 1 \in 0..n
    BY <1>2, <1>5, <2>1
  <2>3. f[i - 1] \in Candidates
    BY <1>2, <2>1, <2>2
  <2> QED BY <1>2, <1>6, <2>1, <2>2, <2>3, CorroboratedIs
<1>8. FoldLeft(Corroborated, c, scores) = f[n]
  BY <1>1, <1>2
<1> HIDE DEF f
<1> QED BY <1>5, <1>6, <1>7, <1>8 DEF n

\* A fold over a prefix is what the fold has come to there.
LEMMA ArtifactPrefix ==
  ASSUME NEW c \in Candidates, NEW scores \in Seq(Evidence)
  PROVE  \E f \in [0..Len(scores) -> Candidates] :
           /\ f[0] = c
           /\ \A i \in 1..Len(scores) : f[i] = Corroborated(f[i - 1], scores[i])
           /\ FoldLeft(Corroborated, c, scores) = f[Len(scores)]
           /\ \A m \in 0..Len(scores) : FoldLeft(Corroborated, c, SubSeq(scores, 1, m)) = f[m]
<1> DEFINE n == Len(scores)
<1>1. PICK f \in [0..n -> Candidates] :
        /\ f[0] = c
        /\ \A i \in 1..n : f[i] = Corroborated(f[i - 1], scores[i])
        /\ FoldLeft(Corroborated, c, scores) = f[n]
  BY ArtifactFold
<1>2. ASSUME NEW m \in 0..n
      PROVE  FoldLeft(Corroborated, c, SubSeq(scores, 1, m)) = f[m]
  <2> DEFINE part == SubSeq(scores, 1, m)
  <2>1. part \in Seq(Evidence) /\ Len(part) = m /\ m \in Nat
        /\ \A i \in 1..m : part[i] = scores[i] /\ i \in 1..n
    OBVIOUS
  <2> HIDE DEF part, n
  <2>2. PICK g \in [0..m -> Candidates] :
          /\ g[0] = c
          /\ \A i \in 1..m : g[i] = Corroborated(g[i - 1], part[i])
          /\ FoldLeft(Corroborated, c, part) = g[m]
    BY <2>1, ArtifactFold
  <2>3. \A i \in 1..m : f[i - 1] = g[i - 1] => f[i] = g[i]
    BY <1>1, <2>1, <2>2
  <2>4. f[m] = g[m]
    <3>1. f[0] = g[0] /\ m \in Nat
      BY <1>1, <2>1, <2>2
    <3> QED BY <2>3, <3>1, SameSteps
  <2> QED BY <2>2, <2>4 DEF part
<1> HIDE DEF n
<1> QED BY <1>1, <1>2 DEF n

\* What scoring makes of a candidate that has no evidence yet and of whose
\* artifact no block is rejected: it has used all of them, and its verdict is
\* that of its evidence.
LEMMA ScoredArtifact ==
  ASSUME NEW cutoff \in Nat, NEW scores \in Seq(Evidence),
         ~Rejects(NewCandidate(cutoff), scores)
  PROVE  LET d == Scored(NewCandidate(cutoff), scores)
         IN  /\ d \in Candidates /\ d.evidence = scores
             /\ d.sum = SumOf(d.evidence) /\ Justified(d)
<1> DEFINE c == NewCandidate(cutoff)
           n == Len(scores)
<1>1. c \in Candidates /\ c.sum = SumOf(c.evidence) /\ Justified(c)
      /\ c.evidence = <<>> /\ c.state = "pending"
  BY JustifiedNew DEF NewCandidate
<1> HIDE DEF c
<1>2. PICK f \in [0..n -> Candidates] :
        /\ f[0] = c
        /\ \A i \in 1..n : f[i] = Corroborated(f[i - 1], scores[i])
        /\ FoldLeft(Corroborated, c, scores) = f[n]
        /\ \A m \in 0..n : FoldLeft(Corroborated, c, SubSeq(scores, 1, m)) = f[m]
  BY <1>1, ArtifactPrefix
<1>3. n \in Nat /\ DOMAIN scores = 1..n /\ SubSeq(scores, 1, n) = scores
      /\ SubSeq(scores, 1, 0) = <<>>
  OBVIOUS
<1>4. \A i \in 1..n : SubSeq(scores, 1, i) = Append(SubSeq(scores, 1, i - 1), scores[i])
                      /\ scores[i] \in Evidence /\ i - 1 \in 0..n
  OBVIOUS
<1>5. \A i \in 1..n : f[i - 1].state = "pending"
  <2> SUFFICES ASSUME NEW i \in 1..n PROVE f[i - 1].state = "pending"
    OBVIOUS
  <2>1. FoldLeft(Corroborated, c, SubSeq(scores, 1, i - 1)) = f[i - 1]
    BY <1>2, <1>4
  <2>2. ~Reuses(f[i - 1], scores[i])
    BY <1>1, <1>3, <2>1 DEF Rejects, c
  <2> QED BY <2>2 DEF Reuses
<1> DEFINE Fine(i) == /\ f[i].evidence = SubSeq(scores, 1, i)
                      /\ f[i].sum = SumOf(f[i].evidence) /\ Justified(f[i])
           Bad == {i \in 0..n : ~Fine(i)}
<1> HIDE DEF n
<1>6. Bad = {}
  <2> SUFFICES ASSUME Bad # {} PROVE FALSE
    OBVIOUS
  <2>1. PICK i \in Bad : \A j \in Bad : i <= j
    <3>1. Bad \subseteq Nat
      BY <1>3
    <3> HIDE DEF Bad
    <3> QED BY <3>1, Least
  <2>2. Fine(0)
    BY <1>1, <1>2, <1>3
  <2>3. i # 0 /\ i \in 1..n /\ i - 1 \in 0..n /\ Fine(i - 1)
    <3>1. i # 0 /\ i \in 0..n
      BY <2>1, <2>2
    <3>2. i \in 1..n /\ i - 1 \in 0..n /\ ~(i <= i - 1)
      BY <1>3, <3>1
    <3>3. i - 1 \notin Bad
      BY <2>1, <3>2
    <3> QED BY <3>1, <3>2, <3>3
  <2>4. f[i] = Corroborated(f[i - 1], scores[i]) /\ f[i - 1] \in Candidates
        /\ scores[i] \in Evidence /\ f[i - 1].state = "pending"
    BY <1>2, <1>4, <1>5, <2>3
  <2>5. f[i].evidence = Append(f[i - 1].evidence, scores[i])
    <3>1. Corroborated(f[i - 1], scores[i]).evidence = Append(f[i - 1].evidence, scores[i])
      BY <2>4, CorroboratedIs
    <3> QED BY <2>4, <3>1, Zenon
  <2>6. f[i].sum = SumOf(f[i].evidence) /\ Justified(f[i])
    BY <2>3, <2>4, JustifiedStep
  <2>7. Fine(i)
    BY <1>4, <2>3, <2>5, <2>6
  <2> QED BY <2>1, <2>7
<1>7. Fine(n) /\ f[n] \in Candidates
  BY <1>2, <1>3, <1>6
<1>8. Scored(c, scores) = f[n]
  BY <1>1, <1>2 DEF Scored
<1> QED BY <1>3, <1>7, <1>8 DEF c

-----------------------------------------------------------------------------
(* The blocks after a station *)

\* Sequences of blocks put one behind the other are a sequence of blocks, and
\* not an empty one unless the last of them is.
LEMMA FlattenIs ==
  ASSUME NEW B, NEW s \in Seq(Seq(B))
  PROVE  /\ FlattenSeq(s) \in Seq(B) /\ (s = <<>> => FlattenSeq(s) = <<>>)
         /\ s # <<>> /\ s[Len(s)] # <<>> => FlattenSeq(s) # <<>>
<1> DEFINE n == Len(s)
<1>1. n \in Nat /\ \A i \in 1..n : s[i] \in Seq(B)
  OBVIOUS
<1>2. CASE n = 0
  <2>1. s = <<>>
    BY <1>2
  <2>2. FlattenSeq(s) = s
    BY <1>2 DEF FlattenSeq
  <2>3. FlattenSeq(s) = <<>> /\ <<>> \in Seq(B)
    BY <2>1, <2>2
  <2> QED BY <2>1, <2>3, Zenon
<1>3. CASE n # 0
  <2> DEFINE Flat(g) == g = [i \in 1..n |-> IF i = 1 THEN s[i] ELSE g[i - 1] \o s[i]]
             flat == CHOOSE g : Flat(g)
             F == [x \in (1..n) \X Seq(B) |-> x[2] \o s[x[1]]]
  <2>1. FlattenSeq(s) = flat[n]
    BY <1>3 DEF FlattenSeq
  <2>2. F \in [(1..n) \X Seq(B) -> Seq(B)]
    BY <1>1
  <2>3. PICK iter \in [SUBSET (1..n) -> Seq(B)] : IsFold(n, <<>>, F, iter)
    <3>1. <<>> \in Seq(B)
      OBVIOUS
    <3> HIDE DEF F, n
    <3> QED BY <1>1, <2>2, <3>1, FoldExists, Zenon
  <2> DEFINE some == [i \in 1..n |-> iter[1..i]]
  <2>4. Flat(some)
    <3>1. ASSUME NEW i \in 1..n
          PROVE  some[i] = IF i = 1 THEN s[i] ELSE some[i - 1] \o s[i]
      <4>1. Max(1..i) = i /\ (1..i) \ {i} = 1..(i - 1) /\ 1..i # {}
        <5>1. i \in Nat \ {0}
          BY <1>1
        <5> QED BY <5>1, PrefixOfDomain, Zenon
      <4>2. 1..i \in SUBSET (1..n) /\ 1..(i - 1) \in SUBSET (1..n)
        BY <1>1
      <4>3. iter[1..i] = F[<<i, iter[1..(i - 1)]>>]
        BY <2>3, <4>1, <4>2 DEF IsFold
      <4>4. iter[1..(i - 1)] \in Seq(B)
        BY <2>3, <4>2
      <4>5. iter[1..i] = iter[1..(i - 1)] \o s[i]
        BY <4>3, <4>4
      <4>6. CASE i = 1
        <5>1. 1..(i - 1) = {} /\ {} \in SUBSET (1..n)
          BY <4>6
        <5>2. iter[{}] = <<>>
          BY <2>3, <5>1 DEF IsFold
        <5>3. iter[1..i] = <<>> \o s[i]
          BY <4>5, <5>1, <5>2, Zenon
        <5>4. <<>> \o s[i] = s[i]
          <6>1. \A x \in Seq(B) : <<>> \o x = x
            OBVIOUS
          <6>2. s[i] \in Seq(B)
            BY <1>1
          <6> QED BY <6>1, <6>2, Zenon
        <5> QED BY <4>6, <5>3, <5>4
      <4>7. CASE i # 1
        <5>1. i - 1 \in 1..n
          BY <1>1, <4>7
        <5> QED BY <4>5, <4>7, <5>1
      <4> QED BY <4>6, <4>7
    <3> HIDE DEF n
    <3> QED BY <3>1
  <2>5. Flat(flat)
    <3> HIDE DEF Flat, some
    <3> QED BY <2>4
  <2> HIDE DEF flat
  <2> DEFINE Bad == {i \in 1..n : flat[i] \notin Seq(B)}
  <2>6. Bad = {}
    <3> SUFFICES ASSUME Bad # {} PROVE FALSE
      OBVIOUS
    <3>1. PICK i \in Bad : \A j \in Bad : i <= j
      BY <1>1, Least, Bad \subseteq Nat
    <3>2. flat[i] = IF i = 1 THEN s[i] ELSE flat[i - 1] \o s[i]
      BY <2>5
    <3>3. CASE i = 1
      BY <1>1, <3>1, <3>2, <3>3
    <3>4. CASE i # 1
      <4>1. i - 1 \in 1..n /\ ~(i <= i - 1)
        BY <1>1, <3>1, <3>4
      <4>2. flat[i - 1] \in Seq(B)
        BY <3>1, <4>1
      <4>3. flat[i] \in Seq(B)
        BY <1>1, <3>1, <3>2, <3>4, <4>2
      <4> QED BY <3>1, <4>3
    <3> QED BY <3>3, <3>4
  <2>7. flat[n] \in Seq(B) /\ s # <<>>
    BY <1>1, <1>3, <2>6
  <2>8. s[n] # <<>> => flat[n] # <<>>
    <3> HIDE DEF n
    <3>1. flat[n] = IF n = 1 THEN s[n] ELSE flat[n - 1] \o s[n]
      <4>1. n \in 1..n
        BY <1>1, <1>3
      <4> QED BY <2>5, <4>1
    <3>2. CASE n = 1
      BY <3>1, <3>2
    <3>3. CASE n # 1
      <4>1. n - 1 \in 1..n /\ n \in 1..n
        BY <1>1, <1>3, <3>3
      <4>2. flat[n - 1] \in Seq(B) /\ s[n] \in Seq(B)
        BY <1>1, <2>6, <4>1
      <4>3. \A x, y \in Seq(B) : y # <<>> => x \o y # <<>>
        OBVIOUS
      <4> QED BY <3>1, <3>3, <4>2, <4>3, Zenon
    <3> QED BY <3>2, <3>3
  <2> QED BY <2>1, <2>7, <2>8
<1> QED BY <1>2, <1>3

\* What a scorer is given after a station.
LEMMA BlocksAfterIs ==
  ASSUME NEW k \in DOMAIN Log
  PROVE  BlocksAfter(k) \in Seq(Blocks) /\ (k = Len(Log) => BlocksAfter(k) = <<>>)
<1> DEFINE rest == SubSeq(Log, k + 1, Len(Log))
<1>1. rest \in Seq(Seq(Blocks)) /\ (k = Len(Log) => rest = <<>>)
  BY LogAssumption
<1> HIDE DEF rest
<1> QED BY <1>1, FlattenIs DEF BlocksAfter, rest

\* They are of rows after that station, and there are some unless it is the last.
LEMMA BlocksAreLater ==
  ASSUME NEW k \in DOMAIN Log, k # Len(Log)
  PROVE  /\ BlocksAfter(k) # <<>>
         /\ \A i \in DOMAIN BlocksAfter(k) :
              \A n \in BlocksAfter(k)[i].steps : EndStep(k) < n
<1> DEFINE rest == SubSeq(Log, k + 1, Len(Log))
           later == {b \in Blocks : \A n \in b.steps : EndStep(k) < n}
<1>1. /\ Len(Log) \in Nat /\ k \in Nat /\ k < Len(Log) /\ DOMAIN Log = 1..Len(Log)
      /\ EndStep(k) \in Steps(k) /\ Len(Log) \in DOMAIN Log
  BY LogAssumption, StationIsInterval
<1>2. \A l \in DOMAIN Log : k < l => Log[l] \in Seq(later)
  <2> SUFFICES ASSUME NEW l \in DOMAIN Log, k < l PROVE Log[l] \in Seq(later)
    OBVIOUS
  <2>1. Log[l] \in Seq(Blocks)
    BY LogAssumption
  <2>2. \A i \in DOMAIN Log[l] : Log[l][i].steps \subseteq Steps(l)
    BY DEF Steps
  <2>3. \A i \in DOMAIN Log[l] : Log[l][i] \in later
    BY <1>1, <2>1, <2>2, LaterStation
  <2> HIDE DEF later
  <2> QED BY <2>1, <2>3
<1>3. Log[Len(Log)] # <<>>
  <2>1. EndStep(Len(Log)) \in Steps(Len(Log))
    BY <1>1, StationIsInterval
  <2> QED BY <2>1 DEF Steps
<1> HIDE DEF later
<1>4. /\ rest \in Seq(Seq(later)) /\ rest # <<>> /\ rest[Len(rest)] = Log[Len(Log)]
  <2>1. \A l \in (k + 1)..Len(Log) : Log[l] \in Seq(later)
    BY <1>1, <1>2
  <2>2. /\ rest \in Seq(Seq(later))
        /\ Len(rest) = IF k + 1 <= Len(Log) THEN Len(Log) - (k + 1) + 1 ELSE 0
        /\ \A i \in 1..(Len(Log) - (k + 1) + 1) : rest[i] = Log[k + 1 + i - 1]
    <3> DEFINE S == Seq(later)
               m == k + 1
               n == Len(Log)
    <3>1. m \in Int /\ n \in Int
      BY <1>1
    <3>2. \A i \in m..n : Log[i] \in S
      BY <2>1
    <3> HIDE DEF S, m, n
    <3>3. /\ SubSeq(Log, m, n) \in Seq(S)
          /\ Len(SubSeq(Log, m, n)) = IF m <= n THEN n - m + 1 ELSE 0
          /\ \A i \in 1..(n - m + 1) : SubSeq(Log, m, n)[i] = Log[m + i - 1]
      BY <3>1, <3>2, SubSeqProperties
    <3> QED BY <3>3, Zenon DEF S, m, n
  <2> HIDE DEF rest
  <2>3. Len(rest) = Len(Log) - k /\ Len(rest) \in 1..(Len(Log) - (k + 1) + 1)
    BY <1>1, <2>2
  <2>4. rest[Len(rest)] = Log[k + 1 + Len(rest) - 1]
    BY <2>2, <2>3
  <2>5. k + 1 + Len(rest) - 1 = Len(Log) /\ Len(rest) # 0
    BY <1>1, <2>3
  <2> QED BY <2>2, <2>4, <2>5
<1> HIDE DEF rest
<1>5. BlocksAfter(k) \in Seq(later) /\ BlocksAfter(k) # <<>>
  BY <1>3, <1>4, FlattenIs, Zenon DEF BlocksAfter, rest
<1>6. \A i \in DOMAIN BlocksAfter(k) : BlocksAfter(k)[i] \in later
  BY <1>5
<1> QED BY <1>5, <1>6 DEF later

\* A snapshot whose cutoff is not before the end of the log is one of the
\* last station.
LEMMA LastCutoff ==
  ASSUME NEW k \in DOMAIN Log, EndStep(k) >= EndStep(Len(Log))
  PROVE  k = Len(Log)
<1>1. Len(Log) \in DOMAIN Log /\ k \in Nat /\ Len(Log) \in Nat /\ k <= Len(Log)
  BY LogAssumption
<1>2. /\ EndStep(k) \in Steps(k) /\ EndStep(k) \in Nat
      /\ EndStep(Len(Log)) \in Steps(Len(Log)) /\ EndStep(Len(Log)) \in Nat
  BY <1>1, StationIsInterval
<1>3. k < Len(Log) => EndStep(k) < EndStep(Len(Log))
  BY <1>1, <1>2, LaterStation
<1> QED BY <1>1, <1>2, <1>3

-----------------------------------------------------------------------------
(* The inductive invariant *)

\* Where run() is, and what it has done by then.
Places ==
  /\ pc = "fit" => station \in DOMAIN Log
  /\ pc \in {"replay", "fit"} => scoredUpTo = 0
  /\ pc \in {"jump", "final", "published"} => scoredUpTo = Len(snapshots)
  /\ pc = "jump" => Mode = "exact_rj"
  /\ \A i \in DOMAIN snapshots : snapshots[i] < station
  /\ \A i, j \in DOMAIN snapshots : i < j => snapshots[i] < snapshots[j]

\* What a candidate has used.
Used(c) == [i \in DOMAIN queue[c].evidence |-> queue[c].evidence[i].block]

\* A candidate is as it was registered until its snapshot is scored, and then
\* it has used every later block.
Frozen ==
  \A c \in DOMAIN queue :
    /\ queue[c].sum = SumOf(queue[c].evidence) /\ Justified(queue[c])
    /\ \E i \in DOMAIN snapshots :
         /\ snapshots[i] = c.snapshot
         /\ i > scoredUpTo => queue[c] = NewCandidate(EndStep(c.snapshot))
         /\ i <= scoredUpTo => Used(c) = BlocksAfter(c.snapshot)

\* How far the checkpoint has come.
Length ==
  /\ pc = "replay" => Len(checkpoint) = station - 1
  /\ pc = "fit" => Len(checkpoint) = station
  /\ pc \in {"score", "refused"} => Len(checkpoint) = Len(Log)
  /\ pc \in {"jump", "final", "published"} => Len(checkpoint) >= Len(Log)

\* What it has been through.
Filtered ==
  /\ \A i \in DOMAIN checkpoint : i <= Len(Log) => checkpoint[i] = [op |-> "pf", at |-> i]
  /\ \A i \in DOMAIN checkpoint : i > Len(Log) =>
       /\ checkpoint[i].op = "rj" /\ checkpoint[i].of \in Verified
       /\ \A j \in DOMAIN checkpoint : i < j => Before(checkpoint[i].of, checkpoint[j].of)
       /\ pc = "jump" => \A d \in Waiting : Before(checkpoint[i].of, d)
  /\ pc \in {"final", "published"} => Jumped = IF Mode = "exact_rj" THEN Verified ELSE {}

IInv == TypeOK /\ Places /\ Frozen /\ Length /\ Filtered

\* Types of what the steps below build on.
LEMMA TypesAre ==
  ASSUME TypeOK
  PROVE  /\ Len(Log) \in Nat \ {0} /\ DOMAIN Log = 1..Len(Log)
         /\ station \in Nat \ {0} /\ station <= Len(Log) + 1
         /\ Len(snapshots) \in Nat /\ DOMAIN snapshots = 1..Len(snapshots)
         /\ \A i \in DOMAIN snapshots : snapshots[i] \in DOMAIN Log /\ snapshots[i] \in Nat
         /\ scoredUpTo \in 0..Len(snapshots)
         /\ Len(checkpoint) \in Nat /\ DOMAIN checkpoint = 1..Len(checkpoint)
         /\ \A c \in DOMAIN queue : c \in Ids /\ queue[c] \in Candidates
<1>1. Len(Log) \in Nat \ {0} /\ DOMAIN Log = 1..Len(Log)
  BY LogAssumption
<1>2. /\ snapshots \in Seq(1..Len(Log)) /\ checkpoint \in Seq(Ops)
      /\ DOMAIN queue \subseteq Ids /\ queue \in [DOMAIN queue -> Candidates]
      /\ station \in 1..(Len(Log) + 1) /\ scoredUpTo \in 0..Len(snapshots)
  BY DEF TypeOK
<1>3. Len(snapshots) \in Nat /\ DOMAIN snapshots = 1..Len(snapshots)
      /\ \A i \in DOMAIN snapshots : snapshots[i] \in DOMAIN Log /\ snapshots[i] \in Nat
  BY <1>1, <1>2
<1>4. Len(checkpoint) \in Nat /\ DOMAIN checkpoint = 1..Len(checkpoint)
  BY <1>2
<1>5. \A c \in DOMAIN queue : c \in Ids /\ queue[c] \in Candidates
  BY <1>2
<1> QED BY <1>1, <1>2, <1>3, <1>4, <1>5

\* Two snapshots of one station are the same one.
LEMMA OneSnapshot ==
  ASSUME TypeOK, Places, NEW i \in DOMAIN snapshots, NEW j \in DOMAIN snapshots,
         snapshots[i] = snapshots[j]
  PROVE  i = j
<1>1. i \in Nat /\ j \in Nat /\ snapshots[i] \in Nat /\ snapshots[j] \in Nat
  BY TypesAre
<1>2. ~(i < j) /\ ~(j < i)
  BY <1>1 DEF Places
<1> QED BY <1>1, <1>2

\* One more step of the filter.
LEMMA CheckpointGrows ==
  ASSUME TypeOK, NEW x \in Ops, checkpoint' = Append(checkpoint, x)
  PROVE  /\ checkpoint' \in Seq(Ops) /\ Len(checkpoint') = Len(checkpoint) + 1
         /\ DOMAIN checkpoint' = 1..(Len(checkpoint) + 1)
         /\ \A i \in DOMAIN checkpoint : checkpoint'[i] = checkpoint[i]
         /\ checkpoint'[Len(checkpoint) + 1] = x
<1>1. checkpoint \in Seq(Ops)
  BY DEF TypeOK
<1> QED BY <1>1

\* A checkpoint that has only been through stations.
LEMMA ShortCheckpoint ==
  ASSUME Len(Log) \in Nat, Len(checkpoint) \in Nat, DOMAIN checkpoint = 1..Len(checkpoint),
         Len(checkpoint) <= Len(Log), pc \notin {"final", "published"},
         \A i \in DOMAIN checkpoint : checkpoint[i] = [op |-> "pf", at |-> i]
  PROVE  Filtered
BY DEF Filtered

\* What holds of the candidates while only the rest changes.
LEMMA FrozenStays ==
  ASSUME Frozen, UNCHANGED <<queue, snapshots, scoredUpTo>>
  PROVE  Frozen'
BY DEF Frozen, Used

LEMMA InitInv == Init => IInv
<1> SUFFICES ASSUME Init PROVE IInv
  OBVIOUS
<1>0. Len(Log) \in Nat \ {0}
  BY LogAssumption
<1>1. TypeOK
  BY <1>0 DEF Init, TypeOK, FreshScheduler, SchedulerStates
<1>2. Places /\ Frozen /\ Length
  BY <1>0 DEF Init, Places, Frozen, Length
<1>3. Filtered
  BY <1>0 DEF Init, Filtered
<1> QED BY <1>1, <1>2, <1>3 DEF IInv

LEMMA ReplayInv == IInv /\ ReplayStation => IInv'
<1> SUFFICES ASSUME IInv, ReplayStation PROVE IInv'
  OBVIOUS
<1>0. /\ Len(Log) \in Nat \ {0} /\ DOMAIN Log = 1..Len(Log)
      /\ station \in Nat \ {0} /\ station <= Len(Log) /\ station \in DOMAIN Log
      /\ Len(checkpoint) = station - 1 /\ pc = "replay" /\ pc' \in {"replay", "fit"}
      /\ pc' = "fit" => station' = station
      /\ pc' = "replay" => station' = station + 1
      /\ UNCHANGED <<queue, snapshots, scoredUpTo>>
  <2>1. station <= Len(Log) /\ pc = "replay" /\ UNCHANGED <<queue, snapshots, scoredUpTo>>
    BY DEF ReplayStation
  <2>2. (pc' = "fit" /\ station' = station) \/ (pc' = "replay" /\ station' = station + 1)
    BY DEF ReplayStation
  <2> QED BY <2>1, <2>2, TypesAre DEF IInv, Length
<1>1. sched' \in SchedulerStates
  <2>1. PICK dev \in [Steps(station) -> Deviances] : sched' = AfterStation(sched, station, dev)
    BY DEF ReplayStation
  <2>2. sched \in SchedulerStates
    BY DEF IInv, TypeOK
  <2> QED BY <1>0, <2>1, <2>2, AfterStationIs
<1> DEFINE x == [op |-> "pf", at |-> station]
<1>2. x \in Ops /\ checkpoint' = Append(checkpoint, x)
  BY <1>0 DEF Ops, ReplayStation
<1>3. /\ checkpoint' \in Seq(Ops) /\ Len(checkpoint') = station
      /\ DOMAIN checkpoint' = 1..station
      /\ \A i \in 1..(station - 1) : checkpoint'[i] = checkpoint[i]
      /\ checkpoint'[station] = x
  <2> HIDE DEF x
  <2>1. /\ checkpoint' \in Seq(Ops) /\ Len(checkpoint') = Len(checkpoint) + 1
        /\ DOMAIN checkpoint' = 1..(Len(checkpoint) + 1)
        /\ \A i \in DOMAIN checkpoint : checkpoint'[i] = checkpoint[i]
        /\ checkpoint'[Len(checkpoint) + 1] = x
    BY <1>2, CheckpointGrows DEF IInv
  <2>2. DOMAIN checkpoint = 1..Len(checkpoint) /\ Len(checkpoint) + 1 = station
    BY <1>0, TypesAre DEF IInv
  <2> QED BY <1>0, <2>1, <2>2
<1>4. TypeOK'
  BY <1>0, <1>1, <1>3 DEF IInv, TypeOK
<1>5. Places'
  BY <1>0, TypesAre DEF IInv, Places
<1>6. Frozen'
  BY <1>0, FrozenStays DEF IInv
<1>7. Length'
  <2>1. pc' = "replay" => Len(checkpoint') = station' - 1
    BY <1>0, <1>3
  <2>2. pc' = "fit" => Len(checkpoint') = station'
    BY <1>0, <1>3
  <2> QED BY <1>0, <2>1, <2>2 DEF Length
<1>8. Filtered'
  <2>1. \A i \in 1..station : checkpoint'[i] = [op |-> "pf", at |-> i]
    <3>1. \A i \in 1..(station - 1) : checkpoint[i] = [op |-> "pf", at |-> i]
      BY <1>0, TypesAre DEF IInv, Filtered
    <3>2. \A i \in 1..station : i \in 1..(station - 1) \/ i = station
      BY <1>0
    <3>3. checkpoint'[station] = [op |-> "pf", at |-> station]
      BY <1>3
    <3> HIDE DEF x
    <3> QED BY <1>3, <3>1, <3>2, <3>3
  <2> QED BY <1>0, <1>3, <2>1 DEF Filtered
<1> QED BY <1>4, <1>5, <1>6, <1>7, <1>8 DEF IInv

LEMMA FitInv == IInv /\ FitSnapshot => IInv'
<1> SUFFICES ASSUME IInv, FitSnapshot PROVE IInv'
  OBVIOUS
<1>0. /\ pc = "fit" /\ pc' = "replay" /\ station' = station + 1
      /\ snapshots' = Append(snapshots, station)
      /\ UNCHANGED <<sched, scoredUpTo, checkpoint>>
      /\ station \in DOMAIN Log /\ scoredUpTo = 0 /\ Len(checkpoint) = station
  BY DEF FitSnapshot, IInv, Places, Length
<1>1. /\ Len(Log) \in Nat \ {0} /\ DOMAIN Log = 1..Len(Log)
      /\ station \in Nat \ {0} /\ station <= Len(Log)
      /\ Len(snapshots) \in Nat /\ DOMAIN snapshots = 1..Len(snapshots)
      /\ \A i \in DOMAIN snapshots : snapshots[i] \in DOMAIN Log /\ snapshots[i] \in Nat
      /\ DOMAIN checkpoint = 1..Len(checkpoint)
      /\ \A c \in DOMAIN queue : c \in Ids /\ queue[c] \in Candidates
  BY <1>0, TypesAre DEF IInv
<1>2. /\ snapshots' \in Seq(1..Len(Log)) /\ DOMAIN snapshots' = 1..(Len(snapshots) + 1)
      /\ Len(snapshots') = Len(snapshots) + 1
      /\ \A i \in 1..Len(snapshots) : snapshots'[i] = snapshots[i]
      /\ snapshots'[Len(snapshots) + 1] = station
  BY <1>0, <1>1 DEF IInv, TypeOK
<1>3. PICK found \in SUBSET Names :
        queue' = [c \in DOMAIN queue \union {[snapshot |-> station, name |-> n] : n \in found} |->
                    IF c \in DOMAIN queue THEN queue[c] ELSE NewCandidate(EndStep(station))]
  BY DEF FitSnapshot
<1> DEFINE new == {[snapshot |-> station, name |-> n] : n \in found}
<1>4. /\ DOMAIN queue' = DOMAIN queue \union new
      /\ \A c \in DOMAIN queue : queue'[c] = queue[c]
      /\ \A c \in new \ DOMAIN queue : queue'[c] = NewCandidate(EndStep(station))
      /\ queue' = [c \in DOMAIN queue' |-> queue'[c]]
  BY <1>3
<1>5. new \subseteq Ids /\ \A c \in new : c.snapshot = station
  BY <1>0 DEF Ids
<1> HIDE DEF new
<1>6. LET c == NewCandidate(EndStep(station))
      IN  c \in Candidates /\ c.sum = SumOf(c.evidence) /\ Justified(c)
  <2>1. EndStep(station) \in Nat
    BY <1>0, StationIsInterval
  <2> QED BY <2>1, JustifiedNew
<1>7. TypeOK'
  <2>1. DOMAIN queue' \subseteq Ids
    BY <1>1, <1>4, <1>5
  <2>2. \A c \in DOMAIN queue' : queue'[c] \in Candidates
    BY <1>1, <1>4, <1>6
  <2>3. queue' \in [DOMAIN queue' -> Candidates]
    BY <1>4, <2>2
  <2>4. station' \in 1..(Len(Log) + 1) /\ scoredUpTo' \in 0..Len(snapshots')
    BY <1>0, <1>1, <1>2
  <2>5. sched' \in SchedulerStates /\ checkpoint' \in Seq(Ops)
    BY <1>0 DEF IInv, TypeOK
  <2> QED BY <1>0, <1>2, <2>1, <2>3, <2>4, <2>5 DEF TypeOK
<1>8. Places'
  <2>1. \A i \in DOMAIN snapshots : snapshots[i] < station
    BY DEF IInv, Places
  <2>2. \A i, j \in DOMAIN snapshots : i < j => snapshots[i] < snapshots[j]
    BY DEF IInv, Places
  <2>3. \A i \in DOMAIN snapshots' : snapshots'[i] < station'
    BY <1>0, <1>1, <1>2, <2>1
  <2>4. \A i, j \in DOMAIN snapshots' : i < j => snapshots'[i] < snapshots'[j]
    BY <1>1, <1>2, <2>1, <2>2
  <2> QED BY <1>0, <2>3, <2>4 DEF Places
<1>9. Frozen'
  <2> SUFFICES ASSUME NEW c \in DOMAIN queue'
               PROVE  /\ queue'[c].sum = SumOf(queue'[c].evidence) /\ Justified(queue'[c])
                      /\ \E i \in DOMAIN snapshots' :
                           /\ snapshots'[i] = c.snapshot
                           /\ i > 0 => queue'[c] = NewCandidate(EndStep(c.snapshot))
                           /\ i <= 0 => Used(c)' = BlocksAfter(c.snapshot)
    BY <1>0 DEF Frozen
  <2>1. CASE c \in DOMAIN queue
    <3>1. PICK i \in DOMAIN snapshots :
            /\ snapshots[i] = c.snapshot
            /\ i > scoredUpTo => queue[c] = NewCandidate(EndStep(c.snapshot))
      BY <2>1 DEF IInv, Frozen
    <3>2. queue[c].sum = SumOf(queue[c].evidence) /\ Justified(queue[c])
      BY <2>1 DEF IInv, Frozen
    <3>3. i \in DOMAIN snapshots' /\ snapshots'[i] = c.snapshot /\ i > 0 /\ ~(i <= 0)
      BY <1>1, <1>2, <3>1
    <3>4. queue'[c] = NewCandidate(EndStep(c.snapshot))
      BY <1>0, <1>4, <2>1, <3>1, <3>3
    <3> QED BY <1>4, <2>1, <3>2, <3>3, <3>4
  <2>2. CASE c \notin DOMAIN queue
    <3>1. c \in new \ DOMAIN queue /\ c.snapshot = station
      BY <1>4, <1>5, <2>2
    <3>2. queue'[c] = NewCandidate(EndStep(station))
      BY <1>4, <3>1
    <3>3. Len(snapshots) + 1 \in DOMAIN snapshots' /\ Len(snapshots) + 1 > 0
          /\ ~(Len(snapshots) + 1 <= 0)
      BY <1>1, <1>2
    <3> QED BY <1>2, <1>6, <3>1, <3>2, <3>3
  <2> QED BY <2>1, <2>2
<1>10. Length'
  BY <1>0, <1>1 DEF Length
<1>11. Filtered'
  <2>1. \A i \in DOMAIN checkpoint : checkpoint[i] = [op |-> "pf", at |-> i]
    BY <1>0, <1>1 DEF IInv, Filtered
  <2> QED BY <1>0, <1>1, <2>1 DEF Filtered
<1> QED BY <1>7, <1>8, <1>9, <1>10, <1>11 DEF IInv

LEMMA EndReplayInv == IInv /\ EndReplay => IInv'
<1> SUFFICES ASSUME IInv, EndReplay PROVE IInv'
  OBVIOUS
<1>0. /\ pc = "replay" /\ pc' = "score" /\ station > Len(Log)
      /\ UNCHANGED <<station, sched, queue, snapshots, scoredUpTo, checkpoint>>
      /\ Len(Log) \in Nat /\ station \in Nat /\ station <= Len(Log) + 1
      /\ Len(checkpoint) = station - 1 /\ DOMAIN checkpoint = 1..Len(checkpoint)
  BY TypesAre DEF EndReplay, IInv, Length
<1>1. TypeOK'
  BY <1>0 DEF IInv, TypeOK
<1>2. Places' /\ Length'
  BY <1>0 DEF IInv, Places, Length
<1>3. Frozen'
  BY <1>0, FrozenStays DEF IInv
<1>4. Filtered'
  BY <1>0 DEF IInv, Filtered
<1> QED BY <1>1, <1>2, <1>3, <1>4 DEF IInv

\* The snapshot being scored, and that there is none other of its station.
LEMMA CurrentIs ==
  ASSUME TypeOK, Places, Scoring
  PROVE  /\ scoredUpTo \in Nat /\ scoredUpTo + 1 \in DOMAIN snapshots
         /\ Current = snapshots[scoredUpTo + 1]
         /\ Current \in DOMAIN Log /\ EndStep(Current) \in Nat
         /\ \A i \in DOMAIN snapshots : snapshots[i] = Current => i = scoredUpTo + 1
<1>1. /\ scoredUpTo \in Nat /\ scoredUpTo + 1 \in DOMAIN snapshots
      /\ Current = snapshots[scoredUpTo + 1] /\ Current \in DOMAIN Log
  BY TypesAre DEF Scoring, Current
<1>2. EndStep(Current) \in Nat
  BY <1>1, StationIsInterval
<1> QED BY <1>1, <1>2, OneSnapshot

\* A candidate of the current snapshot is as it was registered.
LEMMA NotYetScored ==
  ASSUME TypeOK, Places, Frozen, Scoring, NEW c \in DOMAIN queue, c.snapshot = Current
  PROVE  queue[c] = NewCandidate(EndStep(Current))
<1>1. PICK i \in DOMAIN snapshots :
        /\ snapshots[i] = c.snapshot
        /\ i > scoredUpTo => queue[c] = NewCandidate(EndStep(c.snapshot))
  BY DEF Frozen
<1>2. i = scoredUpTo + 1 /\ scoredUpTo \in Nat
  BY <1>1, CurrentIs
<1> QED BY <1>1, <1>2

\* The loop passes the current snapshot: it is enough that its candidates have
\* used every later block, with the verdicts of that, and the others are left
\* alone.
LEMMA FrozenGoesOn ==
  ASSUME TypeOK, Places, Frozen, Scoring,
         snapshots' = snapshots, scoredUpTo' = scoredUpTo + 1, DOMAIN queue' = DOMAIN queue,
         \A c \in DOMAIN queue : c.snapshot # Current => queue'[c] = queue[c],
         \A c \in DOMAIN queue : c.snapshot = Current =>
           /\ queue'[c].sum = SumOf(queue'[c].evidence) /\ Justified(queue'[c])
           /\ Used(c)' = BlocksAfter(Current)
  PROVE  Frozen'
<1> SUFFICES ASSUME NEW c \in DOMAIN queue
             PROVE  /\ queue'[c].sum = SumOf(queue'[c].evidence) /\ Justified(queue'[c])
                    /\ \E i \in DOMAIN snapshots :
                         /\ snapshots[i] = c.snapshot
                         /\ i > scoredUpTo + 1 => queue'[c] = NewCandidate(EndStep(c.snapshot))
                         /\ i <= scoredUpTo + 1 => Used(c)' = BlocksAfter(c.snapshot)
  BY DEF Frozen
<1>1. /\ scoredUpTo \in Nat /\ scoredUpTo + 1 \in DOMAIN snapshots
      /\ Current = snapshots[scoredUpTo + 1] /\ DOMAIN snapshots \subseteq Nat
  BY CurrentIs, TypesAre
<1>2. CASE c.snapshot = Current
  <2>1. ~(scoredUpTo + 1 > scoredUpTo + 1)
    BY <1>1
  <2> QED BY <1>1, <1>2, <2>1
<1>3. CASE c.snapshot # Current
  <2>1. PICK i \in DOMAIN snapshots :
          /\ snapshots[i] = c.snapshot
          /\ i > scoredUpTo => queue[c] = NewCandidate(EndStep(c.snapshot))
          /\ i <= scoredUpTo => Used(c) = BlocksAfter(c.snapshot)
    BY DEF Frozen
  <2>2. i # scoredUpTo + 1 /\ i \in Nat
    BY <1>1, <1>3, <2>1
  <2>3. queue'[c] = queue[c] /\ Used(c)' = Used(c)
    BY <1>3 DEF Used
  <2>4. i > scoredUpTo + 1 => i > scoredUpTo
    BY <1>1, <2>2
  <2>5. i <= scoredUpTo + 1 => i <= scoredUpTo
    BY <1>1, <2>2
  <2>6. queue[c].sum = SumOf(queue[c].evidence) /\ Justified(queue[c])
    BY DEF Frozen
  <2> QED BY <2>1, <2>3, <2>4, <2>5, <2>6
<1> QED BY <1>2, <1>3

\* While run() scores, the checkpoint has only been through stations.
LEMMA ScoringCheckpoint ==
  ASSUME IInv, pc = "score"
  PROVE  /\ Len(checkpoint) = Len(Log) /\ Len(Log) \in Nat
         /\ DOMAIN checkpoint = 1..Len(checkpoint)
         /\ \A i \in DOMAIN checkpoint : checkpoint[i] = [op |-> "pf", at |-> i]
<1>1. Len(checkpoint) = Len(Log) /\ Len(Log) \in Nat
      /\ DOMAIN checkpoint = 1..Len(checkpoint)
  BY TypesAre DEF IInv, Length
<1> QED BY <1>1 DEF IInv, Filtered

LEMMA ScoreInv == IInv /\ ScoreSnapshot => IInv'
<1> SUFFICES ASSUME IInv, ScoreSnapshot PROVE IInv'
  OBVIOUS
<1> DEFINE k == Current
           blocks == BlocksAfter(k)
<1>0. /\ Scoring /\ pc = "score" /\ scoredUpTo < Len(snapshots) /\ scoredUpTo' = scoredUpTo + 1
      /\ UNCHANGED <<pc, station, sched, snapshots, checkpoint>>
  BY DEF ScoreSnapshot, Scoring
<1>1. /\ scoredUpTo \in Nat /\ scoredUpTo + 1 \in DOMAIN snapshots
      /\ k \in DOMAIN Log /\ EndStep(k) \in Nat
  BY <1>0, CurrentIs DEF IInv
<1>2. PICK scores \in Artifacts :
        /\ \A c \in CandidatesOf(Current) : ~Rejects(queue[c], scores[c])
        /\ queue' = [c \in DOMAIN queue |->
                       IF c.snapshot = Current THEN Scored(queue[c], scores[c]) ELSE queue[c]]
  BY DEF ScoreSnapshot
<1>3. PICK r \in [CandidatesOf(k) -> [DOMAIN blocks -> Ratios]] :
        scores = [c \in CandidatesOf(k) |->
                    [i \in DOMAIN blocks |-> [block |-> blocks[i], llr |-> r[c][i]]]]
  BY <1>2 DEF Artifacts
<1>4. blocks \in Seq(Blocks)
  BY <1>1, BlocksAfterIs
<1>5. \A c \in DOMAIN queue : queue[c] \in Candidates
  BY TypesAre DEF IInv
<1> HIDE DEF blocks, k
<1>6. ASSUME NEW c \in DOMAIN queue, c.snapshot = k
      PROVE  /\ queue'[c] \in Candidates
             /\ queue'[c].sum = SumOf(queue'[c].evidence) /\ Justified(queue'[c])
             /\ Used(c)' = blocks
  <2>1. c \in CandidatesOf(k) /\ c \in CandidatesOf(Current)
    BY <1>6 DEF CandidatesOf, k
  <2>2. queue[c] = NewCandidate(EndStep(k))
    BY <1>0, <1>6, NotYetScored DEF IInv, k
  <2> DEFINE mine == scores[c]
  <2>3. mine = [i \in DOMAIN blocks |-> [block |-> blocks[i], llr |-> r[c][i]]]
    BY <1>3, <2>1
  <2>4. DOMAIN blocks = 1..Len(blocks) /\ Len(blocks) \in Nat
        /\ \A i \in DOMAIN blocks : blocks[i] \in Blocks /\ r[c][i] \in Ratios
    BY <1>3, <1>4, <2>1
  <2>5. mine \in Seq(Evidence)
    <3>1. \A i \in DOMAIN blocks : [block |-> blocks[i], llr |-> r[c][i]] \in Evidence
      BY <2>4, RatiosAssumption DEF Evidence
    <3> HIDE DEF mine
    <3> QED BY <2>3, <2>4, <3>1
  <2>6. queue'[c] = Scored(NewCandidate(EndStep(k)), mine)
    BY <1>2, <1>6, <2>2 DEF k
  <2>7. ~Rejects(NewCandidate(EndStep(k)), mine)
    BY <1>2, <2>1, <2>2
  <2>8. [i \in DOMAIN mine |-> mine[i].block] = blocks
    <3>1. DOMAIN mine = DOMAIN blocks /\ \A i \in DOMAIN blocks : mine[i].block = blocks[i]
      BY <2>3
    <3>2. blocks = [i \in DOMAIN blocks |-> blocks[i]]
      BY <1>4
    <3> HIDE DEF mine
    <3> QED BY <3>1, <3>2
  <2> HIDE DEF mine
  <2>9. /\ queue'[c] \in Candidates /\ queue'[c].evidence = mine
        /\ queue'[c].sum = SumOf(queue'[c].evidence) /\ Justified(queue'[c])
    BY <1>1, <2>5, <2>6, <2>7, ScoredArtifact
  <2> QED BY <2>8, <2>9 DEF Used
<1>7. /\ DOMAIN queue' = DOMAIN queue /\ queue' = [c \in DOMAIN queue |-> queue'[c]]
      /\ \A c \in DOMAIN queue : c.snapshot # Current => queue'[c] = queue[c]
  BY <1>2
<1>8. TypeOK'
  <2>1. queue' \in [DOMAIN queue -> Candidates]
    <3>1. \A c \in DOMAIN queue : queue'[c] \in Candidates
      BY <1>5, <1>6, <1>7 DEF k
    <3> QED BY <1>7, <3>1
  <2>2. scoredUpTo' \in 0..Len(snapshots')
    BY <1>0, <1>1, TypesAre DEF IInv
  <2>3. UNCHANGED <<pc, station, sched, snapshots, checkpoint>> /\ DOMAIN queue' = DOMAIN queue
    BY <1>0, <1>7
  <2> QED BY <2>1, <2>2, <2>3 DEF IInv, TypeOK
<1>9. Places'
  BY <1>0 DEF IInv, Places
<1>10. Frozen'
  BY <1>0, <1>6, <1>7, FrozenGoesOn DEF IInv, k, blocks
<1>11. Length'
  BY <1>0 DEF IInv, Length
<1>12. Filtered'
  BY <1>0, ScoringCheckpoint DEF Filtered
<1> QED BY <1>8, <1>9, <1>10, <1>11, <1>12 DEF IInv

LEMMA SkipInv == IInv /\ SkipLastSnapshot => IInv'
<1> SUFFICES ASSUME IInv, SkipLastSnapshot PROVE IInv'
  OBVIOUS
<1>0. /\ Scoring /\ pc = "score" /\ scoredUpTo < Len(snapshots) /\ scoredUpTo' = scoredUpTo + 1
      /\ EndStep(Current) >= EndStep(Len(Log))
      /\ UNCHANGED <<pc, station, sched, queue, snapshots, checkpoint>>
  BY DEF SkipLastSnapshot, Skipped, Scoring
<1>1. scoredUpTo \in Nat /\ Current \in DOMAIN Log
  BY <1>0, CurrentIs DEF IInv
<1>2. BlocksAfter(Current) = <<>>
  BY <1>0, <1>1, LastCutoff, BlocksAfterIs
<1>3. ASSUME NEW c \in DOMAIN queue, c.snapshot = Current
      PROVE  Used(c)' = BlocksAfter(Current)
  <2>1. queue[c] = NewCandidate(EndStep(Current))
    BY <1>0, <1>3, NotYetScored DEF IInv
  <2>2. queue'[c].evidence = <<>>
    BY <1>0, <2>1 DEF NewCandidate
  <2> QED BY <1>2, <2>2 DEF Used
<1>4. \A c \in DOMAIN queue : queue[c].sum = SumOf(queue[c].evidence) /\ Justified(queue[c])
  BY DEF IInv, Frozen
<1>5. TypeOK'
  <2>1. scoredUpTo' \in 0..Len(snapshots')
    BY <1>0, <1>1, TypesAre DEF IInv
  <2> QED BY <1>0, <2>1 DEF IInv, TypeOK
<1>6. Places' /\ Length'
  BY <1>0 DEF IInv, Places, Length
<1>7. Frozen'
  BY <1>0, <1>3, <1>4, FrozenGoesOn DEF IInv
<1>8. Filtered'
  BY <1>0, ScoringCheckpoint DEF Filtered
<1> QED BY <1>5, <1>6, <1>7, <1>8 DEF IInv

LEMMA RefusedInv == IInv /\ ScoreRefused => IInv'
<1> SUFFICES ASSUME IInv, ScoreRefused PROVE IInv'
  OBVIOUS
<1>0. /\ pc = "score" /\ pc' = "refused"
      /\ UNCHANGED <<station, sched, queue, snapshots, scoredUpTo, checkpoint>>
  BY DEF ScoreRefused, Scoring
<1>1. TypeOK'
  BY <1>0 DEF IInv, TypeOK
<1>2. Places' /\ Length'
  BY <1>0 DEF IInv, Places, Length
<1>3. Frozen'
  BY <1>0, FrozenStays DEF IInv
<1>4. Filtered'
  BY <1>0, ScoringCheckpoint DEF Filtered
<1> QED BY <1>1, <1>2, <1>3, <1>4 DEF IInv

LEMMA EndScoringInv == IInv /\ EndScoring => IInv'
<1> SUFFICES ASSUME IInv, EndScoring PROVE IInv'
  OBVIOUS
<1>0. /\ pc = "score" /\ scoredUpTo = Len(snapshots)
      /\ pc' = IF Mode = "exact_rj" THEN "jump" ELSE "final"
      /\ UNCHANGED <<station, sched, queue, snapshots, scoredUpTo, checkpoint>>
  BY DEF EndScoring
<1>1. /\ Len(checkpoint) = Len(Log) /\ Len(Log) \in Nat
      /\ DOMAIN checkpoint = 1..Len(checkpoint)
      /\ \A i \in DOMAIN checkpoint : checkpoint[i] = [op |-> "pf", at |-> i]
  BY <1>0, ScoringCheckpoint
<1>2. TypeOK'
  BY <1>0 DEF IInv, TypeOK
<1>3. Places'
  BY <1>0 DEF IInv, Places
<1>4. Length'
  BY <1>0, <1>1 DEF Length
<1>5. Frozen'
  BY <1>0, FrozenStays DEF IInv
<1>6. Jumped' = {}
  BY <1>0, <1>1 DEF Jumped
<1>7. Filtered'
  BY <1>0, <1>1, <1>6 DEF Filtered
<1> QED BY <1>2, <1>3, <1>4, <1>5, <1>7 DEF IInv

LEMMA JumpInv == IInv /\ Jump => IInv'
<1> SUFFICES ASSUME IInv, Jump PROVE IInv'
  OBVIOUS
<1>0. pc = "jump" /\ UNCHANGED <<pc, station, sched, queue, snapshots, scoredUpTo>>
  BY DEF Jump
<1>1. PICK c \in Waiting :
        /\ \A d \in Waiting : c = d \/ Before(c, d)
        /\ checkpoint' = Append(checkpoint, [op |-> "rj", at |-> Len(Log), of |-> c])
  BY DEF Jump
<1> DEFINE x == [op |-> "rj", at |-> Len(Log), of |-> c]
           n == Len(checkpoint)
<1>2. n \in Nat /\ DOMAIN checkpoint = 1..n /\ Len(Log) \in DOMAIN Log /\ Len(Log) \in Nat
      /\ n >= Len(Log)
  BY <1>0, TypesAre DEF IInv, Length
<1>3. c \in Verified /\ c \in Ids /\ c \notin Jumped
  BY <1>1, TypesAre DEF IInv, Waiting, Verified
<1>4. x \in Ops
  BY <1>2, <1>3 DEF Ops
<1>5. x.op = "rj" /\ x.of = c
  OBVIOUS
<1> HIDE DEF x
<1>6. /\ checkpoint' \in Seq(Ops) /\ Len(checkpoint') = n + 1 /\ DOMAIN checkpoint' = 1..(n + 1)
      /\ \A i \in 1..n : checkpoint'[i] = checkpoint[i]
      /\ checkpoint'[n + 1] = x
  BY <1>1, <1>2, <1>4, CheckpointGrows DEF IInv, x
<1> HIDE DEF n
<1>7. TypeOK'
  BY <1>0, <1>6 DEF IInv, TypeOK
<1>8. Places'
  BY <1>0 DEF IInv, Places
<1>9. Frozen'
  BY <1>0, FrozenStays DEF IInv
<1>10. Length'
  BY <1>0, <1>2, <1>6 DEF Length
<1>11. Verified' = Verified
  BY <1>0 DEF Verified
<1>12. Jumped' = Jumped \union {c}
  <2>1. \A y \in Jumped : y \in Jumped'
    BY <1>2, <1>6 DEF Jumped
  <2>2. c \in Jumped'
    BY <1>2, <1>5, <1>6 DEF Jumped
  <2>3. \A y \in Jumped' : y \in Jumped \union {c}
    <3> SUFFICES ASSUME NEW i \in 1..(n + 1), checkpoint'[i].op = "rj"
                 PROVE  checkpoint'[i].of \in Jumped \union {c}
      BY <1>6 DEF Jumped
    <3>1. CASE i = n + 1
      BY <1>5, <1>6, <3>1
    <3>2. CASE i # n + 1
      <4>1. i \in 1..n
        BY <1>2, <3>2
      <4> QED BY <1>2, <1>6, <4>1 DEF Jumped
    <3> QED BY <3>1, <3>2
  <2> QED BY <2>1, <2>2, <2>3
<1>13. Filtered'
  <2>1. ASSUME NEW i \in 1..(n + 1), i <= Len(Log)
        PROVE  checkpoint'[i] = [op |-> "pf", at |-> i]
    <3>1. i \in 1..n
      BY <1>2, <2>1
    <3> QED BY <1>2, <1>6, <2>1, <3>1 DEF IInv, Filtered
  <2>2. ASSUME NEW i \in 1..(n + 1), i > Len(Log)
        PROVE  /\ checkpoint'[i].op = "rj" /\ checkpoint'[i].of \in Verified
               /\ \A j \in 1..(n + 1) : i < j => Before(checkpoint'[i].of, checkpoint'[j].of)
               /\ \A d \in Waiting' : Before(checkpoint'[i].of, d)
    <3>0. Waiting' = Waiting \ {c}
      BY <1>11, <1>12 DEF Waiting
    <3>1. CASE i = n + 1
      <4>1. \A j \in 1..(n + 1) : ~(i < j)
        BY <1>2, <3>1
      <4>2. \A d \in Waiting' : Before(c, d)
        BY <1>1, <3>0
      <4>3. checkpoint'[i].op = "rj" /\ checkpoint'[i].of = c
        BY <1>5, <1>6, <3>1
      <4> QED BY <1>3, <4>1, <4>2, <4>3
    <3>2. CASE i # n + 1
      <4>1. i \in 1..n
        BY <1>2, <3>2
      <4>2. /\ checkpoint[i].op = "rj" /\ checkpoint[i].of \in Verified
            /\ \A j \in 1..n : i < j => Before(checkpoint[i].of, checkpoint[j].of)
            /\ \A d \in Waiting : Before(checkpoint[i].of, d)
        BY <1>0, <1>2, <2>2, <4>1 DEF IInv, Filtered
      <4>3. checkpoint'[i] = checkpoint[i]
        BY <1>6, <4>1
      <4>4. ASSUME NEW j \in 1..(n + 1), i < j
            PROVE  Before(checkpoint[i].of, checkpoint'[j].of)
        <5>1. CASE j = n + 1
          BY <1>1, <1>5, <1>6, <4>2, <5>1
        <5>2. CASE j # n + 1
          <6>1. j \in 1..n
            BY <1>2, <5>2
          <6> QED BY <1>6, <4>2, <4>4, <6>1
        <5> QED BY <5>1, <5>2
      <4>5. \A d \in Waiting' : Before(checkpoint[i].of, d)
        BY <3>0, <4>2
      <4> QED BY <4>2, <4>3, <4>4, <4>5
    <3> QED BY <3>1, <3>2
  <2> QED BY <1>0, <1>6, <1>11, <2>1, <2>2 DEF Filtered
<1> QED BY <1>7, <1>8, <1>9, <1>10, <1>13 DEF IInv

LEMMA EndJumpsInv == IInv /\ EndJumps => IInv'
<1> SUFFICES ASSUME IInv, EndJumps PROVE IInv'
  OBVIOUS
<1>0. /\ pc = "jump" /\ pc' = "final" /\ Waiting = {}
      /\ UNCHANGED <<station, sched, queue, snapshots, scoredUpTo, checkpoint>>
  BY DEF EndJumps
<1>1. Mode = "exact_rj"
  BY <1>0 DEF IInv, Places
<1>2. /\ Len(Log) \in Nat /\ DOMAIN checkpoint = 1..Len(checkpoint) /\ Len(checkpoint) \in Nat
  BY TypesAre DEF IInv
<1>3. Verified \subseteq Jumped
  BY <1>0 DEF Waiting
<1>4. Jumped \subseteq Verified
  <2> SUFFICES ASSUME NEW i \in DOMAIN checkpoint, checkpoint[i].op = "rj"
               PROVE  checkpoint[i].of \in Verified
    BY DEF Jumped
  <2>1. ~(i <= Len(Log))
    BY DEF IInv, Filtered
  <2>2. i > Len(Log)
    BY <1>2, <2>1
  <2> QED BY <2>2 DEF IInv, Filtered
<1>5. Jumped' = Jumped /\ Verified' = Verified
  BY <1>0 DEF Jumped, Verified
<1>6. TypeOK'
  BY <1>0 DEF IInv, TypeOK
<1>7. Places' /\ Length'
  BY <1>0 DEF IInv, Places, Length
<1>8. Frozen'
  BY <1>0, FrozenStays DEF IInv
<1>9. Filtered'
  <2>1. Jumped' = IF Mode = "exact_rj" THEN Verified' ELSE {}
    BY <1>1, <1>3, <1>4, <1>5
  <2> QED BY <1>0, <1>5, <2>1 DEF IInv, Filtered
<1> QED BY <1>6, <1>7, <1>8, <1>9 DEF IInv

LEMMA PublishInv == IInv /\ Publish => IInv'
<1> SUFFICES ASSUME IInv, Publish PROVE IInv'
  OBVIOUS
<1>0. /\ pc = "final" /\ pc' = "published"
      /\ UNCHANGED <<station, sched, queue, snapshots, scoredUpTo, checkpoint>>
  BY DEF Publish
<1>1. TypeOK'
  BY <1>0 DEF IInv, TypeOK
<1>2. Places' /\ Length'
  BY <1>0 DEF IInv, Places, Length
<1>3. Frozen'
  BY <1>0, FrozenStays DEF IInv
<1>4. Filtered'
  <2>1. Jumped' = Jumped /\ Verified' = Verified
    BY <1>0 DEF Jumped, Verified
  <2> QED BY <1>0, <2>1 DEF IInv, Filtered
<1> QED BY <1>1, <1>2, <1>3, <1>4 DEF IInv

LEMMA DiscardInv == IInv /\ Discard => IInv'
<1> SUFFICES ASSUME IInv, Discard PROVE IInv'
  OBVIOUS
<1>0. /\ pc' = "discarded"
      /\ UNCHANGED <<station, sched, queue, snapshots, scoredUpTo, checkpoint>>
  BY DEF Discard
<1>1. TypeOK'
  BY <1>0 DEF IInv, TypeOK
<1>2. Places' /\ Length'
  BY <1>0 DEF IInv, Places, Length
<1>3. Frozen'
  BY <1>0, FrozenStays DEF IInv
<1>4. Filtered'
  <2>1. Verified' = Verified
    BY <1>0 DEF Verified
  <2> QED BY <1>0, <2>1 DEF IInv, Filtered
<1> QED BY <1>1, <1>2, <1>3, <1>4 DEF IInv

LEMMA StutterInv == IInv /\ UNCHANGED vars => IInv'
<1> SUFFICES ASSUME IInv, UNCHANGED vars PROVE IInv'
  OBVIOUS
<1>0. UNCHANGED <<pc, station, sched, queue, snapshots, scoredUpTo, checkpoint>>
  BY DEF vars
<1>1. TypeOK'
  BY <1>0 DEF IInv, TypeOK
<1>2. Places' /\ Length'
  BY <1>0 DEF IInv, Places, Length
<1>3. Frozen'
  BY <1>0, FrozenStays DEF IInv
<1>4. Filtered'
  <2>1. Jumped' = Jumped /\ Verified' = Verified /\ Waiting' = Waiting
    BY <1>0 DEF Jumped, Verified, Waiting
  <2> QED BY <1>0, <2>1 DEF IInv, Filtered
<1> QED BY <1>1, <1>2, <1>3, <1>4 DEF IInv

-----------------------------------------------------------------------------
(* The theorems *)

\* Every state of a run satisfies the invariant.
THEOREM Invariance == Spec => []IInv
<1>1. IInv /\ [Next]_vars => IInv'
  <2> SUFFICES ASSUME IInv, [Next]_vars PROVE IInv'
    OBVIOUS
  <2> QED BY ReplayInv, FitInv, EndReplayInv, ScoreInv, SkipInv, RefusedInv, EndScoringInv,
             JumpInv, EndJumpsInv, PublishInv, DiscardInv, StutterInv, Zenon
          DEF Next, Proceed
<1> QED BY <1>1, InitInv, PTL DEF Spec

\* The state of an offline run always has its types: candidates, snapshots and
\* the steps of the filter are of stations of the log, and the scoring loop never
\* runs past the snapshots.
THEOREM TypesHold == Spec => []TypeOK
<1>1. IInv => TypeOK
  BY DEF IInv
<1> QED BY <1>1, Invariance, PTL

\* Every verdict of apply_future_spectral_scores is that of the candidate's own
\* evidence, at its first decisive block.
THEOREM VerdictsFollow == Spec => []VerdictsJustified
<1>1. IInv => VerdictsJustified
  BY DEF IInv, Frozen, VerdictsJustified
<1> QED BY <1>1, Invariance, PTL

\* The evidence of a candidate is the blocks after its snapshot's station, each
\* once and in order; none is missing where a candidate stays pending.
THEOREM EvidenceIsLater == Spec => []EvidenceIsTheFuture
<1>1. ASSUME IInv PROVE EvidenceIsTheFuture
  <2> SUFFICES ASSUME NEW c \in DOMAIN queue
               PROVE  /\ Used(c) = SubSeq(BlocksAfter(c.snapshot), 1, Len(Used(c)))
                      /\ queue[c].state = "pending" /\ pc \in {"jump", "final", "published"} =>
                           Used(c) = BlocksAfter(c.snapshot)
    BY Zenon DEF EvidenceIsTheFuture, Used, BlocksAfter
  <2>1. PICK i \in DOMAIN snapshots :
          /\ snapshots[i] = c.snapshot
          /\ i > scoredUpTo => queue[c] = NewCandidate(EndStep(c.snapshot))
          /\ i <= scoredUpTo => Used(c) = BlocksAfter(c.snapshot)
    BY <1>1 DEF IInv, Frozen
  <2>2. c.snapshot \in DOMAIN Log /\ scoredUpTo \in Nat /\ i \in Nat /\ i <= Len(snapshots)
    BY <1>1, <2>1, TypesAre DEF IInv
  <2>3. BlocksAfter(c.snapshot) \in Seq(Blocks)
    BY <2>2, BlocksAfterIs
  <2>4. CASE i > scoredUpTo
    <3>1. queue[c].evidence = <<>>
      BY <2>1, <2>4 DEF NewCandidate
    <3>2. Used(c) = <<>> /\ Len(Used(c)) = 0
      BY <3>1 DEF Used
    <3>3. SubSeq(BlocksAfter(c.snapshot), 1, 0) = <<>>
      BY <2>3
    <3>4. pc \notin {"jump", "final", "published"}
      BY <1>1, <2>2, <2>4 DEF IInv, Places
    <3> QED BY <3>2, <3>3, <3>4
  <2>5. CASE i <= scoredUpTo
    <3>1. Used(c) = BlocksAfter(c.snapshot)
      BY <2>1, <2>5
    <3>2. \A s \in Seq(Blocks) : SubSeq(s, 1, Len(s)) = s
      OBVIOUS
    <3> QED BY <2>3, <3>1, <3>2, Zenon
  <2> QED BY <2>2, <2>4, <2>5
<1> QED BY <1>1, Invariance, PTL

\* The filter goes through every station in order and then jumps once for each
\* verified candidate, in the queue's order, and for no other.
THEOREM HistoryHolds == Spec => []CheckpointHistory
<1>1. ASSUME IInv PROVE CheckpointHistory
  <2>1. DOMAIN checkpoint = 1..Len(checkpoint) /\ Len(checkpoint) \in Nat /\ Len(Log) \in Nat
    BY <1>1, TypesAre DEF IInv
  <2>2. ASSUME NEW i \in (Len(Log) + 1)..Len(checkpoint)
        PROVE  i \in DOMAIN checkpoint /\ i > Len(Log)
    BY <2>1
  <2> QED BY <1>1, <2>2 DEF IInv, Filtered, CheckpointHistory
<1> QED BY <1>1, Invariance, PTL

-----------------------------------------------------------------------------
(* The controller's own checks *)

\* How far the scheduler has been fed.
Fed ==
  /\ pc = "replay" =>
       sched.open = None /\ sched.lastStep = IF station = 1 THEN -1 ELSE EndStep(station - 1)
  /\ pc = "fit" => sched.open = None /\ sched.lastStep = EndStep(station)

LEMMA FedStays == IInv /\ Fed /\ [Next]_vars => Fed'
<1> SUFFICES ASSUME IInv, Fed, [Next]_vars PROVE Fed'
  OBVIOUS
<1>0. Len(Log) \in Nat /\ DOMAIN Log = 1..Len(Log) /\ station \in Nat \ {0}
  BY TypesAre DEF IInv
<1>1. CASE ReplayStation
  <2>1. station \in DOMAIN Log /\ sched \in SchedulerStates
    BY <1>0, <1>1 DEF ReplayStation, IInv, TypeOK
  <2>2. PICK dev \in [Steps(station) -> Deviances] : sched' = AfterStation(sched, station, dev)
    BY <1>1 DEF ReplayStation
  <2>3. sched'.open = None /\ sched'.lastStep = EndStep(station)
    BY <2>1, <2>2, AfterStationIs
  <2>4. \/ pc' = "fit" /\ station' = station
        \/ pc' = "replay" /\ station' = station + 1
    BY <1>1 DEF ReplayStation
  <2>5. station + 1 # 1 /\ (station + 1) - 1 = station
    BY <1>0
  <2> QED BY <2>3, <2>4, <2>5 DEF Fed
<1>2. CASE FitSnapshot
  <2>1. pc = "fit" /\ pc' = "replay" /\ station' = station + 1 /\ sched' = sched
    BY <1>2 DEF FitSnapshot
  <2>2. station + 1 # 1 /\ (station + 1) - 1 = station
    BY <1>0
  <2> QED BY <2>1, <2>2 DEF Fed
<1>3. CASE \/ EndReplay \/ ScoreSnapshot \/ SkipLastSnapshot \/ ScoreRefused \/ EndScoring
           \/ Jump \/ EndJumps \/ Publish \/ Discard
  <2>1. pc' \notin {"replay", "fit"}
    BY <1>3 DEF EndReplay, ScoreSnapshot, SkipLastSnapshot, ScoreRefused, EndScoring, Scoring,
                Jump, EndJumps, Publish, Discard
  <2> QED BY <2>1 DEF Fed
<1>4. CASE UNCHANGED vars
  BY <1>4 DEF vars, Fed
<1> QED BY <1>1, <1>2, <1>3, <1>4 DEF Next, Proceed

\* Whatever the estimators return, no check that the offline controller makes of
\* the run's own data fires: the scheduler's order, the queue's registration, the
\* scorer's rows and blocks, and the checkpoint of a jump.
THEOREM OwnChecksHold == Spec => []OwnChecksNeverFire
<1>1. Init => Fed
  BY DEF Init, Fed, FreshScheduler
<1>2. Spec => []Fed
  BY <1>1, FedStays, Invariance, PTL DEF Spec
<1>3. ASSUME IInv, Fed PROVE OwnChecksNeverFire
  <2>0. /\ Len(Log) \in Nat \ {0} /\ DOMAIN Log = 1..Len(Log) /\ station \in Nat \ {0}
        /\ scoredUpTo \in Nat /\ DOMAIN snapshots \subseteq Nat
    BY <1>3, TypesAre DEF IInv
  <2>1. pc = "replay" /\ station <= Len(Log) =>
          sched.open = None /\ \A n \in Steps(station) : sched.lastStep < n
    <3> SUFFICES ASSUME pc = "replay", station <= Len(Log), NEW n \in Steps(station)
                 PROVE  sched.lastStep < n
      BY <1>3 DEF Fed
    <3>1. station \in DOMAIN Log /\ n \in Nat
      BY <2>0, StationIsInterval
    <3>2. CASE station = 1
      BY <1>3, <3>1, <3>2 DEF Fed
    <3>3. CASE station # 1
      <4>1. station - 1 \in DOMAIN Log /\ station - 1 < station
        BY <2>0, <3>1, <3>3
      <4>2. EndStep(station - 1) \in Steps(station - 1)
        BY <4>1, StationIsInterval
      <4>3. EndStep(station - 1) < n
        BY <3>1, <4>1, <4>2, LaterStation
      <4> QED BY <1>3, <3>3, <4>3 DEF Fed
    <3> QED BY <3>2, <3>3
  <2>2. pc = "fit" => \A c \in DOMAIN queue : c.snapshot # station
    <3> SUFFICES ASSUME NEW c \in DOMAIN queue PROVE c.snapshot # station
      OBVIOUS
    <3>1. PICK i \in DOMAIN snapshots : snapshots[i] = c.snapshot
      BY <1>3 DEF IInv, Frozen
    <3>2. snapshots[i] < station /\ snapshots[i] \in Nat
      BY <1>3, <3>1, TypesAre DEF IInv, Places
    <3> QED BY <2>0, <3>1, <3>2
  <2>3. ASSUME Scoring, ~Skipped(Current)
        PROVE  /\ BlocksAfter(Current) # <<>>
               /\ \A c \in CandidatesOf(Current) :
                    /\ queue[c].state = "pending" /\ queue[c].evidence = <<>>
                    /\ \A i \in DOMAIN BlocksAfter(Current) :
                         \A n \in BlocksAfter(Current)[i].steps : queue[c].cutoff < n
    <3>1. Current \in DOMAIN Log /\ EndStep(Current) \in Nat
      BY <1>3, <2>3, CurrentIs DEF IInv
    <3>2. Current # Len(Log)
      BY <2>3, <3>1 DEF Skipped
    <3>3. ASSUME NEW c \in CandidatesOf(Current)
          PROVE  queue[c] = NewCandidate(EndStep(Current))
      BY <1>3, <2>3, NotYetScored DEF IInv, CandidatesOf
    <3> QED BY <3>1, <3>2, <3>3, BlocksAreLater DEF NewCandidate
  <2>4. ASSUME pc = "jump", NEW c \in Waiting
        PROVE  EndStep(c.snapshot) < EndStep(Len(Log))
    <3>1. c \in DOMAIN queue /\ queue[c].state = "verified"
      BY DEF Waiting, Verified
    <3>2. c.snapshot \in DOMAIN Log /\ EndStep(c.snapshot) \in Nat /\ EndStep(Len(Log)) \in Nat
      <4>1. c \in Ids
        BY <1>3, <3>1, TypesAre DEF IInv
      <4>2. c.snapshot \in DOMAIN Log /\ Len(Log) \in DOMAIN Log
        BY <2>0, <4>1 DEF Ids
      <4> QED BY <4>2, StationIsInterval
    <3>3. PICK i \in DOMAIN snapshots :
            /\ snapshots[i] = c.snapshot
            /\ i <= scoredUpTo => Used(c) = BlocksAfter(c.snapshot)
      BY <1>3, <3>1 DEF IInv, Frozen
    <3>4. i <= scoredUpTo
      BY <1>3, <2>4, <3>3, TypesAre DEF IInv, Places
    <3>5. Enough(queue[c].evidence) /\ queue[c] \in Candidates
      BY <1>3, <3>1, TypesAre DEF IInv, Frozen, Justified
    <3>6. queue[c].evidence # <<>>
      BY <3>5, MinimaAssumption DEF Enough
    <3>7. Used(c) # <<>>
      BY <3>5, <3>6 DEF Used, Candidates
    <3>8. c.snapshot # Len(Log)
      BY <3>2, <3>3, <3>4, <3>7, BlocksAfterIs
    <3> QED BY <3>2, <3>8, LastCutoff
  <2> QED BY <2>1, <2>2, <2>3, <2>4 DEF OwnChecksNeverFire
<1> QED BY <1>2, <1>3, Invariance, PTL

=============================================================================
