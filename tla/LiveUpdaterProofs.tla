--------------------------- MODULE LiveUpdaterProofs ---------------------------
(***************************************************************************)
(* Theorems about EstimatorPromise, then about LiveUpdater, for any log,   *)
(* policies and fits.  The promise: what a candidate's evidence, verdict and*)
(* jump have to do with the log and with each other.  The updater, for any *)
(* number of crashes at any point and any results of operations that are   *)
(* computed again: what its state file, its receipts and its derived files *)
(* say of each other, and that the state file moves as the promise says.   *)
(*                                                                         *)
(* The inductive invariant of the updater says what a process has in       *)
(* memory at each place of an update: the state it started from, changed by*)
(* the receipts that are on the disk.  As receipts are not rewritten,      *)
(* another process that goes the same way finds the same values.           *)
(***************************************************************************)
EXTENDS LiveUpdater, EstimatorPromise, StationLogProofs

-----------------------------------------------------------------------------
(* Candidates in order *)

\* Candidates in order are all of them, each once.
LEMMA InOrderIs ==
  ASSUME NEW S \in SUBSET Ids, NEW s \in InOrder(S)
  PROVE  /\ Cardinality(S) \in Nat /\ s \in [1..Cardinality(S) -> S]
         /\ \A i, j \in 1..Cardinality(S) : s[i] = s[j] => i = j
         /\ {s[i] : i \in 1..Cardinality(S)} = S
<1> DEFINE n == Cardinality(S)
<1>1. IsFiniteSet(S) /\ n \in Nat
  BY IdsFinite, FS_Subset, FS_CardinalityType
<1>2. s \in [1..n -> S] /\ \A i, j \in 1..n : i < j => Sooner(s[i], s[j])
  BY DEF InOrder
<1>3. \A c \in Ids : ~Sooner(c, c)
  BY RankAssumption DEF Sooner
<1>4. ASSUME NEW i \in 1..n, NEW j \in 1..n, s[i] = s[j] PROVE i = j
  <2>1. s[i] \in Ids
    BY <1>2
  <2>2. ~(i < j) /\ ~(j < i)
    BY <1>2, <1>3, <1>4, <2>1
  <2> QED BY <1>1, <2>2
<1>5. s \in Injection(1..n, S)
  BY <1>2, <1>4 DEF Injection, IsInjective
<1>6. IsFiniteSet(1..n) /\ Cardinality(1..n) = n
  BY <1>1, FS_Interval
<1> HIDE DEF n
<1>7. s \in Surjection(1..n, S)
  BY <1>1, <1>5, <1>6, FS_Injection DEF n
<1>8. {s[i] : i \in 1..n} = S
  BY <1>2, <1>7 DEF Surjection
<1> QED BY <1>1, <1>2, <1>4, <1>8 DEF n

-----------------------------------------------------------------------------
(* EstimatorPromise: the inductive invariant *)

\* The record and its parts.
Shape ==
  /\ est.last \in 0..Len(Log) /\ est.sched \in SchedulerStates
  /\ est.queue \in [DOMAIN est.queue -> Candidates] /\ DOMAIN est.queue \subseteq Ids
  /\ est.checkpoint \in Seq(FilterSteps)
  /\ \A i \in DOMAIN est.checkpoint : IsStep(est.checkpoint[i])

\* Every candidate belongs to a snapshot of a station before, for which the
\* stations since are on record as scored.
PromiseScoring ==
  /\ \A c \in DOMAIN est.queue : c.snapshot \in DOMAIN est.scored
  /\ \A s \in DOMAIN est.scored : s \in 1..est.last /\ est.scored[s] = (s + 1)..est.last

\* What has jumped is what is verified.
PromiseInv ==
  /\ Shape /\ PromiseScoring
  /\ \A c \in DOMAIN est.queue : Evidenced(est.last, c.snapshot, est.queue[c])
  /\ est.applied = (IF Mode = "exact_rj" THEN VerifiedIn(est.queue) ELSE {})
  /\ JumpsFollowVerdicts

\* What the invariant says of the three properties.
LEMMA PromiseInvImplies ==
  ASSUME PromiseInv
  PROVE  VerdictsJustified /\ EvidenceIsTheFuture /\ JumpsFollowVerdicts
<1>1. ASSUME NEW c \in DOMAIN est.queue
      PROVE  LET used == [i \in DOMAIN est.queue[c].evidence |-> est.queue[c].evidence[i].block]
                 later == [i \in 1..(est.last - c.snapshot) |-> Log[c.snapshot + i][1]]
             IN  /\ used = SubSeq(later, 1, Len(used))
                 /\ est.queue[c].state = "pending" => used = later
                 /\ est.scored[c.snapshot] = (c.snapshot + 1)..est.last
  <2> DEFINE evidence == est.queue[c].evidence
             used == [i \in DOMAIN evidence |-> evidence[i].block]
             m == est.last - c.snapshot
             later == [i \in 1..m |-> Log[c.snapshot + i][1]]
  <2>1. evidence \in Seq(Evidence) /\ est.last \in Nat
    BY LogAssumption DEF PromiseInv, Shape, Candidates
  <2>2. c.snapshot \in 1..est.last /\ est.scored[c.snapshot] = (c.snapshot + 1)..est.last
    BY DEF PromiseInv, PromiseScoring
  <2>3. m \in Nat /\ Len(evidence) \in 0..m
    BY <2>1, <2>2 DEF PromiseInv, Evidenced
  <2>4. est.queue[c].state = "pending" => Len(evidence) = m
    BY DEF PromiseInv, Evidenced
  <2>5. \A i \in 1..Len(evidence) : evidence[i].block = Log[c.snapshot + i][1]
    BY DEF PromiseInv, Evidenced
  <2> HIDE DEF evidence, m
  <2>6. Len(used) = Len(evidence) /\ DOMAIN used = 1..Len(evidence)
    BY <2>1
  <2>7. \A i \in 1..Len(evidence) : used[i] = later[i]
    BY <2>1, <2>3, <2>5
  <2>8. used = [i \in 1..Len(evidence) |-> later[i]]
    BY <2>6, <2>7
  <2>9. SubSeq(later, 1, Len(evidence)) = [i \in 1..Len(evidence) |-> later[i]]
    BY <2>3
  <2>10. Len(evidence) = m => used = later
    BY <2>6, <2>7
  <2> QED BY <2>2, <2>4, <2>6, <2>8, <2>9, <2>10 DEF evidence, m
<1> QED BY <1>1 DEF PromiseInv, Evidenced, VerdictsJustified, EvidenceIsTheFuture

\* It holds of the fresh state.
LEMMA PromiseInvInit ==
  ASSUME PromiseInit
  PROVE  PromiseInv
<1>1. est.checkpoint = <<>> /\ est.queue = <<>> /\ est.scored = <<>> /\ est.applied = {}
      /\ est.last = 0 /\ est.sched = FreshScheduler
  BY DEF PromiseInit, FreshState
<1>2. FreshScheduler \in SchedulerStates
  BY DEF FreshScheduler, SchedulerStates
<1>3. VerifiedIn(est.queue) = {}
  BY <1>1 DEF VerifiedIn
<1>4. JumpsFollowVerdicts
  BY <1>1, <1>3 DEF JumpsFollowVerdicts
<1> QED BY <1>1, <1>2, <1>3, <1>4, LogAssumption DEF PromiseInv, Shape, PromiseScoring

-----------------------------------------------------------------------------
(* One station *)

\* cp is old, then a filter step, then m jumps of station k, one for each
\* candidate of due.
Grown(old, cp, n, m, k, jumps, due) ==
  /\ DOMAIN old = 1..n /\ DOMAIN cp = 1..(n + 1 + m)
  /\ \A i \in 1..n : cp[i] = old[i]
  /\ cp[n + 1].op = "pf" /\ IsStep(cp[n + 1])
  /\ \A i \in 1..m : cp[n + 1 + i].op = "rj" /\ cp[n + 1 + i].of = jumps[i]
                     /\ cp[n + 1 + i].at = k /\ IsStep(cp[n + 1 + i])
  /\ \A i, j \in 1..m : jumps[i] = jumps[j] => i = j
  /\ {jumps[i] : i \in 1..m} = due
  /\ \A i \in DOMAIN cp : i \in 1..n \/ i = n + 1 \/ \E j \in 1..m : i = n + 1 + j

\* A checkpoint after the steps of a station.
Longer(old, k, dev, jumps, move) ==
  old \o <<FilterStep(k, dev)>> \o [i \in DOMAIN jumps |-> JumpStep(k, jumps[i], move[jumps[i]])]

\* The checkpoint after a station: one filter step, then a jump for each
\* candidate that is due.
LEMMA CheckpointGrows ==
  ASSUME NEW k \in DOMAIN Log, NEW dev \in [Steps(k) -> Deviances],
         NEW due \in SUBSET Ids, NEW jumps \in InOrder(due), NEW move \in [due -> Moves],
         NEW old \in Seq(FilterSteps)
  PROVE  LET cp == Longer(old, k, dev, jumps, move)
         IN  cp \in Seq(FilterSteps) /\ \E n, m \in Nat : Grown(old, cp, n, m, k, jumps, due)
<1>1. PICK m \in Nat : /\ jumps \in [1..m -> due]
                       /\ \A i, j \in 1..m : jumps[i] = jumps[j] => i = j
                       /\ {jumps[i] : i \in 1..m} = due
  BY InOrderIs
<1> DEFINE steps == [i \in DOMAIN jumps |-> JumpStep(k, jumps[i], move[jumps[i]])]
           first == FilterStep(k, dev)
           cp == old \o <<first>> \o steps
<1>2. first \in FilterSteps /\ IsStep(first) /\ first.op = "pf"
  BY DEF FilterStep, FilterSteps, Outs, IsStep
<1>3. \A i \in 1..m : /\ steps[i] \in FilterSteps /\ IsStep(steps[i])
                      /\ steps[i].op = "rj" /\ steps[i].at = k /\ steps[i].of = jumps[i]
  BY <1>1 DEF JumpStep, FilterSteps, Outs, IsStep
<1>4. steps = [i \in 1..m |-> steps[i]]
  BY <1>1
<1> HIDE DEF steps, first
<1>5. steps \in [1..m -> FilterSteps]
  BY <1>3, <1>4
<1>6. steps \in Seq(FilterSteps) /\ Len(steps) = m
  BY <1>5
<1>7. Extends(old, first, steps, cp)
  BY <1>2, <1>6, Extended
<1> HIDE DEF cp
<1>8. DOMAIN old = 1..Len(old) /\ Len(old) \in Nat
  OBVIOUS
<1>9. \A i \in 1..m : cp[Len(old) + 1 + i].op = "rj" /\ cp[Len(old) + 1 + i].of = jumps[i]
                      /\ cp[Len(old) + 1 + i].at = k /\ IsStep(cp[Len(old) + 1 + i])
  BY <1>3, <1>6, <1>7 DEF Extends
<1>10. Grown(old, cp, Len(old), m, k, jumps, due)
  BY <1>1, <1>2, <1>6, <1>7, <1>8, <1>9 DEF Grown, Extends
<1>11. cp \in Seq(FilterSteps)
  BY <1>2, <1>6, Extended DEF cp
<1> QED BY <1>8, <1>10, <1>11 DEF cp, steps, first, Longer

\* JumpsFollowVerdicts of a checkpoint and a queue.
Follows(cp, queue) ==
  LET jumps == {i \in DOMAIN cp : cp[i].op = "rj"}
  IN  /\ {cp[i].of : i \in jumps} = (IF Mode = "exact_rj" THEN VerifiedIn(queue) ELSE {})
      /\ \A i \in jumps :
           /\ cp[i].at = cp[i].of.snapshot + Len(queue[cp[i].of].evidence)
           /\ \A j \in jumps : cp[i].of = cp[j].of => i = j

\* Station k verifies the candidates of due, which are those that jump.
Verifies(queue, after, due, k) ==
  /\ VerifiedIn(queue) \intersect due = {}
  /\ due # {} => Mode = "exact_rj"
  /\ Mode = "exact_rj" => VerifiedIn(after) = VerifiedIn(queue) \union due
  /\ \A c \in VerifiedIn(queue) : after[c] = queue[c]
  /\ \A c \in due : c.snapshot + Len(after[c].evidence) = k

\* The jumps stay those of the verified candidates, at the station of the
\* verdict: `queue` before the station and `after` it.
LEMMA JumpsStep ==
  ASSUME NEW k, NEW n \in Nat, NEW m \in Nat, NEW old, NEW cp, NEW queue, NEW after,
         NEW jumps, NEW due, Follows(old, queue), Grown(old, cp, n, m, k, jumps, due),
         Verifies(queue, after, due, k)
  PROVE  Follows(cp, after)
<1> DEFINE before == {h \in DOMAIN old : old[h].op = "rj"}
           then == {h \in DOMAIN cp : cp[h].op = "rj"}
           ofs == IF Mode = "exact_rj" THEN VerifiedIn(queue) ELSE {}
<1>1. \A i \in then : i \in before \/ \E j \in 1..m : i = n + 1 + j
  BY DEF Grown
<1>2. before \subseteq then /\ \A i \in before : cp[i] = old[i] /\ i \in 1..n
  BY DEF Grown
<1>3. \A i \in 1..m : n + 1 + i \in then /\ cp[n + 1 + i].of = jumps[i]
                      /\ cp[n + 1 + i].at = k
  BY DEF Grown
<1>4. {old[i].of : i \in before} = ofs
  BY DEF Follows
<1>5. \A i \in before : old[i].of \in ofs
                        /\ old[i].at = old[i].of.snapshot + Len(queue[old[i].of].evidence)
  BY <1>4 DEF Follows
<1>6. \A i, j \in before : old[i].of = old[j].of => i = j
  BY DEF Follows
<1>7. ofs \intersect due = {} /\ (\A i \in 1..m : jumps[i] \in due)
      /\ \A c \in due : \E i \in 1..m : jumps[i] = c
  BY DEF Grown, Verifies
<1>8. \A i, j \in 1..m : jumps[i] = jumps[j] => i = j
  BY DEF Grown
<1>9. ofs \subseteq VerifiedIn(queue)
  OBVIOUS
<1>10. ofs \union due = (IF Mode = "exact_rj" THEN VerifiedIn(after) ELSE {})
  BY DEF Verifies
<1> HIDE DEF before, then, ofs
<1>11. {cp[i].of : i \in then} = ofs \union due
  <2>1. ASSUME NEW i \in then PROVE cp[i].of \in ofs \union due
    <3>1. CASE i \in before
      BY <1>2, <1>5, <3>1
    <3>2. CASE \E j \in 1..m : i = n + 1 + j
      <4>1. PICK j \in 1..m : i = n + 1 + j
        BY <3>2
      <4> QED BY <1>3, <1>7, <4>1
    <3> QED BY <1>1, <3>1, <3>2
  <2>2. \A c \in ofs : \E i \in then : cp[i].of = c
    BY <1>2, <1>4
  <2>3. ASSUME NEW c \in due PROVE \E i \in then : cp[i].of = c
    <3>1. PICK j \in 1..m : jumps[j] = c
      BY <1>7
    <3>2. n + 1 + j \in then /\ cp[n + 1 + j].of = c
      BY <1>3, <3>1
    <3> QED BY <3>2
  <2> QED BY <2>1, <2>2, <2>3
<1>12. ASSUME NEW i \in then
       PROVE  cp[i].at = cp[i].of.snapshot + Len(after[cp[i].of].evidence)
  <2>1. CASE i \in before
    BY <1>2, <1>5, <1>9, <2>1 DEF Verifies
  <2>2. CASE \E j \in 1..m : i = n + 1 + j
    <3>1. PICK j \in 1..m : i = n + 1 + j
      BY <2>2
    <3>2. cp[i].of = jumps[j] /\ cp[i].at = k /\ jumps[j] \in due
      BY <1>3, <1>7, <3>1
    <3> QED BY <3>2 DEF Verifies
  <2> QED BY <1>1, <2>1, <2>2
<1>13. ASSUME NEW i \in then, NEW j \in then, cp[i].of = cp[j].of PROVE i = j
  <2>1. CASE i \in before /\ j \in before
    BY <1>2, <1>6, <1>13, <2>1
  <2>2. ASSUME NEW g \in then, g \in before, NEW h \in 1..m PROVE cp[g].of # cp[n + 1 + h].of
    BY <1>2, <1>3, <1>5, <1>7, <2>2
  <2>3. CASE i \notin before /\ j \notin before
    <3>1. PICK g \in 1..m : i = n + 1 + g
      BY <1>1, <2>3
    <3>2. PICK h \in 1..m : j = n + 1 + h
      BY <1>1, <2>3
    <3>3. jumps[g] = jumps[h]
      BY <1>3, <1>13, <3>1, <3>2
    <3> QED BY <1>8, <3>1, <3>2, <3>3
  <2> QED BY <1>1, <1>13, <2>1, <2>2, <2>3
<1> QED BY <1>10, <1>11, <1>12, <1>13 DEF then, Follows

\* The state after the station.
Became(k, dev, scored, due, fits, jumps, move, found, seen) ==
  est' = [last |-> k,
          sched |-> AfterStation(est.sched, k, dev),
          queue |-> Registered(scored, k, found),
          snapshots |-> IF fits THEN Append(est.snapshots, k) ELSE est.snapshots,
          scored |-> IF fits THEN WithSnapshot(seen, k) ELSE seen,
          applied |-> est.applied \union due,
          checkpoint |-> Longer(est.checkpoint, k, dev, jumps, move)]

\* The invariant survives a station, whatever the estimators return.
LEMMA StationStep ==
  ASSUME PromiseInv, NEW k \in DOMAIN Log, k = est.last + 1,
         NEW dev \in [Steps(k) -> Deviances], NEW llr \in [PendingIn(est.queue) -> Ratios],
         NEW scored,
         scored = [c \in DOMAIN est.queue |->
                     IF c \in DOMAIN llr
                       THEN Scored(est.queue[c], <<[block |-> Log[k][1], llr |-> llr[c]]>>)
                       ELSE est.queue[c]],
         NEW due, due = ToJump(scored, est.applied),
         NEW fits \in BOOLEAN, NEW jumps \in InOrder(due), NEW move \in [due -> Moves],
         NEW found \in SUBSET Names, ~fits => found = {},
         NEW seen, seen = [s \in DOMAIN est.scored |-> est.scored[s] \union {k}],
         Became(k, dev, scored, due, fits, jumps, move, found, seen)
  PROVE  PromiseInv'
<1> DEFINE q == est.queue
           new == {[snapshot |-> k, name |-> n] : n \in found}
<1>1. /\ q \in [DOMAIN q -> Candidates] /\ DOMAIN q \subseteq Ids
      /\ est.last \in Nat /\ k \in Nat \ {0} /\ k - 1 = est.last
  BY LogAssumption DEF PromiseInv, Shape
<1>2. \A c \in DOMAIN q : c \in Ids /\ c.snapshot \in 1..(k - 1) /\ q[c] \in Candidates
                         /\ Evidenced(k - 1, c.snapshot, q[c])
  BY <1>1 DEF PromiseInv, PromiseScoring
<1> HIDE DEF q
<1>3. DOMAIN scored = DOMAIN q
  BY DEF q
<1>4. ASSUME NEW c \in DOMAIN q
      PROVE  /\ scored[c] \in Candidates /\ Evidenced(k, c.snapshot, scored[c])
             /\ q[c].state # "pending" => scored[c] = q[c]
             /\ q[c].state = "pending" => Len(scored[c].evidence) = k - c.snapshot
  <2>1. CASE q[c].state = "pending"
    <3>1. c \in DOMAIN llr /\ llr[c] \in Ratios
      BY <2>1 DEF PendingIn, q
    <3>2. scored[c] = Corroborated(q[c], [block |-> Log[k][1], llr |-> llr[c]])
      BY <2>1, <3>1, ScoredOnce DEF q
    <3> QED BY <1>2, <2>1, <3>1, <3>2, OneBlockAssumption, EvidencedStep
  <2>2. CASE q[c].state # "pending"
    <3>1. scored[c] = q[c]
      BY <2>2 DEF PendingIn, q
    <3> QED BY <1>2, <2>2, <3>1, EvidencedStays
  <2> QED BY <2>1, <2>2
<1>5. /\ est'.queue = Registered(scored, k, found) /\ DOMAIN est'.queue = DOMAIN q \union new
      /\ est'.last = k /\ est'.applied = est.applied \union due
  BY <1>3 DEF Registered, Became
<1>6. \A c \in new : c \in Ids /\ c.snapshot = k /\ c \notin DOMAIN q
  BY <1>1, <1>2 DEF Ids
<1>7. /\ \A c \in DOMAIN q : est'.queue[c] = scored[c]
      /\ \A c \in new : est'.queue[c] = NewCandidate(EndStep(k))
  BY <1>3, <1>5, <1>6 DEF Registered
<1>8. ASSUME NEW c \in DOMAIN est'.queue
      PROVE  est'.queue[c] \in Candidates /\ Evidenced(k, c.snapshot, est'.queue[c]) /\ c \in Ids
  <2>1. CASE c \in DOMAIN q
    BY <1>2, <1>4, <1>7, <2>1
  <2>2. CASE c \in new
    BY <1>6, <1>7, <2>2, EvidencedNew
  <2> QED BY <1>5, <2>1, <2>2
<1>9. (\A c \in DOMAIN est.queue : Evidenced(est.last, c.snapshot, est.queue[c]))'
  BY <1>5, <1>8
<1>10. PromiseScoring'
  <2>1. DOMAIN seen = DOMAIN est.scored
    OBVIOUS
  <2>2. DOMAIN est'.scored = DOMAIN est.scored \union (IF fits THEN {k} ELSE {})
    BY <2>1 DEF WithSnapshot, Became
  <2>3. \A s \in DOMAIN est.scored : s \in 1..(k - 1) /\ est.scored[s] = (s + 1)..(k - 1)
    BY <1>1 DEF PromiseInv, PromiseScoring
  <2>4. \A s \in DOMAIN est.scored : est'.scored[s] = (s + 1)..k /\ s \in 1..k
    <3>1. \A s \in 1..(k - 1) : ((s + 1)..(k - 1)) \union {k} = (s + 1)..k
      BY <1>1
    <3>2. \A s \in DOMAIN est.scored : est'.scored[s] = est.scored[s] \union {k}
      BY <2>1 DEF WithSnapshot, Became
    <3>3. \A s \in DOMAIN est.scored : s \in 1..k
      BY <1>1, <2>3
    <3> QED BY <2>3, <3>1, <3>2, <3>3
  <2>5. fits => est'.scored[k] = (k + 1)..k /\ k \in 1..k
    <3>1. k \notin DOMAIN est.scored
      BY <1>1, <2>3
    <3>2. fits => est'.scored[k] = {}
      BY <2>1, <3>1 DEF WithSnapshot, Became
    <3>3. (k + 1)..k = {} /\ k \in 1..k
      BY <1>1
    <3> QED BY <3>2, <3>3
  <2>6. \A c \in DOMAIN est'.queue : c.snapshot \in DOMAIN est'.scored
    <3>1. \A c \in DOMAIN q : c.snapshot \in DOMAIN est.scored
      BY DEF PromiseInv, PromiseScoring, q
    <3> QED BY <1>5, <1>6, <2>2, <3>1
  <2> QED BY <1>5, <2>2, <2>4, <2>5, <2>6 DEF PromiseScoring
<1>11. /\ VerifiedIn(est'.queue) = VerifiedIn(scored)
       /\ VerifiedIn(q) \subseteq VerifiedIn(scored)
  <2>1. NewCandidate(EndStep(k)).state = "pending"
    BY DEF NewCandidate
  <2> QED BY <1>3, <1>4, <1>5, <1>7, <2>1 DEF VerifiedIn
<1>12. /\ est.applied = (IF Mode = "exact_rj" THEN VerifiedIn(q) ELSE {})
       /\ due = (IF Mode = "exact_rj" THEN VerifiedIn(scored) \ VerifiedIn(q) ELSE {})
       /\ due \in SUBSET Ids
  BY <1>2, <1>3 DEF PromiseInv, ToJump, VerifiedIn, q
<1>13. est'.applied = (IF Mode = "exact_rj" THEN VerifiedIn(est'.queue) ELSE {})
  BY <1>5, <1>11, <1>12
<1> HIDE DEF new
<1>14. est'.checkpoint \in Seq(FilterSteps)
       /\ \E n, m \in Nat : Grown(est.checkpoint, est'.checkpoint, n, m, k, jumps, due)
  <2>1. est.checkpoint \in Seq(FilterSteps)
    BY DEF PromiseInv, Shape
  <2>2. est'.checkpoint = Longer(est.checkpoint, k, dev, jumps, move)
    BY DEF Became
  <2>3. due \in SUBSET Ids
    BY <1>12
  <2>4. \A old \in Seq(FilterSteps) :
          LET cp == Longer(old, k, dev, jumps, move)
          IN  cp \in Seq(FilterSteps) /\ \E n, m \in Nat : Grown(old, cp, n, m, k, jumps, due)
    BY <2>3, CheckpointGrows, Zenon
  <2> QED BY <2>1, <2>2, <2>4, Zenon
<1>15. \A i \in DOMAIN est'.checkpoint : IsStep(est'.checkpoint[i])
  <2>1. \A i \in DOMAIN est.checkpoint : IsStep(est.checkpoint[i])
    BY DEF PromiseInv, Shape
  <2> QED BY <1>14, <2>1 DEF Grown
<1>16. AfterStation(est.sched, k, dev) \in SchedulerStates
  BY AfterStationIs DEF PromiseInv, Shape
<1>17. Shape'
  <2>1. est'.queue \in [DOMAIN est'.queue -> Candidates]
    <3>1. est'.queue = [c \in DOMAIN est'.queue |-> est'.queue[c]]
      BY <1>5 DEF Registered
    <3> QED BY <1>8, <3>1
  <2>2. est'.last \in 0..Len(Log)
    BY <1>5, LogAssumption
  <2>3. est'.sched \in SchedulerStates
    BY <1>16 DEF Became
  <2> QED BY <1>8, <1>14, <1>15, <2>1, <2>2, <2>3 DEF Shape
<1>18. \A c \in VerifiedIn(q) : est'.queue[c] = q[c]
  BY <1>4, <1>7 DEF VerifiedIn
<1>19. due # {} => Mode = "exact_rj"
  BY <1>12
<1>20. Mode = "exact_rj" => VerifiedIn(est'.queue) = VerifiedIn(q) \union due
  BY <1>11, <1>12
<1>21. VerifiedIn(q) \intersect due = {}
  BY <1>12
<1>22. \A c \in due : c.snapshot + Len(est'.queue[c].evidence) = k
  <2> SUFFICES ASSUME NEW c \in due PROVE c.snapshot + Len(est'.queue[c].evidence) = k
    OBVIOUS
  <2>1. c \in DOMAIN q /\ scored[c].state = "verified" /\ q[c].state # "verified"
    BY <1>3, <1>12 DEF VerifiedIn
  <2>2. q[c].state = "pending"
    BY <1>4, <2>1
  <2>3. Len(scored[c].evidence) = k - c.snapshot /\ est'.queue[c] = scored[c]
    BY <1>4, <1>7, <2>1, <2>2
  <2> QED BY <1>1, <1>2, <2>1, <2>3
<1>23. JumpsFollowVerdicts'
  <2>1. Follows(est.checkpoint, est.queue)
    BY DEF PromiseInv, JumpsFollowVerdicts, Follows
  <2>2. PICK n \in Nat, m \in Nat : Grown(est.checkpoint, est'.checkpoint, n, m, k, jumps, due)
    BY <1>14
  <2>3. Verifies(est.queue, est'.queue, due, k)
    BY <1>18, <1>19, <1>20, <1>21, <1>22 DEF Verifies, q
  <2>4. Follows(est'.checkpoint, est'.queue)
    BY <2>1, <2>2, <2>3, JumpsStep
  <2> QED BY <2>4 DEF JumpsFollowVerdicts, Follows
<1> QED BY <1>9, <1>10, <1>13, <1>17, <1>23 DEF PromiseInv

-----------------------------------------------------------------------------
(* EstimatorPromise: theorems *)

\* The invariant survives every step.
LEMMA PromiseInvNext ==
  ASSUME PromiseInv, [PromiseNext]_est
  PROVE  PromiseInv'
<1>1. CASE UNCHANGED est
  <2>1. JumpsFollowVerdicts <=> Follows(est.checkpoint, est.queue)
    BY DEF JumpsFollowVerdicts, Follows
  <2>2. JumpsFollowVerdicts' <=> Follows(est'.checkpoint, est'.queue)
    BY DEF JumpsFollowVerdicts, Follows
  <2> QED BY <1>1, <2>1, <2>2 DEF PromiseInv, Shape, PromiseScoring
<1>2. ASSUME NEW k \in {est.last + 1} \intersect DOMAIN Log, Assimilate(k)
      PROVE  PromiseInv'
  <2>1. PICK dev \in [Steps(k) -> Deviances] :
          \E llr \in [PendingIn(est.queue) -> Ratios] :
            LET scored == [c \in DOMAIN est.queue |->
                             IF c \in DOMAIN llr
                               THEN Scored(est.queue[c],
                                           <<[block |-> Log[k][1], llr |-> llr[c]]>>)
                               ELSE est.queue[c]]
                due == ToJump(scored, est.applied)
                fits == StationTriggers(est.sched, k, dev)
                seen == [s \in DOMAIN est.scored |-> est.scored[s] \union {k}]
            IN  \E jumps \in InOrder(due), move \in [due -> Moves],
                   found \in IF fits THEN SUBSET Names ELSE {{}} :
                  Became(k, dev, scored, due, fits, jumps, move, found, seen)
    BY <1>2, Zenon DEF Assimilate, Became, Longer
  <2>2. PICK llr \in [PendingIn(est.queue) -> Ratios] :
            LET scored == [c \in DOMAIN est.queue |->
                             IF c \in DOMAIN llr
                               THEN Scored(est.queue[c],
                                           <<[block |-> Log[k][1], llr |-> llr[c]]>>)
                               ELSE est.queue[c]]
                due == ToJump(scored, est.applied)
                fits == StationTriggers(est.sched, k, dev)
                seen == [s \in DOMAIN est.scored |-> est.scored[s] \union {k}]
            IN  \E jumps \in InOrder(due), move \in [due -> Moves],
                   found \in IF fits THEN SUBSET Names ELSE {{}} :
                  Became(k, dev, scored, due, fits, jumps, move, found, seen)
    BY <2>1
  <2> DEFINE scored == [c \in DOMAIN est.queue |->
                          IF c \in DOMAIN llr
                            THEN Scored(est.queue[c],
                                        <<[block |-> Log[k][1], llr |-> llr[c]]>>)
                            ELSE est.queue[c]]
             due == ToJump(scored, est.applied)
             fits == StationTriggers(est.sched, k, dev)
             seen == [s \in DOMAIN est.scored |-> est.scored[s] \union {k}]
  <2>3. PICK jumps \in InOrder(due), move \in [due -> Moves] :
          \E found \in IF fits THEN SUBSET Names ELSE {{}} :
            Became(k, dev, scored, due, fits, jumps, move, found, seen)
    BY <2>2
  <2>4. PICK found \in IF fits THEN SUBSET Names ELSE {{}} :
            Became(k, dev, scored, due, fits, jumps, move, found, seen)
    BY <2>3
  <2>5. found \in SUBSET Names /\ (~fits => found = {})
    OBVIOUS
  <2>6. fits \in BOOLEAN
    BY DEF StationTriggers, Triggers
  <2>7. scored = [c \in DOMAIN est.queue |->
                     IF c \in DOMAIN llr
                       THEN Scored(est.queue[c], <<[block |-> Log[k][1], llr |-> llr[c]]>>)
                       ELSE est.queue[c]]
        /\ due = ToJump(scored, est.applied)
        /\ seen = [s \in DOMAIN est.scored |-> est.scored[s] \union {k}]
    OBVIOUS
  <2>8. k \in DOMAIN Log /\ k = est.last + 1
    OBVIOUS
  <2> HIDE DEF scored, due, fits, seen
  <2> QED BY <2>4, <2>5, <2>6, <2>7, <2>8, StationStep
<1> QED BY <1>1, <1>2 DEF PromiseNext

\* It holds of every behaviour.
THEOREM PromiseInvariance == PromiseSpec => []PromiseInv
<1> QED BY PromiseInvInit, PromiseInvNext, PTL DEF PromiseSpec

\* Every verdict follows from its candidate's evidence at its first decisive
\* block, whatever the log, the policies and the fits.
THEOREM VerdictsAreJustified == PromiseSpec => []VerdictsJustified
<1> QED BY PromiseInvariance, PromiseInvImplies, PTL

\* A candidate's evidence is the stations after its snapshot, each once and
\* none skipped.
THEOREM EvidenceStaysTheFuture == PromiseSpec => []EvidenceIsTheFuture
<1> QED BY PromiseInvariance, PromiseInvImplies, PTL

\* The particle filter jumps exactly for the verified candidates, once each and
\* at the station of the verdict.
THEOREM JumpsFollowTheVerdicts == PromiseSpec => []JumpsFollowVerdicts
<1> QED BY PromiseInvariance, PromiseInvImplies, PTL

-----------------------------------------------------------------------------
(* LiveUpdater: the inductive invariant *)

\* The state that a process reads when it starts.
S == IF saved = <<>> THEN FreshState ELSE saved[1]

\* The operations of the station after s.
PFOp(s) == Operation("pf", s.last + 1, NoId)
ScoreOp(s, h) == Operation("score", s.last + 1, [snapshot |-> h, name |-> 0])
JumpOp(s, c) == Operation("rj", s.last + 1, c)
FitOp(s) == Operation("mle", s.last + 1, NoId)

IsSigned(d, n) == n \in DOMAIN d /\ d[n].status = "signed"
Frozen(s, h) == {c \in DOMAIN s.queue : c.snapshot = h}

\* What is made of s, step by step, of what the disk d holds: the particle
\* filter, the scores of the snapshots in done, the jumps of the candidates in
\* the sequence j and the fit.
PFRecord(s, d) == [op |-> "pf", at |-> s.last + 1, of |-> None, out |-> d[PFOp(s)].out]

ScoreOf(s, d, c) ==
  [block |-> Log[s.last + 1][1], llr |-> d[ScoreOp(s, c.snapshot)].out[c]]

QueueAfter(s, d, done) ==
  [c \in DOMAIN s.queue |->
     IF c.snapshot \in done /\ s.queue[c].state = "pending"
       THEN Corroborated(s.queue[c], ScoreOf(s, d, c))
       ELSE s.queue[c]]

ScoredAfter(s, done) ==
  [h \in DOMAIN s.scored |->
     IF h \in done THEN s.scored[h] \union {s.last + 1} ELSE s.scored[h]]

Due(s, d) ==
  IF Mode = "exact_rj"
    THEN {c \in DOMAIN s.queue : QueueAfter(s, d, DOMAIN s.scored)[c].state = "verified"}
           \ s.applied
    ELSE {}

Earlier(s, d, c) == {e \in Due(s, d) : Sooner(e, c)}

JumpRecords(s, d, j) ==
  [i \in DOMAIN j |->
     [op |-> "rj", at |-> s.last + 1, of |-> j[i], out |-> d[JumpOp(s, j[i])].out]]

CheckpointAfter(s, d, j) == s.checkpoint \o <<PFRecord(s, d)>> \o JumpRecords(s, d, j)

AfterScores(s, d, done) ==
  [last |-> s.last, sched |-> AfterStation(s.sched, s.last + 1, d[PFOp(s)].out),
   queue |-> QueueAfter(s, d, done), snapshots |-> s.snapshots,
   scored |-> ScoredAfter(s, done), applied |-> s.applied,
   checkpoint |-> Append(s.checkpoint, PFRecord(s, d))]

AfterJumping(s, d, j) ==
  [last |-> s.last, sched |-> AfterStation(s.sched, s.last + 1, d[PFOp(s)].out),
   queue |-> QueueAfter(s, d, DOMAIN s.scored), snapshots |-> s.snapshots,
   scored |-> ScoredAfter(s, DOMAIN s.scored), applied |-> s.applied \union {j[i] : i \in DOMAIN j},
   checkpoint |-> CheckpointAfter(s, d, j)]

FoundAt(s, d) == {[snapshot |-> s.last + 1, name |-> m] : m \in d[FitOp(s)].out.found}

AfterFit(s, d, j) ==
  [last |-> s.last, sched |-> AfterStation(s.sched, s.last + 1, d[PFOp(s)].out),
   queue |-> [c \in DOMAIN s.queue \union FoundAt(s, d) |->
                IF c \in DOMAIN s.queue THEN QueueAfter(s, d, DOMAIN s.scored)[c]
                                        ELSE NewCandidate(EndStep(s.last + 1))],
   snapshots |-> Append(s.snapshots, s.last + 1),
   scored |-> [h \in DOMAIN s.scored \union {s.last + 1} |->
                 IF h = s.last + 1 THEN {} ELSE ScoredAfter(s, DOMAIN s.scored)[h]],
   applied |-> s.applied \union {j[i] : i \in DOMAIN j},
   checkpoint |-> CheckpointAfter(s, d, j)]

Fits(s, d) == StationTriggers(s.sched, s.last + 1, d[PFOp(s)].out)

ScoresSigned(s, d, done) ==
  /\ IsSigned(d, PFOp(s)) /\ done \subseteq DOMAIN s.scored
  /\ \A h \in done : IsSigned(d, ScoreOp(s, h))

JumpsSigned(s, d, j) == \A i \in DOMAIN j : IsSigned(d, JumpOp(s, j[i]))

\* A part of the due candidates with every earlier one.
First(T, s, d) ==
  /\ T \subseteq Due(s, d)
  /\ \A c \in T, e \in Due(s, d) : Sooner(e, c) => e \in T

\* The process at p has in w what the disk d lets it make of s.
Scoring(w, s, d) ==
  \E done \in SUBSET DOMAIN s.scored : ScoresSigned(s, d, done) /\ w = AfterScores(s, d, done)

Jumped(w, s, d, T) ==
  /\ ScoresSigned(s, d, DOMAIN s.scored) /\ First(T, s, d)
  /\ \E j \in InOrder(T) : JumpsSigned(s, d, j) /\ w = AfterJumping(s, d, j)

Fitted(w, s, d) ==
  /\ ScoresSigned(s, d, DOMAIN s.scored)
  /\ IsSigned(d, FitOp(s)) /\ d[FitOp(s)].out.converged
  /\ \E j \in InOrder(Due(s, d)) : JumpsSigned(s, d, j) /\ w = AfterFit(s, d, j)

Phase(p, w, t, s, d) ==
  /\ p \in {"idle", "pf", "returned", "final", "done"} => w = s
  /\ p \in {"score", "jump", "fit", "save"} => t = Fits(s, d)
  /\ p = "score" => Scoring(w, s, d)
  /\ p = "jump" => Mode = "exact_rj" /\ \E T \in SUBSET Ids : Jumped(w, s, d, T)
  /\ p = "fit" => t /\ Jumped(w, s, d, Due(s, d))
  /\ p = "save" => IF t THEN Fitted(w, s, d) ELSE Jumped(w, s, d, Due(s, d))

\* The state between two stations.
Good(s) ==
  /\ IsState(s) /\ s.checkpoint \in Seq(FilterSteps)
  /\ {s.snapshots[i] : i \in DOMAIN s.snapshots} = DOMAIN s.scored
  /\ \A h \in DOMAIN s.scored : h \in 1..s.last /\ s.scored[h] = (h + 1)..s.last
  /\ \A c \in DOMAIN s.queue :
       /\ c.snapshot \in DOMAIN s.scored
       /\ s.queue[c].cutoff = EndStep(c.snapshot)
       /\ Evidenced(s.last, c.snapshot, s.queue[c])

\* EveryClaimHasAReceipt of a state and a disk: a step of the checkpoint, the
\* candidates of the snapshot h, and a ratio in the evidence of c.
StepClaim(step, d) ==
  LET n == Operation(step.op, step.at, IF step.op = "pf" THEN NoId ELSE step.of)
  IN  IsSigned(d, n) /\ d[n].out = step.out

SnapshotClaim(s, h, d) ==
  LET n == Operation("mle", h, NoId)
  IN  /\ IsSigned(d, n) /\ d[n].out.converged
      /\ d[n].out.found = {c.name : c \in Frozen(s, h)}

RatioClaim(c, e, d) ==
  LET n == Operation("score", e.block.station, [snapshot |-> c.snapshot, name |-> 0])
  IN  IsSigned(d, n) /\ d[n].out[c] = e.llr

Claims(s, d) ==
  /\ \A i \in DOMAIN s.checkpoint : StepClaim(s.checkpoint[i], d)
  /\ \A i \in DOMAIN s.snapshots : SnapshotClaim(s, s.snapshots[i], d)
  /\ \A c \in DOMAIN s.queue : \A i \in DOMAIN s.queue[c].evidence :
       RatioClaim(c, s.queue[c].evidence[i], d)

\* No operation is of a later station than the one after s; what is complete
\* has the values of its kind.
DiskOK(d, s) ==
  \A n \in DOMAIN d :
    /\ d[n].status \in {"partial", "raised", "written", "signed"}
    /\ n.at \in Nat /\ n.at <= s.last + 1
    /\ d[n].status \notin {"partial", "raised"} =>
         /\ n.kind = "pf" => n.at \in DOMAIN Log /\ d[n].out \in [Steps(n.at) -> Deviances]
         /\ n.kind = "score" /\ n.at = s.last + 1 =>
              d[n].out \in [Frozen(s, n.id.snapshot) -> Ratios]
         /\ n.kind = "rj" => d[n].out \in Moves
         /\ n.kind = "mle" => d[n].out \in [found : SUBSET Names, converged : BOOLEAN]

\* What a file says, whichever process wrote it.
FileOK(content, n, s, d) ==
  /\ n.at \in Nat /\ n.at <= s.last + 1
  /\ n.kind = "score" => content = <<n.id, {n.at}>>
  /\ n.kind = "snapshot" /\ n.at = s.last + 1 =>
       IsSigned(d, FitOp(s)) /\ content = <<d[FitOp(s)].out.found>>
  /\ n.kind = "rj" /\ n.at = s.last + 1 =>
       /\ ScoresSigned(s, d, DOMAIN s.scored)
       /\ \E j \in InOrder(Earlier(s, d, n.id)) :
            JumpsSigned(s, d, j) /\ content = <<n.id, CheckpointAfter(s, d, j)>>

FilesOK(f, s, d) == \A n \in DOMAIN f : FileOK(f[n], n, s, d)

Asked(p, a, s) ==
  /\ a \in 1..(Len(Log) + 1)
  /\ p \in {"pf", "score", "jump", "fit", "save"} => a \in DOMAIN Log /\ a = s.last + 1
  /\ p = "returned" => a \in DOMAIN Log /\ a = s.last

\* What a process can end with.
Errors == {"none", "causal", "mle", "estimator"}

Values ==
  /\ Len(saved) <= 1 /\ IsState(work)
  /\ pc \in {"down", "idle", "pf", "score", "jump", "fit", "save", "returned", "final", "done"}
  /\ trigger \in BOOLEAN /\ computed \in BOOLEAN
  /\ refusal \in Errors /\ faults \in 0..MaxFaults

Inv ==
  /\ Values
  /\ Good(S) /\ Claims(S, disk) /\ DiskOK(disk, S) /\ FilesOK(files, S, disk)
  /\ Phase(pc, work, trigger, S, disk) /\ Asked(pc, asked, S)
  /\ computed /\ pc # "down" =>
       \E n \in Needed : n \in DOMAIN disk /\ disk[n].status = "written"

-----------------------------------------------------------------------------
(* The state between two stations *)

\* What Good says of the parts of a state.
LEMMA GoodIs ==
  ASSUME NEW s, Good(s)
  PROVE  /\ s.last \in Nat /\ s.last <= Len(Log) /\ s.sched \in SchedulerStates
         /\ DOMAIN s.queue \subseteq Ids /\ s.queue \in [DOMAIN s.queue -> Candidates]
         /\ s.snapshots \in Seq(DOMAIN Log) /\ s.applied \in SUBSET Ids
         /\ \A h \in DOMAIN s.scored : h \in DOMAIN Log /\ h \in Nat /\ h <= s.last
         /\ s.scored \in [DOMAIN s.scored -> SUBSET DOMAIN Log]
         /\ s = [last |-> s.last, sched |-> s.sched, queue |-> s.queue,
                 snapshots |-> s.snapshots, scored |-> s.scored, applied |-> s.applied,
                 checkpoint |-> s.checkpoint]
<1>1. IsState(s) /\ \A h \in DOMAIN s.scored : h \in 1..s.last
  BY DEF Good
<1>2. Len(Log) \in Nat
  BY LogAssumption
<1>3. s \in [last : 0..Len(Log), sched : SchedulerStates,
             queue : [DOMAIN s.queue -> Candidates],
             snapshots : Seq(DOMAIN Log),
             scored : [DOMAIN s.scored -> SUBSET DOMAIN Log],
             applied : SUBSET Ids, checkpoint : {s.checkpoint}]
      /\ DOMAIN s.queue \subseteq Ids /\ DOMAIN s.scored \subseteq DOMAIN Log
  BY <1>1 DEF IsState
<1> QED BY <1>1, <1>2, <1>3

\* The fresh state is such a state, without a claim.
LEMMA FreshIsGood == Good(FreshState) /\ \A d : Claims(FreshState, d)
<1> DEFINE s == FreshState
<1>1. /\ s.checkpoint = <<>> /\ s.queue = <<>> /\ s.scored = <<>> /\ s.applied = {}
      /\ s.last = 0 /\ s.sched = FreshScheduler /\ s.snapshots = <<>>
      /\ s \in [last : {0}, sched : {FreshScheduler}, queue : {<<>>}, snapshots : {<<>>},
                scored : {<<>>}, applied : {{}}, checkpoint : {<<>>}]
  BY DEF FreshState
<1>2. FreshScheduler \in SchedulerStates
  BY DEF FreshScheduler, SchedulerStates
<1> HIDE DEF s
<1>3. DOMAIN <<>> = {} /\ Len(<<>>) = 0
  OBVIOUS
<1>4. IsState(s)
  <2>1. /\ 0 \in 0..Len(Log) /\ <<>> \in Seq(DOMAIN Log) /\ <<>> \in [{} -> Candidates]
        /\ <<>> \in [{} -> SUBSET DOMAIN Log] /\ {} \in SUBSET Ids /\ 1..0 = {}
    BY <1>3, LogAssumption
  <2>2. s \in [last : 0..Len(Log), sched : SchedulerStates,
               queue : [DOMAIN s.queue -> Candidates],
               snapshots : Seq(DOMAIN Log),
               scored : [DOMAIN s.scored -> SUBSET DOMAIN Log],
               applied : SUBSET Ids, checkpoint : {s.checkpoint}]
    BY <1>1, <1>2, <1>3, <2>1
  <2> QED BY <1>1, <1>3, <2>1, <2>2 DEF IsState
<1> QED BY <1>1, <1>3, <1>4 DEF Good, Claims, s

\* A disk on which the receipts of d are found as they were.
Keeps(d, e) == \A n \in DOMAIN d : d[n].status = "signed" => n \in DOMAIN e /\ e[n] = d[n]

\* Two disks from which the same is made of s.
SameScores(s, d, e, done) ==
  /\ ScoresSigned(s, e, done) /\ PFRecord(s, e) = PFRecord(s, d)
  /\ d[PFOp(s)].out = e[PFOp(s)].out
  /\ QueueAfter(s, e, done) = QueueAfter(s, d, done)
  /\ AfterScores(s, e, done) = AfterScores(s, d, done)

SameJumps(s, d, e, j) ==
  /\ JumpsSigned(s, e, j) /\ CheckpointAfter(s, e, j) = CheckpointAfter(s, d, j)
  /\ AfterJumping(s, e, j) = AfterJumping(s, d, j)

SameFit(s, d, e, j) ==
  /\ IsSigned(e, FitOp(s)) /\ e[FitOp(s)] = d[FitOp(s)]
  /\ AfterFit(s, e, j) = AfterFit(s, d, j)

\* What is made of receipts stays the same.
LEMMA KeepsScores ==
  ASSUME NEW s, NEW d, NEW e, Keeps(d, e), NEW done, ScoresSigned(s, d, done)
  PROVE  SameScores(s, d, e, done)
<1>1. d[PFOp(s)].out = e[PFOp(s)].out /\ ScoresSigned(s, e, done)
  BY DEF Keeps, ScoresSigned, IsSigned
<1>2. PFRecord(s, e) = PFRecord(s, d)
  BY <1>1 DEF PFRecord
<1>3. \A h \in done : d[ScoreOp(s, h)].out = e[ScoreOp(s, h)].out
  BY DEF Keeps, ScoresSigned, IsSigned
<1>4. \A c \in DOMAIN s.queue : c.snapshot \in done => ScoreOf(s, e, c) = ScoreOf(s, d, c)
  BY <1>3 DEF ScoreOf
<1>5. QueueAfter(s, e, done) = QueueAfter(s, d, done)
  BY <1>4 DEF QueueAfter
<1> QED BY <1>1, <1>2, <1>5 DEF AfterScores, SameScores

\* The same candidates are due.
LEMMA KeepsDue ==
  ASSUME NEW s, NEW d, NEW e, Keeps(d, e), ScoresSigned(s, d, DOMAIN s.scored)
  PROVE  Due(s, e) = Due(s, d)
<1>1. SameScores(s, d, e, DOMAIN s.scored)
  BY KeepsScores
<1> QED BY <1>1 DEF Due, SameScores

\* The same jumps lead to the same checkpoint.
LEMMA KeepsJumps ==
  ASSUME NEW s, NEW d, NEW e, Keeps(d, e), ScoresSigned(s, d, DOMAIN s.scored),
         NEW j, JumpsSigned(s, d, j)
  PROVE  SameJumps(s, d, e, j)
<1>1. JumpsSigned(s, e, j) /\ \A i \in DOMAIN j : d[JumpOp(s, j[i])].out = e[JumpOp(s, j[i])].out
  BY DEF Keeps, JumpsSigned, IsSigned
<1>2. JumpRecords(s, e, j) = JumpRecords(s, d, j)
  BY <1>1 DEF JumpRecords
<1>3. SameScores(s, d, e, DOMAIN s.scored)
  BY KeepsScores
<1>4. CheckpointAfter(s, e, j) = CheckpointAfter(s, d, j)
  BY <1>2, <1>3 DEF CheckpointAfter, SameScores
<1> QED BY <1>1, <1>3, <1>4 DEF AfterJumping, SameScores, SameJumps

\* The same fit leads to the same state.
LEMMA KeepsFit ==
  ASSUME NEW s, NEW d, NEW e, Keeps(d, e), ScoresSigned(s, d, DOMAIN s.scored),
         NEW j, JumpsSigned(s, d, j), IsSigned(d, FitOp(s))
  PROVE  SameFit(s, d, e, j)
<1>1. IsSigned(e, FitOp(s)) /\ e[FitOp(s)] = d[FitOp(s)]
  BY DEF Keeps, IsSigned
<1>2. FoundAt(s, e) = FoundAt(s, d)
  BY <1>1 DEF FoundAt
<1>3. SameScores(s, d, e, DOMAIN s.scored) /\ SameJumps(s, d, e, j)
  BY KeepsScores, KeepsJumps
<1> QED BY <1>1, <1>2, <1>3 DEF AfterFit, SameScores, SameJumps, SameFit

\* A process in the middle of an update does not notice what is written to the
\* disk unless a receipt is.
LEMMA KeepsPhase ==
  ASSUME NEW s, NEW d, NEW e, Keeps(d, e), NEW p, NEW w, NEW t, Phase(p, w, t, s, d)
  PROVE  Phase(p, w, t, s, e)
<1>1. Scoring(w, s, d) => Scoring(w, s, e)
  BY KeepsScores DEF Scoring, SameScores
<1>2. ASSUME NEW T, Jumped(w, s, d, T) PROVE Jumped(w, s, e, T)
  <2>1. ScoresSigned(s, d, DOMAIN s.scored)
    BY <1>2 DEF Jumped
  <2>2. SameScores(s, d, e, DOMAIN s.scored) /\ Due(s, e) = Due(s, d)
    BY <2>1, KeepsScores, KeepsDue
  <2>3. PICK j \in InOrder(T) : JumpsSigned(s, d, j) /\ w = AfterJumping(s, d, j)
    BY <1>2 DEF Jumped
  <2>4. SameJumps(s, d, e, j)
    BY <2>1, <2>3, KeepsJumps
  <2> QED BY <1>2, <2>2, <2>3, <2>4 DEF Jumped, First, SameScores, SameJumps
<1>3. ScoresSigned(s, d, DOMAIN s.scored) => Due(s, e) = Due(s, d)
  BY KeepsDue
<1>4. Fitted(w, s, d) => Fitted(w, s, e)
  <2> SUFFICES ASSUME Fitted(w, s, d) PROVE Fitted(w, s, e)
    OBVIOUS
  <2>1. ScoresSigned(s, d, DOMAIN s.scored) /\ IsSigned(d, FitOp(s)) /\ d[FitOp(s)].out.converged
    BY DEF Fitted
  <2>2. SameScores(s, d, e, DOMAIN s.scored) /\ Due(s, e) = Due(s, d)
    BY <2>1, KeepsScores, KeepsDue
  <2>3. PICK j \in InOrder(Due(s, d)) : JumpsSigned(s, d, j) /\ w = AfterFit(s, d, j)
    BY DEF Fitted
  <2>4. SameJumps(s, d, e, j) /\ SameFit(s, d, e, j)
    BY <2>1, <2>3, KeepsJumps, KeepsFit
  <2> QED BY <2>1, <2>2, <2>3, <2>4 DEF Fitted, SameScores, SameJumps, SameFit
<1>5. p \in {"score", "jump", "fit", "save"} => IsSigned(d, PFOp(s))
  BY DEF Phase, Scoring, Jumped, Fitted, ScoresSigned
<1>6. p \in {"score", "jump", "fit", "save"} => Fits(s, e) = Fits(s, d)
  BY <1>5 DEF Fits, Keeps, IsSigned
<1>7. Jumped(w, s, d, Due(s, d)) => Jumped(w, s, e, Due(s, e))
  BY <1>2, <1>3 DEF Jumped
<1> QED BY <1>1, <1>2, <1>4, <1>6, <1>7 DEF Phase

\* The derived files say the same.
LEMMA KeepsFiles ==
  ASSUME NEW s, NEW d, NEW e, Keeps(d, e), NEW f, FilesOK(f, s, d)
  PROVE  FilesOK(f, s, e)
<1> SUFFICES ASSUME NEW n, NEW content, FileOK(content, n, s, d)
             PROVE  FileOK(content, n, s, e)
  BY DEF FilesOK
<1>1. n.at \in Nat /\ n.at <= s.last + 1 /\ (n.kind = "score" => content = <<n.id, {n.at}>>)
  BY DEF FileOK
<1>2. ASSUME n.kind = "snapshot" /\ n.at = s.last + 1
      PROVE  IsSigned(e, FitOp(s)) /\ content = <<e[FitOp(s)].out.found>>
  BY <1>2 DEF FileOK, Keeps, IsSigned
<1>3. ASSUME n.kind = "rj" /\ n.at = s.last + 1
      PROVE  /\ ScoresSigned(s, e, DOMAIN s.scored)
             /\ \E j \in InOrder(Earlier(s, e, n.id)) :
                  JumpsSigned(s, e, j) /\ content = <<n.id, CheckpointAfter(s, e, j)>>
  <2>1. ScoresSigned(s, d, DOMAIN s.scored)
    BY <1>3 DEF FileOK
  <2>2. PICK j \in InOrder(Earlier(s, d, n.id)) :
          JumpsSigned(s, d, j) /\ content = <<n.id, CheckpointAfter(s, d, j)>>
    BY <1>3 DEF FileOK
  <2>3. Due(s, e) = Due(s, d)
    BY <2>1, KeepsDue
  <2>4. ScoresSigned(s, e, DOMAIN s.scored)
    BY <2>1, KeepsScores DEF SameScores
  <2>5. SameJumps(s, d, e, j)
    BY <2>1, <2>2, KeepsJumps
  <2> QED BY <2>2, <2>3, <2>4, <2>5 DEF SameJumps, Earlier
<1> QED BY <1>1, <1>2, <1>3 DEF FileOK

\* Claims keep their receipts.
LEMMA KeepsClaims ==
  ASSUME NEW s, NEW d, NEW e, Keeps(d, e), Claims(s, d)
  PROVE  Claims(s, e)
<1>1. \A n : IsSigned(d, n) => IsSigned(e, n) /\ e[n] = d[n]
  BY DEF Keeps, IsSigned
<1> QED BY <1>1 DEF Claims, StepClaim, SnapshotClaim, RatioClaim

-----------------------------------------------------------------------------
(* What is made of a state *)

\* A record with typed parts is a state.
LEMMA MadeState ==
  ASSUME NEW last \in 0..Len(Log), NEW sched \in SchedulerStates,
         NEW queue, queue \in [DOMAIN queue -> Candidates], DOMAIN queue \subseteq Ids,
         NEW snapshots \in Seq(DOMAIN Log),
         NEW scored, scored \in [DOMAIN scored -> SUBSET DOMAIN Log],
         DOMAIN scored \subseteq DOMAIN Log,
         NEW applied \in SUBSET Ids, NEW checkpoint \in Seq(FilterSteps),
         \A i \in DOMAIN checkpoint : IsStep(checkpoint[i])
  PROVE  IsState([last |-> last, sched |-> sched, queue |-> queue, snapshots |-> snapshots,
                  scored |-> scored, applied |-> applied, checkpoint |-> checkpoint])
<1>1. DOMAIN checkpoint = 1..Len(checkpoint)
  OBVIOUS
<1> QED BY <1>1 DEF IsState

\* A candidate after the station k that comes after its snapshot: old evidence
\* and at most one more ratio, the receipt's.
OneMore(s, d, c, new) ==
  LET old == s.queue[c]
  IN  /\ new \in Candidates /\ new.cutoff = old.cutoff
      /\ \A i \in DOMAIN new.evidence :
           \/ i \in DOMAIN old.evidence /\ new.evidence[i] = old.evidence[i]
           \/ new.evidence[i] = ScoreOf(s, d, c)

\* The parts of a state after the particle filter and the scores of done.
PartsAfter(s, d, done) ==
  /\ d[PFOp(s)].out \in [Steps(s.last + 1) -> Deviances]
  /\ AfterStation(s.sched, s.last + 1, d[PFOp(s)].out) \in SchedulerStates
  /\ PFRecord(s, d) \in FilterSteps /\ IsStep(PFRecord(s, d)) /\ PFRecord(s, d).op = "pf"
  /\ DOMAIN QueueAfter(s, d, done) = DOMAIN s.queue
  /\ QueueAfter(s, d, done) \in [DOMAIN s.queue -> Candidates]
  /\ DOMAIN ScoredAfter(s, done) = DOMAIN s.scored
  /\ ScoredAfter(s, done) \in [DOMAIN s.scored -> SUBSET DOMAIN Log]
  /\ \A c \in DOMAIN s.queue :
       /\ OneMore(s, d, c, QueueAfter(s, d, done)[c])
       /\ c.snapshot \in done => Evidenced(s.last + 1, c.snapshot, QueueAfter(s, d, done)[c])

\* The score of a frozen candidate is a ratio.
LEMMA ScoreIs ==
  ASSUME NEW s, NEW d, Good(s), DiskOK(d, s), NEW c \in DOMAIN s.queue,
         IsSigned(d, ScoreOp(s, c.snapshot))
  PROVE  d[ScoreOp(s, c.snapshot)].out[c] \in Ratios
<1> DEFINE n == ScoreOp(s, c.snapshot)
<1>1. n \in DOMAIN d /\ d[n].status \notin {"partial", "raised"} /\ n.kind = "score" /\ n.at = s.last + 1
      /\ n.id.snapshot = c.snapshot
  BY DEF IsSigned, ScoreOp, Operation
<1> HIDE DEF n
<1>2. d[n].out \in [Frozen(s, c.snapshot) -> Ratios]
  BY <1>1 DEF DiskOK
<1> QED BY <1>2 DEF Frozen, n

\* What the scores make of them.
LEMMA PartsAfterIs ==
  ASSUME NEW s, NEW d, Good(s), DiskOK(d, s), s.last + 1 \in DOMAIN Log,
         NEW done, ScoresSigned(s, d, done)
  PROVE  PartsAfter(s, d, done)
<1> DEFINE k == s.last + 1
           q == QueueAfter(s, d, done)
<1>1. d[PFOp(s)].out \in [Steps(k) -> Deviances]
  BY DEF ScoresSigned, IsSigned, DiskOK, PFOp, Operation
<1>2. AfterStation(s.sched, k, d[PFOp(s)].out) \in SchedulerStates
  BY <1>1, GoodIs, AfterStationIs
<1>3. PFRecord(s, d) \in FilterSteps /\ IsStep(PFRecord(s, d)) /\ PFRecord(s, d).op = "pf"
  BY <1>1 DEF PFRecord, FilterSteps, Outs, IsStep
<1>4. ASSUME NEW c \in DOMAIN s.queue
      PROVE  /\ OneMore(s, d, c, q[c])
             /\ c.snapshot \in done => Evidenced(k, c.snapshot, q[c])
  <2> DEFINE old == s.queue[c]
             h == c.snapshot
  <2>1. old \in Candidates /\ k \in Nat /\ s.last = k - 1
    <3>1. s.last \in Nat /\ s.queue \in [DOMAIN s.queue -> Candidates]
      BY GoodIs
    <3> QED BY <3>1
  <2>2. h \in 1..(k - 1) /\ Evidenced(k - 1, h, old)
    BY <2>1 DEF Good
  <2> HIDE DEF old, h, k
  <2>3. CASE h \notin done
    <3>1. q[c] = old
      BY <2>3 DEF QueueAfter, old, h
    <3> QED BY <2>1, <2>3, <3>1 DEF OneMore, old, h
  <2>4. CASE h \in done /\ old.state # "pending"
    <3>1. q[c] = old
      BY <2>4 DEF QueueAfter, old, h
    <3>2. Evidenced(k, h, old)
      BY <2>1, <2>2, <2>4, EvidencedStays DEF k
    <3> QED BY <2>1, <3>1, <3>2 DEF OneMore, old, h
  <2>5. CASE h \in done /\ old.state = "pending"
    <3> DEFINE llr == d[ScoreOp(s, h)].out[c]
               e == [block |-> Log[k][1], llr |-> llr]
    <3>1. llr \in Ratios
      BY <2>5, ScoreIs DEF ScoresSigned, h
    <3>2. q[c] = Corroborated(old, e) /\ e = ScoreOf(s, d, c)
      BY <2>5 DEF QueueAfter, ScoreOf, old, h, k
    <3> HIDE DEF llr
    <3>3. Corroborated(old, e) \in Candidates /\ Evidenced(k, h, Corroborated(old, e))
      BY <2>1, <2>2, <2>5, <3>1, OneBlockAssumption, EvidencedStep DEF k
    <3>4. e \in Evidence
      BY <3>1, OneBlockAssumption, ScoreIsEvidence DEF k
    <3> HIDE DEF e
    <3>5. Corroborated(old, e).evidence = Append(old.evidence, e)
          /\ Corroborated(old, e).cutoff = old.cutoff
      BY <2>1, <3>4, CorroboratedIs DEF Corroborated, Candidates
    <3>6. old.evidence \in Seq(Evidence)
      BY <2>1 DEF Candidates
    <3>7. \A i \in DOMAIN Append(old.evidence, e) :
            \/ i \in DOMAIN old.evidence /\ Append(old.evidence, e)[i] = old.evidence[i]
            \/ Append(old.evidence, e)[i] = e
      BY <3>6
    <3>8. OneMore(s, d, c, q[c])
      BY <3>2, <3>3, <3>5, <3>7 DEF OneMore, old
    <3> QED BY <3>2, <3>3, <3>8 DEF h
  <2> QED BY <2>3, <2>4, <2>5 DEF h, k
<1>5. DOMAIN q = DOMAIN s.queue /\ q \in [DOMAIN s.queue -> Candidates]
  <2>1. q = [c \in DOMAIN s.queue |-> q[c]] /\ DOMAIN q = DOMAIN s.queue
    BY DEF QueueAfter
  <2> QED BY <1>4, <2>1 DEF OneMore
<1>6. DOMAIN ScoredAfter(s, done) = DOMAIN s.scored
      /\ ScoredAfter(s, done) \in [DOMAIN s.scored -> SUBSET DOMAIN Log]
  BY GoodIs DEF ScoredAfter
<1> QED BY <1>1, <1>2, <1>3, <1>4, <1>5, <1>6 DEF PartsAfter

\* The parts of a state after the jumps of j.
JumpsAfter(s, d, j, T) ==
  /\ Due(s, d) \in SUBSET Ids
  /\ \E m \in Nat : j \in [1..m -> T] /\ {j[i] : i \in 1..m} = T
  /\ {j[i] : i \in DOMAIN j} = T
  /\ JumpRecords(s, d, j) \in Seq(FilterSteps)
  /\ DOMAIN j = 1..Len(JumpRecords(s, d, j))
  /\ CheckpointAfter(s, d, j) \in Seq(FilterSteps)
  /\ Extends(s.checkpoint, PFRecord(s, d), JumpRecords(s, d, j), CheckpointAfter(s, d, j))
  /\ \A i \in DOMAIN CheckpointAfter(s, d, j) : IsStep(CheckpointAfter(s, d, j)[i])

\* The checkpoint after some of the jumps.
LEMMA JumpsAfterIs ==
  ASSUME NEW s, NEW d, Good(s), DiskOK(d, s), s.last + 1 \in DOMAIN Log,
         ScoresSigned(s, d, DOMAIN s.scored),
         NEW T \in SUBSET Due(s, d), NEW j \in InOrder(T), JumpsSigned(s, d, j)
  PROVE  JumpsAfter(s, d, j, T)
<1> DEFINE steps == JumpRecords(s, d, j)
           cp == CheckpointAfter(s, d, j)
           first == PFRecord(s, d)
           old == s.checkpoint
<1>1. Due(s, d) \in SUBSET Ids
  BY GoodIs DEF Due
<1>2. PICK m \in Nat : j \in [1..m -> T] /\ {j[i] : i \in 1..m} = T
  <2>1. T \in SUBSET Ids
    BY <1>1
  <2> QED BY <2>1, InOrderIs
<1>3. first \in FilterSteps /\ IsStep(first)
  BY PartsAfterIs DEF PartsAfter
<1>4. \A i \in 1..m : d[JumpOp(s, j[i])].out \in Moves /\ j[i] \in Ids
  <2>1. \A i \in 1..m : IsSigned(d, JumpOp(s, j[i]))
    BY <1>2 DEF JumpsSigned
  <2>2. \A n \in DOMAIN d : d[n].status = "signed" /\ n.kind = "rj" => d[n].out \in Moves
    BY DEF DiskOK
  <2> QED BY <1>1, <1>2, <2>1, <2>2 DEF IsSigned, JumpOp, Operation
<1>5. \A i \in 1..m : steps[i] \in FilterSteps /\ IsStep(steps[i])
  BY <1>2, <1>4 DEF JumpRecords, FilterSteps, Outs, IsStep
<1>6. steps = [i \in 1..m |-> steps[i]]
  BY <1>2 DEF JumpRecords
<1>7. cp = old \o <<first>> \o steps
  BY DEF CheckpointAfter
<1>8. old \in Seq(FilterSteps) /\ \A i \in DOMAIN old : IsStep(old[i])
  BY DEF Good, IsState
<1> HIDE DEF steps, first, cp, old
<1>9. steps \in [1..m -> FilterSteps]
  BY <1>5, <1>6
<1>10. steps \in Seq(FilterSteps) /\ Len(steps) = m
  BY <1>9
<1>11. cp \in Seq(FilterSteps) /\ Extends(old, first, steps, cp)
  BY <1>3, <1>7, <1>8, <1>10, Extended
<1>12. DOMAIN old = 1..Len(old)
  BY <1>8
<1>13. \A i \in DOMAIN cp : IsStep(cp[i])
  BY <1>3, <1>5, <1>8, <1>10, <1>11, <1>12 DEF Extends
<1>14. DOMAIN j = 1..m
  BY <1>2
<1> QED BY <1>1, <1>2, <1>10, <1>11, <1>13, <1>14 DEF JumpsAfter, steps, first, cp, old

\* In memory there is always such a state.
LEMMA ScoringIsState ==
  ASSUME NEW s, NEW d, NEW w, Good(s), DiskOK(d, s), s.last + 1 \in DOMAIN Log,
         Scoring(w, s, d)
  PROVE  IsState(w)
<1>1. PICK done : ScoresSigned(s, d, done) /\ w = AfterScores(s, d, done)
  BY DEF Scoring
<1>2. PartsAfter(s, d, done)
  BY <1>1, PartsAfterIs
<1> DEFINE cp == Append(s.checkpoint, PFRecord(s, d))
           old == s.checkpoint
           first == PFRecord(s, d)
<1>3. cp \in Seq(FilterSteps) /\ \A i \in DOMAIN cp : IsStep(cp[i])
  <2>1. old \in Seq(FilterSteps) /\ \A i \in DOMAIN old : IsStep(old[i])
    BY DEF Good, IsState
  <2>2. first \in FilterSteps /\ IsStep(first)
    BY <1>2 DEF PartsAfter
  <2> HIDE DEF old, first
  <2>3. \A i \in DOMAIN Append(old, first) :
          \/ i \in DOMAIN old /\ Append(old, first)[i] = old[i]
          \/ Append(old, first)[i] = first
    BY <2>1, <2>2
  <2>4. Append(old, first) \in Seq(FilterSteps)
    BY <2>1, <2>2
  <2> QED BY <2>1, <2>2, <2>3, <2>4 DEF old, first
<1>4. s.last \in 0..Len(Log) /\ s.snapshots \in Seq(DOMAIN Log) /\ s.applied \in SUBSET Ids
      /\ DOMAIN s.queue \subseteq Ids /\ DOMAIN s.scored \subseteq DOMAIN Log
  BY GoodIs, LogAssumption
<1> DEFINE q == QueueAfter(s, d, done)
           sc == ScoredAfter(s, done)
           sched == AfterStation(s.sched, s.last + 1, d[PFOp(s)].out)
<1>5. /\ sched \in SchedulerStates
      /\ q \in [DOMAIN q -> Candidates] /\ DOMAIN q \subseteq Ids
      /\ sc \in [DOMAIN sc -> SUBSET DOMAIN Log] /\ DOMAIN sc \subseteq DOMAIN Log
  BY <1>2, <1>4 DEF PartsAfter
<1> HIDE DEF q, sc, sched, cp
<1>6. IsState([last |-> s.last, sched |-> sched, queue |-> q, snapshots |-> s.snapshots,
               scored |-> sc, applied |-> s.applied, checkpoint |-> cp])
  BY <1>3, <1>4, <1>5, MadeState
<1> QED BY <1>1, <1>6 DEF AfterScores, q, sc, sched, cp

\* With some of the jumps it is a state too.
LEMMA JumpedIsState ==
  ASSUME NEW s, NEW d, NEW w, NEW T, Good(s), DiskOK(d, s), s.last + 1 \in DOMAIN Log,
         Jumped(w, s, d, T)
  PROVE  IsState(w)
<1>1. PICK j \in InOrder(T) : JumpsSigned(s, d, j) /\ w = AfterJumping(s, d, j)
  BY DEF Jumped
<1>2. ScoresSigned(s, d, DOMAIN s.scored) /\ T \in SUBSET Due(s, d)
  BY DEF Jumped, First
<1>3. PartsAfter(s, d, DOMAIN s.scored)
  BY <1>2, PartsAfterIs
<1>4. JumpsAfter(s, d, j, T)
  BY <1>1, <1>2, JumpsAfterIs
<1>5. s.last \in 0..Len(Log) /\ s.snapshots \in Seq(DOMAIN Log) /\ s.applied \in SUBSET Ids
      /\ DOMAIN s.queue \subseteq Ids /\ DOMAIN s.scored \subseteq DOMAIN Log
  BY GoodIs, LogAssumption
<1> DEFINE q == QueueAfter(s, d, DOMAIN s.scored)
           sc == ScoredAfter(s, DOMAIN s.scored)
           sched == AfterStation(s.sched, s.last + 1, d[PFOp(s)].out)
           applied == s.applied \union {j[i] : i \in DOMAIN j}
           cp == CheckpointAfter(s, d, j)
<1>6. /\ sched \in SchedulerStates
      /\ q \in [DOMAIN q -> Candidates] /\ DOMAIN q \subseteq Ids
      /\ sc \in [DOMAIN sc -> SUBSET DOMAIN Log] /\ DOMAIN sc \subseteq DOMAIN Log
  BY <1>3, <1>5 DEF PartsAfter
<1>7. applied \in SUBSET Ids /\ cp \in Seq(FilterSteps) /\ \A i \in DOMAIN cp : IsStep(cp[i])
  BY <1>2, <1>4, <1>5 DEF JumpsAfter
<1> HIDE DEF q, sc, sched, applied, cp
<1>8. IsState([last |-> s.last, sched |-> sched, queue |-> q, snapshots |-> s.snapshots,
               scored |-> sc, applied |-> applied, checkpoint |-> cp])
  BY <1>5, <1>6, <1>7, MadeState
<1> QED BY <1>1, <1>8 DEF AfterJumping, q, sc, sched, applied, cp

\* The candidates of the new snapshot, and all of them after it.
QueueWith(s, d) ==
  [c \in DOMAIN s.queue \union FoundAt(s, d) |->
     IF c \in DOMAIN s.queue THEN QueueAfter(s, d, DOMAIN s.scored)[c]
                             ELSE NewCandidate(EndStep(s.last + 1))]

ScoredWith(s) ==
  [h \in DOMAIN s.scored \union {s.last + 1} |->
     IF h = s.last + 1 THEN {} ELSE ScoredAfter(s, DOMAIN s.scored)[h]]

\* What the new snapshot adds: candidates that nobody had, of this station, and
\* a place among the scored ones.
LEMMA WithSnapshotIs ==
  ASSUME NEW s, NEW d, Good(s), DiskOK(d, s), s.last + 1 \in DOMAIN Log,
         ScoresSigned(s, d, DOMAIN s.scored), IsSigned(d, FitOp(s))
  PROVE  /\ d[FitOp(s)].out \in [found : SUBSET Names, converged : BOOLEAN]
         /\ FoundAt(s, d) \subseteq Ids /\ FoundAt(s, d) \intersect DOMAIN s.queue = {}
         /\ DOMAIN QueueWith(s, d) = DOMAIN s.queue \union FoundAt(s, d)
         /\ QueueWith(s, d) \in [DOMAIN s.queue \union FoundAt(s, d) -> Candidates]
         /\ \A c \in DOMAIN s.queue :
              QueueWith(s, d)[c] = QueueAfter(s, d, DOMAIN s.scored)[c]
         /\ \A c \in FoundAt(s, d) : c.snapshot = s.last + 1
              /\ QueueWith(s, d)[c] = NewCandidate(EndStep(s.last + 1))
         /\ DOMAIN ScoredWith(s) = DOMAIN s.scored \union {s.last + 1}
         /\ ScoredWith(s) \in [DOMAIN s.scored \union {s.last + 1} -> SUBSET DOMAIN Log]
<1> DEFINE k == s.last + 1
<1>1. d[FitOp(s)].out \in [found : SUBSET Names, converged : BOOLEAN]
  BY DEF DiskOK, IsSigned, FitOp, Operation
<1>2. FoundAt(s, d) \subseteq Ids /\ \A c \in FoundAt(s, d) : c.snapshot = k
  BY <1>1 DEF FoundAt, Ids
<1>3. s.last \in Nat /\ \A h \in DOMAIN s.scored : h \in Nat /\ h <= s.last
  BY GoodIs
<1>4. \A c \in DOMAIN s.queue : c.snapshot # k
  BY <1>3 DEF Good
<1>5. FoundAt(s, d) \intersect DOMAIN s.queue = {}
  BY <1>2, <1>4
<1>6. PartsAfter(s, d, DOMAIN s.scored)
  BY PartsAfterIs
<1>7. NewCandidate(EndStep(k)) \in Candidates
  BY EvidencedNew
<1> HIDE DEF k
<1>8. QueueWith(s, d) \in [DOMAIN s.queue \union FoundAt(s, d) -> Candidates]
  BY <1>6, <1>7 DEF QueueWith, PartsAfter, k
<1>9. ScoredWith(s) \in [DOMAIN s.scored \union {k} -> SUBSET DOMAIN Log]
  BY <1>6 DEF ScoredWith, PartsAfter, k
<1> QED BY <1>1, <1>2, <1>5, <1>8, <1>9 DEF QueueWith, ScoredWith, k

\* And with the new snapshot.
LEMMA FittedIsState ==
  ASSUME NEW s, NEW d, NEW w, Good(s), DiskOK(d, s), s.last + 1 \in DOMAIN Log,
         Fitted(w, s, d)
  PROVE  IsState(w)
<1>1. PICK j \in InOrder(Due(s, d)) : JumpsSigned(s, d, j) /\ w = AfterFit(s, d, j)
  BY DEF Fitted
<1>2. ScoresSigned(s, d, DOMAIN s.scored) /\ IsSigned(d, FitOp(s))
  BY DEF Fitted
<1>3. PartsAfter(s, d, DOMAIN s.scored)
  BY <1>2, PartsAfterIs
<1>4. JumpsAfter(s, d, j, Due(s, d))
  BY <1>1, <1>2, JumpsAfterIs
<1>5. s.last \in 0..Len(Log) /\ s.snapshots \in Seq(DOMAIN Log) /\ s.applied \in SUBSET Ids
      /\ DOMAIN s.queue \subseteq Ids /\ DOMAIN s.scored \subseteq DOMAIN Log
  BY GoodIs, LogAssumption
<1> DEFINE q == QueueWith(s, d)
           sc == ScoredWith(s)
           sched == AfterStation(s.sched, s.last + 1, d[PFOp(s)].out)
           applied == s.applied \union {j[i] : i \in DOMAIN j}
           snapshots == Append(s.snapshots, s.last + 1)
           cp == CheckpointAfter(s, d, j)
<1>6. /\ q \in [DOMAIN q -> Candidates] /\ DOMAIN q \subseteq Ids
      /\ sc \in [DOMAIN sc -> SUBSET DOMAIN Log] /\ DOMAIN sc \subseteq DOMAIN Log
  <2>1. /\ FoundAt(s, d) \subseteq Ids
        /\ DOMAIN QueueWith(s, d) = DOMAIN s.queue \union FoundAt(s, d)
        /\ QueueWith(s, d) \in [DOMAIN s.queue \union FoundAt(s, d) -> Candidates]
        /\ DOMAIN ScoredWith(s) = DOMAIN s.scored \union {s.last + 1}
        /\ ScoredWith(s) \in [DOMAIN s.scored \union {s.last + 1} -> SUBSET DOMAIN Log]
    BY <1>2, WithSnapshotIs, Zenon
  <2> QED BY <1>5, <2>1
<1>7. /\ sched \in SchedulerStates /\ snapshots \in Seq(DOMAIN Log)
      /\ applied \in SUBSET Ids /\ cp \in Seq(FilterSteps) /\ \A i \in DOMAIN cp : IsStep(cp[i])
  BY <1>3, <1>4, <1>5 DEF JumpsAfter, PartsAfter
<1> HIDE DEF q, sc, sched, applied, cp, snapshots
<1>8. IsState([last |-> s.last, sched |-> sched, queue |-> q, snapshots |-> snapshots,
               scored |-> sc, applied |-> applied, checkpoint |-> cp])
  BY <1>5, <1>6, <1>7, MadeState
<1> QED BY <1>1, <1>8 DEF AfterFit, QueueWith, ScoredWith, q, sc, sched, applied, cp, snapshots

\* Wherever a running process is, it has such a state in memory.
LEMMA PhaseIsState ==
  ASSUME NEW s, NEW d, NEW w, NEW p, NEW t, Good(s), DiskOK(d, s), Phase(p, w, t, s, d),
         p \in {"idle", "pf", "score", "jump", "fit", "save", "returned", "final", "done"},
         p \in {"score", "jump", "fit", "save"} => s.last + 1 \in DOMAIN Log
  PROVE  IsState(w)
<1>1. CASE p \in {"idle", "pf", "returned", "final", "done"}
  BY <1>1 DEF Phase, Good
<1>2. CASE p = "score"
  BY <1>2, ScoringIsState DEF Phase
<1>3. CASE p \in {"jump", "fit"} \/ (p = "save" /\ ~t)
  <2>1. \E T : Jumped(w, s, d, T)
    BY <1>3 DEF Phase
  <2> QED BY <1>3, <2>1, JumpedIsState
<1>4. CASE p = "save" /\ t
  BY <1>4, FittedIsState DEF Phase
<1> QED BY <1>1, <1>2, <1>3, <1>4

-----------------------------------------------------------------------------
(* The next operation *)

\* A running process is at the station after the state it started from.
LEMMA StationOfWork ==
  ASSUME Inv, pc # "down"
  PROVE  K = S.last + 1 /\ K \in Nat
<1>1. work.last = S.last
  <2>1. pc \in {"idle", "pf", "returned", "final", "done"} => work = S
    BY DEF Inv, Phase
  <2>2. pc = "score" => work.last = S.last
    BY DEF Inv, Phase, Scoring, AfterScores
  <2>3. pc \in {"jump", "fit"} \/ (pc = "save" /\ ~trigger) => work.last = S.last
    BY DEF Inv, Phase, Jumped, AfterJumping
  <2>4. pc = "save" /\ trigger => work.last = S.last
    BY DEF Inv, Phase, Fitted, AfterFit
  <2> QED BY <2>1, <2>2, <2>3, <2>4 DEF Inv, Values
<1>2. S.last \in Nat
  BY GoodIs DEF Inv
<1> QED BY <1>1, <1>2 DEF K

\* The next score: of a snapshot that has none for this station yet.
ScoreNext(n, done, h) ==
  /\ h \in DOMAIN S.scored \ done /\ n = ScoreOp(S, h) /\ n.id.snapshot = h
  /\ Available(h) = {K} /\ CandidatesOf(h) = Frozen(S, h)
  /\ work.scored[h] = S.scored[h]

\* While snapshots are scored, that is the next operation; when there is none all
\* of them are.
LEMMA NeededScore ==
  ASSUME Inv, pc = "score", NEW done, ScoresSigned(S, disk, done),
         work = AfterScores(S, disk, done)
  PROVE  /\ \A n \in Needed : \E h : ScoreNext(n, done, h)
         /\ \A n, m \in Needed : n = m
         /\ Unscored = {} => done = DOMAIN S.scored
<1> DEFINE s == S
           k == s.last + 1
<1>1. K = k /\ k \in Nat /\ k \in DOMAIN Log
  BY StationOfWork DEF Inv, Asked
<1>2. Good(s) /\ done \subseteq DOMAIN s.scored
  BY DEF Inv, ScoresSigned
<1>3. work.snapshots = s.snapshots /\ work.scored = ScoredAfter(s, done)
      /\ DOMAIN work.queue = DOMAIN s.queue
  BY DEF AfterScores, QueueAfter
<1>4. s.snapshots \in Seq(DOMAIN Log) /\ s.last \in Nat
  BY <1>2, GoodIs
<1> HIDE DEF s, k
<1>5. {s.snapshots[i] : i \in DOMAIN s.snapshots} = DOMAIN s.scored
      /\ \A h \in DOMAIN s.scored : h \in 1..s.last /\ s.scored[h] = (h + 1)..s.last
  BY <1>2 DEF Good
<1>6. ASSUME NEW h \in DOMAIN s.scored
      PROVE  /\ h \in done => Available(h) = {}
             /\ h \notin done => Available(h) = {K} /\ work.scored[h] = s.scored[h]
  <2>1. h \in 1..s.last /\ s.scored[h] = (h + 1)..s.last
    BY <1>5
  <2>2. work.scored[h] = IF h \in done THEN ((h + 1)..s.last) \union {k} ELSE (h + 1)..s.last
    BY <1>3, <2>1 DEF ScoredAfter, k
  <2>3. Available(h) = ((h + 1)..k) \ work.scored[h]
    BY <1>1 DEF Available
  <2> QED BY <1>1, <1>4, <2>1, <2>2, <2>3 DEF k
<1>7. \A h : CandidatesOf(h) = Frozen(s, h)
  BY <1>3 DEF CandidatesOf, Frozen
<1>8. ASSUME NEW n \in Needed
      PROVE  \E i \in Unscored : /\ \A g \in Unscored : i <= g
                                 /\ n = Operation("score", K, [snapshot |-> work.snapshots[i], name |-> 0])
  BY DEF Needed
<1>9. Unscored \subseteq Nat
  BY <1>3, <1>4 DEF Unscored
<1>10. ASSUME NEW n \in Needed, NEW m \in Needed PROVE n = m
  <2>1. PICK i \in Unscored :
          /\ \A g \in Unscored : i <= g
          /\ n = Operation("score", K, [snapshot |-> work.snapshots[i], name |-> 0])
    BY <1>8
  <2>2. PICK g \in Unscored :
          /\ \A l \in Unscored : g <= l
          /\ m = Operation("score", K, [snapshot |-> work.snapshots[g], name |-> 0])
    BY <1>8
  <2>3. i \in Nat /\ g \in Nat /\ i <= g /\ g <= i
    BY <1>9, <2>1, <2>2
  <2>4. i = g
    BY <2>3
  <2> QED BY <2>1, <2>2, <2>4
<1>11. ASSUME NEW n \in Needed PROVE \E h : ScoreNext(n, done, h)
  <2>1. PICK i \in Unscored :
          n = Operation("score", K, [snapshot |-> work.snapshots[i], name |-> 0])
    BY <1>8
  <2> DEFINE h == work.snapshots[i]
  <2>2. h \in DOMAIN s.scored /\ Available(h) # {}
    BY <1>3, <1>5 DEF Unscored
  <2>3. n = ScoreOp(S, h) /\ n.id.snapshot = h
    BY <1>1, <2>1 DEF ScoreOp, Operation, k, s
  <2> HIDE DEF h
  <2>4. ScoreNext(n, done, h)
    BY <1>6, <1>7, <2>2, <2>3 DEF ScoreNext, s
  <2> QED BY <2>4
<1>12. ASSUME Unscored = {} PROVE done = DOMAIN s.scored
  <2>1. ASSUME NEW h \in DOMAIN s.scored PROVE h \in done
    <3>1. PICK i \in DOMAIN s.snapshots : s.snapshots[i] = h
      BY <1>5
    <3>2. Available(h) = {}
      BY <1>3, <1>12, <3>1 DEF Unscored
    <3> QED BY <1>6, <3>2
  <2> QED BY <1>2, <2>1
<1> QED BY <1>10, <1>11, <1>12 DEF s

\* The next jump: the first of the due candidates that are left.
JumpNext(n, T, c) ==
  /\ c \in Due(S, disk) \ T /\ n = JumpOp(S, c) /\ n.id = c
  /\ T = {e \in Due(S, disk) : Sooner(e, c)}

\* Two candidates are in one order or the other.
LEMMA InOneOrder ==
  ASSUME NEW c \in Ids, NEW e \in Ids
  PROVE  (Sooner(c, e) \/ Sooner(e, c) \/ c = e) /\ ~(Sooner(c, e) /\ Sooner(e, c))
<1>1. Rank[c] \in Nat /\ Rank[e] \in Nat /\ (Rank[c] = Rank[e] => c = e)
  BY RankAssumption
<1> QED BY <1>1 DEF Sooner

\* While candidates jump, that is the next operation; when there is none all the
\* due ones have jumped.
LEMMA NeededJump ==
  ASSUME Inv, pc = "jump", NEW T, First(T, S, disk), ScoresSigned(S, disk, DOMAIN S.scored),
         NEW j \in InOrder(T), JumpsSigned(S, disk, j), work = AfterJumping(S, disk, j)
  PROVE  /\ \A n \in Needed : \E c : JumpNext(n, T, c)
         /\ \A n, m \in Needed : n = m
         /\ Unapplied = {} => T = Due(S, disk)
<1> DEFINE s == S
           due == Due(s, disk)
<1>1. K = s.last + 1 /\ s.last + 1 \in DOMAIN Log
  BY StationOfWork DEF Inv, Asked
<1>2. T \in SUBSET due /\ \A c \in T, e \in due : Sooner(e, c) => e \in T
  BY DEF First
<1>3. JumpsAfter(S, disk, j, T)
  BY <1>1, <1>2, JumpsAfterIs DEF Inv
<1>4. due \in SUBSET Ids /\ {j[i] : i \in DOMAIN j} = T
  BY <1>3 DEF JumpsAfter
<1>5. Mode = "exact_rj"
  BY DEF Inv, Phase
<1>6. Unapplied = due \ T
  <2>1. work.queue = QueueAfter(s, disk, DOMAIN s.scored) /\ work.applied = s.applied \union T
    BY <1>4 DEF AfterJumping
  <2>2. DOMAIN work.queue = DOMAIN s.queue
    BY <2>1 DEF QueueAfter
  <2>3. due = {c \in DOMAIN s.queue : QueueAfter(s, disk, DOMAIN s.scored)[c].state = "verified"}
                \ s.applied
    BY <1>5 DEF Due
  <2> QED BY <2>1, <2>2, <2>3 DEF Unapplied
<1> HIDE DEF s, due
<1>7. ASSUME NEW n \in Needed
      PROVE  \E c \in due \ T : (\A e \in due \ T : e = c \/ Sooner(c, e)) /\ n = Operation("rj", K, c)
  BY <1>6 DEF Needed
<1>8. ASSUME NEW n \in Needed, NEW m \in Needed PROVE n = m
  <2>1. PICK c \in due \ T : (\A e \in due \ T : e = c \/ Sooner(c, e)) /\ n = Operation("rj", K, c)
    BY <1>7
  <2>2. PICK e \in due \ T : (\A f \in due \ T : f = e \/ Sooner(e, f)) /\ m = Operation("rj", K, e)
    BY <1>7
  <2>3. c = e
    BY <1>4, <2>1, <2>2, InOneOrder
  <2> QED BY <2>1, <2>2, <2>3
<1>9. ASSUME NEW n \in Needed PROVE \E c : JumpNext(n, T, c)
  <2>1. PICK c \in due \ T : (\A e \in due \ T : e = c \/ Sooner(c, e)) /\ n = Operation("rj", K, c)
    BY <1>7
  <2>2. n = JumpOp(S, c) /\ n.id = c
    BY <1>1, <2>1 DEF JumpOp, Operation, s
  <2>3. \A e \in due : e \in T <=> Sooner(e, c)
    <3>1. \A e \in T : Sooner(e, c)
      BY <1>2, <1>4, <2>1, InOneOrder
    <3>2. \A e \in due \ T : ~Sooner(e, c)
      BY <1>4, <2>1, InOneOrder
    <3> QED BY <1>2, <3>1, <3>2
  <2>4. T = {e \in due : Sooner(e, c)}
    BY <1>2, <2>3
  <2> QED BY <2>1, <2>2, <2>4 DEF JumpNext, due, s
<1> QED BY <1>2, <1>6, <1>8, <1>9 DEF due, s

\* The next operation belongs to the station, and its results are of its kind;
\* there is one at most.
LEMMA NeededIs ==
  ASSUME Inv, NEW n \in Needed
  PROVE  /\ pc \in {"pf", "score", "jump", "fit", "final"} /\ n.at = S.last + 1
         /\ pc = "pf" => n = PFOp(S) /\ n.at \in DOMAIN Log
         /\ pc = "score" => n.kind = "score" /\ CandidatesOf(n.id.snapshot) = Frozen(S, n.id.snapshot)
                            /\ n = ScoreOp(S, n.id.snapshot)
         /\ pc = "jump" => n.kind = "rj" /\ n.id \in Ids /\ n = JumpOp(S, n.id)
         /\ pc = "fit" => n = FitOp(S)
         /\ pc = "final" => n.kind = "final"
         /\ \A m \in Needed : m = n
<1>1. pc \in {"pf", "score", "jump", "fit", "final"}
  BY DEF Needed
<1>2. K = S.last + 1
  BY <1>1, StationOfWork
<1>3. CASE pc = "score"
  <2>1. PICK done : ScoresSigned(S, disk, done) /\ work = AfterScores(S, disk, done)
    BY <1>3 DEF Inv, Phase, Scoring
  <2>2. /\ \E h : ScoreNext(n, done, h)
        /\ \A m \in Needed : n = m
    BY <1>3, <2>1, NeededScore
  <2>3. PICK h : ScoreNext(n, done, h)
    BY <2>2
  <2> QED BY <1>3, <2>2, <2>3 DEF ScoreNext, ScoreOp, Operation
<1>4. CASE pc = "jump"
  <2>1. PICK T : Jumped(work, S, disk, T)
    BY <1>4 DEF Inv, Phase
  <2>2. PICK j \in InOrder(T) : JumpsSigned(S, disk, j) /\ work = AfterJumping(S, disk, j)
    BY <2>1 DEF Jumped
  <2>3. First(T, S, disk) /\ ScoresSigned(S, disk, DOMAIN S.scored)
    BY <2>1 DEF Jumped
  <2>4. /\ \E c : JumpNext(n, T, c)
        /\ \A m \in Needed : n = m
    BY <1>4, <2>2, <2>3, NeededJump
  <2>5. PICK c : JumpNext(n, T, c)
    BY <2>4
  <2>6. Due(S, disk) \subseteq Ids
    BY GoodIs DEF Inv, Due
  <2> QED BY <1>4, <2>4, <2>5, <2>6 DEF JumpNext, JumpOp, Operation
<1>5. CASE pc = "pf"
  <2>1. Needed = {Operation("pf", K, NoId)}
    BY <1>5 DEF Needed
  <2> QED BY <1>2, <1>5, <2>1 DEF PFOp, Operation, Inv, Asked
<1>6. CASE pc = "fit"
  <2>1. Needed = {Operation("mle", K, NoId)}
    BY <1>6 DEF Needed
  <2> QED BY <1>2, <1>6, <2>1 DEF FitOp, Operation
<1>7. CASE pc = "final"
  <2>1. Needed = {Operation("final", K, NoId)}
    BY <1>7 DEF Needed
  <2> QED BY <1>2, <1>7, <2>1 DEF Operation
<1> QED BY <1>1, <1>3, <1>4, <1>5, <1>6, <1>7

-----------------------------------------------------------------------------
(* The steps *)

Places == {"down", "idle", "pf", "score", "jump", "fit", "save", "returned", "final", "done"}

\* The invariant after a step that leaves the state between two stations as it
\* is.
LEMMA Framed ==
  ASSUME Inv, S' = S, Len(saved') <= 1, Keeps(disk, disk'), DiskOK(disk', S),
         FilesOK(files', S, disk), Phase(pc', work', trigger', S, disk'),
         Asked(pc', asked', S), pc' \in Places, trigger' \in BOOLEAN, computed' \in BOOLEAN,
         refusal' \in Errors, faults' \in 0..MaxFaults,
         pc' = "down" => work' = work,
         computed' /\ pc' # "down" =>
           \E n \in Needed' : n \in DOMAIN disk' /\ disk'[n].status = "written"
  PROVE  Inv'
<1>1. FilesOK(files', S, disk')
  BY KeepsFiles
<1>2. Claims(S, disk')
  BY KeepsClaims DEF Inv
<1>3. Good(S) /\ IsState(work)
  BY DEF Inv, Values
<1>4. IsState(work')
  <2>1. CASE pc' = "down"
    BY <1>3, <2>1
  <2>2. CASE pc' # "down"
    <3>1. pc' \in {"score", "jump", "fit", "save"} => S.last + 1 \in DOMAIN Log
      BY DEF Asked
    <3> QED BY <1>3, <2>2, <3>1, PhaseIsState DEF Places
  <2> QED BY <2>1, <2>2
<1>5. Values'
  BY <1>4 DEF Values, Places
<1> QED BY <1>1, <1>2, <1>3, <1>5 DEF Inv

\* Nothing written is nothing lost.
LEMMA KeepsItself == \A d : Keeps(d, d)
  BY DEF Keeps

\* An operation that has no receipt can be written again.
LEMMA WriteOperation ==
  ASSUME Inv, NEW n \in Needed, ~Signed(n), NEW status \in {"partial", "raised", "written", "signed"},
         NEW out, disk' = Written(n, status, out),
         status \notin {"partial", "raised"} =>
           \/ out \in Results(n)
           \/ n \in DOMAIN disk /\ disk[n].status = "written" /\ out = disk[n].out
  PROVE  /\ Keeps(disk, disk') /\ DiskOK(disk', S)
         /\ n \in DOMAIN disk' /\ disk'[n].status = status /\ disk'[n].out = out
<1>1. DOMAIN disk' = DOMAIN disk \union {n} /\ disk'[n] = [status |-> status, out |-> out]
      /\ \A m \in DOMAIN disk : m # n => disk'[m] = disk[m]
  BY DEF Written
<1>2. Keeps(disk, disk')
  BY <1>1 DEF Keeps, Signed
<1>3. DiskOK(disk, S)
  BY DEF Inv
<1>4. n.at \in Nat /\ n.at <= S.last + 1
  <2>1. S.last \in Nat /\ n.at = S.last + 1
    BY NeededIs, GoodIs DEF Inv
  <2> QED BY <2>1
<1>5. ASSUME status \notin {"partial", "raised"}
      PROVE  /\ n.kind = "pf" => n.at \in DOMAIN Log /\ out \in [Steps(n.at) -> Deviances]
             /\ n.kind = "score" /\ n.at = S.last + 1 =>
                  out \in [Frozen(S, n.id.snapshot) -> Ratios]
             /\ n.kind = "rj" => out \in Moves
             /\ n.kind = "mle" => out \in [found : SUBSET Names, converged : BOOLEAN]
  <2>1. CASE n \in DOMAIN disk /\ disk[n].status = "written" /\ out = disk[n].out
    BY <1>3, <2>1 DEF DiskOK
  <2>2. CASE out \in Results(n)
    <3>1. n.kind = "pf" => n.at \in DOMAIN Log
      BY NeededIs DEF PFOp, ScoreOp, JumpOp, FitOp, Operation
    <3>2. n.kind = "score" => CandidatesOf(n.id.snapshot) = Frozen(S, n.id.snapshot)
      BY NeededIs DEF PFOp, ScoreOp, JumpOp, FitOp, Operation
    <3> QED BY <2>2, <3>1, <3>2 DEF Results
  <2> QED BY <1>5, <2>1, <2>2
<1>6. DiskOK(disk', S)
  BY <1>1, <1>3, <1>4, <1>5 DEF DiskOK
<1> QED BY <1>1, <1>2, <1>6

\* The parts of the invariant by name.
LEMMA InvIs ==
  ASSUME Inv
  PROVE  /\ Len(saved) <= 1 /\ pc \in Places /\ trigger \in BOOLEAN /\ computed \in BOOLEAN
         /\ refusal \in Errors /\ faults \in 0..MaxFaults
         /\ Good(S) /\ Claims(S, disk) /\ DiskOK(disk, S) /\ FilesOK(files, S, disk)
         /\ Phase(pc, work, trigger, S, disk) /\ Asked(pc, asked, S)
  BY DEF Inv, Values, Places

\* A process that starts reads the state that the last one saved.
LEMMA StartStep ==
  ASSUME Inv, Start
  PROVE  Inv' /\ S' = S
<1>1. work' = S /\ saved' = <<S>> /\ pc' = "idle" /\ ~computed' /\ trigger' = FALSE
      /\ UNCHANGED <<disk, files, asked, faults>> /\ refusal' = "none"
  BY DEF Start, S
<1>2. saved' # <<>> /\ saved'[1] = S /\ Len(saved') = 1
  BY <1>1
<1>3. S' = S
  BY <1>2 DEF S
<1>4. Phase(pc', work', trigger', S, disk')
  BY <1>1 DEF Phase
<1>5. Asked(pc', asked', S)
  BY <1>1, InvIs DEF Asked
<1>6. Keeps(disk, disk') /\ DiskOK(disk', S) /\ FilesOK(files', S, disk)
  BY <1>1, InvIs, KeepsItself
<1>7. pc' \in Places /\ trigger' \in BOOLEAN /\ computed' \in BOOLEAN
      /\ refusal' \in Errors /\ faults' \in 0..MaxFaults
  BY <1>1, InvIs DEF Places, Errors, Start
<1> QED BY <1>1, <1>2, <1>3, <1>4, <1>5, <1>6, <1>7, Framed

\* The steps between two updates, and the end of a process.
LEMMA EasySteps ==
  ASSUME Inv, BeginUpdate \/ UpdateRefused \/ FitRefused \/ Acknowledge \/ BeginFinal
              \/ UseFinal \/ Crash
  PROVE  Inv'
<1>1. UNCHANGED <<saved, disk, files, work, trigger, computed>> /\ S' = S
  BY DEF BeginUpdate, UpdateRefused, FitRefused, Acknowledge, BeginFinal, UseFinal, Crash,
         Goto, Refuse, S
<1>2. pc # "down" /\ pc' \in Places /\ faults' \in 0..MaxFaults
      /\ refusal' \in Errors
  <2>1. faults \in 0..MaxFaults /\ refusal \in Errors /\ MaxFaults \in Nat
    BY InvIs, FaultsAssumption
  <2> QED BY <2>1 DEF BeginUpdate, UpdateRefused, FitRefused, Acknowledge, BeginFinal, UseFinal,
            Crash, Goto, Refuse, Places, Errors, Running
<1>3. computed /\ pc' # "down" => pc \in {"pf", "score", "jump", "fit", "final"} /\ computed
  BY <1>2, NeededIs DEF Inv
<1>4. ~(computed' /\ pc' # "down")
  <2>1. pc' # "down" => pc \in {"idle", "returned"} \/ (pc = "final" /\ ~computed)
    BY DEF BeginUpdate, UpdateRefused, FitRefused, Acknowledge, BeginFinal, UseFinal,
           Crash, Goto, Refuse, Usable
  <2> QED BY <1>1, <1>3, <2>1
<1>5. Phase(pc', work', trigger', S, disk')
  <2>1. pc' = "down" \/ (pc' \in {"pf", "idle", "final", "done"}
                           /\ pc \in {"idle", "returned", "final"})
    BY DEF BeginUpdate, UpdateRefused, FitRefused, Acknowledge, BeginFinal, UseFinal,
           Crash, Goto, Refuse
  <2>2. pc \in {"idle", "returned", "final"} => work = S
    BY InvIs DEF Phase
  <2> QED BY <1>1, <2>1, <2>2 DEF Phase
<1>6. Asked(pc', asked', S)
  <2>1. asked \in 1..(Len(Log) + 1) /\ Len(Log) \in Nat /\ DOMAIN Log = 1..Len(Log)
    BY InvIs, LogAssumption DEF Asked
  <2>2. CASE BeginUpdate
    <3>1. pc' = "pf" /\ asked' = asked /\ asked \in DOMAIN Log /\ asked = S.last + 1
      BY <2>2, StationOfWork DEF BeginUpdate, Goto
    <3> QED BY <2>1, <3>1 DEF Asked
  <2>3. CASE Acknowledge
    <3>1. pc' = "idle" /\ asked' = asked + 1 /\ asked \in DOMAIN Log
      BY <2>3, InvIs DEF Acknowledge, Asked
    <3> QED BY <2>1, <3>1 DEF Asked
  <2>4. CASE ~BeginUpdate /\ ~Acknowledge
    <3>1. pc' \in {"down", "final", "done"} /\ asked' = asked
      BY <2>4 DEF UpdateRefused, FitRefused, BeginFinal, UseFinal, Crash, Goto, Refuse
    <3> QED BY <2>1, <3>1 DEF Asked
  <2> QED BY <2>2, <2>3, <2>4
<1>7. Keeps(disk, disk') /\ DiskOK(disk', S) /\ FilesOK(files', S, disk) /\ Len(saved') <= 1
      /\ trigger' \in BOOLEAN /\ computed' \in BOOLEAN
  BY <1>1, InvIs, KeepsItself
<1> QED BY <1>1, <1>2, <1>4, <1>5, <1>6, <1>7, Framed

\* What an operation leaves on the disk: all of it, part of it, its receipt.
LEMMA DiskSteps ==
  ASSUME Inv, Compute \/ OperationRaises \/ Sign \/ CrashInside
  PROVE  Inv'
<1>1. UNCHANGED <<saved, files, asked, work, trigger>> /\ S' = S
  BY DEF Compute, OperationRaises, Sign, CrashInside, S
<1>2. PICK n \in Needed :
        /\ Keeps(disk, disk') /\ DiskOK(disk', S)
        /\ pc' = "down" \/ (pc' = pc /\ (computed' => n \in DOMAIN disk' /\ disk'[n].status = "written"))
        /\ computed' \in BOOLEAN
  <2>1. CASE Compute
    <3>1. PICK n \in Needed : Bound(n) /\ ~Signed(n) /\ ~computed
            /\ (\E out \in Results(n) : disk' = Written(n, "written", out))
      BY <2>1 DEF Compute
    <3>2. PICK out \in Results(n) : disk' = Written(n, "written", out)
      BY <3>1
    <3>3. Keeps(disk, disk') /\ DiskOK(disk', S) /\ n \in DOMAIN disk' /\ disk'[n].status = "written"
      BY <3>1, <3>2, WriteOperation
    <3> QED BY <2>1, <3>3 DEF Compute
  <2>2. CASE CrashInside
    <3>1. PICK n \in Needed : ~Signed(n) /\ disk' = Written(n, "partial", None)
      BY <2>2 DEF CrashInside
    <3>2. Keeps(disk, disk') /\ DiskOK(disk', S)
      BY <3>1, WriteOperation
    <3> QED BY <2>2, <3>2, InvIs DEF CrashInside
  <2>3. CASE OperationRaises
    <3>1. PICK n \in Needed : /\ n \in DOMAIN disk => disk[n].status \in {"partial", "raised"}
                              /\ disk' = Written(n, "raised", None)
      BY <2>3 DEF OperationRaises
    <3>2. ~Signed(n)
      BY <3>1 DEF Signed
    <3>3. Keeps(disk, disk') /\ DiskOK(disk', S)
      BY <3>1, <3>2, WriteOperation
    <3> QED BY <2>3, <3>3, InvIs DEF OperationRaises
  <2>4. CASE Sign
    <3>1. PICK n \in Needed : disk' = Written(n, "signed", disk[n].out)
      BY <2>4 DEF Sign
    <3>2. n \in DOMAIN disk /\ disk[n].status = "written"
      <4>1. computed /\ pc # "down"
        BY <2>4, NeededIs DEF Sign
      <4>2. PICK m \in Needed : m \in DOMAIN disk /\ disk[m].status = "written"
        BY <4>1 DEF Inv
      <4>3. m = n
        BY NeededIs
      <4> QED BY <4>2, <4>3
    <3>3. ~Signed(n)
      BY <3>2 DEF Signed
    <3>4. Keeps(disk, disk') /\ DiskOK(disk', S)
      BY <3>1, <3>2, <3>3, WriteOperation
    <3> QED BY <2>4, <3>4 DEF Sign
  <2> QED BY <2>1, <2>2, <2>3, <2>4
<1>3. pc' = pc => Needed' = Needed
  BY <1>1 DEF Needed, K, Unscored, Available, Unapplied
<1>4. Phase(pc', work', trigger', S, disk')
  <2>1. Phase(pc, work, trigger, S, disk')
    BY <1>2, InvIs, KeepsPhase
  <2> QED BY <1>1, <1>2, <2>1 DEF Phase
<1>5. Asked(pc', asked', S)
  BY <1>1, <1>2, InvIs DEF Asked
<1>6. faults' \in 0..MaxFaults
  BY InvIs, FaultsAssumption DEF Compute, OperationRaises, Sign, CrashInside
<1>7. FilesOK(files', S, disk) /\ Len(saved') <= 1 /\ pc' \in Places /\ trigger' \in BOOLEAN
      /\ refusal' \in Errors
  BY <1>1, <1>2, InvIs DEF Places, Errors, Compute, OperationRaises, Sign, CrashInside
<1> QED BY <1>1, <1>2, <1>3, <1>4, <1>5, <1>6, <1>7, Framed

\* What is written before an operation.
LEMMA BindingIs ==
  ASSUME Inv, NEW n \in Needed, n.kind \in {"score", "rj"}
  PROVE  FileOK(Binding(n), n, S, disk)
<1>1. n.at = S.last + 1 /\ K = S.last + 1 /\ S.last \in Nat
  BY NeededIs, StationOfWork, GoodIs DEF Inv
<1>2. CASE n.kind = "score"
  <2>1. pc = "score"
    BY <1>2, NeededIs DEF PFOp, FitOp, Operation
  <2>2. PICK done : ScoresSigned(S, disk, done) /\ work = AfterScores(S, disk, done)
    BY <2>1 DEF Inv, Phase, Scoring
  <2>3. \E h : ScoreNext(n, done, h)
    BY <2>1, <2>2, NeededScore
  <2>4. Binding(n) = <<n.id, {n.at}>>
    BY <1>1, <1>2, <2>3 DEF ScoreNext, Binding
  <2> QED BY <1>1, <1>2, <2>4 DEF FileOK
<1>3. CASE n.kind = "rj"
  <2>1. pc = "jump"
    BY <1>3, NeededIs DEF PFOp, FitOp, Operation
  <2>2. PICK T : Jumped(work, S, disk, T)
    BY <2>1 DEF Inv, Phase
  <2>3. PICK j \in InOrder(T) : JumpsSigned(S, disk, j) /\ work = AfterJumping(S, disk, j)
    BY <2>2 DEF Jumped
  <2>4. First(T, S, disk) /\ ScoresSigned(S, disk, DOMAIN S.scored)
    BY <2>2 DEF Jumped
  <2>5. \E c : JumpNext(n, T, c)
    BY <2>1, <2>3, <2>4, NeededJump
  <2>6. T = {e \in Due(S, disk) : Sooner(e, n.id)}
    BY <2>5 DEF JumpNext
  <2>7. Binding(n) = <<n.id, CheckpointAfter(S, disk, j)>>
    BY <1>3, <2>3 DEF Binding, AfterJumping
  <2>8. j \in InOrder(Earlier(S, disk, n.id))
    BY <2>6 DEF Earlier
  <2>9. \E i \in InOrder(Earlier(S, disk, n.id)) :
          JumpsSigned(S, disk, i) /\ Binding(n) = <<n.id, CheckpointAfter(S, disk, i)>>
    BY <2>3, <2>7, <2>8
  <2> QED BY <1>1, <1>3, <2>4, <2>9 DEF FileOK
<1> QED BY <1>2, <1>3

\* A request or directive says what any process would write.
LEMMA PrepareStep ==
  ASSUME Inv, Prepare
  PROVE  Inv'
<1>1. UNCHANGED <<saved, disk, asked, pc, work, trigger, computed, refusal, faults>> /\ S' = S
  BY DEF Prepare, S
<1>2. FilesOK(files', S, disk)
  <2>1. PICK n \in Needed :
          /\ n.kind \in {"score", "rj"}
          /\ files' = [m \in DOMAIN files \union {n} |-> IF m = n THEN Binding(n) ELSE files[m]]
    BY DEF Prepare
  <2>2. FileOK(Binding(n), n, S, disk)
    BY <2>1, BindingIs
  <2>3. FilesOK(files, S, disk)
    BY InvIs
  <2> QED BY <2>1, <2>2, <2>3 DEF FilesOK
<1>3. Needed' = Needed
  BY <1>1 DEF Needed, K, Unscored, Available, Unapplied
<1>4. Phase(pc', work', trigger', S, disk') /\ Asked(pc', asked', S)
  BY <1>1, InvIs
<1>5. Keeps(disk, disk') /\ DiskOK(disk', S) /\ Len(saved') <= 1 /\ pc' \in Places
      /\ trigger' \in BOOLEAN /\ computed' \in BOOLEAN
      /\ refusal' \in Errors /\ faults' \in 0..MaxFaults
  BY <1>1, InvIs, KeepsItself
<1>6. computed' /\ pc' # "down" =>
        \E n \in Needed' : n \in DOMAIN disk' /\ disk'[n].status = "written"
  BY <1>1, <1>3 DEF Inv
<1> QED BY <1>1, <1>2, <1>4, <1>5, <1>6, Framed

\* A step that goes on with a receipt: only the memory of the process moves.
LEMMA MemoryStep ==
  ASSUME Inv, UNCHANGED <<saved, disk, files, asked, refusal, faults>>, computed' = FALSE,
         trigger' \in BOOLEAN, pc \in {"pf", "score", "jump", "fit"},
         pc' \in {"score", "jump", "fit", "save"}, Phase(pc', work', trigger', S, disk)
  PROVE  Inv'
<1>1. S' = S
  BY DEF S
<1>2. Asked(pc', asked', S)
  BY InvIs DEF Asked
<1>3. Keeps(disk, disk') /\ DiskOK(disk', S) /\ Len(saved') <= 1 /\ pc' \in Places
      /\ trigger' \in BOOLEAN /\ computed' \in BOOLEAN /\ FilesOK(files', S, disk)
      /\ refusal' \in Errors /\ faults' \in 0..MaxFaults
      /\ Phase(pc', work', trigger', S, disk')
  BY InvIs, KeepsItself DEF Places
<1> QED BY <1>1, <1>2, <1>3, Framed

\* An output that has no receipt yet keeps the process where it is.
LEMMA NotComputed ==
  ASSUME Inv, Needed = {}, pc # "down"
  PROVE  computed = FALSE
  BY DEF Inv, Values

\* The particle filter's result is used.
LEMMA PFStep ==
  ASSUME Inv, UsePF
  PROVE  Inv'
<1> DEFINE s == S
           k == s.last + 1
<1>1. PICK n \in Usable :
        /\ work' = [work EXCEPT
             !.sched = AfterStation(work.sched, K, disk[n].out),
             !.checkpoint = Append(@, [op |-> "pf", at |-> K, of |-> None, out |-> disk[n].out])]
        /\ trigger' = StationTriggers(work.sched, K, disk[n].out)
  BY DEF UsePF
<1>2. n \in Needed /\ Signed(n) /\ ~computed
  BY DEF Usable
<1>3. pc = "pf" /\ pc' = "score" /\ UNCHANGED <<saved, disk, files, asked, refusal, faults, computed>>
  BY DEF UsePF, Goto
<1>4. n = PFOp(s) /\ K = k /\ work = s
  BY <1>2, <1>3, NeededIs, StationOfWork DEF Inv, Phase
<1>5. IsSigned(disk, PFOp(s)) /\ disk[n].out = disk[PFOp(s)].out
  BY <1>2, <1>4 DEF Signed, IsSigned
<1>6. s = [last |-> s.last, sched |-> s.sched, queue |-> s.queue,
           snapshots |-> s.snapshots, scored |-> s.scored, applied |-> s.applied,
           checkpoint |-> s.checkpoint]
  BY GoodIs DEF Inv
<1>7. QueueAfter(s, disk, {}) = s.queue /\ ScoredAfter(s, {}) = s.scored
  <2>1. s.queue = [c \in DOMAIN s.queue |-> s.queue[c]]
        /\ s.scored = [h \in DOMAIN s.scored |-> s.scored[h]]
    BY GoodIs DEF Inv
  <2> QED BY <2>1 DEF QueueAfter, ScoredAfter
<1> HIDE DEF s, k
<1>8. work' = AfterScores(s, disk, {})
  BY <1>1, <1>4, <1>6, <1>7 DEF AfterScores, PFRecord, k
<1>9. Scoring(work', s, disk) /\ trigger' = Fits(s, disk)
  BY <1>1, <1>4, <1>5, <1>8 DEF Scoring, ScoresSigned, Fits, k
<1>10. Phase(pc', work', trigger', s, disk)
  BY <1>3, <1>9 DEF Phase
<1>11. trigger' \in BOOLEAN
  BY <1>1 DEF StationTriggers, Triggers
<1>12. computed' = FALSE
  BY <1>2, <1>3, InvIs
<1> QED BY <1>3, <1>10, <1>11, <1>12, MemoryStep DEF s

\* A score is that of one block.
LEMMA OneScore ==
  ASSUME NEW n, NEW c, Available(c.snapshot) = {K}, K \in Nat
  PROVE  ScoresOf(c, n) = <<[block |-> Log[K][1], llr |-> disk[n].out[c]]>>
<1>1. Cardinality(Available(c.snapshot)) = 1
  BY FS_Singleton
<1>2. ScoresOf(c, n) = [i \in 1..1 |-> [block |-> Log[K - 1 + i][1], llr |-> disk[n].out[c]]]
  BY <1>1 DEF ScoresOf
<1>3. \A i \in 1..1 : K - 1 + i = K
  OBVIOUS
<1>4. ScoresOf(c, n) = [i \in 1..1 |-> [block |-> Log[K][1], llr |-> disk[n].out[c]]]
  BY <1>2, <1>3
<1> QED BY <1>4

\* One snapshot's candidates are scored.
LEMMA ScoreStep ==
  ASSUME Inv, UseScore
  PROVE  Inv'
<1> DEFINE s == S
           k == s.last + 1
<1>1. PICK n \in Usable :
        work' = [work EXCEPT
          !.queue = [c \in DOMAIN work.queue |->
                       IF c.snapshot = n.id.snapshot
                         THEN Scored(work.queue[c], ScoresOf(c, n))
                         ELSE work.queue[c]],
          !.scored = [work.scored EXCEPT ![n.id.snapshot] =
                        work.scored[n.id.snapshot] \union Available(n.id.snapshot)]]
  BY DEF UseScore
<1>2. n \in Needed /\ Signed(n) /\ ~computed
  BY DEF Usable
<1>3. pc = "score" /\ pc' = "score"
      /\ UNCHANGED <<saved, disk, files, asked, refusal, faults, computed, trigger>>
  BY DEF UseScore, Goto
<1>4. PICK done : ScoresSigned(s, disk, done) /\ work = AfterScores(s, disk, done)
  BY <1>3 DEF Inv, Phase, Scoring
<1>5. PICK h : ScoreNext(n, done, h)
  BY <1>2, <1>3, <1>4, NeededScore
<1>6. h \in DOMAIN s.scored \ done /\ n = ScoreOp(s, h) /\ n.id.snapshot = h
      /\ Available(h) = {K} /\ K = k /\ K \in Nat
  BY <1>3, <1>5, StationOfWork DEF ScoreNext
<1>7. ScoresSigned(s, disk, done \union {h})
  BY <1>2, <1>4, <1>6 DEF ScoresSigned, IsSigned, Signed
<1> DEFINE q == QueueAfter(s, disk, done)
           old == work.queue
           q2 == [c \in DOMAIN old |->
                    IF c.snapshot = n.id.snapshot THEN Scored(old[c], ScoresOf(c, n)) ELSE old[c]]
           sc == work.scored
           sc2 == [sc EXCEPT ![n.id.snapshot] =
                     sc[n.id.snapshot] \union Available(n.id.snapshot)]
<1>p. old = q /\ sc = ScoredAfter(s, done)
  BY <1>4 DEF AfterScores
<1>8. q2 = QueueAfter(s, disk, done \union {h})
  <2>1. DOMAIN q = DOMAIN s.queue /\ DOMAIN q2 = DOMAIN s.queue
    BY <1>p DEF QueueAfter
  <2>2. ASSUME NEW c \in DOMAIN s.queue
        PROVE  q2[c] = QueueAfter(s, disk, done \union {h})[c]
    <3>1. CASE c.snapshot # h
      BY <1>6, <1>p, <2>1, <3>1 DEF QueueAfter
    <3>2. CASE c.snapshot = h
      <4>1. q[c] = s.queue[c]
        BY <1>6, <3>2 DEF QueueAfter
      <4>2. ScoresOf(c, n) = <<ScoreOf(s, disk, c)>>
        BY <1>6, <3>2, OneScore DEF ScoreOf
      <4>3. q2[c] = Scored(s.queue[c], <<ScoreOf(s, disk, c)>>)
        BY <1>6, <1>p, <2>1, <3>2, <4>1, <4>2
      <4>4. Scored(s.queue[c], <<ScoreOf(s, disk, c)>>) =
              IF s.queue[c].state = "pending" THEN Corroborated(s.queue[c], ScoreOf(s, disk, c))
                                              ELSE s.queue[c]
        <5>1. CASE s.queue[c].state = "pending"
          BY <5>1, ScoredOnce
        <5>2. CASE s.queue[c].state # "pending"
          BY <5>2 DEF Scored
        <5> QED BY <5>1, <5>2
      <4> QED BY <3>2, <4>3, <4>4 DEF QueueAfter
    <3> QED BY <3>1, <3>2
  <2>3. q2 = [c \in DOMAIN s.queue |-> q2[c]]
    BY <2>1
  <2>4. QueueAfter(s, disk, done \union {h}) =
          [c \in DOMAIN s.queue |-> QueueAfter(s, disk, done \union {h})[c]]
    BY DEF QueueAfter
  <2> HIDE DEF q2
  <2> QED BY <2>2, <2>3, <2>4
<1>9. sc2 = ScoredAfter(s, done \union {h})
  <2>1. sc2 = [g \in DOMAIN s.scored |->
                 IF g = h THEN ScoredAfter(s, done)[h] \union {k} ELSE ScoredAfter(s, done)[g]]
    BY <1>6, <1>p DEF ScoredAfter
  <2> HIDE DEF sc2
  <2> QED BY <1>6, <2>1 DEF ScoredAfter
<1>10. work' = AfterScores(s, disk, done \union {h})
  <2>2. work' = [work EXCEPT !.queue = q2, !.scored = sc2]
    BY <1>1
  <2> HIDE DEF old, q, q2, sc, sc2
  <2> QED BY <1>4, <1>8, <1>9, <2>2 DEF AfterScores
<1>11. Scoring(work', s, disk)
  BY <1>6, <1>7, <1>10 DEF Scoring, ScoresSigned
<1>12. Phase(pc', work', trigger', s, disk) /\ trigger' \in BOOLEAN
  BY <1>3, <1>11, InvIs DEF Phase
<1> HIDE DEF s, k, old, q, q2, sc, sc2
<1>13. computed' = FALSE
  BY <1>2, <1>3, InvIs
<1> QED BY <1>3, <1>12, <1>13, MemoryStep DEF s

\* Nobody has jumped yet.
LEMMA NoJumps ==
  /\ <<>> \in InOrder({})
  /\ \A s, d : Good(s) /\ PFRecord(s, d) \in FilterSteps =>
       JumpsSigned(s, d, <<>>) /\ AfterJumping(s, d, <<>>) = AfterScores(s, d, DOMAIN s.scored)
<1>1. <<>> \in InOrder({})
  <2>1. Cardinality({}) = 0
    BY FS_EmptySet
  <2>2. 1..0 = {} /\ <<>> \in [{} -> {}] /\ DOMAIN <<>> = {}
    OBVIOUS
  <2> QED BY <2>1, <2>2 DEF InOrder
<1>2. ASSUME NEW s, NEW d, Good(s), PFRecord(s, d) \in FilterSteps
      PROVE  JumpsSigned(s, d, <<>>) /\ AfterJumping(s, d, <<>>) = AfterScores(s, d, DOMAIN s.scored)
  <2>1. DOMAIN <<>> = {}
    OBVIOUS
  <2>2. JumpRecords(s, d, <<>>) = <<>>
    BY <2>1 DEF JumpRecords
  <2>3. s.checkpoint \in Seq(FilterSteps)
    BY <1>2 DEF Good
  <2>4. \A x \in Seq(FilterSteps), y \in FilterSteps : x \o <<y>> \o <<>> = Append(x, y)
    OBVIOUS
  <2>5. CheckpointAfter(s, d, <<>>) = Append(s.checkpoint, PFRecord(s, d))
    BY <1>2, <2>2, <2>3, <2>4 DEF CheckpointAfter
  <2>6. s.applied \union {<<>>[i] : i \in DOMAIN <<>>} = s.applied
    BY <2>1
  <2> QED BY <2>1, <2>5, <2>6 DEF JumpsSigned, AfterJumping, AfterScores
<1> QED BY <1>1, <1>2

\* All snapshots are scored.
LEMMA EndScoresStep ==
  ASSUME Inv, EndScores
  PROVE  Inv'
<1> DEFINE all == DOMAIN S.scored
<1>1. pc = "score" /\ UNCHANGED <<saved, disk, files, asked, refusal, faults, computed, trigger, work>>
      /\ Unscored = {} /\ pc' = (IF Mode = "exact_rj" THEN "jump" ELSE AfterJumps)
  BY DEF EndScores, Goto
<1>2. PICK done : ScoresSigned(S, disk, done) /\ work = AfterScores(S, disk, done)
  BY <1>1 DEF Inv, Phase, Scoring
<1>3. done = all /\ S.last + 1 \in DOMAIN Log
  BY <1>1, <1>2, NeededScore DEF Inv, Asked
<1>4. PFRecord(S, disk) \in FilterSteps
  BY <1>2, <1>3, PartsAfterIs DEF Inv, PartsAfter
<1>5. JumpsSigned(S, disk, <<>>) /\ AfterJumping(S, disk, <<>>) = AfterScores(S, disk, all)
  BY <1>4, NoJumps DEF Inv
<1>6. First({}, S, disk)
  BY DEF First
<1>7. Jumped(work, S, disk, {})
  BY <1>2, <1>3, <1>5, <1>6, NoJumps DEF Jumped
<1>8. Mode # "exact_rj" => Due(S, disk) = {}
  BY DEF Due
<1>9. Phase(pc', work', trigger', S, disk)
  <2>1. trigger = Fits(S, disk)
    BY <1>1, InvIs DEF Phase
  <2>2. {} \in SUBSET Ids
    OBVIOUS
  <2> QED BY <1>1, <1>7, <1>8, <2>1, <2>2 DEF Phase, AfterJumps
<1>10. computed' = FALSE
  <2>1. Needed = {}
    BY <1>1, <1>2, <1>3, NeededScore DEF ScoreNext
  <2> QED BY <1>1, <2>1, NotComputed
<1> QED BY <1>1, <1>9, <1>10, InvIs, MemoryStep DEF AfterJumps

\* A sequence with one more element, as a function.
LEMMA AppendIs ==
  ASSUME NEW X, NEW n \in Nat, NEW j \in Seq(X), Len(j) = n, NEW c \in X
  PROVE  /\ Append(j, c) = [i \in 1..(n + 1) |-> IF i = n + 1 THEN c ELSE j[i]]
         /\ Append(j, c) \in [1..(n + 1) -> X] /\ Append(j, c)[n + 1] = c
         /\ \A i \in 1..n : Append(j, c)[i] = j[i]
<1>1. Append(j, c) = [i \in 1..(n + 1) |-> IF i = n + 1 THEN c ELSE j[i]]
  <2> DEFINE new == Append(j, c)
  <2>1. new \in Seq(X) /\ Len(new) = n + 1 /\ new[n + 1] = c
        /\ \A i \in 1..n : new[i] = j[i]
    OBVIOUS
  <2> HIDE DEF new
  <2>2. DOMAIN new = 1..(n + 1)
    BY <2>1
  <2>3. new = [i \in 1..(n + 1) |-> new[i]]
    BY <2>1, <2>2
  <2>4. \A i \in 1..(n + 1) : i # n + 1 => i \in 1..n
    OBVIOUS
  <2> QED BY <2>1, <2>3, <2>4 DEF new
<1>2. \A i \in 1..n : i # n + 1 /\ i \in 1..(n + 1) /\ j[i] \in X
  OBVIOUS
<1>3. \A i \in 1..(n + 1) : i \in 1..n \/ i = n + 1
  OBVIOUS
<1> QED BY <1>1, <1>2, <1>3

\* One more candidate behind the others.
LEMMA AppendInOrder ==
  ASSUME NEW T \in SUBSET Ids, NEW j \in InOrder(T), NEW c \in Ids \ T,
         \A e \in T : Sooner(e, c)
  PROVE  Append(j, c) \in InOrder(T \union {c})
<1>1. IsFiniteSet(T)
  BY IdsFinite, FS_Subset
<1>2. Cardinality(T) \in Nat /\ Cardinality(T \union {c}) = Cardinality(T) + 1
  BY <1>1, FS_AddElement, FS_CardinalityType
<1>3. j \in [1..Cardinality(T) -> T] /\ \A g, h \in DOMAIN j : g < h => Sooner(j[g], j[h])
  BY DEF InOrder
<1> DEFINE n == Cardinality(T)
           U == T \union {c}
<1> HIDE DEF n
<1>4. n \in Nat /\ j \in [1..n -> U] /\ Cardinality(U) = n + 1 /\ DOMAIN j = 1..n
  BY <1>2, <1>3 DEF n
<1>5. j \in Seq(U) /\ Len(j) = n
  BY <1>4
<1>c. c \in U
  OBVIOUS
<1> HIDE DEF U
<1>6. Append(j, c) \in [1..(n + 1) -> U] /\ Append(j, c)[n + 1] = c
      /\ \A i \in 1..n : Append(j, c)[i] = j[i]
  BY <1>4, <1>5, <1>c, AppendIs
<1>7. ASSUME NEW g \in 1..(n + 1), NEW h \in 1..(n + 1), g < h
      PROVE  Sooner(Append(j, c)[g], Append(j, c)[h])
  <2>1. g \in 1..n /\ (h \in 1..n \/ h = n + 1)
    BY <1>4, <1>7
  <2>2. j[g] \in T
    BY <1>3, <2>1 DEF n
  <2> QED BY <1>3, <1>4, <1>6, <1>7, <2>1, <2>2
<1>8. DOMAIN Append(j, c) = 1..(n + 1)
  BY <1>6
<1> QED BY <1>4, <1>6, <1>7, <1>8 DEF InOrder, U

\* Adding y to b adds it to a sequence that ends with b.
GrowsBehind(a, x, b, y) == Append(a \o <<x>> \o b, y) = a \o <<x>> \o Append(b, y)

\* It does.
LEMMA AppendBehind ==
  ASSUME NEW X, NEW a \in Seq(X), NEW b \in Seq(X), NEW x \in X, NEW y \in X
  PROVE  GrowsBehind(a, x, b, y)
<1> DEFINE m == a \o <<x>>
<1>1. m \in Seq(X)
  OBVIOUS
<1> HIDE DEF m
<1>2. Append(m \o b, y) = m \o Append(b, y)
  BY <1>1
<1> QED BY <1>2 DEF m, GrowsBehind

\* One candidate jumps.
LEMMA JumpingStep ==
  ASSUME Inv, UseJump
  PROVE  Inv'
<1> DEFINE s == S
           k == s.last + 1
<1>1. PICK n \in Usable :
        work' = [work EXCEPT
          !.applied = @ \union {n.id},
          !.checkpoint = Append(@, [op |-> "rj", at |-> K, of |-> n.id, out |-> disk[n].out])]
  BY DEF UseJump
<1>2. n \in Needed /\ Signed(n) /\ ~computed
  BY DEF Usable
<1>3. pc = "jump" /\ pc' = "jump"
      /\ UNCHANGED <<saved, disk, files, asked, refusal, faults, computed, trigger>>
  BY DEF UseJump, Goto
<1>4. PICK T : Jumped(work, s, disk, T)
  BY <1>3 DEF Inv, Phase
<1>5. PICK j \in InOrder(T) : JumpsSigned(s, disk, j) /\ work = AfterJumping(s, disk, j)
  BY <1>4 DEF Jumped
<1>6. First(T, s, disk) /\ ScoresSigned(s, disk, DOMAIN s.scored)
  BY <1>4 DEF Jumped
<1>7. PICK c : JumpNext(n, T, c)
  BY <1>2, <1>3, <1>5, <1>6, NeededJump
<1>8. c \in Due(s, disk) \ T /\ n = JumpOp(s, c) /\ n.id = c /\ K = k
      /\ T = {e \in Due(s, disk) : Sooner(e, c)} /\ k \in DOMAIN Log
  BY <1>3, <1>7, StationOfWork DEF JumpNext, Inv, Asked
<1>9. T \in SUBSET Due(s, disk) /\ JumpsAfter(s, disk, j, T)
  BY <1>5, <1>6, <1>8, JumpsAfterIs DEF Inv, First
<1>10. PICK m \in Nat : j \in [1..m -> T] /\ {j[i] : i \in 1..m} = T
  BY <1>9 DEF JumpsAfter
<1>11. Due(s, disk) \in SUBSET Ids
  BY <1>9 DEF JumpsAfter
<1> DEFINE j2 == Append(j, c)
           T2 == T \union {c}
           step == [op |-> "rj", at |-> k, of |-> c, out |-> disk[n].out]
<1>12. j2 \in InOrder(T2)
  BY <1>5, <1>8, <1>9, <1>11, AppendInOrder
<1>13. /\ j \in Seq(T2) /\ Len(j) = m /\ DOMAIN j = 1..m
       /\ DOMAIN j2 = 1..(m + 1) /\ j2[m + 1] = c /\ \A i \in 1..m : j2[i] = j[i]
  <2>1. j \in [1..m -> T2]
    BY <1>10
  <2>2. j \in Seq(T2) /\ Len(j) = m /\ c \in T2
    BY <2>1
  <2> QED BY <2>1, <2>2
<1> HIDE DEF j2, step
<1>14. JumpsSigned(s, disk, j2)
  BY <1>2, <1>5, <1>8, <1>13 DEF JumpsSigned, Signed, IsSigned
<1>15. step \in FilterSteps
  <2>1. disk[n].out \in Moves
    BY <1>2, <1>8 DEF Inv, DiskOK, Signed, JumpOp, Operation
  <2> QED BY <1>8, <1>11, <2>1 DEF step, FilterSteps, Outs
<1>16. JumpRecords(s, disk, j2) = Append(JumpRecords(s, disk, j), step)
  <2> DEFINE old == JumpRecords(s, disk, j)
             new == JumpRecords(s, disk, j2)
  <2>1. old \in Seq(FilterSteps) /\ Len(old) = m
    <3>1. old \in Seq(FilterSteps) /\ 1..m = 1..Len(old)
      BY <1>9, <1>13 DEF JumpsAfter
    <3> QED BY <3>1
  <2>2. step = [op |-> "rj", at |-> k, of |-> j2[m + 1], out |-> disk[JumpOp(s, j2[m + 1])].out]
    BY <1>8, <1>13 DEF step
  <2>3. new = [i \in 1..(m + 1) |-> new[i]] /\ new[m + 1] = step
        /\ \A i \in 1..m : new[i] = old[i]
    BY <1>13, <2>2 DEF JumpRecords
  <2> HIDE DEF old, new
  <2>4. Append(old, step) = [i \in 1..(m + 1) |-> IF i = m + 1 THEN step ELSE old[i]]
    BY <1>15, <2>1, AppendIs
  <2> QED BY <2>3, <2>4 DEF old, new
<1>17. CheckpointAfter(s, disk, j2) = Append(CheckpointAfter(s, disk, j), step)
  <2>1. JumpRecords(s, disk, j) \in Seq(FilterSteps)
    BY <1>9 DEF JumpsAfter
  <2>2. PFRecord(s, disk) \in FilterSteps
    BY <1>6, <1>8, PartsAfterIs DEF Inv, PartsAfter
  <2>3. s.checkpoint \in Seq(FilterSteps)
    BY DEF Inv, Good
  <2> DEFINE a == s.checkpoint
             x == PFRecord(s, disk)
             r == JumpRecords(s, disk, j)
  <2>4. a \in Seq(FilterSteps) /\ x \in FilterSteps /\ r \in Seq(FilterSteps)
    BY <2>1, <2>2, <2>3
  <2>5. CheckpointAfter(s, disk, j) = a \o <<x>> \o r
        /\ CheckpointAfter(s, disk, j2) = a \o <<x>> \o JumpRecords(s, disk, j2)
    BY DEF CheckpointAfter
  <2> HIDE DEF a, x, r
  <2>6. GrowsBehind(a, x, r, step)
    BY <1>15, <2>4, AppendBehind
  <2> QED BY <1>16, <2>5, <2>6 DEF r, GrowsBehind
<1>18. {j2[i] : i \in DOMAIN j2} = {j[i] : i \in DOMAIN j} \union {c}
  BY <1>13
<1>19. work' = AfterJumping(s, disk, j2)
  <2>1. work' = [work EXCEPT !.applied = work.applied \union {c}, !.checkpoint = Append(work.checkpoint, step)]
    BY <1>1, <1>8 DEF step
  <2>2. work.applied = s.applied \union {j[i] : i \in DOMAIN j}
        /\ work.checkpoint = CheckpointAfter(s, disk, j)
    BY <1>5 DEF AfterJumping
  <2>3. work.applied \union {c} = s.applied \union {j2[i] : i \in DOMAIN j2}
    BY <1>18, <2>2
  <2> QED BY <1>5, <1>17, <2>1, <2>2, <2>3 DEF AfterJumping
<1>20. First(T2, s, disk)
  <2>1. ASSUME NEW f \in T2, NEW e \in Due(s, disk), Sooner(e, f) PROVE e \in T2
    <3>1. CASE f = c
      BY <1>8, <2>1, <3>1
    <3>2. CASE f \in T
      BY <1>6, <2>1, <3>2 DEF First
    <3> QED BY <3>1, <3>2
  <2> QED BY <1>8, <1>9, <2>1 DEF First
<1>21. Jumped(work', s, disk, T2) /\ T2 \in SUBSET Ids
  BY <1>6, <1>8, <1>9, <1>11, <1>12, <1>14, <1>19, <1>20 DEF Jumped
<1>22. Phase(pc', work', trigger', s, disk)
  BY <1>3, <1>21, InvIs DEF Phase
<1>23. computed' = FALSE
  BY <1>2, <1>3, InvIs
<1> HIDE DEF s, T2
<1> QED BY <1>3, <1>22, <1>23, InvIs, MemoryStep DEF s

\* All due candidates have jumped.
LEMMA EndJumpsStep ==
  ASSUME Inv, EndJumps
  PROVE  Inv'
<1>1. pc = "jump" /\ UNCHANGED <<saved, disk, files, asked, refusal, faults, computed, trigger, work>>
      /\ Unapplied = {} /\ pc' = AfterJumps
  BY DEF EndJumps, Goto
<1>2. PICK T : Jumped(work, S, disk, T)
  BY <1>1 DEF Inv, Phase
<1>3. PICK j \in InOrder(T) : JumpsSigned(S, disk, j) /\ work = AfterJumping(S, disk, j)
  BY <1>2 DEF Jumped
<1>4. First(T, S, disk) /\ ScoresSigned(S, disk, DOMAIN S.scored)
  BY <1>2 DEF Jumped
<1>5. T = Due(S, disk)
  BY <1>1, <1>3, <1>4, NeededJump
<1>6. Phase(pc', work', trigger', S, disk)
  <2>1. trigger = Fits(S, disk)
    BY <1>1, InvIs DEF Phase
  <2> QED BY <1>1, <1>2, <1>5, <2>1 DEF Phase, AfterJumps
<1>7. computed' = FALSE
  <2>1. Needed = {}
    BY <1>1, <1>3, <1>4, <1>5, NeededJump DEF JumpNext
  <2> QED BY <1>1, <2>1, NotComputed
<1> QED BY <1>1, <1>6, <1>7, InvIs, MemoryStep DEF AfterJumps

\* The fit becomes a snapshot with its candidates and its file.
LEMMA FitStep ==
  ASSUME Inv, UseFit
  PROVE  Inv'
<1> DEFINE s == S
           k == s.last + 1
<1>1. PICK n \in Usable :
        LET found == disk[n].out.found
            new == {[snapshot |-> K, name |-> m] : m \in found}
        IN  /\ disk[n].out.converged
            /\ files' = [m \in DOMAIN files \union {SnapshotFile} |->
                           IF m = SnapshotFile THEN <<found>> ELSE files[m]]
            /\ work' = [work EXCEPT
                 !.queue = [c \in DOMAIN @ \union new |->
                              IF c \in DOMAIN @ THEN @[c] ELSE NewCandidate(EndStep(K))],
                 !.snapshots = Append(@, K),
                 !.scored = [h \in DOMAIN @ \union {K} |-> IF h = K THEN {} ELSE @[h]]]
  BY DEF UseFit
<1>2. n \in Needed /\ Signed(n) /\ ~computed
  BY DEF Usable
<1>3. pc = "fit" /\ pc' = "save"
      /\ UNCHANGED <<saved, disk, asked, refusal, faults, computed, trigger>> /\ S' = S
  BY DEF UseFit, S
<1>4. n = FitOp(s) /\ K = k
  BY <1>2, <1>3, NeededIs, StationOfWork
<1>5. Jumped(work, s, disk, Due(s, disk)) /\ trigger /\ trigger = Fits(s, disk)
  BY <1>3, InvIs DEF Phase
<1>6. PICK j \in InOrder(Due(s, disk)) : JumpsSigned(s, disk, j) /\ work = AfterJumping(s, disk, j)
  BY <1>5 DEF Jumped
<1>7. IsSigned(disk, FitOp(s)) /\ disk[FitOp(s)].out.converged
  BY <1>1, <1>2, <1>4 DEF Signed, IsSigned
<1>8. {[snapshot |-> K, name |-> m] : m \in disk[n].out.found} = FoundAt(s, disk)
  BY <1>4 DEF FoundAt
<1> DEFINE q == QueueAfter(s, disk, DOMAIN s.scored)
           sc == ScoredAfter(s, DOMAIN s.scored)
<1>9. DOMAIN q = DOMAIN s.queue /\ DOMAIN sc = DOMAIN s.scored
      /\ work.queue = q /\ work.scored = sc /\ work.snapshots = s.snapshots
  BY <1>6 DEF QueueAfter, ScoredAfter, AfterJumping
<1>10. work' = [work EXCEPT !.queue = QueueWith(s, disk), !.snapshots = Append(s.snapshots, k),
                            !.scored = ScoredWith(s)]
  BY <1>1, <1>4, <1>8, <1>9 DEF QueueWith, ScoredWith
<1> HIDE DEF q, sc
<1>11. work' = AfterFit(s, disk, j)
  BY <1>6, <1>10 DEF AfterFit, AfterJumping, QueueWith, ScoredWith
<1>12. Fitted(work', s, disk)
  BY <1>5, <1>6, <1>7, <1>11 DEF Fitted, Jumped
<1>13. Phase(pc', work', trigger', s, disk')
  BY <1>3, <1>5, <1>12 DEF Phase
<1>14. FilesOK(files', s, disk)
  <2>1. FileOK(<<disk[n].out.found>>, SnapshotFile, s, disk)
    <3>1. k \in Nat /\ SnapshotFile.at = k /\ SnapshotFile.kind = "snapshot" /\ k <= s.last + 1
      BY <1>4, GoodIs DEF SnapshotFile, Operation, Inv
    <3> QED BY <1>4, <1>7, <3>1 DEF FileOK
  <2>2. FilesOK(files, s, disk)
    BY InvIs
  <2> QED BY <1>1, <2>1, <2>2 DEF FilesOK
<1>15. Asked(pc', asked', s)
  BY <1>3, InvIs DEF Asked
<1>16. ~computed'
  BY <1>2, <1>3
<1>17. Keeps(disk, disk') /\ DiskOK(disk', S) /\ Len(saved') <= 1 /\ pc' \in Places /\ pc' # "down"
       /\ trigger' \in BOOLEAN /\ computed' \in BOOLEAN
       /\ refusal' \in Errors /\ faults' \in 0..MaxFaults
  BY <1>3, InvIs, KeepsItself DEF Places
<1> HIDE DEF k
<1> QED BY <1>3, <1>13, <1>14, <1>15, <1>16, <1>17, Framed

-----------------------------------------------------------------------------
(* The save *)

\* An update whose operations all have their receipts.
EndOf(s, d, j, t) ==
  /\ s.last + 1 \in DOMAIN Log /\ t \in BOOLEAN
  /\ ScoresSigned(s, d, DOMAIN s.scored) /\ j \in InOrder(Due(s, d)) /\ JumpsSigned(s, d, j)
  /\ t = Fits(s, d)
  /\ t => IsSigned(d, FitOp(s)) /\ d[FitOp(s)].out.converged

\* The state it saves.
NewIds(s, d, t) == IF t THEN FoundAt(s, d) ELSE {}
NewQueue(s, d, t) == IF t THEN QueueWith(s, d) ELSE QueueAfter(s, d, DOMAIN s.scored)
NewScored(s, t) == IF t THEN ScoredWith(s) ELSE ScoredAfter(s, DOMAIN s.scored)
NewSnapshots(s, t) == IF t THEN Append(s.snapshots, s.last + 1) ELSE s.snapshots

Closed(s, d, j, t) ==
  [last |-> s.last + 1, sched |-> AfterStation(s.sched, s.last + 1, d[PFOp(s)].out),
   queue |-> NewQueue(s, d, t), snapshots |-> NewSnapshots(s, t), scored |-> NewScored(s, t),
   applied |-> s.applied \union {j[i] : i \in DOMAIN j}, checkpoint |-> CheckpointAfter(s, d, j)]

\* The save writes such a state.
LEMMA SaveIs ==
  ASSUME Inv, pc = "save"
  PROVE  \E j : EndOf(S, disk, j, trigger)
                /\ [work EXCEPT !.last = K] = Closed(S, disk, j, trigger)
<1>1. K = S.last + 1 /\ S.last + 1 \in DOMAIN Log /\ trigger \in BOOLEAN /\ trigger = Fits(S, disk)
  BY StationOfWork, InvIs DEF Phase, Asked
<1>2. CASE trigger
  <2>1. Fitted(work, S, disk)
    BY <1>2, InvIs DEF Phase
  <2>2. PICK j \in InOrder(Due(S, disk)) : JumpsSigned(S, disk, j) /\ work = AfterFit(S, disk, j)
    BY <2>1 DEF Fitted
  <2>3. EndOf(S, disk, j, trigger)
    BY <1>1, <2>1, <2>2 DEF Fitted, EndOf
  <2>4. /\ NewQueue(S, disk, trigger) = QueueWith(S, disk)
        /\ NewSnapshots(S, trigger) = Append(S.snapshots, S.last + 1)
        /\ NewScored(S, trigger) = ScoredWith(S)
    BY <1>2, Zenon DEF NewQueue, NewSnapshots, NewScored
  <2>5. [work EXCEPT !.last = K] = Closed(S, disk, j, trigger)
    <3> DEFINE sched == AfterStation(S.sched, S.last + 1, disk[PFOp(S)].out)
               snapshots == Append(S.snapshots, S.last + 1)
               applied == S.applied \union {j[i] : i \in DOMAIN j}
    <3>1. AfterFit(S, disk, j) =
            [last |-> S.last, sched |-> sched, queue |-> QueueWith(S, disk),
             snapshots |-> snapshots, scored |-> ScoredWith(S), applied |-> applied,
             checkpoint |-> CheckpointAfter(S, disk, j)]
      BY DEF AfterFit, QueueWith, ScoredWith
    <3>2. Closed(S, disk, j, trigger) =
            [last |-> S.last + 1, sched |-> sched, queue |-> QueueWith(S, disk),
             snapshots |-> snapshots, scored |-> ScoredWith(S), applied |-> applied,
             checkpoint |-> CheckpointAfter(S, disk, j)]
      BY <2>4, Zenon DEF Closed
    <3> HIDE DEF sched, snapshots, applied
    <3>3. [AfterFit(S, disk, j) EXCEPT !.last = S.last + 1] = Closed(S, disk, j, trigger)
      BY <3>1, <3>2
    <3> QED BY <1>1, <2>2, <3>3, Zenon
  <2> QED BY <2>3, <2>5
<1>3. CASE ~trigger
  <2>1. Jumped(work, S, disk, Due(S, disk))
    BY <1>3, InvIs DEF Phase
  <2>2. PICK j \in InOrder(Due(S, disk)) : JumpsSigned(S, disk, j) /\ work = AfterJumping(S, disk, j)
    BY <2>1 DEF Jumped
  <2>3. EndOf(S, disk, j, trigger)
    BY <1>1, <1>3, <2>1, <2>2 DEF Jumped, EndOf
  <2>4. /\ NewQueue(S, disk, trigger) = QueueAfter(S, disk, DOMAIN S.scored)
        /\ NewSnapshots(S, trigger) = S.snapshots
        /\ NewScored(S, trigger) = ScoredAfter(S, DOMAIN S.scored)
    BY <1>3, Zenon DEF NewQueue, NewSnapshots, NewScored
  <2>5. [work EXCEPT !.last = K] = Closed(S, disk, j, trigger)
    BY <1>1, <2>2, <2>4 DEF Closed, AfterJumping
  <2> QED BY <2>3, <2>5
<1> QED BY <1>1, <1>2, <1>3

\* What is in it.
ClosedParts(s, d, t) ==
  LET k == s.last + 1
      q == NewQueue(s, d, t)
      sc == NewScored(s, t)
  IN  /\ DOMAIN q = DOMAIN s.queue \union NewIds(s, d, t) /\ q \in [DOMAIN q -> Candidates]
      /\ NewIds(s, d, t) \subseteq Ids /\ NewIds(s, d, t) \intersect DOMAIN s.queue = {}
      /\ \A c \in DOMAIN s.queue : OneMore(s, d, c, q[c]) /\ Evidenced(k, c.snapshot, q[c])
      /\ \A c \in NewIds(s, d, t) : c.snapshot = k /\ q[c] = NewCandidate(EndStep(k))
      /\ DOMAIN sc = DOMAIN s.scored \union (IF t THEN {k} ELSE {})
      /\ sc \in [DOMAIN sc -> SUBSET DOMAIN Log]
      /\ \A h \in DOMAIN sc : h \in 1..k /\ sc[h] = (h + 1)..k

\* They are so.
LEMMA ClosedPartsAre ==
  ASSUME NEW s, NEW d, Good(s), DiskOK(d, s), NEW j, NEW t, EndOf(s, d, j, t)
  PROVE  ClosedParts(s, d, t)
<1> DEFINE k == s.last + 1
           old == QueueAfter(s, d, DOMAIN s.scored)
           q == NewQueue(s, d, t)
           sc == NewScored(s, t)
<1>1. k \in DOMAIN Log /\ ScoresSigned(s, d, DOMAIN s.scored) /\ t \in BOOLEAN
      /\ (t => IsSigned(d, FitOp(s)))
  BY DEF EndOf
<1>2. PartsAfter(s, d, DOMAIN s.scored) /\ s.last \in Nat
  BY <1>1, PartsAfterIs, GoodIs
<1>3. DOMAIN old = DOMAIN s.queue /\ old \in [DOMAIN s.queue -> Candidates]
      /\ \A c \in DOMAIN s.queue : OneMore(s, d, c, old[c]) /\ Evidenced(k, c.snapshot, old[c])
  <2>1. \A c \in DOMAIN s.queue : c.snapshot \in DOMAIN s.scored
    BY DEF Good
  <2> QED BY <1>2, <2>1 DEF PartsAfter
<1>4. t => /\ FoundAt(s, d) \subseteq Ids /\ FoundAt(s, d) \intersect DOMAIN s.queue = {}
           /\ DOMAIN QueueWith(s, d) = DOMAIN s.queue \union FoundAt(s, d)
           /\ QueueWith(s, d) \in [DOMAIN s.queue \union FoundAt(s, d) -> Candidates]
           /\ \A c \in DOMAIN s.queue : QueueWith(s, d)[c] = old[c]
           /\ \A c \in FoundAt(s, d) : c.snapshot = k
                /\ QueueWith(s, d)[c] = NewCandidate(EndStep(k))
           /\ DOMAIN ScoredWith(s) = DOMAIN s.scored \union {k}
           /\ ScoredWith(s) \in [DOMAIN s.scored \union {k} -> SUBSET DOMAIN Log]
  BY <1>1, WithSnapshotIs
<1>5. ASSUME NEW h \in DOMAIN s.scored
      PROVE  h \in 1..k /\ ScoredAfter(s, DOMAIN s.scored)[h] = (h + 1)..k
  <2>1. h \in 1..s.last /\ s.scored[h] = (h + 1)..s.last
    BY DEF Good
  <2>2. ScoredAfter(s, DOMAIN s.scored)[h] = ((h + 1)..s.last) \union {s.last + 1}
    BY <2>1 DEF ScoredAfter
  <2>3. \A n \in Nat : \A g \in 1..n :
          g \in 1..(n + 1) /\ ((g + 1)..n) \union {n + 1} = (g + 1)..(n + 1)
    OBVIOUS
  <2>4. h \in 1..(s.last + 1) /\ ((h + 1)..s.last) \union {s.last + 1} = (h + 1)..(s.last + 1)
    BY <1>2, <2>1, <2>3, Zenon
  <2> QED BY <2>2, <2>4
<1>6. /\ DOMAIN sc = DOMAIN s.scored \union (IF t THEN {k} ELSE {})
      /\ sc \in [DOMAIN sc -> SUBSET DOMAIN Log]
      /\ \A h \in DOMAIN sc : h \in 1..k /\ sc[h] = (h + 1)..k
  <2>1. CASE ~t
    BY <1>2, <1>5, <2>1 DEF NewScored, PartsAfter
  <2>2. CASE t
    <3>1. DOMAIN sc = DOMAIN s.scored \union {k} /\ sc \in [DOMAIN sc -> SUBSET DOMAIN Log]
      BY <1>4, <2>2 DEF NewScored
    <3>2. sc[k] = {} /\ k \in 1..k /\ (k + 1)..k = {}
      BY <1>2, <2>2 DEF NewScored, ScoredWith
    <3>3. \A h \in DOMAIN s.scored : h # k
      BY <1>2 DEF Good
    <3>4. \A h \in DOMAIN s.scored : sc[h] = ScoredAfter(s, DOMAIN s.scored)[h]
      BY <2>2, <3>3 DEF NewScored, ScoredWith
    <3> HIDE DEF sc, k
    <3> QED BY <1>5, <2>2, <3>1, <3>2, <3>4 DEF k
  <2> QED BY <1>1, <2>1, <2>2
<1>7. /\ DOMAIN q = DOMAIN s.queue \union NewIds(s, d, t) /\ q \in [DOMAIN q -> Candidates]
      /\ NewIds(s, d, t) \subseteq Ids /\ NewIds(s, d, t) \intersect DOMAIN s.queue = {}
      /\ \A c \in DOMAIN s.queue : OneMore(s, d, c, q[c]) /\ Evidenced(k, c.snapshot, q[c])
      /\ \A c \in NewIds(s, d, t) : c.snapshot = k /\ q[c] = NewCandidate(EndStep(k))
  <2> HIDE DEF old, k
  <2>1. CASE t
    BY <1>3, <1>4, <2>1 DEF NewIds, NewQueue
  <2>2. CASE ~t
    BY <1>3, <2>2 DEF NewIds, NewQueue, old
  <2> QED BY <1>1, <2>1, <2>2
<1> QED BY <1>6, <1>7 DEF ClosedParts

\* It is a state between two stations.
LEMMA ClosedIsGood ==
  ASSUME NEW s, NEW d, Good(s), DiskOK(d, s), NEW j, NEW t, EndOf(s, d, j, t)
  PROVE  Good(Closed(s, d, j, t))
<1> DEFINE k == s.last + 1
           q == NewQueue(s, d, t)
           sc == NewScored(s, t)
           sn == NewSnapshots(s, t)
           sched == AfterStation(s.sched, k, d[PFOp(s)].out)
           applied == s.applied \union {j[i] : i \in DOMAIN j}
           cp == CheckpointAfter(s, d, j)
           w == Closed(s, d, j, t)
<1>1. ClosedParts(s, d, t)
  BY ClosedPartsAre
<1>2. /\ DOMAIN q = DOMAIN s.queue \union NewIds(s, d, t) /\ q \in [DOMAIN q -> Candidates]
      /\ NewIds(s, d, t) \subseteq Ids /\ NewIds(s, d, t) \intersect DOMAIN s.queue = {}
      /\ \A c \in DOMAIN s.queue : OneMore(s, d, c, q[c]) /\ Evidenced(k, c.snapshot, q[c])
      /\ \A c \in NewIds(s, d, t) : c.snapshot = k /\ q[c] = NewCandidate(EndStep(k))
      /\ DOMAIN sc = DOMAIN s.scored \union (IF t THEN {k} ELSE {})
      /\ sc \in [DOMAIN sc -> SUBSET DOMAIN Log]
      /\ \A h \in DOMAIN sc : h \in 1..k /\ sc[h] = (h + 1)..k
  BY <1>1 DEF ClosedParts
<1>3. PartsAfter(s, d, DOMAIN s.scored) /\ JumpsAfter(s, d, j, Due(s, d)) /\ k \in DOMAIN Log
      /\ t \in BOOLEAN
  BY PartsAfterIs, JumpsAfterIs DEF EndOf
<1>4. /\ s.last \in Nat /\ DOMAIN s.queue \subseteq Ids /\ s.snapshots \in Seq(DOMAIN Log)
      /\ s.applied \in SUBSET Ids /\ \A h \in DOMAIN s.scored : h \in DOMAIN Log
  BY GoodIs
<1>5. sched \in SchedulerStates /\ applied \in SUBSET Ids /\ cp \in Seq(FilterSteps)
      /\ \A i \in DOMAIN cp : IsStep(cp[i])
  BY <1>3, <1>4 DEF PartsAfter, JumpsAfter
<1>6. k \in 0..Len(Log)
  BY <1>3, <1>4, LogAssumption
<1>7. sn \in Seq(DOMAIN Log) /\ {sn[i] : i \in DOMAIN sn} = DOMAIN sc
  <2>1. {s.snapshots[i] : i \in DOMAIN s.snapshots} = DOMAIN s.scored
    BY DEF Good
  <2>2. CASE ~t
    BY <1>2, <1>4, <2>1, <2>2 DEF NewSnapshots
  <2>3. CASE t
    <3> DEFINE a == s.snapshots
               n == Len(a)
    <3>1. a \in Seq(DOMAIN Log) /\ n \in Nat /\ DOMAIN a = 1..n /\ k \in DOMAIN Log
      BY <1>3, <1>4
    <3> HIDE DEF a, n, k
    <3>2. Append(a, k) \in [1..(n + 1) -> DOMAIN Log] /\ Append(a, k)[n + 1] = k
          /\ \A i \in 1..n : Append(a, k)[i] = a[i]
      BY <3>1, AppendIs DEF n
    <3>3. Append(a, k) \in Seq(DOMAIN Log)
      BY <3>1
    <3>4. \A i \in 1..(n + 1) : i \in 1..n \/ i = n + 1
      BY <3>1
    <3>5. n + 1 \in 1..(n + 1) /\ 1..n \subseteq 1..(n + 1)
      BY <3>1
    <3>6. {Append(a, k)[i] : i \in 1..(n + 1)} = {a[i] : i \in 1..n} \union {k}
      BY <3>2, <3>4, <3>5
    <3>7. sn = Append(a, k)
      BY <2>3 DEF NewSnapshots, a, k
    <3>8. DOMAIN sn = 1..(n + 1)
      BY <3>2, <3>7
    <3>9. {sn[i] : i \in DOMAIN sn} = {a[i] : i \in 1..n} \union {k}
      BY <3>6, <3>7, <3>8
    <3>10. {a[i] : i \in 1..n} = DOMAIN s.scored
      BY <2>1, <3>1 DEF a
    <3> QED BY <1>2, <2>3, <3>3, <3>7, <3>9, <3>10
  <2> QED BY <1>3, <2>2, <2>3
<1>8. DOMAIN q \subseteq Ids /\ DOMAIN sc \subseteq DOMAIN Log
  BY <1>2, <1>3, <1>4
<1>9. ASSUME NEW c \in DOMAIN q
      PROVE  c.snapshot \in DOMAIN sc /\ q[c].cutoff = EndStep(c.snapshot)
             /\ Evidenced(k, c.snapshot, q[c])
  <2>1. CASE c \in DOMAIN s.queue
    <3>1. c.snapshot \in DOMAIN s.scored /\ s.queue[c].cutoff = EndStep(c.snapshot)
      BY <2>1 DEF Good
    <3> QED BY <1>2, <2>1, <3>1 DEF OneMore
  <2>2. CASE c \in NewIds(s, d, t)
    <3>1. t
      BY <2>2 DEF NewIds
    <3>2. c.snapshot = k /\ q[c] = NewCandidate(EndStep(k)) /\ k \in DOMAIN sc
      BY <1>2, <2>2, <3>1
    <3>3. NewCandidate(EndStep(k)).cutoff = EndStep(k)
      BY DEF NewCandidate
    <3>4. Evidenced(k, k, NewCandidate(EndStep(k)))
      BY <1>3, EvidencedNew
    <3> QED BY <3>2, <3>3, <3>4
  <2> QED BY <1>2, <2>1, <2>2
<1>10. w = [last |-> k, sched |-> sched, queue |-> q, snapshots |-> sn, scored |-> sc,
            applied |-> applied, checkpoint |-> cp]
  BY DEF Closed
<1> HIDE DEF q, sc, sn, sched, applied, cp, k, w
<1>11. IsState(w)
  BY <1>2, <1>5, <1>6, <1>7, <1>8, <1>10, MadeState
<1>12. w.last = k /\ w.queue = q /\ w.scored = sc /\ w.snapshots = sn /\ w.checkpoint = cp
  BY <1>10
<1>13. Good(w)
  BY <1>2, <1>5, <1>7, <1>9, <1>11, <1>12 DEF Good
<1> QED BY <1>13 DEF w

\* What it claims has its receipts.
LEMMA ClosedClaims ==
  ASSUME NEW s, NEW d, Good(s), DiskOK(d, s), Claims(s, d), NEW j, NEW t, EndOf(s, d, j, t)
  PROVE  Claims(Closed(s, d, j, t), d)
<1> DEFINE k == s.last + 1
           q == NewQueue(s, d, t)
           sn == NewSnapshots(s, t)
           cp == CheckpointAfter(s, d, j)
           w == Closed(s, d, j, t)
<1>1. w.queue = q /\ w.snapshots = sn /\ w.checkpoint = cp
  BY DEF Closed
<1>2. ClosedParts(s, d, t)
  BY ClosedPartsAre
<1>3. PartsAfter(s, d, DOMAIN s.scored) /\ JumpsAfter(s, d, j, Due(s, d))
  BY PartsAfterIs, JumpsAfterIs DEF EndOf
<1>4. ScoresSigned(s, d, DOMAIN s.scored) /\ JumpsSigned(s, d, j) /\ k \in DOMAIN Log
      /\ t \in BOOLEAN /\ (t => IsSigned(d, FitOp(s)) /\ d[FitOp(s)].out.converged)
  BY DEF EndOf
<1>5. /\ s.last \in Nat /\ s.snapshots \in Seq(DOMAIN Log)
      /\ \A h \in DOMAIN s.scored : h \in Nat /\ h <= s.last
  BY GoodIs
<1>6. /\ DOMAIN q = DOMAIN s.queue \union NewIds(s, d, t)
      /\ \A c \in NewIds(s, d, t) : c.snapshot = k /\ q[c] = NewCandidate(EndStep(k))
      /\ \A c \in DOMAIN s.queue : OneMore(s, d, c, q[c])
  BY <1>2 DEF ClosedParts
<1>7. ASSUME NEW i \in DOMAIN cp PROVE StepClaim(cp[i], d)
  <2> DEFINE old == s.checkpoint
             steps == JumpRecords(s, d, j)
             first == PFRecord(s, d)
  <2>1. /\ \A g \in 1..Len(old) : cp[g] = old[g]
        /\ cp[Len(old) + 1] = first
        /\ \A g \in 1..Len(steps) : cp[Len(old) + 1 + g] = steps[g]
        /\ \A g \in DOMAIN cp : \/ g \in 1..Len(old)
                               \/ g = Len(old) + 1
                               \/ \E h \in 1..Len(steps) : g = Len(old) + 1 + h
    BY <1>3 DEF JumpsAfter, Extends
  <2>2. \A g \in 1..Len(old) : StepClaim(old[g], d)
    <3>1. DOMAIN old = 1..Len(old)
      BY DEF Good
    <3> QED BY <3>1 DEF Claims
  <2>3. StepClaim(first, d)
    BY <1>4 DEF StepClaim, PFRecord, ScoresSigned, PFOp
  <2>4. DOMAIN j = 1..Len(steps)
    BY <1>3 DEF JumpsAfter
  <2>5. \A g \in 1..Len(steps) : StepClaim(steps[g], d)
    <3> TAKE g \in 1..Len(steps)
    <3>1. IsSigned(d, JumpOp(s, j[g]))
      BY <1>4, <2>4 DEF JumpsSigned
    <3>2. steps[g] = [op |-> "rj", at |-> k, of |-> j[g], out |-> d[JumpOp(s, j[g])].out]
      BY <2>4 DEF JumpRecords
    <3> QED BY <3>1, <3>2 DEF StepClaim, JumpOp
  <2> HIDE DEF old, steps, first, cp
  <2>6. CASE i \in 1..Len(old)
    BY <2>1, <2>2, <2>6
  <2>7. CASE i = Len(old) + 1
    BY <2>1, <2>3, <2>7
  <2>8. CASE \E h \in 1..Len(steps) : i = Len(old) + 1 + h
    BY <2>1, <2>5, <2>8
  <2> QED BY <2>1, <2>6, <2>7, <2>8
<1>8. ASSUME NEW i \in DOMAIN sn PROVE SnapshotClaim(w, sn[i], d)
  <2>1. ASSUME NEW h \in DOMAIN s.scored, SnapshotClaim(s, h, d) PROVE SnapshotClaim(w, h, d)
    <3>1. h # k
      BY <1>5
    <3>2. Frozen(w, h) = Frozen(s, h)
      BY <1>1, <1>6, <3>1 DEF Frozen
    <3> QED BY <2>1, <3>2 DEF SnapshotClaim
  <2>2. \A g \in DOMAIN s.snapshots : s.snapshots[g] \in DOMAIN s.scored
                                      /\ SnapshotClaim(s, s.snapshots[g], d)
    BY DEF Good, Claims
  <2>3. CASE ~t
    <3>1. sn = s.snapshots
      BY <2>3, Zenon DEF NewSnapshots
    <3> QED BY <2>1, <2>2, <3>1
  <2>4. CASE t
    <3>1. sn = Append(s.snapshots, k)
      BY <2>4, Zenon DEF NewSnapshots
    <3>2. SnapshotClaim(w, k, d)
      <4>1. NewIds(s, d, t) = FoundAt(s, d)
        BY <2>4, Zenon DEF NewIds
      <4>2. \A c \in DOMAIN s.queue : c.snapshot \in Nat /\ c.snapshot <= s.last
        BY <1>5 DEF Good
      <4>3. \A c \in DOMAIN s.queue : c.snapshot # k
        BY <1>5, <4>2
      <4>4. \A c \in FoundAt(s, d) : c.snapshot = k
        BY <1>6, <4>1
      <4>5. Frozen(w, k) = FoundAt(s, d)
        BY <1>1, <1>6, <4>1, <4>3, <4>4 DEF Frozen
      <4>6. {c.name : c \in FoundAt(s, d)} = d[FitOp(s)].out.found
        <5> DEFINE F == d[FitOp(s)].out.found
        <5>1. FoundAt(s, d) = {[snapshot |-> k, name |-> m] : m \in F}
          BY DEF FoundAt
        <5> HIDE DEF F, k
        <5>2. \A m \in F : [snapshot |-> k, name |-> m].name = m
          OBVIOUS
        <5> QED BY <5>1, <5>2 DEF F
      <4>7. FitOp(s) = Operation("mle", k, NoId)
        BY DEF FitOp
      <4> QED BY <1>4, <2>4, <4>5, <4>6, <4>7 DEF SnapshotClaim
    <3>3. (i \in DOMAIN s.snapshots /\ sn[i] = s.snapshots[i]) \/ sn[i] = k
      <4> DEFINE a == s.snapshots
      <4> HIDE DEF k, a
      <4>1. a \in Seq(DOMAIN Log) /\ k \in DOMAIN Log /\ sn = Append(a, k)
        BY <1>4, <1>5, <3>1 DEF a
      <4> HIDE DEF sn
      <4>2. (i \in DOMAIN a /\ sn[i] = a[i]) \/ sn[i] = k
        BY <4>1
      <4> QED BY <4>2 DEF a
    <3> QED BY <2>1, <2>2, <3>2, <3>3
  <2> QED BY <1>4, <2>3, <2>4
<1>9. ASSUME NEW c \in DOMAIN q, NEW i \in DOMAIN q[c].evidence
      PROVE  RatioClaim(c, q[c].evidence[i], d)
  <2> HIDE DEF q
  <2>1. CASE c \in DOMAIN s.queue
    <3>1. CASE i \in DOMAIN s.queue[c].evidence /\ q[c].evidence[i] = s.queue[c].evidence[i]
      <4>1. RatioClaim(c, s.queue[c].evidence[i], d)
        BY <2>1, <3>1 DEF Claims
      <4> QED BY <3>1, <4>1
    <3>2. CASE q[c].evidence[i] = ScoreOf(s, d, c)
      <4>1. c.snapshot \in DOMAIN s.scored
        BY <2>1 DEF Good
      <4>2. IsSigned(d, ScoreOp(s, c.snapshot))
        BY <1>4, <4>1 DEF ScoresSigned
      <4>3. 1 \in DOMAIN Log[k]
        BY <1>4, LogAssumption, OneBlockAssumption
      <4>4. Log[k][1].station = k
        BY <1>4, <4>3, BlockOfStation
      <4> QED BY <3>2, <4>2, <4>4 DEF RatioClaim, ScoreOf, ScoreOp
    <3>3. OneMore(s, d, c, q[c])
      BY <1>6, <2>1
    <3>4. \A h \in DOMAIN q[c].evidence :
            \/ h \in DOMAIN s.queue[c].evidence /\ q[c].evidence[h] = s.queue[c].evidence[h]
            \/ q[c].evidence[h] = ScoreOf(s, d, c)
      BY <3>3 DEF OneMore
    <3> QED BY <3>1, <3>2, <3>4
  <2>2. CASE c \in NewIds(s, d, t)
    <3>1. q[c].evidence = <<>>
      BY <1>6, <2>2 DEF NewCandidate
    <3> QED BY <3>1
  <2> QED BY <1>6, <2>1, <2>2
<1> HIDE DEF q, sn, cp, w
<1>10. Claims(w, d)
  BY <1>1, <1>7, <1>8, <1>9 DEF Claims
<1> QED BY <1>10 DEF w

\* No operation and no file is of the station after it.
LEMMA ClosedFiles ==
  ASSUME NEW s, NEW d, NEW f, Good(s), DiskOK(d, s), FilesOK(f, s, d), NEW w, w.last = s.last + 1
  PROVE  DiskOK(d, w) /\ FilesOK(f, w, d)
<1>1. s.last \in Nat
  BY GoodIs
<1>2. \A m \in Nat : m <= s.last + 1 => m <= w.last + 1 /\ m # w.last + 1
  BY <1>1
<1>3. DiskOK(d, w)
  BY <1>2 DEF DiskOK
<1>4. ASSUME NEW n \in DOMAIN f PROVE FileOK(f[n], n, w, d)
  <2>1. n.at <= w.last + 1 /\ n.at # w.last + 1 /\ n.at \in Nat
    BY <1>2 DEF FilesOK, FileOK
  <2>2. n.kind = "score" => f[n] = <<n.id, {n.at}>>
    BY DEF FilesOK, FileOK
  <2> QED BY <2>1, <2>2 DEF FileOK
<1> QED BY <1>3, <1>4 DEF FilesOK

\* The save ends an update, and the state between two stations is the next one.
LEMMA SaveStep ==
  ASSUME Inv, Save
  PROVE  Inv' /\ \E j : EndOf(S, disk, j, trigger) /\ S' = Closed(S, disk, j, trigger)
<1>1. pc = "save" /\ pc' = "returned" /\ work' = [work EXCEPT !.last = K] /\ saved' = <<work'>>
      /\ UNCHANGED <<disk, files, asked, trigger, computed, refusal, faults>>
  BY DEF Save
<1>2. PICK j : EndOf(S, disk, j, trigger)
               /\ [work EXCEPT !.last = K] = Closed(S, disk, j, trigger)
  BY <1>1, SaveIs
<1> DEFINE w == Closed(S, disk, j, trigger)
<1>3. S' = w /\ work' = w /\ Len(saved') = 1
  <2>1. saved' # <<>> /\ saved'[1] = work' /\ Len(saved') = 1
    BY <1>1
  <2>2. S' = saved'[1]
    BY <2>1 DEF S
  <2> QED BY <1>1, <1>2, <2>1, <2>2
<1>4. w.last = S.last + 1
  BY DEF Closed
<1>5. Good(w) /\ Claims(w, disk)
  BY <1>2, InvIs, ClosedIsGood, ClosedClaims
<1> HIDE DEF w
<1>6. DiskOK(disk, w) /\ FilesOK(files, w, disk)
  BY <1>4, InvIs, ClosedFiles
<1>7. Phase(pc', w, trigger', w, disk)
  BY <1>1 DEF Phase
<1>8. Asked(pc', asked', w)
  BY <1>1, <1>4, InvIs DEF Asked
<1>9. IsState(w)
  BY <1>5 DEF Good
<1>10. ~computed
  BY <1>1, NeededIs DEF Inv
<1>11. Values'
  BY <1>1, <1>3, <1>9, InvIs DEF Values
<1>12. Good(S') /\ Claims(S', disk') /\ DiskOK(disk', S') /\ FilesOK(files', S', disk')
       /\ Phase(pc', work', trigger', S', disk') /\ Asked(pc', asked', S')
  BY <1>1, <1>3, <1>5, <1>6, <1>7, <1>8
<1>13. Inv'
  BY <1>1, <1>10, <1>11, <1>12 DEF Inv
<1> QED BY <1>2, <1>3, <1>13 DEF w

-----------------------------------------------------------------------------
(* The invariant *)

\* At the beginning there is nothing on the disk.
LEMMA InvInit == Init => Inv
<1> SUFFICES ASSUME Init PROVE Inv
  OBVIOUS
<1>1. /\ saved = <<>> /\ disk = <<>> /\ files = <<>> /\ asked = 1 /\ pc = "down"
      /\ work = FreshState /\ trigger = FALSE /\ computed = FALSE /\ refusal = "none"
      /\ faults = 0
  BY DEF Init
<1>2. S = FreshState
  BY <1>1 DEF S
<1>3. Good(S) /\ Claims(S, disk)
  BY <1>2, FreshIsGood
<1>4. DOMAIN <<>> = {} /\ Len(<<>>) = 0
  OBVIOUS
<1>5. DiskOK(disk, S) /\ FilesOK(files, S, disk)
  BY <1>1, <1>4 DEF DiskOK, FilesOK
<1>6. Phase(pc, work, trigger, S, disk)
  BY <1>1 DEF Phase
<1>7. Asked(pc, asked, S)
  BY <1>1, LogAssumption DEF Asked
<1>8. Values
  <2>1. Len(saved) <= 1
    BY <1>1, <1>4
  <2>2. IsState(work)
    BY <1>1, <1>2, <1>3 DEF Good
  <2>3. 0 \in 0..MaxFaults
    BY FaultsAssumption
  <2> QED BY <1>1, <2>1, <2>2, <2>3 DEF Values, Errors
<1> QED BY <1>1, <1>3, <1>5, <1>6, <1>7, <1>8 DEF Inv

\* Every step keeps the invariant, and only a save moves the state between two
\* stations.
LEMMA InvNext ==
  ASSUME Inv, [Next]_vars
  PROVE  /\ Inv'
         /\ \/ S' = S
            \/ \E j : EndOf(S, disk, j, trigger) /\ S' = Closed(S, disk, j, trigger)
<1>1. CASE Start
  BY <1>1, StartStep
<1>2. CASE BeginUpdate \/ UpdateRefused \/ FitRefused \/ Acknowledge \/ BeginFinal
           \/ UseFinal \/ Crash
  <2>1. S' = S
    BY <1>2 DEF BeginUpdate, UpdateRefused, FitRefused, Acknowledge, BeginFinal, UseFinal, Crash,
                Goto, Refuse, S
  <2> QED BY <1>2, <2>1, EasySteps
<1>3. CASE Compute \/ OperationRaises \/ Sign \/ CrashInside
  <2>1. S' = S
    BY <1>3 DEF Compute, OperationRaises, Sign, CrashInside, S
  <2> QED BY <1>3, <2>1, DiskSteps
<1>4. CASE Prepare
  <2>1. S' = S
    BY <1>4 DEF Prepare, S
  <2> QED BY <1>4, <2>1, PrepareStep
<1>5. CASE UsePF
  <2>1. S' = S
    BY <1>5 DEF UsePF, Goto, S
  <2> QED BY <1>5, <2>1, PFStep
<1>6. CASE UseScore
  <2>1. S' = S
    BY <1>6 DEF UseScore, Goto, S
  <2> QED BY <1>6, <2>1, ScoreStep
<1>7. CASE EndScores
  <2>1. S' = S
    BY <1>7 DEF EndScores, Goto, S
  <2> QED BY <1>7, <2>1, EndScoresStep
<1>8. CASE UseJump
  <2>1. S' = S
    BY <1>8 DEF UseJump, Goto, S
  <2> QED BY <1>8, <2>1, JumpingStep
<1>9. CASE EndJumps
  <2>1. S' = S
    BY <1>9 DEF EndJumps, Goto, S
  <2> QED BY <1>9, <2>1, EndJumpsStep
<1>10. CASE UseFit
  <2>1. S' = S
    BY <1>10 DEF UseFit, S
  <2> QED BY <1>10, <2>1, FitStep
<1>11. CASE Save
  BY <1>11, SaveStep
<1>12. CASE UNCHANGED vars
  <2>1. UNCHANGED <<saved, disk, files, asked, pc, work, trigger, computed, refusal, faults>>
    BY <1>12 DEF vars
  <2>2. S' = S /\ K' = K
    BY <2>1 DEF S, K
  <2>3. Needed' = Needed
    BY <2>1 DEF Needed, Unscored, Unapplied, Available, K
  <2>4. Values'
    BY <2>1 DEF Inv, Values
  <2>5. Good(S') /\ Claims(S', disk') /\ DiskOK(disk', S') /\ FilesOK(files', S', disk')
       /\ Phase(pc', work', trigger', S', disk') /\ Asked(pc', asked', S')
    BY <2>1, <2>2, InvIs
  <2>6. computed' /\ pc' # "down" =>
          \E n \in Needed' : n \in DOMAIN disk' /\ disk'[n].status = "written"
    BY <2>1, <2>3 DEF Inv
  <2> QED BY <2>2, <2>4, <2>5, <2>6 DEF Inv
<1> QED
  <2>1. CASE Next
    BY <1>1, <1>2, <1>3, <1>4, <1>5, <1>6, <1>7, <1>8, <1>9, <1>10, <1>11, <2>1, Zenon
       DEF Next, Updater
  <2> QED BY <1>12, <2>1

\* What a process has in memory is made of the receipts on the disk, whatever
\* crashes there were.
THEOREM Invariance == Spec => []Inv
<1>1. Inv /\ [Next]_vars => Inv'
  BY InvNext
<1> QED BY <1>1, InvInit, PTL DEF Spec

-----------------------------------------------------------------------------
(* The properties *)

\* The state file is one file.
OneFile == saved = <<>> \/ saved = <<saved[1]>>

\* There is never more of it.
LEMMA OneFileAlways == Spec => []OneFile
<1>1. Init => OneFile
  BY DEF Init, OneFile
<1>2. OneFile /\ [Next]_vars => OneFile'
  <2> SUFFICES ASSUME OneFile, [Next]_vars PROVE OneFile'
    OBVIOUS
  <2>1. saved' = saved \/ saved' = <<work'>>
    BY DEF Next, Updater, vars, Start, BeginUpdate, UpdateRefused, Prepare, Compute, OperationRaises,
           Sign, UsePF, UseScore, EndScores, UseJump, EndJumps, UseFit, FitRefused, Save, Acknowledge,
           BeginFinal, UseFinal, Crash, CrashInside, Goto, Refuse
  <2>2. \A x : <<x>>[1] = x
    OBVIOUS
  <2> QED BY <2>1, <2>2 DEF OneFile
<1> QED BY <1>1, <1>2, PTL DEF Spec

\* The values of the state, in every reachable state.
THEOREM TypesHold == Spec => []TypeOK
<1>1. Inv /\ OneFile => TypeOK
  <2> SUFFICES ASSUME Inv, OneFile PROVE TypeOK
    OBVIOUS
  <2>1. Len(saved) <= 1 /\ \A i \in DOMAIN saved : IsState(saved[i])
    <3>1. CASE saved = <<>>
      <4>1. DOMAIN saved = {} /\ Len(saved) = 0
        BY <3>1
      <4> QED BY <4>1
    <3>2. CASE saved # <<>>
      <4>1. saved = <<saved[1]>>
        BY <3>2 DEF OneFile
      <4>2. \A x : DOMAIN <<x>> = {1} /\ Len(<<x>>) = 1
        OBVIOUS
      <4>3. DOMAIN saved = {1} /\ Len(saved) = 1
        BY <4>1, <4>2
      <4>4. saved[1] = S
        BY <3>2 DEF S
      <4> QED BY <4>3, <4>4, InvIs DEF Good
    <3> QED BY <3>1, <3>2
  <2>2. \A n \in DOMAIN disk : disk[n].status \in {"partial", "raised", "written", "signed"}
    BY InvIs DEF DiskOK
  <2>3. asked \in 1..(Len(Log) + 1)
    BY InvIs DEF Asked
  <2> QED BY <2>1, <2>2, <2>3 DEF TypeOK, Inv, Values, Errors
<1> QED BY <1>1, Invariance, OneFileAlways, PTL

\* Whatever the state file claims is backed by the receipt of the operation
\* that found it, however often it was computed before.
THEOREM ClaimsHaveReceipts == Spec => []EveryClaimHasAReceipt
<1>1. Inv /\ OneFile => EveryClaimHasAReceipt
  <2> DEFINE StepHas(step) ==
               LET n == Operation(step.op, step.at, IF step.op = "pf" THEN NoId ELSE step.of)
               IN  HasReceipt(n) /\ disk[n].out = step.out
             SnapshotHas(s, h) ==
               LET n == Operation("mle", h, NoId)
               IN  /\ HasReceipt(n) /\ disk[n].out.converged
                   /\ disk[n].out.found =
                        {c.name : c \in {d \in DOMAIN s.queue : d.snapshot = h}}
             RatioHas(c, e) ==
               LET n == Operation("score", e.block.station, [snapshot |-> c.snapshot, name |-> 0])
               IN  HasReceipt(n) /\ disk[n].out[c] = e.llr
             AllHave(s) ==
               /\ \A i \in DOMAIN s.checkpoint : StepHas(s.checkpoint[i])
               /\ \A i \in DOMAIN s.snapshots : SnapshotHas(s, s.snapshots[i])
               /\ \A c \in DOMAIN s.queue : \A i \in DOMAIN s.queue[c].evidence :
                    RatioHas(c, s.queue[c].evidence[i])
  <2> SUFFICES ASSUME Inv, OneFile, NEW file \in DOMAIN saved
               PROVE  AllHave(saved[file])
    BY Zenon DEF EveryClaimHasAReceipt
  <2>1. saved # <<>>
    OBVIOUS
  <2>2. saved = <<saved[1]>>
    BY <2>1 DEF OneFile
  <2>3. \A x : DOMAIN <<x>> = {1}
    OBVIOUS
  <2>4. DOMAIN saved = {1}
    BY <2>2, <2>3
  <2>5. saved[file] = S
    BY <2>1, <2>4 DEF S
  <2>6. Claims(S, disk)
    BY InvIs
  <2>7. \A step : StepClaim(step, disk) => StepHas(step)
    BY Zenon DEF StepClaim, HasReceipt, IsSigned
  <2>8. \A h : SnapshotClaim(S, h, disk) => SnapshotHas(S, h)
    BY Zenon DEF SnapshotClaim, HasReceipt, IsSigned, Frozen
  <2>9. \A c, e : RatioClaim(c, e, disk) => RatioHas(c, e)
    BY Zenon DEF RatioClaim, HasReceipt, IsSigned
  <2> HIDE DEF StepHas, SnapshotHas, RatioHas
  <2>10. AllHave(S)
    BY <2>6, <2>7, <2>8, <2>9, Zenon DEF Claims
  <2> HIDE DEF AllHave
  <2> QED BY <2>5, <2>10
<1> QED BY <1>1, Invariance, OneFileAlways, PTL

\* Candidates are in one order only: where two sequences of them part, neither
\* is before the other.
LEMMA NotBefore ==
  ASSUME NEW T \in SUBSET Ids, NEW a \in InOrder(T), NEW b \in InOrder(T),
         NEW i \in 1..Cardinality(T), \A h \in 1..(i - 1) : a[h] = b[h]
  PROVE  ~Sooner(a[i], b[i])
<1> SUFFICES ASSUME Sooner(a[i], b[i]) PROVE FALSE
  OBVIOUS
<1> DEFINE n == Cardinality(T)
<1>1. /\ n \in Nat /\ a \in [1..n -> T] /\ b \in [1..n -> T]
      /\ \A g, h \in 1..n : a[g] = a[h] => g = h
      /\ {b[h] : h \in 1..n} = T
  BY InOrderIs
<1>2. \A g, h \in 1..n : g < h => Sooner(b[g], b[h])
  BY <1>1 DEF InOrder
<1> HIDE DEF n
<1>3. i \in 1..n
  BY DEF n
<1>4. PICK h \in 1..n : b[h] = a[i]
  BY <1>1, <1>3
<1>5. a[i] \in Ids /\ b[i] \in Ids /\ h \in Int /\ i \in Int
  BY <1>1, <1>3
<1>6. CASE h < i
  <2>1. h \in 1..(i - 1)
    BY <1>5, <1>6
  <2>2. a[h] = a[i]
    BY <1>4, <2>1
  <2> QED BY <1>1, <1>3, <1>6, <2>2
<1>7. CASE h = i
  BY <1>4, <1>5, <1>7, InOneOrder
<1>8. CASE i < h
  <2>1. Sooner(b[i], a[i])
    BY <1>2, <1>3, <1>4, <1>8
  <2> QED BY <1>5, <2>1, InOneOrder
<1> QED BY <1>5, <1>6, <1>7, <1>8

\* There is one sequence of given candidates in order.
LEMMA OnlyOrder ==
  ASSUME NEW T \in SUBSET Ids, NEW a \in InOrder(T), NEW b \in InOrder(T)
  PROVE  a = b
<1> DEFINE n == Cardinality(T)
           Bad == {i \in 1..n : a[i] # b[i]}
<1>1. n \in Nat /\ a \in [1..n -> T] /\ b \in [1..n -> T]
  BY InOrderIs
<1>2. SUFFICES ASSUME Bad # {} PROVE FALSE
  BY <1>1
<1>3. Bad \subseteq Nat
  BY <1>1
<1>4. PICK i \in Bad : \A h \in Bad : i <= h
  BY <1>2, <1>3, Least
<1>5. \A h \in 1..(i - 1) : a[h] = b[h] /\ b[h] = a[h]
  BY <1>1, <1>4
<1>6. ~Sooner(a[i], b[i]) /\ ~Sooner(b[i], a[i])
  BY <1>4, <1>5, NotBefore
<1>7. a[i] \in Ids /\ b[i] \in Ids
  BY <1>1, <1>4
<1> QED BY <1>4, <1>6, <1>7, InOneOrder

\* The score of a block that comes after everything that was scored is taken.
LEMMA ScoreIsTaken ==
  ASSUME Inv, pc = "score", NEW n \in Needed, NEW c \in CandidatesOf(n.id.snapshot)
  PROVE  ~Rejects(work.queue[c], ScoresOf(c, n))
<1>1. PICK done : ScoresSigned(S, disk, done) /\ work = AfterScores(S, disk, done)
  BY DEF Inv, Phase, Scoring
<1>2. PICK h : ScoreNext(n, done, h)
  BY <1>1, NeededScore
<1> DEFINE k == S.last + 1
           old == S.queue[c]
           e == [block |-> Log[K][1], llr |-> disk[n].out[c]]
<1>3. K = k /\ K \in Nat /\ K \in DOMAIN Log
  BY StationOfWork DEF Inv, Asked
<1>4. h \in DOMAIN S.scored \ done /\ n.id.snapshot = h /\ Available(h) = {K}
      /\ c \in DOMAIN S.queue /\ c.snapshot = h
  BY <1>2 DEF ScoreNext, Frozen
<1>5. work.queue[c] = old
  BY <1>1, <1>4 DEF AfterScores, QueueAfter
<1>6. ScoresOf(c, n) = <<e>>
  BY <1>3, <1>4, OneScore
<1>7. old \in Candidates /\ S.last \in Nat /\ S.last <= Len(Log)
  BY <1>4, GoodIs, InvIs
<1>8. h \in 1..S.last /\ old.cutoff = EndStep(h) /\ Evidenced(S.last, h, old)
  BY <1>4, InvIs DEF Good
<1>9. ASSUME old.state = "pending" PROVE ~Reuses(old, e)
  <2>1. h \in DOMAIN Log /\ h < K /\ 1 \in DOMAIN Log[K] /\ e.block = Log[K][1]
    BY <1>3, <1>7, <1>8, LogAssumption, OneBlockAssumption
  <2>2. ASSUME NEW i \in DOMAIN old.evidence
        PROVE  \E l \in DOMAIN Log : \E j \in DOMAIN Log[l] :
                 old.evidence[i].block = Log[l][j] /\ (l < K \/ (l = K /\ j # 1))
    <3>1. old.evidence \in Seq(Evidence)
      BY <1>7 DEF Candidates
    <3>2. i \in 1..Len(old.evidence) /\ Len(old.evidence) \in Nat
      BY <2>2, <3>1
    <3>3. Len(old.evidence) <= S.last - h /\ old.evidence[i].block = Log[h + i][1]
      BY <1>8, <3>2 DEF Evidenced
    <3>4. h + i \in 1..Len(Log) /\ h + i < K
      <4> DEFINE l == Len(old.evidence)
      <4>1. l \in Nat /\ i \in 1..l /\ l <= S.last - h
        BY <3>2, <3>3
      <4>2. h \in Nat /\ h >= 1 /\ K = S.last + 1 /\ Len(Log) \in Nat
        BY <1>3, <1>7, <1>8, LogAssumption
      <4> HIDE DEF l
      <4> QED BY <1>7, <4>1, <4>2
    <3>5. h + i \in DOMAIN Log /\ 1 \in DOMAIN Log[h + i]
      BY <3>4, LogAssumption, OneBlockAssumption
    <3> QED BY <3>3, <3>4, <3>5
  <2> HIDE DEF old, e
  <2> QED BY <1>3, <1>8, <1>9, <2>1, <2>2, LaterBlockIsNew
<1> HIDE DEF old, e
<1> QED BY <1>5, <1>6, <1>9, RejectsOnce

\* A restart that goes through an update again finds every request, directive
\* and snapshot as it would write it, and no block is rejected.
THEOREM RestartsMeetFiles == Spec => []RestartsMeetTheirFiles
<1>1. Inv => RestartsMeetTheirFiles
  <2> SUFFICES ASSUME Inv PROVE RestartsMeetTheirFiles
    OBVIOUS
  <2>1. ASSUME NEW n \in Needed, n.kind \in {"score", "rj"}, n \in DOMAIN files
        PROVE  files[n] = Binding(n)
    <3>1. FileOK(files[n], n, S, disk) /\ FileOK(Binding(n), n, S, disk)
      BY <2>1, BindingIs, InvIs DEF FilesOK
    <3>2. n.at = S.last + 1
      BY NeededIs
    <3>3. CASE n.kind = "score"
      BY <3>1, <3>3 DEF FileOK
    <3>4. CASE n.kind = "rj"
      <4>1. PICK a \in InOrder(Earlier(S, disk, n.id)) : files[n] = <<n.id, CheckpointAfter(S, disk, a)>>
        BY <3>1, <3>2, <3>4 DEF FileOK
      <4>2. PICK b \in InOrder(Earlier(S, disk, n.id)) : Binding(n) = <<n.id, CheckpointAfter(S, disk, b)>>
        BY <3>1, <3>2, <3>4 DEF FileOK
      <4>3. Earlier(S, disk, n.id) \in SUBSET Ids
        BY InvIs, GoodIs DEF Earlier, Due
      <4>4. a = b
        BY <4>3, OnlyOrder
      <4> QED BY <4>1, <4>2, <4>4
    <3> QED BY <2>1, <3>3, <3>4
  <2>2. pc = "score" =>
          \A n \in Usable : \A c \in CandidatesOf(n.id.snapshot) :
            ~Rejects(work.queue[c], ScoresOf(c, n))
    BY ScoreIsTaken DEF Usable
  <2>3. ASSUME pc = "fit", NEW n \in Usable, SnapshotFile \in DOMAIN files
        PROVE  files[SnapshotFile] = <<disk[n].out.found>>
    <3>1. n = FitOp(S) /\ K = S.last + 1
      BY <2>3, NeededIs, StationOfWork DEF Usable
    <3>2. SnapshotFile.kind = "snapshot" /\ SnapshotFile.at = S.last + 1
      BY <3>1 DEF SnapshotFile, Operation
    <3>3. FileOK(files[SnapshotFile], SnapshotFile, S, disk)
      BY <2>3, InvIs DEF FilesOK
    <3> QED BY <3>1, <3>2, <3>3 DEF FileOK
  <2> QED BY <2>1, <2>2, <2>3 DEF RestartsMeetTheirFiles, Conflicts
<1> QED BY <1>1, Invariance, PTL

-----------------------------------------------------------------------------
(* The promise.  An operator that an instance brings in is another one to  *)
(* the provers, which have to be told that it is the same.                 *)

\* The promise scores a candidate as this module does.
LEMMA SameScored ==
  ASSUME NEW c, NEW e
  PROVE  Promise!Scored(c, <<e>>) = Scored(c, <<e>>)
<1>1. \A X : Promise!Cardinality(X) = Cardinality(X)
  BY DEF Promise!Cardinality, Cardinality, Promise!IsFiniteSet, IsFiniteSet
<1>2. \A x, f : Promise!Distinct(x, f) = Distinct(x, f)
  BY <1>1, Zenon DEF Promise!Distinct, Distinct
<1>3. \A x : Promise!Observable(x) <=> Observable(x)
  BY <1>2, Zenon DEF Promise!Observable, Observable
<1>4. \A x, n : Promise!StateFor(x, n) = StateFor(x, n)
  BY <1>3, Zenon DEF Promise!StateFor, StateFor
<1>5. \A x, y : Promise!Corroborated(x, y) = Corroborated(x, y)
  BY <1>4, Zenon DEF Promise!Corroborated, Corroborated
<1>6. \A X : Promise!Max(X) = Max(X)
  BY Zenon DEF Promise!Max, Max
<1>7. Promise!FoldLeft(Promise!Corroborated, c, <<e>>) = FoldLeft(Corroborated, c, <<e>>)
  BY <1>5, <1>6, Zenon DEF Promise!FoldLeft, FoldLeft, Promise!MapThenFoldSet, MapThenFoldSet
<1> QED BY <1>7, Zenon DEF Promise!Scored, Scored

\* It knows the same rows and the same scheduler.
LEMMA SameStation ==
  ASSUME NEW s, NEW k, NEW dev
  PROVE  /\ Promise!Steps(k) = Steps(k) /\ Promise!EndStep(k) = EndStep(k)
         /\ Promise!AfterStation(s, k, dev) = AfterStation(s, k, dev)
         /\ Promise!StationTriggers(s, k, dev) = StationTriggers(s, k, dev)
<1>1. \A X : Promise!Cardinality(X) = Cardinality(X)
  BY DEF Promise!Cardinality, Cardinality, Promise!IsFiniteSet, IsFiniteSet
<1>2. Promise!Steps(k) = Steps(k) /\ Promise!EndStep(k) = EndStep(k)
  BY Zenon DEF Promise!Steps, Steps, Promise!EndStep, EndStep
<1>3. Promise!SignalsOf(k, dev) = SignalsOf(k, dev)
  BY <1>1, <1>2, Zenon DEF Promise!SignalsOf, SignalsOf
<1>4. \A p, t, g : Promise!Mismatch(p, t, g) <=> Mismatch(p, t, g)
  BY Zenon DEF Promise!Mismatch, Mismatch
<1>5. \A p, t, g : Promise!StreakAfter(p, t, g) = StreakAfter(p, t, g)
  BY <1>4, Zenon DEF Promise!StreakAfter, StreakAfter
<1>6. \A p, t : Promise!CoolingDown(p, t) <=> CoolingDown(p, t)
  BY Zenon DEF Promise!CoolingDown, CoolingDown
<1>7. \A p, t, g : Promise!Triggers(p, t, g) <=> Triggers(p, t, g)
  BY <1>4, <1>5, <1>6, Zenon DEF Promise!Triggers, Triggers
<1>8. ASSUME NEW p, NEW t, NEW g
      PROVE  Promise!Considered(p, t, g) = Considered(p, t, g)
  <2>1. CASE g.complete
    <3>1. CASE Triggers(p, t, g)
      <4>1. Promise!Triggers(p, t, g)
        BY <1>7, <3>1
      <4> QED BY <1>5, <2>1, <3>1, <4>1, Zenon DEF Promise!Considered, Considered
    <3>2. CASE ~Triggers(p, t, g)
      <4>1. ~Promise!Triggers(p, t, g)
        BY <1>7, <3>2
      <4> QED BY <1>5, <2>1, <3>2, <4>1, Zenon DEF Promise!Considered, Considered
    <3> QED BY <3>1, <3>2
  <2>2. CASE ~g.complete
    BY <2>2, Zenon DEF Promise!Considered, Considered
  <2> QED BY <2>1, <2>2
<1>9. \A X : Promise!Max(X) = Max(X)
  BY Zenon DEF Promise!Max, Max
<1>10. \A x : Promise!FoldLeft(LAMBDA t, g : Promise!Considered(Policy, t, g), s, x) =
                FoldLeft(LAMBDA t, g : Considered(Policy, t, g), s, x)
  BY <1>8, <1>9, Zenon DEF Promise!FoldLeft, FoldLeft, Promise!MapThenFoldSet, MapThenFoldSet
<1>11. \A x : Promise!Front(x) = Front(x) /\ Promise!Last(x) = Last(x)
  BY Zenon DEF Promise!Front, Front, Promise!Last, Last
<1>12. Promise!BeforeLast(s, k, dev) = BeforeLast(s, k, dev)
  BY <1>3, <1>10, <1>11, Zenon DEF Promise!BeforeLast, BeforeLast
<1> QED BY <1>2, <1>3, <1>7, <1>8, <1>11, <1>12, Zenon
       DEF Promise!AfterStation, AfterStation, Promise!StationTriggers, StationTriggers

\* It knows the same order and begins alike.
LEMMA SameOrder ==
  /\ \A T : Promise!InOrder(T) = InOrder(T)
  /\ \A n : Promise!NewCandidate(n) = NewCandidate(n)
  /\ Promise!FreshState = FreshState
<1>1. \A X : Promise!Cardinality(X) = Cardinality(X)
  BY DEF Promise!Cardinality, Cardinality, Promise!IsFiniteSet, IsFiniteSet
<1>2. \A c, d : Promise!Sooner(c, d) <=> Sooner(c, d)
  BY Zenon DEF Promise!Sooner, Sooner
<1>3. \A T : Promise!InOrder(T) = InOrder(T)
  BY <1>1, <1>2, Zenon DEF Promise!InOrder, InOrder
<1>4. \A n : Promise!NewCandidate(n) = NewCandidate(n)
  BY Zenon DEF Promise!NewCandidate, NewCandidate
<1>5. Promise!FreshState = FreshState
  BY Zenon DEF Promise!FreshState, FreshState, Promise!FreshScheduler, FreshScheduler
<1> QED BY <1>3, <1>4, <1>5

\* The promise's step, its choices made: the next state, and what is chosen.
PromisedScores(x, k, llr) ==
  [c \in DOMAIN x.queue |->
     IF c \in DOMAIN llr
       THEN Promise!Scored(x.queue[c], <<[block |-> Log[k][1], llr |-> llr[c]]>>)
       ELSE x.queue[c]]

PromisedState(x, k, dev, llr, jumps, move, found) ==
  LET scored == PromisedScores(x, k, llr)
      due == Promise!ToJump(scored, x.applied)
      fits == Promise!StationTriggers(x.sched, k, dev)
      seen == [s \in DOMAIN x.scored |-> x.scored[s] \union {k}]
  IN  [last |-> k,
       sched |-> Promise!AfterStation(x.sched, k, dev),
       queue |-> Promise!Registered(scored, k, found),
       snapshots |-> IF fits THEN Append(x.snapshots, k) ELSE x.snapshots,
       scored |-> IF fits THEN Promise!WithSnapshot(seen, k) ELSE seen,
       applied |-> x.applied \union due,
       checkpoint |-> x.checkpoint \o <<Promise!FilterStep(k, dev)>>
                        \o [i \in DOMAIN jumps |->
                              Promise!JumpStep(k, jumps[i], move[jumps[i]])]]

ChosenFor(x, k, dev, llr, jumps, move, found) ==
  /\ dev \in [Promise!Steps(k) -> Deviances]
  /\ llr \in [Promise!PendingIn(x.queue) -> Ratios]
  /\ jumps \in Promise!InOrder(Promise!ToJump(PromisedScores(x, k, llr), x.applied))
  /\ move \in [Promise!ToJump(PromisedScores(x, k, llr), x.applied) -> Moves]
  /\ found \in (IF Promise!StationTriggers(x.sched, k, dev) THEN SUBSET Names ELSE {{}})

\* With such choices the step is one of the promise.
LEMMA StepIsPromised ==
  ASSUME NEW k, NEW dev, NEW llr, NEW jumps, NEW move, NEW found,
         ChosenFor(S, k, dev, llr, jumps, move, found),
         S' = PromisedState(S, k, dev, llr, jumps, move, found)
  PROVE  Promise!Assimilate(k)
<1>1. \E dv \in [Promise!Steps(k) -> Deviances], lr \in [Promise!PendingIn(S.queue) -> Ratios] :
      \E js \in Promise!InOrder(Promise!ToJump(PromisedScores(S, k, lr), S.applied)),
         mv \in [Promise!ToJump(PromisedScores(S, k, lr), S.applied) -> Moves],
         fd \in IF Promise!StationTriggers(S.sched, k, dv) THEN SUBSET Names ELSE {{}} :
        S' = PromisedState(S, k, dv, lr, js, mv, fd)
  <2>1. \E js \in Promise!InOrder(Promise!ToJump(PromisedScores(S, k, llr), S.applied)),
           mv \in [Promise!ToJump(PromisedScores(S, k, llr), S.applied) -> Moves],
           fd \in IF Promise!StationTriggers(S.sched, k, dev) THEN SUBSET Names ELSE {{}} :
          S' = PromisedState(S, k, dev, llr, js, mv, fd)
    BY Zenon DEF ChosenFor
  <2> QED BY <2>1, Zenon DEF ChosenFor
<1> QED BY <1>1, Zenon DEF PromisedState, PromisedScores, Promise!Assimilate, S

\* What one update made of the receipts is what the promise makes of their
\* results.
LEMMA UpdateIsPromised ==
  ASSUME NEW s, NEW d, Good(s), DiskOK(d, s), NEW j, NEW t, EndOf(s, d, j, t),
         s = S, S' = Closed(s, d, j, t)
  PROVE  Promise!Assimilate(s.last + 1)
<1> DEFINE k == s.last + 1
           all == DOMAIN s.scored
           dev == d[PFOp(s)].out
           pending == {c \in DOMAIN s.queue : s.queue[c].state = "pending"}
           llr == [c \in pending |-> d[ScoreOp(s, c.snapshot)].out[c]]
           scored == QueueAfter(s, d, all)
           due == Due(s, d)
           move == [c \in due |-> d[JumpOp(s, c)].out]
           found == IF t THEN d[FitOp(s)].out.found ELSE {}
           seen == [h \in DOMAIN s.scored |-> s.scored[h] \union {k}]
<1>1. k \in DOMAIN Log /\ t \in BOOLEAN /\ ScoresSigned(s, d, all) /\ j \in InOrder(due)
      /\ JumpsSigned(s, d, j) /\ t = Fits(s, d) /\ (t => IsSigned(d, FitOp(s)))
  BY DEF EndOf
<1>2. PartsAfter(s, d, all) /\ JumpsAfter(s, d, j, due) /\ ClosedParts(s, d, t)
  BY <1>1, PartsAfterIs, JumpsAfterIs, ClosedPartsAre
<1>3. dev \in [Steps(k) -> Deviances]
  BY <1>2 DEF PartsAfter
<1>4. llr \in [pending -> Ratios]
  <2>1. ASSUME NEW c \in pending PROVE d[ScoreOp(s, c.snapshot)].out[c] \in Ratios
    <3>1. IsSigned(d, ScoreOp(s, c.snapshot)) /\ c \in DOMAIN s.queue
      BY <1>1 DEF ScoresSigned, Good
    <3> QED BY <3>1, ScoreIs
  <2> QED BY <2>1
<1>5. move \in [due -> Moves] /\ {j[i] : i \in DOMAIN j} = due
      /\ \A i \in DOMAIN j : j[i] \in due
  <2>1. {j[i] : i \in DOMAIN j} = due
    BY <1>2 DEF JumpsAfter
  <2>2. ASSUME NEW c \in due PROVE d[JumpOp(s, c)].out \in Moves
    <3>1. PICK i \in DOMAIN j : j[i] = c
      BY <2>1
    <3>2. IsSigned(d, JumpOp(s, c))
      BY <1>1, <3>1 DEF JumpsSigned
    <3> QED BY <3>2 DEF IsSigned, DiskOK, JumpOp, Operation
  <2> QED BY <2>1, <2>2
<1>6. found \in (IF t THEN SUBSET Names ELSE {{}})
  <2>1. t => d[FitOp(s)].out \in [found : SUBSET Names, converged : BOOLEAN]
    BY <1>1, WithSnapshotIs
  <2> QED BY <1>1, <2>1
<1>7. scored = [c \in DOMAIN s.queue |->
                  IF c \in DOMAIN llr
                    THEN Scored(s.queue[c], <<[block |-> Log[k][1], llr |-> llr[c]]>>)
                    ELSE s.queue[c]]
  <2>1. ASSUME NEW c \in DOMAIN s.queue, s.queue[c].state = "pending"
        PROVE  Scored(s.queue[c], <<[block |-> Log[k][1], llr |-> llr[c]]>>) =
                 Corroborated(s.queue[c], ScoreOf(s, d, c))
    <3>1. ScoreOf(s, d, c) = [block |-> Log[k][1], llr |-> llr[c]]
      BY <2>1 DEF ScoreOf
    <3> QED BY <2>1, <3>1, ScoredOnce
  <2>2. \A c \in DOMAIN s.queue : c.snapshot \in all
    BY DEF Good
  <2>3. DOMAIN llr = pending
    OBVIOUS
  <2> HIDE DEF llr
  <2> QED BY <2>1, <2>2, <2>3 DEF QueueAfter
<1>8. due = IF Mode = "exact_rj"
              THEN {c \in DOMAIN scored : scored[c].state = "verified"} \ s.applied ELSE {}
  <2>1. DOMAIN scored = DOMAIN s.queue
    BY DEF QueueAfter
  <2> QED BY <2>1 DEF Due
<1>9. seen = ScoredAfter(s, all)
  BY DEF ScoredAfter
<1>10. NewQueue(s, d, t) =
         [c \in DOMAIN scored \union {[snapshot |-> k, name |-> n] : n \in found} |->
            IF c \in DOMAIN scored THEN scored[c] ELSE NewCandidate(EndStep(k))]
  <2>1. DOMAIN scored = DOMAIN s.queue
    BY DEF QueueAfter
  <2>2. CASE t
    <3>1. found = d[FitOp(s)].out.found /\ NewQueue(s, d, t) = QueueWith(s, d)
      BY <2>2, Zenon DEF NewQueue
    <3>2. FoundAt(s, d) = {[snapshot |-> k, name |-> n] : n \in found}
      BY <3>1 DEF FoundAt
    <3> HIDE DEF found, k
    <3> QED BY <2>1, <3>1, <3>2 DEF QueueWith, k
  <2>3. CASE ~t
    <3>1. found = {} /\ NewQueue(s, d, t) = scored
      BY <2>3, Zenon DEF NewQueue
    <3>2. {[snapshot |-> k, name |-> n] : n \in found} = {}
      BY <3>1
    <3>3. scored = [c \in DOMAIN scored |-> scored[c]]
      BY DEF QueueAfter
    <3> HIDE DEF scored, found
    <3> QED BY <3>1, <3>2, <3>3
  <2> QED BY <1>1, <2>2, <2>3
<1>11. NewScored(s, t) =
         IF t THEN [h \in DOMAIN seen \union {k} |-> IF h \in DOMAIN seen THEN seen[h] ELSE {}]
              ELSE seen
  <2>1. CASE t
    <3>1. NewScored(s, t) = ScoredWith(s)
      BY <2>1, Zenon DEF NewScored
    <3>2. DOMAIN seen = DOMAIN s.scored
      OBVIOUS
    <3>3. k \notin DOMAIN s.scored
      BY GoodIs
    <3> HIDE DEF seen, k
    <3>4. ScoredWith(s) = [h \in DOMAIN seen \union {k} |-> IF h \in DOMAIN seen THEN seen[h] ELSE {}]
      BY <1>9, <3>2, <3>3 DEF ScoredWith, k
    <3> QED BY <2>1, <3>1, <3>4
  <2>2. CASE ~t
    BY <1>9, <2>2, Zenon DEF NewScored
  <2> QED BY <1>1, <2>1, <2>2
<1>12. CheckpointAfter(s, d, j) =
         s.checkpoint \o <<[op |-> "pf", at |-> k, of |-> None, out |-> dev]>>
           \o [i \in DOMAIN j |-> [op |-> "rj", at |-> k, of |-> j[i], out |-> move[j[i]]]]
  BY <1>5 DEF CheckpointAfter, PFRecord, JumpRecords
<1>13. S' = [last |-> k, sched |-> AfterStation(s.sched, k, dev), queue |-> NewQueue(s, d, t),
             snapshots |-> IF t THEN Append(s.snapshots, k) ELSE s.snapshots,
             scored |-> NewScored(s, t), applied |-> s.applied \union due,
             checkpoint |-> CheckpointAfter(s, d, j)]
  BY <1>5 DEF Closed, NewSnapshots
<1>14. t = StationTriggers(s.sched, k, dev)
  BY <1>1 DEF Fits
<1>15. PromisedScores(s, k, llr) = scored
  <2> HIDE DEF llr, scored
  <2> QED BY <1>7, SameScored, Zenon DEF PromisedScores
<1>16. Promise!ToJump(scored, s.applied) = due
  <2> HIDE DEF due, scored
  <2> QED BY <1>8, Zenon DEF Promise!ToJump, Promise!VerifiedIn
<1>17. Promise!PendingIn(s.queue) = pending
  BY Zenon DEF Promise!PendingIn
<1>18. Promise!Registered(scored, k, found) = NewQueue(s, d, t)
  <2> HIDE DEF scored, found
  <2>1. Promise!NewCandidate(Promise!EndStep(k)) = NewCandidate(EndStep(k))
    BY SameStation, SameOrder, Zenon
  <2> QED BY <1>10, <2>1, Zenon DEF Promise!Registered
<1>19. Promise!WithSnapshot(seen, k) =
         [h \in DOMAIN seen \union {k} |-> IF h \in DOMAIN seen THEN seen[h] ELSE {}]
  BY Zenon DEF Promise!WithSnapshot
<1>20. [i \in DOMAIN j |-> Promise!JumpStep(k, j[i], move[j[i]])] =
         [i \in DOMAIN j |-> [op |-> "rj", at |-> k, of |-> j[i], out |-> move[j[i]]]]
       /\ Promise!FilterStep(k, dev) = [op |-> "pf", at |-> k, of |-> None, out |-> dev]
  BY Zenon DEF Promise!JumpStep, Promise!FilterStep
<1>21. /\ Promise!StationTriggers(s.sched, k, dev) = t
       /\ Promise!AfterStation(s.sched, k, dev) = AfterStation(s.sched, k, dev)
       /\ Promise!Steps(k) = Steps(k) /\ Promise!InOrder(due) = InOrder(due)
  BY <1>14, SameStation, SameOrder, Zenon
<1> HIDE DEF k, dev, llr, scored, due, move, found, seen, pending
<1>22. PromisedState(s, k, dev, llr, j, move, found) = S'
  <2>1. PromisedState(s, k, dev, llr, j, move, found) =
          [last |-> k, sched |-> AfterStation(s.sched, k, dev), queue |-> NewQueue(s, d, t),
           snapshots |-> IF t THEN Append(s.snapshots, k) ELSE s.snapshots,
           scored |-> IF t THEN Promise!WithSnapshot(seen, k) ELSE seen,
           applied |-> s.applied \union due,
           checkpoint |-> CheckpointAfter(s, d, j)]
    BY <1>12, <1>15, <1>16, <1>18, <1>20, <1>21, Zenon DEF PromisedState, seen
  <2>2. NewScored(s, t) = IF t THEN Promise!WithSnapshot(seen, k) ELSE seen
    BY <1>11, <1>19, Zenon
  <2> QED BY <1>13, <2>1, <2>2, Zenon
<1>23. ChosenFor(s, k, dev, llr, j, move, found)
  BY <1>1, <1>3, <1>4, <1>5, <1>6, <1>15, <1>16, <1>17, <1>21, Zenon DEF ChosenFor
<1>24. Promise!Assimilate(k)
  BY <1>22, <1>23, StepIsPromised, Zenon
<1> QED BY <1>24 DEF k

\* The state file moves as if every station were assimilated in one step,
\* through any crashes and recomputations.
THEOREM Refinement == Spec => KeepsPromise
<1>1. Init => Promise!PromiseInit
  <2>1. Init => S = FreshState
    BY DEF Init, S
  <2>2. Promise!FreshState = FreshState
    BY SameOrder
  <2> QED BY <2>1, <2>2 DEF Promise!PromiseInit, S
<1>2. Inv /\ [Next]_vars => [Promise!PromiseNext]_S
  <2> SUFFICES ASSUME Inv, [Next]_vars PROVE Promise!PromiseNext \/ S' = S
    OBVIOUS
  <2>1. CASE S' = S
    BY <2>1
  <2>2. ASSUME NEW j, EndOf(S, disk, j, trigger), S' = Closed(S, disk, j, trigger)
        PROVE  Promise!PromiseNext
    <3>1. Promise!Assimilate(S.last + 1)
      BY <2>2, UpdateIsPromised, InvIs
    <3>2. S.last + 1 \in DOMAIN Log
      BY <2>2 DEF EndOf
    <3> QED BY <3>1, <3>2, Zenon DEF Promise!PromiseNext, S
  <2> QED BY <2>1, <2>2, InvNext
<1>3. Inv /\ [Next]_vars => [Promise!PromiseNext]_(IF saved = <<>> THEN FreshState ELSE saved[1])
  BY <1>2 DEF S
<1> QED BY <1>1, <1>3, Invariance, PTL DEF Spec, KeepsPromise, Promise!PromiseSpec

=============================================================================
