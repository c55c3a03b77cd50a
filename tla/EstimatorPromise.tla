-------------------------- MODULE EstimatorPromise --------------------------
(***************************************************************************)
(* What the live estimator updater promises: every station of the log is   *)
(* assimilated once, in order and as a whole, and the durable estimator    *)
(* state is never anything in between.  There are no crashes here and no   *)
(* files; LiveUpdater is shown to implement this module.                   *)
(***************************************************************************)
EXTENDS EstimatorState

VARIABLE est       \* the durable state of the estimators

\* A queue, and the stations scored per snapshot, with the candidates of a
\* snapshot of station k added.
Registered(queue, k, found) ==
  [c \in DOMAIN queue \union {[snapshot |-> k, name |-> n] : n \in found} |->
     IF c \in DOMAIN queue THEN queue[c] ELSE NewCandidate(EndStep(k))]

\* Mutant: the snapshot's own station counts as scored.
WithSnapshot_OwnStation(scored, k) ==
  [s \in DOMAIN scored \union {k} |-> IF s \in DOMAIN scored THEN scored[s] ELSE {k}]

WithSnapshot(scored, k) ==
  [s \in DOMAIN scored \union {k} |-> IF s \in DOMAIN scored THEN scored[s] ELSE {}]

PendingIn(queue) == {c \in DOMAIN queue : queue[c].state = "pending"}
VerifiedIn(queue) == {c \in DOMAIN queue : queue[c].state = "verified"}

\* Mutant: what was applied before is not looked at.
ToJump_Again(queue, applied) == IF Mode = "exact_rj" THEN VerifiedIn(queue) ELSE {}

\* The verified candidates that have not jumped yet.
ToJump(queue, applied) == IF Mode = "exact_rj" THEN VerifiedIn(queue) \ applied ELSE {}

FilterStep(k, dev) == [op |-> "pf", at |-> k, of |-> None, out |-> dev]
JumpStep(k, c, move) == [op |-> "rj", at |-> k, of |-> c, out |-> move]

PromiseInit == est = FreshState

\* One station: the particle filter, the scheduler, the scores of the frozen
\* candidates, the jumps of the candidates these scores verified, and then the
\* snapshot that the station triggers.
Assimilate(k) ==
  \E dev \in [Steps(k) -> Deviances], llr \in [PendingIn(est.queue) -> Ratios] :
    LET scored == [c \in DOMAIN est.queue |->
                     IF c \in DOMAIN llr
                       THEN Scored(est.queue[c], <<[block |-> Log[k][1], llr |-> llr[c]]>>)
                       ELSE est.queue[c]]
        due == ToJump(scored, est.applied)
        fits == StationTriggers(est.sched, k, dev)
        seen == [s \in DOMAIN est.scored |-> est.scored[s] \union {k}]
    IN  \E jumps \in InOrder(due), move \in [due -> Moves],
           found \in IF fits THEN SUBSET Names ELSE {{}} :
          est' = [last |-> k,
                  sched |-> AfterStation(est.sched, k, dev),
                  queue |-> Registered(scored, k, found),
                  snapshots |-> IF fits THEN Append(est.snapshots, k) ELSE est.snapshots,
                  scored |-> IF fits THEN WithSnapshot(seen, k) ELSE seen,
                  applied |-> est.applied \union due,
                  checkpoint |-> est.checkpoint \o <<FilterStep(k, dev)>>
                                   \o [i \in DOMAIN jumps |->
                                         JumpStep(k, jumps[i], move[jumps[i]])]]

PromiseNext == \E k \in {est.last + 1} \intersect DOMAIN Log : Assimilate(k)

PromiseSpec == PromiseInit /\ [][PromiseNext]_est

-----------------------------------------------------------------------------
(* Properties *)

\* Every verdict follows from the candidate's own evidence, at its first
\* decisive block.
VerdictsJustified == \A c \in DOMAIN est.queue : Justified(est.queue[c])

\* A candidate has seen the stations after its snapshot's cutoff, each once
\* and none skipped, and while it is pending all of them; the same stations
\* are on record as scored for its snapshot.
EvidenceIsTheFuture ==
  \A c \in DOMAIN est.queue :
    LET used == [i \in DOMAIN est.queue[c].evidence |-> est.queue[c].evidence[i].block]
        later == [i \in 1..(est.last - c.snapshot) |-> Log[c.snapshot + i][1]]
    IN  /\ used = SubSeq(later, 1, Len(used))
        /\ est.queue[c].state = "pending" => used = later
        /\ est.scored[c.snapshot] = (c.snapshot + 1)..est.last

\* The particle filter jumped for a candidate at the station that verified it
\* and never again, and for no other candidate.
JumpsFollowVerdicts ==
  LET jumps == {i \in DOMAIN est.checkpoint : est.checkpoint[i].op = "rj"}
      VerifiedAt(c) == c.snapshot + Len(est.queue[c].evidence)
  IN  /\ {est.checkpoint[i].of : i \in jumps} =
           (IF Mode = "exact_rj" THEN VerifiedIn(est.queue) ELSE {})
      /\ \A i \in jumps :
           /\ est.checkpoint[i].at = VerifiedAt(est.checkpoint[i].of)
           /\ \A j \in jumps : est.checkpoint[i].of = est.checkpoint[j].of => i = j

=============================================================================
