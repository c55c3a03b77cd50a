---------------------------- MODULE OfflineReplay ----------------------------
(***************************************************************************)
(* SpectralOfflineHybridController.run (hybrid_v2/offline.py): a finished  *)
(* measurement log is replayed station by station, prefix MLE snapshots    *)
(* are taken where the scheduler triggers, their candidates are scored on  *)
(* the blocks after the snapshot, verified candidates enter the particle   *)
(* filter by exact reversible jumps, and the whole run is published by one *)
(* rename or discarded.                                                    *)
(*                                                                         *)
(* What an estimator computes is a choice from a small set.  A station of  *)
(* the log is the sequence of its blocks in the scorer's order.            *)
(***************************************************************************)
EXTENDS StationLog

VARIABLES
  pc,              \* how far run() has come
  station,         \* the station of the replay loop
  sched,           \* the scheduler
  queue,           \* the verification queue: [snapshot, name] -> candidate
  snapshots,       \* stations with a snapshot, in the order they were taken
  scoredUpTo,      \* snapshots the scoring loop has passed
  checkpoint       \* what the current PF checkpoint has been through

vars == <<pc, station, sched, queue, snapshots, scoredUpTo, checkpoint>>

-----------------------------------------------------------------------------
Init ==
  /\ pc = "replay"
  /\ station = 1
  /\ sched = FreshScheduler
  /\ queue = <<>>
  /\ snapshots = <<>>
  /\ scoredUpTo = 0
  /\ checkpoint = <<>>

\* One turn of the station loop: PF through this station, then its signals.
ReplayStation ==
  /\ pc = "replay"
  /\ station <= Len(Log)
  /\ \E dev \in [Steps(station) -> Deviances] :
       /\ sched' = AfterStation(sched, station, dev)
       /\ IF StationTriggers(sched, station, dev)
            THEN pc' = "fit" /\ station' = station
            ELSE pc' = "replay" /\ station' = station + 1
  /\ checkpoint' = Append(checkpoint, [op |-> "pf", at |-> station])
  /\ UNCHANGED <<queue, snapshots, scoredUpTo>>

\* Mutant: stations are counted from zero.
FitSnapshot_ZeroBased ==
  /\ pc = "fit"
  /\ \E found \in SUBSET Names :
       queue' = [k \in DOMAIN queue \union {[snapshot |-> station, name |-> n] : n \in found} |->
                   IF k \in DOMAIN queue THEN queue[k] ELSE NewCandidate(EndStep(station))]
  /\ snapshots' = Append(snapshots, station - 1)
  /\ pc' = "replay"
  /\ station' = station + 1
  /\ UNCHANGED <<sched, scoredUpTo, checkpoint>>

\* A converged MLE on the prefix: its snapshot and its candidates.
FitSnapshot ==
  /\ pc = "fit"
  /\ \E found \in SUBSET Names :
       queue' = [k \in DOMAIN queue \union {[snapshot |-> station, name |-> n] : n \in found} |->
                   IF k \in DOMAIN queue THEN queue[k] ELSE NewCandidate(EndStep(station))]
  /\ snapshots' = Append(snapshots, station)
  /\ pc' = "replay"
  /\ station' = station + 1
  /\ UNCHANGED <<sched, scoredUpTo, checkpoint>>

EndReplay ==
  /\ pc = "replay"
  /\ station > Len(Log)
  /\ pc' = "score"
  /\ UNCHANGED <<station, sched, queue, snapshots, scoredUpTo, checkpoint>>

Scoring == pc = "score" /\ scoredUpTo < Len(snapshots)
Current == snapshots[scoredUpTo + 1]
CandidatesOf(k) == {c \in DOMAIN queue : c.snapshot = k}

\* The score artifacts the scorer can write for the current snapshot.
Artifacts ==
  LET blocks == BlocksAfter(Current)
  IN  {[c \in CandidatesOf(Current) |-> [i \in DOMAIN blocks |->
                                           [block |-> blocks[i], llr |-> r[c][i]]]] :
         r \in [CandidatesOf(Current) -> [DOMAIN blocks -> Ratios]]}

\* Mutant: a snapshot of the whole log is scored too.
Skipped_OffByOne(k) == EndStep(k) > EndStep(Len(Log))

\* The snapshot of station k is passed over by the scoring loop.
Skipped(k) == EndStep(k) >= EndStep(Len(Log))

\* apply_future_spectral_scores, candidate by candidate.
ScoreSnapshot ==
  /\ Scoring
  /\ ~Skipped(Current)
  /\ BlocksAfter(Current) # <<>>
  /\ \E scores \in Artifacts :
       /\ \A c \in CandidatesOf(Current) : ~Rejects(queue[c], scores[c])
       /\ queue' = [c \in DOMAIN queue |->
                      IF c.snapshot = Current THEN Scored(queue[c], scores[c]) ELSE queue[c]]
  /\ scoredUpTo' = scoredUpTo + 1
  /\ UNCHANGED <<pc, station, sched, snapshots, checkpoint>>

SkipLastSnapshot ==
  /\ Scoring
  /\ Skipped(Current)
  /\ scoredUpTo' = scoredUpTo + 1
  /\ UNCHANGED <<pc, station, sched, queue, snapshots, checkpoint>>

\* A DataReuseError of the queue leaves run(), which removes its staging
\* directory.
ScoreRefused ==
  /\ Scoring
  /\ ~Skipped(Current)
  /\ \E scores \in Artifacts : \E c \in CandidatesOf(Current) : Rejects(queue[c], scores[c])
  /\ pc' = "refused"
  /\ UNCHANGED <<station, sched, queue, snapshots, scoredUpTo, checkpoint>>

EndScoring ==
  /\ pc = "score"
  /\ scoredUpTo = Len(snapshots)
  /\ pc' = IF Mode = "exact_rj" THEN "jump" ELSE "final"
  /\ UNCHANGED <<station, sched, queue, snapshots, scoredUpTo, checkpoint>>

Jumped == {checkpoint[i].of : i \in {j \in DOMAIN checkpoint : checkpoint[j].op = "rj"}}
Verified == {c \in DOMAIN queue : queue[c].state = "verified"}

\* Mutant: whatever was not rejected jumps.
Waiting_Pending == {c \in DOMAIN queue : queue[c].state # "quarantined"} \ Jumped

Waiting == Verified \ Jumped

\* _apply_rj for the verified candidates, the older snapshots first and those
\* of a snapshot by their ids.
Jump ==
  /\ pc = "jump"
  /\ \E c \in Waiting :
       /\ \A d \in Waiting : c = d \/ Before(c, d)
       /\ EndStep(Len(Log)) > EndStep(c.snapshot)
       /\ checkpoint' = Append(checkpoint, [op |-> "rj", at |-> Len(Log), of |-> c])
  /\ UNCHANGED <<pc, station, sched, queue, snapshots, scoredUpTo>>

EndJumps ==
  /\ pc = "jump"
  /\ Waiting = {}
  /\ pc' = "final"
  /\ UNCHANGED <<station, sched, queue, snapshots, scoredUpTo, checkpoint>>

\* The cold MLE on the complete log converged: os.replace(staging, target).
Publish ==
  /\ pc = "final"
  /\ pc' = "published"
  /\ UNCHANGED <<station, sched, queue, snapshots, scoredUpTo, checkpoint>>

\* A fit that did not converge, or an adapter or validator that raised: run()
\* removes its staging directory.
Discard ==
  /\ pc \in {"replay", "fit", "score", "jump", "final"}
  /\ pc' = "discarded"
  /\ UNCHANGED <<station, sched, queue, snapshots, scoredUpTo, checkpoint>>

Proceed ==
  \/ ReplayStation \/ FitSnapshot \/ EndReplay
  \/ ScoreSnapshot \/ SkipLastSnapshot \/ ScoreRefused \/ EndScoring
  \/ Jump \/ EndJumps \/ Publish

Next == Proceed \/ Discard

Spec == Init /\ [][Next]_vars

-----------------------------------------------------------------------------
(* Properties *)

Ops == [op : {"pf"}, at : DOMAIN Log] \union [op : {"rj"}, at : DOMAIN Log, of : Ids]

\* The values of the state.
TypeOK ==
  /\ pc \in {"replay", "fit", "score", "jump", "final", "published", "refused", "discarded"}
  /\ station \in 1..(Len(Log) + 1)
  /\ sched \in SchedulerStates
  /\ DOMAIN queue \subseteq Ids /\ queue \in [DOMAIN queue -> Candidates]
  /\ snapshots \in Seq(1..Len(Log))
  /\ scoredUpTo \in 0..Len(snapshots)
  /\ checkpoint \in Seq(Ops)

\* Every verdict follows from the candidate's own evidence, at its first
\* decisive block.
VerdictsJustified == \A c \in DOMAIN queue : Justified(queue[c])

\* Evidence comes from whole stations after the one the snapshot was fitted
\* through, in order and each block once, and a candidate that stays pending
\* has seen every later block.
EvidenceIsTheFuture ==
  \A c \in DOMAIN queue :
    LET used == [i \in DOMAIN queue[c].evidence |-> queue[c].evidence[i].block]
        later == FlattenSeq(SubSeq(Log, c.snapshot + 1, Len(Log)))
    IN  /\ used = SubSeq(later, 1, Len(used))
        /\ queue[c].state = "pending" /\ pc \in {"jump", "final", "published"} => used = later

\* The published checkpoint went through every station in order and then
\* through one jump for each verified candidate, older snapshots first and
\* smaller ids before larger ones, and no other, if the mode allows jumps.
CheckpointHistory ==
  /\ \A i \in DOMAIN checkpoint : i <= Len(Log) => checkpoint[i] = [op |-> "pf", at |-> i]
  /\ \A i, j \in (Len(Log) + 1)..Len(checkpoint) :
       /\ checkpoint[i].op = "rj"
       /\ i < j => Before(checkpoint[i].of, checkpoint[j].of)
  /\ pc = "published" => Jumped = IF Mode = "exact_rj" THEN Verified ELSE {}

\* The checks that the controller, its builders and its queue make of the run's
\* own data, and that would discard a finished computation, do not fire: the
\* scheduler is fed in order, a candidate is registered once, the scorer is asked
\* only about rows that exist and a candidate's first score, each of whose blocks
\* is new and after the cutoff, and a jump's checkpoint is after its snapshot.
\* The exception is a block for a candidate that an earlier block of the artifact
\* has resolved (ScoresNeverRefused).
OwnChecksNeverFire ==
  /\ pc = "replay" /\ station <= Len(Log) =>
       sched.open = None /\ \A n \in Steps(station) : sched.lastStep < n
  /\ pc = "fit" => \A c \in DOMAIN queue : c.snapshot # station
  /\ Scoring /\ ~Skipped(Current) =>
       /\ BlocksAfter(Current) # <<>>
       /\ \A c \in CandidatesOf(Current) :
            /\ queue[c].state = "pending" /\ queue[c].evidence = <<>>
            /\ \A i \in DOMAIN BlocksAfter(Current) :
                 \A n \in BlocksAfter(Current)[i].steps : queue[c].cutoff < n
  /\ pc = "jump" => \A c \in Waiting : EndStep(c.snapshot) < EndStep(Len(Log))

\* scoring.py says each block is consumed once for each candidate: applying a
\* valid score artifact is not refused.
ScoresNeverRefused == pc # "refused"

=============================================================================
