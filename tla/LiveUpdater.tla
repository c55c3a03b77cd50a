----------------------------- MODULE LiveUpdater -----------------------------
(***************************************************************************)
(* LiveHybridEstimatorUpdater (hybrid_v2/live_updater.py): the estimator   *)
(* side of a live mission.  For each station that the controller has       *)
(* appended it runs a particle filter step, scores the frozen candidates,  *)
(* lets verified ones jump and fits a new snapshot, each an expensive      *)
(* operation with an output directory and a receipt, and saves its state   *)
(* once, at the end.                                                       *)
(*                                                                         *)
(* The process can die at any point.  An operation is split where it makes *)
(* something durable: the derived file it is bound to (score request,      *)
(* directive), its output, its receipt.  Its result is chosen anew when it *)
(* is computed again: nothing here relies on estimators being              *)
(* deterministic.  An operation that raises may do so again on every retry *)
(* (a jump without a reversible move, estimators/rj.py): its seed and its  *)
(* inputs are the same files.                                              *)
(***************************************************************************)
EXTENDS EstimatorState

CONSTANT MaxFaults   \* bound on crashes

ASSUME FaultsAssumption == MaxFaults \in Nat

VARIABLES
  \* durable
  saved,           \* live_estimator_state.json: <<>>, or <<its content>>
  disk,            \* results/ and executions/: per operation, how far it came
  files,           \* score_requests/, directives/, snapshots/
  asked,           \* the station the controller's ledger waits for
  \* volatile
  pc,              \* where the process is
  work,            \* self.state and the locals of update_after_append
  trigger,         \* whether the scheduler triggered in this update
  computed,        \* the current operation has produced its output just now
  refusal,         \* the error the last process ended with
  faults           \* crashes so far (bounded)

vars == <<saved, disk, files, asked, pc, work, trigger, computed, refusal, faults>>

-----------------------------------------------------------------------------
(* Data *)

\* The station of the update in progress.
K == work.last + 1

NoId == [snapshot |-> 0, name |-> 0]
Operation(kind, k, id) == [kind |-> kind, at |-> k, id |-> id]

\* Mutant: a station is available for scoring from the cutoff on.
Available_Inclusive(s) == (s..K) \ work.scored[s]

\* The stations whose rows are after the cutoff of s and not yet scored.
Available(s) == ((s + 1)..K) \ work.scored[s]

\* The places of the snapshots that have such stations.
Unscored == {i \in DOMAIN work.snapshots : Available(work.snapshots[i]) # {}}

CandidatesOf(s) == {c \in DOMAIN work.queue : c.snapshot = s}

Unapplied == {c \in DOMAIN work.queue : work.queue[c].state = "verified"} \ work.applied

\* The operation the process has to do next, if it is at one.
Needed ==
  CASE pc = "pf" -> {Operation("pf", K, NoId)}
    [] pc = "score" -> {Operation("score", K, [snapshot |-> work.snapshots[i], name |-> 0]) :
                          i \in {j \in Unscored : \A h \in Unscored : j <= h}}
    [] pc = "jump" -> {Operation("rj", K, c) :
                         c \in {d \in Unapplied : \A e \in Unapplied : e = d \/ Sooner(d, e)}}
    [] pc = "fit" -> {Operation("mle", K, NoId)}
    [] pc = "final" -> {Operation("final", K, NoId)}
    [] OTHER -> {}

\* What an operation can return.
Results(n) ==
  CASE n.kind = "pf" -> [Steps(n.at) -> Deviances]
    [] n.kind = "score" -> [CandidatesOf(n.id.snapshot) -> Ratios]
    [] n.kind = "rj" -> Moves
    [] n.kind = "mle" -> [found : SUBSET Names, converged : BOOLEAN]
    [] OTHER -> [converged : BOOLEAN]

\* The content of the file that is written before an operation.
Binding(n) ==
  CASE n.kind = "score" -> <<n.id, Available(n.id.snapshot)>>
    [] n.kind = "rj" -> <<n.id, work.checkpoint>>
    [] OTHER -> <<n.id>>

\* write_json_idempotent raises on a file with another content; no process gets
\* past one (RestartsMeetTheirFiles).
Conflicts(n, content) == n \in DOMAIN files /\ files[n] # content
Bound(n) == n.kind \in {"score", "rj"} => n \in DOMAIN files /\ files[n] = Binding(n)

\* Mutant: an output without a receipt is taken for a result.
Signed_OutputOnly(n) == n \in DOMAIN disk /\ disk[n].status \in {"written", "signed"}

\* adapter_execution.json exists.
Signed(n) == n \in DOMAIN disk /\ disk[n].status = "signed"

\* The operation raised, and does so whenever it is tried.
Raises(n) == n \in DOMAIN disk /\ disk[n].status = "raised"

Written(n, status, out) == [m \in DOMAIN disk \union {n} |->
                              IF m = n THEN [status |-> status, out |-> out] ELSE disk[m]]

-----------------------------------------------------------------------------
Init ==
  /\ saved = <<>>
  /\ disk = <<>>
  /\ files = <<>>
  /\ asked = 1
  /\ pc = "down"
  /\ work = FreshState
  /\ trigger = FALSE
  /\ computed = FALSE
  /\ refusal = "none"
  /\ faults = 0

\* __init__: the state file, or a fresh one.
Start ==
  /\ pc = "down"
  /\ pc' = "idle"
  /\ work' = IF saved = <<>> THEN FreshState ELSE saved[1]
  /\ saved' = <<work'>>
  /\ trigger' = FALSE
  /\ computed' = FALSE
  /\ refusal' = "none"
  /\ UNCHANGED <<disk, files, asked, faults>>

Goto(next) == pc' = next /\ UNCHANGED <<saved, disk, files, asked, refusal, faults>>

Refuse(error) ==
  /\ pc' = "down"
  /\ refusal' = error
  /\ UNCHANGED <<saved, disk, files, asked, work, trigger, computed, faults>>

\* The controller calls update_after_append for the station it waits for.
BeginUpdate ==
  /\ pc = "idle"
  /\ asked \in DOMAIN Log
  /\ asked = K
  /\ Goto("pf")
  /\ UNCHANGED <<work, trigger, computed>>

UpdateRefused ==
  /\ pc = "idle"
  /\ asked \in DOMAIN Log
  /\ asked # K
  /\ Refuse("causal")

-----------------------------------------------------------------------------
(* _execute_once *)

\* The score request or the directive, written before its operation.
Prepare ==
  \E n \in Needed :
    /\ n.kind \in {"score", "rj"}
    /\ n \notin DOMAIN files
    /\ files' = [m \in DOMAIN files \union {n} |-> IF m = n THEN Binding(n) ELSE files[m]]
    /\ UNCHANGED <<saved, disk, asked, pc, work, trigger, computed, refusal, faults>>

\* Mutant: what a crash left is not removed.
Compute_KeepsStale ==
  \E n \in Needed :
    /\ Bound(n) /\ ~Signed(n) /\ ~Raises(n) /\ ~computed
    /\ n \notin DOMAIN disk
    /\ \E out \in Results(n) : disk' = Written(n, "written", out)
    /\ computed' = TRUE
    /\ UNCHANGED <<saved, files, asked, pc, work, trigger, refusal, faults>>

\* No receipt: what is there is removed and the operation runs to its output.
Compute ==
  \E n \in Needed :
    /\ Bound(n) /\ ~Signed(n) /\ ~Raises(n) /\ ~computed
    /\ \E out \in Results(n) : disk' = Written(n, "written", out)
    /\ computed' = TRUE
    /\ UNCHANGED <<saved, files, asked, pc, work, trigger, refusal, faults>>

\* The operation raises, or the validator of what it returned, and will again: a
\* rejected output is recovered from its receipt and rejected, and the others
\* start from the same files.  What fails only once is CrashInside.
OperationRaises ==
  /\ \E n \in Needed :
       /\ Bound(n) /\ ~computed
       /\ n \in DOMAIN disk => disk[n].status \in {"partial", "raised"}
       /\ disk' = Written(n, "raised", None)
  /\ pc' = "down"
  /\ refusal' = "estimator"
  /\ UNCHANGED <<saved, files, asked, work, trigger, computed, faults>>

\* The receipt of the operation that has just returned.
Sign ==
  /\ computed
  /\ \E n \in Needed : disk' = Written(n, "signed", disk[n].out)
  /\ computed' = FALSE
  /\ UNCHANGED <<saved, files, asked, pc, work, trigger, refusal, faults>>

\* The results the process can go on with: of a run, or recovered.
Usable == {n \in Needed : Bound(n) /\ Signed(n) /\ ~computed}

-----------------------------------------------------------------------------
(* update_after_append *)

\* Mutant: the state is saved with the execution record.
UsePF_Saves ==
  /\ pc = "pf"
  /\ \E n \in Usable :
       /\ work' = [work EXCEPT
            !.sched = AfterStation(work.sched, K, disk[n].out),
            !.checkpoint = Append(@, [op |-> "pf", at |-> K, of |-> None, out |-> disk[n].out])]
       /\ trigger' = StationTriggers(work.sched, K, disk[n].out)
  /\ saved' = <<work'>>
  /\ pc' = "score"
  /\ UNCHANGED <<disk, files, asked, computed, refusal, faults>>

\* The particle filter's checkpoint, and its signals for the scheduler.
UsePF ==
  /\ pc = "pf"
  /\ \E n \in Usable :
       /\ work' = [work EXCEPT
            !.sched = AfterStation(work.sched, K, disk[n].out),
            !.checkpoint = Append(@, [op |-> "pf", at |-> K, of |-> None, out |-> disk[n].out])]
       /\ trigger' = StationTriggers(work.sched, K, disk[n].out)
  /\ Goto("score")
  /\ UNCHANGED computed

ScoresOf(c, n) ==
  [i \in 1..Cardinality(Available(c.snapshot)) |->
     [block |-> Log[K - Cardinality(Available(c.snapshot)) + i][1], llr |-> disk[n].out[c]]]

\* One turn of _score_existing_snapshots.
UseScore ==
  /\ pc = "score"
  /\ \E n \in Usable :
       LET s == n.id.snapshot
       IN  /\ \A c \in CandidatesOf(s) : ~Rejects(work.queue[c], ScoresOf(c, n))
           /\ work' = [work EXCEPT
                !.queue = [c \in DOMAIN @ |->
                             IF c.snapshot = s THEN Scored(@[c], ScoresOf(c, n)) ELSE @[c]],
                !.scored = [work.scored EXCEPT ![s] = @ \union Available(s)]]
  /\ Goto("score")
  /\ UNCHANGED <<trigger, computed>>

AfterJumps == IF trigger THEN "fit" ELSE "save"

EndScores ==
  /\ pc = "score"
  /\ Unscored = {}
  /\ Goto(IF Mode = "exact_rj" THEN "jump" ELSE AfterJumps)
  /\ UNCHANGED <<work, trigger, computed>>

\* One turn of _apply_verified_rj.
UseJump ==
  /\ pc = "jump"
  /\ \E n \in Usable :
       work' = [work EXCEPT
         !.applied = @ \union {n.id},
         !.checkpoint = Append(@, [op |-> "rj", at |-> K, of |-> n.id, out |-> disk[n].out])]
  /\ Goto("jump")
  /\ UNCHANGED <<trigger, computed>>

EndJumps ==
  /\ pc = "jump"
  /\ Unapplied = {}
  /\ Goto(AfterJumps)
  /\ UNCHANGED <<work, trigger, computed>>

SnapshotFile == Operation("snapshot", K, NoId)

\* _fit_snapshot: the snapshot file, then the candidates.
UseFit ==
  /\ pc = "fit"
  /\ \E n \in Usable :
       LET found == disk[n].out.found
           new == {[snapshot |-> K, name |-> m] : m \in found}
       IN  /\ disk[n].out.converged
           /\ ~Conflicts(SnapshotFile, <<found>>)
           /\ files' = [m \in DOMAIN files \union {SnapshotFile} |->
                          IF m = SnapshotFile THEN <<found>> ELSE files[m]]
           /\ work' = [work EXCEPT
                !.queue = [c \in DOMAIN @ \union new |->
                             IF c \in DOMAIN @ THEN @[c] ELSE NewCandidate(EndStep(K))],
                !.snapshots = Append(@, K),
                !.scored = [s \in DOMAIN @ \union {K} |-> IF s = K THEN {} ELSE @[s]]]
  /\ pc' = "save"
  /\ UNCHANGED <<saved, disk, asked, trigger, computed, refusal, faults>>

\* A fit that did not converge is recovered from its receipt ever after.
FitRefused ==
  /\ pc \in {"fit", "final"}
  /\ \E n \in Usable : ~disk[n].out.converged
  /\ Refuse("mle")

\* The only save of an update.
Save ==
  /\ pc = "save"
  /\ work' = [work EXCEPT !.last = K]
  /\ saved' = <<work'>>
  /\ pc' = "returned"
  /\ UNCHANGED <<disk, files, asked, trigger, computed, refusal, faults>>

\* The controller's ledger has the update.
Acknowledge ==
  /\ pc = "returned"
  /\ asked' = asked + 1
  /\ pc' = "idle"
  /\ UNCHANGED <<saved, disk, files, work, trigger, computed, refusal, faults>>

-----------------------------------------------------------------------------
(* finalize_after_publish *)

BeginFinal ==
  /\ pc = "idle"
  /\ asked \notin DOMAIN Log
  /\ Goto("final")
  /\ UNCHANGED <<work, trigger, computed>>

UseFinal ==
  /\ pc = "final"
  /\ \E n \in Usable : disk[n].out.converged
  /\ Goto("done")
  /\ UNCHANGED <<work, trigger, computed>>

-----------------------------------------------------------------------------
(* Faults *)

Running == pc \notin {"down", "done"}

Crash ==
  /\ Running
  /\ faults < MaxFaults
  /\ faults' = faults + 1
  /\ pc' = "down"
  /\ UNCHANGED <<saved, disk, files, asked, work, trigger, computed, refusal>>

\* The process dies inside an operation, or the operation fails this once; it
\* leaves part of its output.
CrashInside ==
  /\ faults < MaxFaults
  /\ \E n \in Needed :
       /\ Bound(n) /\ ~Signed(n) /\ ~Raises(n) /\ ~computed
       /\ disk' = Written(n, "partial", None)
  /\ faults' = faults + 1
  /\ pc' = "down"
  /\ UNCHANGED <<saved, files, asked, work, trigger, computed, refusal>>

-----------------------------------------------------------------------------
Updater ==
  \/ Start \/ BeginUpdate \/ UpdateRefused
  \/ Prepare \/ Compute \/ OperationRaises \/ Sign
  \/ UsePF \/ UseScore \/ EndScores \/ UseJump \/ EndJumps
  \/ UseFit \/ FitRefused \/ Save \/ Acknowledge
  \/ BeginFinal \/ UseFinal

Next == Updater \/ Crash \/ CrashInside

Spec == Init /\ [][Next]_vars

\* One sequential process, started again by whoever runs the mission.
FairSpec == Spec /\ WF_vars(Updater)

-----------------------------------------------------------------------------
(* Properties *)

\* The values of the state.
TypeOK ==
  /\ Len(saved) <= 1 /\ \A i \in DOMAIN saved : IsState(saved[i])
  /\ \A n \in DOMAIN disk : disk[n].status \in {"partial", "raised", "written", "signed"}
  /\ asked \in 1..(Len(Log) + 1)
  /\ pc \in {"down", "idle", "pf", "score", "jump", "fit", "save", "returned", "final", "done"}
  /\ IsState(work)
  /\ trigger \in BOOLEAN /\ computed \in BOOLEAN
  /\ refusal \in {"none", "causal", "mle", "estimator"}
  /\ faults \in 0..MaxFaults

HasReceipt(n) == n \in DOMAIN disk /\ disk[n].status = "signed"

\* Whatever the state file claims is backed by the receipt of the operation
\* that found it, and receipts are not rewritten: the steps of the checkpoint,
\* the candidates of each snapshot and every single ratio.
EveryClaimHasAReceipt ==
  \A file \in DOMAIN saved :
    LET s == saved[file]
    IN  /\ \A i \in DOMAIN s.checkpoint :
             LET step == s.checkpoint[i]
                 n == Operation(step.op, step.at, IF step.op = "pf" THEN NoId ELSE step.of)
             IN  HasReceipt(n) /\ disk[n].out = step.out
        /\ \A i \in DOMAIN s.snapshots :
             LET n == Operation("mle", s.snapshots[i], NoId)
             IN  /\ HasReceipt(n) /\ disk[n].out.converged
                 /\ disk[n].out.found = {c.name : c \in {d \in DOMAIN s.queue :
                                                           d.snapshot = s.snapshots[i]}}
        /\ \A c \in DOMAIN s.queue : \A i \in DOMAIN s.queue[c].evidence :
             LET e == s.queue[c].evidence[i]
                 n == Operation("score", e.block.station, [snapshot |-> c.snapshot, name |-> 0])
             IN  HasReceipt(n) /\ disk[n].out[c] = e.llr

\* A restart that goes through an update again finds every request, directive
\* and snapshot as it would write it, and no block was consumed before,
\* although a recomputed operation may return something else.
RestartsMeetTheirFiles ==
  /\ \A n \in Needed : n.kind \in {"score", "rj"} => ~Conflicts(n, Binding(n))
  /\ pc = "score" =>
       \A n \in Usable : \A c \in CandidatesOf(n.id.snapshot) :
         ~Rejects(work.queue[c], ScoresOf(c, n))
  /\ pc = "fit" => \A n \in Usable : ~Conflicts(SnapshotFile, <<disk[n].out.found>>)

\* The two ends of the known window: the update is saved, the ledger has it not.
Unacknowledged == saved # <<>> /\ asked <= saved[1].last
Diverged == \E n \in DOMAIN disk : n.kind \in {"mle", "final"} /\ Signed(n) /\ ~disk[n].out.converged

Failing == \E n \in DOMAIN disk : Raises(n)

\* Every station is assimilated and the final fit made, over crashes and with
\* whatever these leave behind, unless a crash fell between the save and the
\* ledger entry, a fit did not converge or an operation raises whenever it is
\* tried.
AssimilatesAll == <>(pc = "done") \/ <>[](Unacknowledged \/ Diverged \/ Failing)

Promise == INSTANCE EstimatorPromise WITH est <- IF saved = <<>> THEN FreshState ELSE saved[1]

\* The state file moves as if every station were assimilated in one step.
KeepsPromise == Promise!PromiseSpec

=============================================================================
