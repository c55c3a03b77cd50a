# TLA+ models of the radiation-estimation orchestrator

The repository runs radiation-source estimators against measurement logs: a
Bayesian particle filter (PF) and a surface maximum-likelihood estimator (MLE),
which it combines ("hybrid"). The hybrid feeds MLE candidates back to the PF under
strict rules about which observation may be used for what, either offline over a
finished log or live, driving a robot through an adaptive runtime and surviving
crashes. These rules, the crash recovery, and the discrete parts of the
estimators' own algorithms are what the modules here are about. Floating-point results
are not: they are chosen freely.

## 1. Inventory

Paths are relative to `src/src/orchestrator/`.

### Live mission (`hybrid_v2/mission.py`, `mission_ledger.py`, `live.py`)

`HybridMissionController` drives actions through the phases *ready → proposed →
realized → appended → updated*, then completes. **State:** a hash-chained ledger
file (one fsynced line per event), `mission_state.json` (rewritten after each
event), the state object in memory. **Operations:** start (load both, replay the
entries the state file lacks), propose, execute or recover, record the append,
update the estimators, complete. **Interactions:** asks the planner, sends decisions to a
runtime process through pipes, calls the updater. **Hard:** the process dies
between any two durable effects; answers are lost after the action happened; a
runtime child outlives its controller; a ledger line is torn; the updater's state
file and the ledger move one after the other; an estimator that fails fails again on every
retry. **Correct if:** every action is
decided before and carried out once; the estimators see exactly the appended
records, in order; counters and spent times are those of the ledger; a mission ends
by its budget and, unless a fault stranded it or an estimator fails for good, does end.

### Live planner, runtime client (`live_planner.py`, `live_config.py`, `runtime_client.py`)

The planner keeps a result directory per cutoff and re-reads a published
recommendation. The client keeps no state but the receipts it can look up at the
runtime. **Hard:** the directory is made before the recommendation exists; a
request can be carried out after its sender died. **Correct if:** a plan is bound to
the current cutoff and a decision is never carried out twice.

### Live estimator updater (`live_updater.py`, `estimators/local_services.py`)

One call per appended action: a PF step, a score of every frozen snapshot, a
reversible jump for each newly verified candidate, a new snapshot when the
scheduler asks for one; a cold fit at the end. **State:** one state file saved at the end of
a call; per operation an output directory and a receipt; request, directive and
snapshot files that may only be rewritten byte for byte. **Hard:** a crash between
or inside these writes, non-deterministic recomputation, an answer that was saved
but not acknowledged, an operation that can never succeed. **Correct if:** the state file moves by whole stations, claims
only what receipts prove, and a repeated call finds its own files as it would write them.

### Scheduler and monitor (`predictive.py`)

Counts completed stations, the mismatch streak and the cooldown, record by record,
and is stored in the updater's state. **Hard:** off-by-one at the cooldown, a
streak under suppression, a state restored in the middle of a station (by the API; the live
updater saves between stations). **Correct if:** it triggers
exactly where the policy says, looking at the whole history.

### Verification queue, scoring, snapshots, directives (`verification.py`, `scoring.py`, `score_request.py`, `snapshot.py`, `rj.py`, `relocation.py`, `pf_products.py`)

Candidates collect log-likelihood ratios of blocks after their snapshot's cutoff
until the policy resolves them. **Hard:** each block once, only future blocks,
minima on blocks, stations, heights and programs, several blocks in one artifact.
**Correct if:** a verdict follows from the candidate's own evidence at the first
decisive block.

### Offline controller v2 (`offline.py`)

Replays a log into a staging directory that is published or removed as a whole.
**Hard:** any step may fail after others succeeded. **Correct if:** it uses for a
candidate only what came after its snapshot, and none of its own checks throws away a
computation that is right.

### Hybrid v1 (`hybrid/`)

The same idea over projected counts, in one process that starts every estimator anew.
**State:** in memory the scheduler, the verification queue, the observation-use ledger,
snapshots, directives, receipts, scores and plans; on disk a staging directory.
**Operations:** for each declared station end, rerun the PF over the log so far with all
directives, take in its receipts, hear its predictions, score frozen snapshots, fit,
issue a directive, plan; at the end final runs, reports, an audit and one rename.
**Interactions:** logs are cut to prefixes for every estimator (`prefix.py`,
`prefix_log.py`); every output passes a validator (`contracts/validators.py`).
**Hard:** receipts that later runs emit again or emit late; queue and ledger that check
the same rule in different ways; a manifest that could tell a prefix fit of the future.
**Correct if:** no observation corroborates a candidate it helped to create or twice,
ledger and queue agree, the fits form one causal lineage, and the audit accepts what
the controller wrote.

### Particle filter and exact jump (`estimators/pf.py`, `estimators/rj.py`)

**State:** a checkpoint of particles (fixed slots per isotope, filled from the first), weights,
the stations processed and the directives applied. **Operations:** advance over one station, with
resampling; apply one directive: propose a single birth or death, accept or not, write a receipt.
**Hard:** the reverse of every move must be possible with exactly the density the
acceptance ratio uses, at empty and full rows and for overlapping regions too. **Correct if:** the
ratio is that of the kernel, and every checkpoint written can be loaded.

### Adapters, benchmark, evaluation (`adapters/`, `benchmark.py`, `evaluation.py`)

A subprocess per estimator in a session of its own: polled, timed out, its process group
terminated, its output inventoried under a receipt. The benchmark runs a fixed order of
these in a staging directory, validates, opens the truth, matches sources, publishes. **Hard:** the
time-out racing the exit; an estimator that outlives whoever waited for it, while results are
read and hashed at different times; the assignment behind
every metric. **Correct if:** a published bundle is what was validated and measured.

### Numerics and checks without state (`conformance.py`, `hashing.py`, `cli.py`, `acquisition.py`, run configurations, JSON schemas)

Comparison of forward responses, canonical encodings, argument parsing, provenance.

`PROJECT.json` lists these components with their status and, under `hazards`, each
place where this code is hard to test.

## 2. Modules and the code

| module | code | what it holds |
|---|---|---|
| `MissionPromise` | – | abstract mission: decide, execute once, assimilate, conclude, close |
| `HybridMission` | `mission.py`, `mission_ledger.py`, parts of `live*.py`, `runtime_client.py` | the live mission with its files and faults |
| `MCHybridMission` | | costs and budget for TLC |
| `HybridMissionProofs` | | theorems and proofs about `HybridMission` |
| `Scheduling` | `predictive.py` | the scheduler as operators |
| `SpectralScheduler` (+`MC`) | `predictive.py` | its life: signals, saves, restarts |
| `SpectralSchedulerProofs` | | theorems and proofs about it |
| `Verification` | `verification.py`, `scoring.py` | the queue as operators, and what a verdict means |
| `StationLog` | `prefix.py`, `offline.py`, `verification.py` | a log as stations, blocks and signals; candidates in order |
| `StationLogProofs` | | lemmas about logs, candidates, `Verification` and `Scheduling` |
| `OfflineReplay` (+`MC`) | `offline.py` | one offline run |
| `OfflineReplayProofs` | | theorems and proofs about it |
| `EstimatorState` | `live_updater.py` | what the live estimators keep between stations |
| `EstimatorPromise` (+`MC`) | `live_updater.py` | abstract updater: one atomic step per station |
| `LiveUpdater` (+`MC`) | `live_updater.py`, `local_services.py` | the updater with files, receipts and crashes |
| `LiveUpdaterProofs` | | theorems and proofs about `EstimatorPromise` and `LiveUpdater` |
| `MeasurementPrefix` | `hybrid/prefix.py`, `prefix_log.py` | declared station ends, marked logs, the prefix a fit is given |
| `ObservationUse` | `hybrid/ledger.py`, `verification_queue.py` | queue and ledger as operators, each with its refusals |
| `CausalContracts` | `contracts/validators.py`, `hybrid/` types | what one v1 artifact must say of another |
| `HybridAudit` | `hybrid/reporting.py`, `validators.py` | the report of a run and the audit that accepts it |
| `CausalReplay` (+`MC`) | `hybrid/controller.py` | one v1 run; composes the four above and `Scheduling` |
| `CausalReplayProofs` | | theorems and proofs about it |
| `ReversibleJump` | `estimators/rj.py` | births, deaths and their densities as exact fractions |
| `ParticleFilter` (+`MC`) | `estimators/pf.py`, `rj.py` | the filter and its jumps between checkpoints |
| `ParticleFilterProofs` | | theorems and proofs about `ParticleFilter` |
| `SourceMatching` | `evaluation.py` | matching costs and the assignment algorithm |
| `AdapterProcess` | `adapters/base.py` | one estimator process, its time-out, receipt and orphans |
| `Benchmark` (+`MC`) | `benchmark.py` | both benchmark pipelines; composes the two above |
| `BenchmarkProofs` | | theorem and proof about `Benchmark` |

Operators whose names end in `_Something` and whose comment begins with "Mutant"
are faulty variants of the definition they precede; nothing uses them. Replacing the
definition by one of them makes TLC report the property `PROJECT.json` pairs it with.

**HybridMission.** A handler is split where it makes something durable or waits for
the runtime, so that `Crash` can fall between any two effects and nowhere else with
another outcome. `WriteEntry` is the ledger append together with the change of the
state in memory, `SaveState` the save that follows; `ReplayEntry` is one turn of
`_recover_state_from_ledger`, with its guards. `BeginPlan`/`WritePlan` are the
planner's `mkdir` and its published recommendation. `SendDecision`,
`RuntimeExecutes`, `Realize` are a request, what the runtime does with it and its
answer or a receipt found later. `Assimilate` is the updater's own save,
`UpdateEstimators` the ledger entry after it. `EstimatorsFail` and `FinalFitFails` are an
operation that raises at the first attempt and at every other: a fit that did not converge is signed and
recovered (`snapshot.py:90`, `live_updater.py:232`), a jump without a reversible move meets the same
directive (`estimators/rj.py:260`). `doomed` is that property of what is on disk, and whether it
comes about is a free choice at each first attempt. Failures for a cause that is gone at the
next attempt are a `Crash`. A ledger head (a hash of the chain) is
the length of the chain, a prefix hash is its last step. `TornAppend` leaves a line cut
short or without its newline; the next entry then joins that line and the file
can no longer be read.

**LiveUpdater.** `Needed` is the next operation of the update in progress; `Prepare`
writes the file it is bound to, `Compute` removes what a crash left and runs to the
output, `Sign` writes the receipt; the `Use…` actions are what the code does with a
result, computed now or recovered. A recomputed result is chosen anew, so nothing
here rests on determinism of the estimators. `OperationRaises` is an operation of any kind that raises
whenever it is tried on this input, as a jump without a reversible move does. Candidates of different
snapshots are ordered by the hash in the snapshot's id: `Rank` is any
order of the snapshots (in the runs the later ones come first). `FitRefused` and `UpdateRefused` are the errors that
leave the process after an operation; errors that correct code cannot meet (a file with other
contents, a block used before) have no action but stop the process at that place,
and `RestartsMeetTheirFiles` says they are never met. A live station is one block,
because the planner's decision is one pose and one shield program.

**OfflineReplay.** One action per station replayed, snapshot fitted, artifact
scored, candidate jumped, and for the end of the run; `Discard` is the removal of the staging
directory after any error. `Skipped` is the snapshot with no later row, which the scorer is not asked
about. The blocks of an artifact are applied in the scorer's order, and
candidates jump snapshot by snapshot, sorted by id within one, as the queue lists them.

**Verification.** Ratios and thresholds are integers: which sums reach a
threshold is kept, rounding is not. A block's identity is its record, of which the code
hashes the same fields.

**CausalReplay.** `ReplayStation` is the turn of the loop up to its stages: the PF run, the
receipts, the signals and the prefix. `Score` takes one snapshot, `Fit` goes from the
batch fit to the directive, `Plan` asks for a recommendation. Estimators may write
wrong outputs (a fit warmed by the wrong fit or over the whole log, a window from the wrong row, a
receipt for the wrong step or with a label its counts contradict); an output
its validator refuses ends the run (`Discard`). `pc = "self_refused"` marks the
controller's checks of its *own* artifacts, which `ChecksNeverFire` says never fire. Hashes are
the values hashed, so a digest differs where the data differ; of the manifest, the
entries that depend on rows are kept, and the replay schedule, which
the prefix drops, is one of these. One predictive bin stands for all, since the monitor refuses empty
counts. `Kill` leaves the staging directory behind, which makes the next run refuse to start.

**ParticleFilter.** A source is a chart and a strength; proposal densities are
integer weights over common totals, hence exact fractions. Every random draw is a choice, the
acceptance of a move too, because its likelihood part is numeric. `Systematic` is systematic
resampling for *every* offset: only the integer part of the offset times the total matters. A
directive holds the checkpoint whose hash the code stores in it. Draws are seeded by the directive,
so applying a rejected one again repeats its receipt, and `Jump` happens once. It is not enabled
where neither a birth nor a death is possible; the code raises there, which is `OperationRaises` of `LiveUpdater`
and `EstimatorsFail` of `HybridMission`.

**AdapterProcess, Benchmark.** The estimator (`EstimatorWrites`, `EstimatorExits`) and the polling
orchestrator (`TimeOut`, `KillGroup`, `Receipt`) are two processes. A process is started in a
session of its own and nothing ends it when the orchestrator leaves its loop by
Ctrl-C or a kill, nor what it started itself when it exits: from then on its run is in `orphans`,
and `OrphanWrites` may fill its output, bring back a removed
staging directory (the next attempt is refused), or reach a published bundle through an open file.
A validator reads a result (`LoadResult`) and takes the inventory of its directory last (`HashResult`;
`validators.py:1259` and 1381 for the PF, 1405 and 1565 for the MLE), so an orphan's write between the two
leaves content in memory, from which the metrics are made, that the hash does not name; the comparison with the
receipt looks at the hash only.
`Discard` is `rmtree(ignore_errors=True)`, which an orphan can make incomplete.
`Hungarian` is translated loop by loop with folds; positions lie on a line so that distances are exact.

## 3. Runs

| run | question | bounds |
|---|---|---|
| `mission` | is a live mission consistent, does it keep its promise and end, whatever fault falls where? | 3 actions, programs of 1 or 2 steps, two costs that spend different budgets first, 2 faults, torn lines, a failing update or final fit |
| `mission_planner_window` | (violation) does a crash in the planner always leave a mission that can go on? | 1 fault |
| `mission_updater_window` | (violation) the same for a crash after the updater's save | 1 fault |
| `scheduler` | does the incremental scheduler trigger as the policy says of the whole history? | 36 policies, 5 stations of 1–2 records, restarts anywhere |
| `offline_replay` | is evidence the future only, verdicts justified, exactly the verified jumped, and does no check discard a correct run? | 3 stations, 2 candidates per snapshot, last station with 2 blocks |
| `offline_score_refusal` | (violation) is every legal artifact consumed? | the same, minima of one height |
| `estimator_promise` | what follows for the estimators if stations are atomic? | 4 stations, 3 ratios, 2 programs demanded |
| `live_updater` | what may a state file claim, and does a repeated update meet its own files? | 3 stations, 2 candidates per snapshot, later snapshots first in the order of hashes, 1 crash |
| `live_updater_behaviour` | does the real updater implement `EstimatorPromise`, and get through? | 3 stations, 1 candidate per snapshot, 3 ratios, any operation raising, 1 crash |
| `causal_replay` | does a v1 run use the future only, agree with its ledger, and pass its own checks? | 4 stations (the first of 2 rows, a gap in the steps), 2 candidates per snapshot, a second log with another future, 2 wrong declarations |
| `exact_jump` | is the acceptance ratio that of the kernel, and every checkpoint loadable? | 3 particles, 2 slots, 2 isotopes, 2 charts, 1 station, 2 directives, 2 sets of regions |
| `benchmark` | is a published bundle what was validated, and is its matching the best one? | 2 attempts, both schemas, 2 results of 2–3 sources, 6 truths, one orphan or more per run |

Why the bounds are enough: two faults let a second crash fall into the recovery from
the first, which is the longest chain the recovery code distinguishes (it keeps no count of
restarts); three actions reach a first action (bootstrap), one in the middle and one
after which the budget is spent; two records per program tell first from last step. Five
stations pass a cooldown of two after a first trigger and trigger again. Three
stations let a candidate be scored twice, two snapshots be alive at once and a
candidate be resolved while another waits; the fourth of `estimator_promise` shows
what happens to a resolved candidate afterwards. One crash of the updater reaches every
place of an update, since a second one finds the same kinds of files as the first.
Four stations of `causal_replay` let a first snapshot be scored twice and a second one
be taken while the first is pending, with a receipt that comes late in between; a candidate needs two
observations. In `exact_jump` three particles are the fewest that `pf.py` accepts for two slots;
they have empty, half and full rows from the start, and a second directive finds what
the first made of them: exhausted room, a source no region reaches, two regions over one
source. In `benchmark` a second attempt meets what the first left behind, orphans included. The same
module also evaluates `HungarianIsMinimal`: on all 3×3 matrices over 0..1 and all 2×2
ones over 0..3 the algorithm returns a permutation of least cost.

**What the passing runs show.** `mission`: the ledger alone is always a sequence of whole
cycles about consecutive records (`LedgerOrder`); the state file is at most one entry behind and
is what a replay gives, so no counter moves twice or not at all
(`StateReplaysLedger`), and the budget decides the end by the ledger alone
(`BudgetDecidesTheEnd`); the runtime did only what the ledger proposed
(`OnlyProposedActionsHappen`); no check of the controller fires against its own files
(`OwnChecksNeverFire`); nothing durable is taken back (`NothingTakenBack`); the only ways to be stuck
are the three windows and an estimator operation that fails on every attempt, which leaves its observation
appended and unused or the log published and open (`RefusedOnlyInWindow`); any other fault is
survived (`CompletesUnlessStranded`).
`scheduler`: `FiresByPolicy` compares each decision with the policy evaluated over
the whole history, which the code never keeps. `offline_replay` and
`estimator_promise`: `Justified` looks at all evidence at once, the queue
decides block by block. `offline_replay`: none of the checks of the controller, the builders and the queue can
discard a run over its own data (`OwnChecksNeverFire`), with the one exception of violation (3) below.
`live_updater`: `EveryClaimHasAReceipt` ties every step, candidate and
ratio in the state file to a receipt that is never rewritten. `live_updater_behaviour`: the final fit is
reached unless a fit did not converge, an operation raises whenever it is tried, or the crash fell after the save
(`AssimilatesAll`).
`causal_replay`: the ledger alone gives verdicts, evidence, sums and receipts of the queue
and what each plan was made with (`LedgerTellsAll`); evidence is the unbroken future
(`EvidenceIsTheFuture`), with one consequence of `controller.py:917`: a receipt that only
the last run emits leaves its candidates pending with no observation used. Fits are one
chain (`LineageIsAChain`), the audit accepts every run (`ChecksNeverFire`), and a prefix does not
depend on what comes after it (`PrefixIsCausal` compares it with that of the other log).
`exact_jump`: the two densities in a receipt equal the probability, summed over all draws of
region, particle, chart and strength, of going there and back (`RatioIsTheKernel`).
`benchmark`: the hash in a manifest is always that of a receipt of a run that ended in time, and the metrics are always those
of content that passed its contract; that this content and the published files are what the hash names holds
where no process outlived its wait (`PublishedIsValidated`). The refusal "changed between
execution and contract validation" does not exclude the difference, since it compares hashes and the content was read before.
Matches are of least cost among all pairings (`MatchesAreCheapest`).

**What the violated runs show.** (1) `live_planner.py:159` makes the result
directory before the recommendation, so a crash in between makes every retry raise
`FileExistsError`. (2) `live_updater.py:198` saves before the ledger entry; after a crash in
between, the repeated update is refused as reuse. `docs/hybrid_v2.md:53` says of
both that a crash at any boundary is recoverable. (3) `scoring.py:74` feeds the next
block of an artifact to a candidate its previous block resolved, and the queue raises;
the docstring (`scoring.py:38`) says each block is consumed once for each candidate.

**A remark without a run.** The docstring of `match_sources` (`evaluation.py:105`) speaks of
a matching of maximum cardinality. The costs make leaving a source unmatched worth the
radius plus one metre, so this holds for a radius below two metres and up to three pairs
(part of `MatchesAreCheapest`) and not in general. `NearestBeatsMost` in `MCBenchmark` evaluates the
translated algorithm on the smallest such case: with radius 3, true sources at 0, 3, 6 and estimates at 3, 6, 9, it
returns two pairs of distance 0 (cost 8 with the two sources left over) and not three of distance 3 (cost 9).

## 4. Fairness

`HybridMission!FairSpec`: the controller is one sequential process that never waits but for
the runtime, the runtime answers what it has read, and the command is run again after
it stopped (`docs/hybrid_v2.md`, resume): weak fairness of `Controller` and of
`Runtime`, none of any fault. No fairness is assumed of an outcome: an estimator may fail for good wherever it
is called, and `Completes` and `CompletesUnlessStranded` except that case by name (`EstimatorStuck`), as
`AssimilatesAll` does (`Diverged`, `Failing`). `LiveUpdater!FairSpec`: weak fairness of the one
process, again restarted. A liveness property therefore says that
no loop and no wait of the code lasts for ever, and under which permanent conditions the
program is stuck.

`OfflineReplay`, `CausalReplay`, `ParticleFilter` and `Benchmark` state no fairness and no liveness property: an
offline run, a v1 run and a benchmark are straight-line scripts that an estimator's failure ends, and
nothing starts them again by itself.

## 5. Proofs

**Live mission.** About `HybridMission`, for every budget, set of costs and program lengths and any
number of faults, from the assumptions named in that module (`ProgramsAssumption`,
`CostsAssumption`, `BudgetAssumption`, `FaultsAssumption`, `NothingAssumption`).

* `TypeCorrect`: `TypeOK`. Inductive with `Assimilated`: a
  process between the updater's save and the ledger entry is in phase
  `observation_appended`.
* `AlwaysConsistent`: the inductive invariant
  `Consistent`. None of the safety properties is inductive alone: that the next
  ledger entry is in order depends on the controller's memory, which depends on the state
  file and the entries it lacks, on the receipt found, on the plan re-read and on what the
  estimators saved. `Consistent` states how each of these agrees with the *last* ledger entry
  (`StateAgrees`, `RuntimeAgrees`, `EstimatorsFollowLedger`, `PlansAgree`,
  `PublishedAtEnd`). The proof goes by the five entries that can come next: a step that
  appends one is shown to append it to a ledger that expects it, and every
  other step leaves the ledger alone (`LedgerFrame`).
* From it: `LedgerInOrder`, `EstimatorsCausal`, `ActionsProposed`, `ChecksNeverFire`,
  and, with two more invariants, `RefusesInWindow`: a refusal has the cause it names (`Refused`), and a mission whose
  estimators fail for good stays where they failed (`StuckInPlace`), because nothing is left that it could
  write (`StuckWritesNothing`).
* `AlwaysReplays`: the invariant `Replays`, relative to `Consistent`. Agreement with the last entry says nothing of
  counters and times, so this one says that the state file *equals* the replay of the entries
  it names and that the memory equals a replay at every place a process can be, but for the ledger
  head while it saves. From it `StateIsTheReplay` and `BudgetsDecide`. `Replay` is a recursive
  function; that it exists and that a longer ledger replays to the same states as far as the shorter one
  goes (`ReplayExists`, `ReplayGrows`) is shown with a least position at which it would fail.
* `NothingIsTakenBack`: the action property `NothingTakenBack`; `Consistent` excludes an execution after the
  log was published and an update that moves the estimators backwards.
* `ImplementsPromise`: every step of the mission is a step or a
  stutter of `MissionPromise` under the mapping at the end of `HybridMission`
  (the stage is read off the ledger's last entry, the receipts and the estimators' last step).

**Scheduler.** About `SpectralScheduler`, for every set of policies and deviances and any number of records,
stations, saves and restarts. The inductive invariant `Inv` says of the scheduler in memory *and* of
the one in the state file that it was told the same records by the same policy (`Told`): its streak is
the longest run of mismatches up to its last station, its last trigger and cutoffs are those of the
stations that fired, and these are the ones the policy fires at. Both are needed because a restart
puts the second in place of the first. A step that completes a station is shown to trigger when and
only when the policy does (`TriggerIs`); `PolicyFires` is recursive and depends only on the records of the
stations before (`PolicyLocal`). From `Inv`: `TypesHold`, `FiresAsThePolicySays`, `NeverSilent` (among so
many stations is a multiple of the interval, and none before it that would hold it back), `CutoffsAreEnds`.

**Live estimators.** For every log whose stations are one block each, every policy, thresholds, ratios,
clusters and jump outcomes, from the assumptions of `Verification`, `StationLog` and `EstimatorState`
(those of the first two also serve the offline run); `RankAssumption` says only that the order of snapshots is one.
`RowsAssumption` and `BlocksAssumption` say what `contracts/validators.py` checks of a log (rows in order, a
station is a run of rows) and what a block is; `OneBlockAssumption` that a live decision is one pose and one program.

* `EstimatorPromise`: the inductive `PromiseInv` keeps for each candidate that its evidence is the blocks of
  the stations after its snapshot, one each and in order, complete while it is pending (`Evidenced`), that a
  sum is the sum of its evidence, and that `applied` is exactly what is verified where the mode allows jumps.
  From it `VerdictsAreJustified`, `EvidenceStaysTheFuture`, `JumpsFollowTheVerdicts`.
* `LiveUpdater`: the inductive `Inv` describes the state in memory as what the *receipts on disk* make of the
  state file, phase by phase: which steps of the update are done, that each rests on a
  signed output, and that every request, directive and snapshot file present is the one the
  update would write. Signed outputs are never rewritten, so a crash loses memory and
  nothing else. From it and from `OneFile` (the state file is absent or one value): `TypesHold`, `ClaimsHaveReceipts`,
  `RestartsMeetFiles`.
* `Refinement`: every step of the updater is a step or a stutter of `EstimatorPromise`. The save at the end of an update
  is the visible step; the witnesses of the promise's choices are the receipts' contents.

**Offline run.** About `OfflineReplay`, for every valid log with any number of blocks per station, every policy,
thresholds, ratios and clusters, in both modes. `VerdictsJustified` and `EvidenceIsTheFuture` are not
inductive: an artifact is one step that consumes many blocks, and it matters that no
candidate meets two of them. The inductive `IInv` says of each candidate that it is as it
was registered while the scoring loop is before its snapshot, and has used every later block once the loop
has passed it (`Frozen`); snapshots are in strictly increasing order, so each is passed once
(`OneSnapshot`). `ScoredArtifact` carries this through the fold: as long as no block is
rejected, the candidate was pending before each, so each prefix extends the evidence and no earlier prefix was decisive.
A skipped snapshot is one of the last station, after which there is no block (`LastCutoff`).
For the checkpoint, `IInv` adds its length at each place of `run()` and that whatever still waits to jump
comes after whatever has. From it `TypesHold`, `VerdictsFollow`, `EvidenceIsLater`, `HistoryHolds` and
`OwnChecksHold`, which needs besides that the scheduler stands at the end of the last station (`FedStays`). TLC checked
`IInv` on the bounds of `offline_replay`, in both modes, before it was proved.

**Causal replay.** About `CausalReplay`, for any source logs and declarations of station ends, policies,
thresholds and outputs of the estimators, wrong ones included, from `NoneAssumption`, `PolicyAssumption`,
`ValuesAssumption`, `InputsAssumption` (rows as `validate_measurement_log` accepts them) and `UseAssumption`.
The run keeps its state in many books that no single step changes together, so the
invariant is a chain of layers, each proved on the ones before.

* `Control`: a run that goes on has an accepted declaration. Alone it gives `PrefixesAreCausal`:
  an accepted declaration names ends of the log in increasing order (`EndsRise`), a marked
  log marks exactly these rows, so a prefix is a function of what both logs share.
* `Lineage`: each snapshot was made at one station, and stations that can already have one grow with
  `turn` and `pc` (`Answered`). Gives `FitsAreOneLineage`; that cutoffs increase is why a directive, a
  ledger entry or an artifact can be looked up by its cutoff.
* `Books`, `Scoring`, `DiskTyped`: types and references, and which stations have a score artifact yet. Give `TypesHold`.
* `Evidence`: a candidate has used *all* rows from its snapshot up to one station's end, and `Scoring`
  says which. This is what the property does not say and its step needs: the rows of the next accepted artifact are
  exactly the rest of the prefix, so they continue the run whether or not a receipt came late. Gives `EvidenceIsUnbroken`.
* `Telling`: the states read off the ledger are those of the queue, and each candidate's steps, sum and
  verdict are those of its ledger entries; `PlansTold` says the same of the ledger *as far as* a plan's
  cutoff, and needs that every later entry has a later `through`. Queue and ledger change in one fold over the candidates of an artifact
  and the rows of each. What every row keeps a whole artifact keeps (`ConsumeStays`, with the
  folds unfolded as below), and the row's own lemma is that the queue's verdict and the
  entry's are one value. Gives `LedgerTells`.
* `Listening`, `Booked`, `Grounded`, together with the layers above `Kit`: the scheduler is always at the end
  of a station, so no signal is out of order; the ledger, read on its own, accepts each event after those before
  it, and names exactly the snapshots and directives that were registered; each use was had by the queue once
  and is a row of a score artifact. With it no check *before* the audit fires (`ReplayPasses`, `BookedFit`,
  `BookedScore`, `FinalPasses`), and these facts are kept only because none fires: a row the ledger
  refused would leave it behind the queue.
* `Reported`: what was collected is in the order the report wants. Two scores differ in snapshot or last row,
  cutoffs rise, every directive has a receipt once the final replay is over. The audit then follows part by part (`RefsPass`,
  `RunIsReportable`, `UsesAreBound`, `AuditIsPassed`): a list of rising cutoffs is its own sorted
  form (`SortedAlready`), any sorted form of the scores names each of them once (`WindowsListed`), and the counts of the
  verdicts and the sizes of the directives both add up to the size of the queue (`SumOfSizes`). Gives `OwnChecksPass`.

**Particle filter.** For any number of particles, slots and stations, any isotopes,
charts, regions and likelihoods, from `SlotsAssumption`, `ChartsAssumption`, `LogAssumption`
and `LikelihoodsAssumption`.

* `StateIsValid`: `StateValid` is inductive with the typing of the directive. The point is that
  births, deaths and resampling keep a row contiguous. Contiguity is stated of neighbours, as the code checks it;
  that no hole lies further away needs an induction over slots, which is done by a
  least slot (`WFMin` of the library) and not by an induction theorem.
* `EveryMoveCanBeTakenBack`: for every contiguous ensemble and every birth or death the kernel can propose
  there, the inverse is a move of the new ensemble and restores the old one. With
  it a reverse density is never zero; that it is the right *number* is model-checked.

**Benchmark.** `BundleIsAsValidated` (`PublishedIsValidated`) for any runs, orders, results and
truths and any number of attempts, from `OrderAssumption` (pipelines consist of runs). The
inductive invariant adds that estimators run before anything is validated (`RunsFirst`), that a file and its hash change
after it was loaded only by an orphan (`FilesAsValidated`), and that the truth is opened only after
the hash of every result matched its receipt, and the metrics are those of the results in memory (`Settled`).

**Folds and recursion.** The library's induction theorems cannot be instantiated here, so sums and folds are
unfolded once (`FoldExists`: the recursion behind `FoldLeft` has a solution), and what would be an induction over positions is a
least counterexample (`Least`, from `WFMin`).

Only model-checked: `RatioIsTheKernel` (sums over sets of draws) and `MatchesAreCheapest` (nested folds with a
termination argument); all liveness, which needs ENABLED.

## 6. Not modelled

Floating-point numerics of the estimators, averages and strength errors of the metrics, conformance, JSON
schemas and the command line keep no state. `acquisition.py`, the provenance in manifests,
the configuration of hybrid v2, relocation mode and the v2 reports are left out; of the v1 reports the references, counts
and claims are modelled, their layout is not. `recover_adapter_execution`
(`adapters/base.py`), which the live updater calls for an operation that has a receipt (`live_updater.py:507`), is modelled as
the use of that receipt; that it checks the inventory again is not. Text of payloads
is abstract; one consequence is listed as a hazard (`splitlines` in the ledger). A crash is
the death of a process: what `os.replace` without a directory fsync survives of a power
loss is not modelled. In `HybridMission` an answer of the runtime is whole or
lost; the line protocol below it is planned.

## 7. Plan

Order: what can lose or invent an observation or an action first.

1. Done: `MissionPromise`/`HybridMission` with proofs; `SpectralScheduler`; `Verification`,
   `StationLog`, `OfflineReplay`; `EstimatorPromise`/`LiveUpdater`.
2. Done: `ObservationUse`, `MeasurementPrefix`, `CausalContracts`, `HybridAudit` and `CausalReplay` over them.
3. Done: `ReversibleJump`/`ParticleFilter` with proofs.
4. Done: `AdapterProcess`, `SourceMatching` and `Benchmark` over them, with proofs.
5. Runtime line protocol: partial lines, late answers, `close`, refining the atomic answer of `HybridMission`.
6. Composition: `LiveUpdater` in place of `HybridMission`'s atomic `Assimilate`.
7. Liveness of one adapter attempt: the time-out ends every run, orphans or not.
8. Done: the scheduler's counters against its history, `LiveUpdater`'s receipts and files, that it
   implements `EstimatorPromise`, the replay of the mission's ledger, the offline run.
9. Done: theorems about every invariant of `CausalReplay`, the checks before the audit and the audit included.
