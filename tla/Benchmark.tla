------------------------------ MODULE Benchmark ------------------------------
(***************************************************************************)
(* The same-log benchmark (benchmark.py): in a staging directory it runs   *)
(* the estimators in a fixed order (schema 1: subprocesses of pinned       *)
(* repositories; schema 2: in process), validates every result, compares   *)
(* it with its receipt, only then opens the truth, computes the metrics,   *)
(* and renames the whole directory to its name.  An exception or Ctrl-C    *)
(* removes the staging directory, a kill leaves it; a benchmark may be     *)
(* started again.                                                          *)
(*                                                                         *)
(* A result is the sequence of sources it estimates, and its hash the      *)
(* result itself; what else a contract demands of it is the difference     *)
(* between Results and Torn.  A validator loads a result first and takes   *)
(* the hash of its directory last.  Of the metrics, the matching is        *)
(* modelled.                                                               *)
(***************************************************************************)
EXTENDS AdapterProcess, SourceMatching

LOCAL INSTANCE FiniteSetsExt

CONSTANTS
  Order,             \* estimator runs of each schema version, in order
  Truths,            \* truth files: sources and match_radius_m
  MaxAttempts        \* bound: times the benchmark is started

ASSUME OrderAssumption == \A s \in DOMAIN Order : Order[s] \in Seq(Runs)

VARIABLES
  schema,            \* schema version of the benchmark config
  phase,             \* where run() is; "idle" when it is not running
  staging,           \* the staging directory exists
  results,           \* results in memory: [content, sha256]
  truth,             \* the truth, once it has been opened
  metrics,           \* matched pairs of each run
  target,            \* the published bundle
  attempts

benchmark == <<schema, phase, staging, results, truth, metrics, target, attempts>>
vars == <<adapter, benchmark>>

Pipeline == Order[schema]
Members == {Pipeline[k] : k \in DOMAIN Pipeline}

\* The runs of the pipeline that have nothing in f yet, and the first of them.
Pending(f) == {k \in DOMAIN Pipeline : f[Pipeline[k]] = None}
Due(f) == {Pipeline[k] : k \in {x \in Pending(f) : \A y \in Pending(f) : x <= y}}

Init ==
  /\ schema \in DOMAIN Order
  /\ phase = "idle" /\ staging = FALSE
  /\ results = NoExecution /\ truth = None /\ metrics = NoExecution
  /\ target = None /\ attempts = 0
  /\ output = NoOutput /\ process = None /\ execution = NoExecution /\ orphans = {}

\* Refused while a target or a stale staging directory exists.
Start ==
  /\ phase = "idle" /\ target = None /\ ~staging /\ attempts < MaxAttempts
  /\ phase' = "run" /\ staging' = TRUE /\ attempts' = attempts + 1
  /\ UNCHANGED <<schema, results, truth, metrics, target, adapter>>

\* What run() had in memory is gone.
Forget ==
  /\ phase' = "idle" /\ process' = None
  /\ execution' = NoExecution /\ results' = NoExecution /\ truth' = None
  /\ metrics' = NoExecution
  /\ UNCHANGED <<schema, attempts>>

\* Nobody waits for the estimator any more.
Stopped ==
  /\ Forget
  /\ orphans' = orphans \union Abandoned
  /\ UNCHANGED target

\* shutil.rmtree(staging, ignore_errors=True): an orphan that writes meanwhile
\* makes it fail half way.
Discard ==
  /\ Stopped
  /\ \/ staging' = FALSE /\ output' = NoOutput
     \/ orphans' # {} /\ UNCHANGED <<staging, output>>

RunAdapter ==
  /\ phase = "run" /\ schema = 1
  /\ \E r \in Due(execution) : Launch(r)
  /\ UNCHANGED benchmark

AdapterStep == (Estimator \/ Polling) /\ UNCHANGED benchmark

\* local_services._execute: an estimator of this repository, in process.
RunLocal ==
  /\ phase = "run" /\ schema = 2
  /\ \E r \in Due(execution), result \in Results :
       /\ output[r] = Missing
       /\ output' = [output EXCEPT ![r] = result]
       /\ execution' = [execution EXCEPT ![r] =
            [output_sha256 |-> result, exit_code |-> 0, timed_out |-> FALSE]]
  /\ UNCHANGED <<process, orphans, benchmark>>

AllRun ==
  /\ phase = "run" /\ process = None /\ Pending(execution) = {}
  /\ phase' = "validate"
  /\ UNCHANGED <<schema, staging, results, truth, metrics, target, attempts, adapter>>

\* The results that are loaded but have no hash yet.
Unhashed == {r \in Runs : results[r] # None /\ results[r].sha256 = None}

\* The files are read and checked against the contract.
LoadResult ==
  /\ phase = "validate" /\ Unhashed = {}
  /\ \E r \in Due(results) :
       /\ output[r] \in Results
       /\ results' = [results EXCEPT ![r] = [content |-> output[r], sha256 |-> None]]
  /\ UNCHANGED <<schema, phase, staging, truth, metrics, target, attempts, adapter>>

\* directory_inventory, the last thing a validator does, reads them again.
HashResult ==
  /\ phase = "validate"
  /\ \E r \in Unhashed : results' = [results EXCEPT ![r].sha256 = output[r]]
  /\ UNCHANGED <<schema, phase, staging, truth, metrics, target, attempts, adapter>>

\* Mutant: what passes its contract needs no comparison with its receipt.
AsExecuted_Trusting == TRUE

\* "changed between execution and contract validation" otherwise.
AsExecuted == \A r \in Members : results[r].sha256 = execution[r].output_sha256

OpenTruth ==
  /\ phase = "validate" /\ Pending(results) = {} /\ Unhashed = {} /\ AsExecuted
  /\ truth' \in Truths
  /\ phase' = "evaluate"
  /\ UNCHANGED <<schema, staging, results, metrics, target, attempts, adapter>>

MetricsOf(result, t) == MatchSources(t.sources, result.content, t.radius)

Evaluate ==
  /\ phase = "evaluate"
  /\ metrics' = [r \in Runs |-> IF r \in Members THEN MetricsOf(results[r], truth) ELSE None]
  /\ phase' = "publish"
  /\ UNCHANGED <<schema, staging, results, truth, target, attempts, adapter>>

\* The manifest is made from memory, and the directory renamed as it is.
Publish ==
  /\ phase = "publish"
  /\ target' = [executions |-> execution, validated |-> results, truth |-> truth,
                metrics |-> metrics, results |-> output]
  /\ staging' = FALSE /\ output' = NoOutput
  /\ Forget /\ UNCHANGED orphans

\* A log, config, revision, result or truth that is refused, a failed
\* estimator, a full disk, Ctrl-C.
Raise == phase # "idle" /\ Discard

Kill == phase # "idle" /\ Stopped /\ UNCHANGED <<staging, output>>

\* By path, which may create the staging directory again, or by an open file,
\* which follows the directory to its new name.
OrphanWrites ==
  /\ \E r \in orphans, content \in Results \union {Torn} :
       \/ output' = [output EXCEPT ![r] = content] /\ staging' = TRUE /\ UNCHANGED target
       \/ /\ target # None /\ target.results[r] # Missing
          /\ target' = [target EXCEPT !.results[r] = content]
          /\ UNCHANGED <<output, staging>>
  /\ UNCHANGED <<schema, phase, results, truth, metrics, attempts, process, execution, orphans>>

Next ==
  \/ Start \/ RunAdapter \/ AdapterStep \/ RunLocal \/ AllRun
  \/ LoadResult \/ HashResult \/ OpenTruth \/ Evaluate \/ Publish
  \/ Raise \/ Kill \/ OrphanWrites

Spec == Init /\ [][Next]_vars

-----------------------------------------------------------------------------
(* Properties *)

\* What a published bundle says is what was measured: every estimator ended by
\* itself, in time and without error, the hash that the manifest names for its
\* result is the one of its receipt, and the metrics are those of content that
\* passed the contract, against the truth that was opened.  That content and
\* the published files are also what the hash names, unless something of this
\* estimator outlived the orchestrator's wait: such a process can write between
\* the two readings of a validation, and after the last.
PublishedIsValidated ==
  target # None =>
    \A r \in Members :
      LET receipt == target.executions[r]
          result == target.validated[r]
      IN  /\ receipt.exit_code = 0 /\ ~receipt.timed_out
          /\ result.sha256 = receipt.output_sha256
          /\ result.content \in Results
          /\ target.metrics[r] = MetricsOf(result, target.truth)
          /\ r \notin orphans => /\ result.content = result.sha256
                                 /\ target.results[r] = result.sha256

Pairings(true, estimates, radius) ==
  {m \in SUBSET ((DOMAIN true) \X (DOMAIN estimates)) :
     /\ \A x \in m : Near(true, estimates, radius, x[1], x[2])
     /\ \A x, y \in m : (x[1] = y[1] \/ x[2] = y[2]) => x = y}

PairingCost(true, estimates, radius, m) ==
  MapThenSumSet(LAMBDA x : Distance(true[x[1]], estimates[x[2]]), m)
    + (Len(true) + Len(estimates) - 2 * Cardinality(m)) * UnmatchedCost(radius)

\* The matches of a report are pairs of one isotope within the match radius,
\* no source is matched twice, and no other such pairing is better: each metre
\* counts one, each source left unmatched the radius and one metre more.  With
\* a radius below two metres and up to three pairs this means that no pairing
\* matches more sources.
MatchesAreCheapest ==
  \A r \in Runs : metrics[r] # None =>
    LET pairings == Pairings(truth.sources, results[r].content, truth.radius)
        cost(m) == PairingCost(truth.sources, results[r].content, truth.radius, m)
    IN  /\ metrics[r] \in pairings
        /\ \A m \in pairings : cost(metrics[r]) <= cost(m)
        /\ (truth.radius < 2 /\ Len(truth.sources) <= 3) =>
              \A m \in pairings : Cardinality(m) <= Cardinality(metrics[r])

=============================================================================
