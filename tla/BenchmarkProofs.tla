--------------------------- MODULE BenchmarkProofs ---------------------------
(***************************************************************************)
(* For any runs, orders of runs, results and truths, any number of         *)
(* attempts, and orphans that write whenever they like: what a published   *)
(* bundle says is what was measured.                                       *)
(***************************************************************************)
EXTENDS Benchmark, TLAPS

Processes == [run : Runs, state : {"running", "signalled", "exited"},
              code : {0, 1, -9}, timed_out : BOOLEAN]

InMemory == [content : Results, sha256 : Contents \union {None}]

TypeOK ==
  /\ schema \in DOMAIN Order
  /\ output \in [Runs -> Contents]
  /\ execution \in [Runs -> Executions \union {None}]
  /\ results \in [Runs -> InMemory \union {None}]
  /\ process \in Processes \union {None}
  /\ target # None =>
       /\ DOMAIN target = {"executions", "validated", "truth", "metrics", "results"}
       /\ target.results \in [Runs -> Contents]

\* An estimator that is waited for runs before anything has been validated.
RunsFirst ==
  /\ phase \in {"idle", "run"} => results = NoExecution
  /\ process # None => phase = "run"

\* From validation on, the files are those in memory, and the hash is theirs,
\* unless an orphan wrote.
FilesAsValidated ==
  \A r \in Runs \ orphans :
    results[r] # None => /\ results[r].content = output[r]
                         /\ results[r].sha256 \in {None, output[r]}

\* Once the truth is open, every run has a result with the hash of its receipt,
\* and once the metrics are there they are those of the results in memory.
Settled ==
  /\ phase \notin {"idle", "run"} => \A r \in Members : execution[r] # None
  /\ phase \in {"evaluate", "publish"} =>
       \A r \in Members : /\ results[r] # None /\ results[r].sha256 # None
                          /\ results[r].sha256 = execution[r].output_sha256
  /\ phase = "publish" => \A r \in Members : metrics[r] = MetricsOf(results[r], truth)

IInv == TypeOK /\ RunsFirst /\ FilesAsValidated /\ Settled /\ PublishedIsValidated

\* The runs of a pipeline are runs.
LEMMA MembersAreRuns == schema \in DOMAIN Order => Members \subseteq Runs
BY OrderAssumption DEF Members, Pipeline

\* No run is pending when each has something.
LEMMA NonePending ==
  ASSUME NEW f, Pending(f) = {}
  PROVE  \A r \in Members : f[r] # None
BY DEF Pending, Members

\* The run that comes next is one of the pipeline.
LEMMA DueIsMember ==
  ASSUME schema \in DOMAIN Order, NEW f
  PROVE  Due(f) \subseteq Members
BY DEF Due, Pending, Members

\* An attempt that has ended has nothing in memory.
LEMMA StoppedIInv ==
  ASSUME IInv, Stopped, output' \in [Runs -> Contents]
  PROVE  IInv'
<1>1. TypeOK'
  BY DEF IInv, TypeOK, Stopped, Forget, NoExecution
<1>2. RunsFirst' /\ Settled'
  BY DEF Stopped, Forget, RunsFirst, Settled
<1>3. FilesAsValidated'
  BY DEF Stopped, Forget, FilesAsValidated, NoExecution
<1>4. PublishedIsValidated'
  BY DEF IInv, Stopped, Forget, PublishedIsValidated, Members, Pipeline
<1> QED BY <1>1, <1>2, <1>3, <1>4 DEF IInv

\* Nothing has run.
LEMMA InitIInv == Init => IInv
BY DEF Init, IInv, TypeOK, RunsFirst, FilesAsValidated, Settled, PublishedIsValidated,
       NoOutput, NoExecution, Contents

\* What the estimator of the moment and its polling change.
LEMMA AdapterIInv ==
  ASSUME IInv, AdapterStep
  PROVE  IInv'
<1> USE DEF IInv, benchmark
<1>0. phase = "run" /\ results = NoExecution
  BY DEF AdapterStep, Estimator, Polling, EstimatorWrites, EstimatorExits, TimeOut,
         KillGroup, Receipt, RunsFirst
<1>1. TypeOK'
  <2>1. CASE EstimatorWrites
    BY <2>1 DEF AdapterStep, EstimatorWrites, TypeOK, Processes, Contents
  <2>2. CASE EstimatorExits
    <3>1. PICK code \in {0, 1} :
            process' = [process EXCEPT !.state = "exited", !.code = code]
      BY <2>2 DEF EstimatorExits
    <3>2. process' \in Processes
      BY <2>2, <3>1 DEF EstimatorExits, TypeOK, Processes
    <3> QED BY <2>2, <3>2 DEF AdapterStep, EstimatorExits, TypeOK, Processes, Contents
  <2>3. CASE TimeOut \/ KillGroup
    <3>1. process' \in Processes
      BY <2>3 DEF TimeOut, KillGroup, TypeOK, Processes
    <3> QED BY <2>3, <3>1 DEF AdapterStep, TimeOut, KillGroup, TypeOK
  <2>4. CASE Receipt
    <3>1. [output_sha256 |-> output[process.run],
           exit_code |-> process.code, timed_out |-> process.timed_out] \in Executions
      BY <2>4 DEF Receipt, Failed, TypeOK, Processes, Executions
    <3> QED BY <2>4, <3>1 DEF AdapterStep, Receipt, TypeOK
  <2> QED BY <2>1, <2>2, <2>3, <2>4 DEF AdapterStep, Estimator, Polling
<1>2. RunsFirst' /\ FilesAsValidated' /\ Settled'
  BY <1>0 DEF AdapterStep, RunsFirst, FilesAsValidated, Settled, NoExecution
<1>3. orphans \subseteq orphans'
  BY DEF AdapterStep, Estimator, Polling, EstimatorWrites, EstimatorExits, TimeOut,
         KillGroup, Receipt
<1>4. PublishedIsValidated'
  BY <1>3 DEF AdapterStep, PublishedIsValidated, Members, Pipeline
<1> QED BY <1>1, <1>2, <1>4

\* Every action keeps the invariant.
LEMMA NextIInv == IInv /\ [Next]_vars => IInv'
<1> SUFFICES ASSUME IInv, [Next]_vars PROVE IInv'
  OBVIOUS
<1> USE DEF IInv, adapter, benchmark
<1>1. CASE UNCHANGED vars
  BY <1>1 DEF vars, TypeOK, RunsFirst, FilesAsValidated, Settled, PublishedIsValidated,
              Members, Pipeline
<1>2. CASE Start
  BY <1>2 DEF Start, TypeOK, RunsFirst, FilesAsValidated, Settled, PublishedIsValidated
<1>3. CASE RunAdapter
  <2>1. process' \in Processes
    BY <1>3, DueIsMember, MembersAreRuns DEF RunAdapter, Launch, TypeOK, Processes
  <2> QED
    BY <1>3, <2>1 DEF RunAdapter, Launch, TypeOK, RunsFirst, FilesAsValidated, Settled,
                      PublishedIsValidated, Members, Pipeline
<1>4. CASE AdapterStep
  BY <1>4, AdapterIInv
<1>5. CASE RunLocal
  <2>1. PICK r \in Runs, result \in Results :
          /\ output' = [output EXCEPT ![r] = result]
          /\ execution' = [execution EXCEPT ![r] =
               [output_sha256 |-> result, exit_code |-> 0, timed_out |-> FALSE]]
    BY <1>5, DueIsMember, MembersAreRuns DEF RunLocal, TypeOK
  <2>2. TypeOK'
    BY <1>5, <2>1 DEF RunLocal, TypeOK, Contents, Executions
  <2> QED
    BY <1>5, <2>2 DEF RunLocal, RunsFirst, FilesAsValidated, Settled, PublishedIsValidated,
                      Members, Pipeline, NoExecution
<1>6. CASE AllRun
  <2>1. \A r \in Members : execution[r] # None
    BY <1>6, NonePending DEF AllRun
  <2> QED
    BY <1>6, <2>1 DEF AllRun, TypeOK, RunsFirst, FilesAsValidated, Settled,
                      PublishedIsValidated, Members, Pipeline
<1>7. CASE LoadResult
  <2>1. PICK r \in Runs :
          /\ output[r] \in Results
          /\ results' = [results EXCEPT ![r] = [content |-> output[r], sha256 |-> None]]
    BY <1>7, DueIsMember, MembersAreRuns DEF LoadResult, TypeOK
  <2>2. TypeOK'
    BY <1>7, <2>1 DEF LoadResult, TypeOK, InMemory
  <2>3. RunsFirst' /\ FilesAsValidated'
    BY <1>7, <2>1 DEF LoadResult, TypeOK, RunsFirst, FilesAsValidated
  <2>4. Settled'
    BY <1>7 DEF LoadResult, Settled, Members, Pipeline
  <2>5. PublishedIsValidated'
    BY <1>7 DEF LoadResult, PublishedIsValidated, Members, Pipeline
  <2> QED BY <2>2, <2>3, <2>4, <2>5
<1>13. CASE HashResult
  <2>1. PICK r \in Runs : /\ results[r] # None
                          /\ results' = [results EXCEPT ![r].sha256 = output[r]]
    BY <1>13 DEF HashResult, Unhashed
  <2>2. results[r] \in InMemory
    BY <2>1 DEF TypeOK
  <2>3. results' = [results EXCEPT ![r] = [content |-> results[r].content, sha256 |-> output[r]]]
    <3>1. results' = [results EXCEPT ![r] = [results[r] EXCEPT !.sha256 = output[r]]]
      BY <2>1
    <3>2. [results[r] EXCEPT !.sha256 = output[r]]
            = [content |-> results[r].content, sha256 |-> output[r]]
      BY <2>2 DEF InMemory
    <3> QED BY <3>1, <3>2
  <2>4. TypeOK'
    BY <1>13, <2>2, <2>3 DEF HashResult, TypeOK, InMemory
  <2>5. RunsFirst' /\ FilesAsValidated'
    BY <1>13, <2>1, <2>3 DEF HashResult, TypeOK, RunsFirst, FilesAsValidated
  <2>6. Settled'
    BY <1>13 DEF HashResult, Settled, Members, Pipeline
  <2>7. PublishedIsValidated'
    BY <1>13 DEF HashResult, PublishedIsValidated, Members, Pipeline
  <2> QED BY <2>4, <2>5, <2>6, <2>7
<1>8. CASE OpenTruth
  <2>1. \A r \in Members : /\ results[r] # None /\ results[r].sha256 # None
                           /\ results[r].sha256 = execution[r].output_sha256
    BY <1>8, NonePending, MembersAreRuns DEF OpenTruth, AsExecuted, Unhashed, TypeOK
  <2> QED
    BY <1>8, <2>1 DEF OpenTruth, TypeOK, RunsFirst, FilesAsValidated, Settled,
                      PublishedIsValidated, Members, Pipeline
<1>9. CASE Evaluate
  <2>1. \A r \in Members : metrics'[r] = MetricsOf(results[r], truth)
    BY <1>9, MembersAreRuns DEF Evaluate, TypeOK
  <2>2. Settled'
    BY <1>9, <2>1 DEF Evaluate, Settled, Members, Pipeline
  <2> QED
    BY <1>9, <2>2 DEF Evaluate, TypeOK, RunsFirst, FilesAsValidated, PublishedIsValidated,
                      Members, Pipeline
<1>10. CASE Publish
  <2>1. \A r \in Members :
          /\ execution[r].exit_code = 0 /\ ~execution[r].timed_out
          /\ results[r].content \in Results
          /\ results[r].sha256 = execution[r].output_sha256
          /\ metrics[r] = MetricsOf(results[r], truth)
          /\ r \notin orphans => results[r].content = results[r].sha256 /\ output[r] = results[r].sha256
    BY <1>10, MembersAreRuns
       DEF Publish, TypeOK, InMemory, Settled, FilesAsValidated, Executions
  <2>2. PublishedIsValidated'
    BY <1>10, <2>1 DEF Publish, Forget, PublishedIsValidated, Members, Pipeline
  <2>3. TypeOK'
    BY <1>10 DEF Publish, Forget, TypeOK, NoOutput, NoExecution, Contents
  <2> QED
    BY <1>10, <2>2, <2>3 DEF Publish, Forget, RunsFirst, FilesAsValidated, Settled,
                             NoExecution
<1>11. CASE Raise \/ Kill
  <2>1. Stopped /\ output' \in [Runs -> Contents]
    BY <1>11 DEF Raise, Kill, Discard, TypeOK, NoOutput, Contents
  <2> QED BY <2>1, StoppedIInv
<1>12. CASE OrphanWrites
  <2>1. PICK r \in orphans, content \in Results \union {Torn} :
          \/ output' = [output EXCEPT ![r] = content] /\ UNCHANGED target
          \/ /\ target # None /\ target' = [target EXCEPT !.results[r] = content]
             /\ UNCHANGED output
    BY <1>12 DEF OrphanWrites
  <2>2. TypeOK'
    BY <1>12, <2>1 DEF OrphanWrites, TypeOK, Contents
  <2>3. FilesAsValidated'
    BY <1>12, <2>1 DEF OrphanWrites, FilesAsValidated, TypeOK
  <2>4. PublishedIsValidated'
    <3>1. CASE UNCHANGED target
      BY <1>12, <3>1 DEF OrphanWrites, PublishedIsValidated, Members, Pipeline
    <3>2. CASE target # None /\ target' = [target EXCEPT !.results[r] = content]
      <4>1. /\ target'.executions = target.executions /\ target'.validated = target.validated
            /\ target'.metrics = target.metrics /\ target'.truth = target.truth
            /\ \A q \in Runs \ {r} : target'.results[q] = target.results[q]
        BY <3>2 DEF TypeOK
      <4> QED
        BY <1>12, <2>1, <3>2, <4>1, MembersAreRuns DEF OrphanWrites, PublishedIsValidated,
                                       Members, Pipeline, TypeOK
    <3> QED BY <2>1, <3>1, <3>2
  <2> QED
    BY <1>12, <2>2, <2>3, <2>4 DEF OrphanWrites, RunsFirst, Settled, Members, Pipeline
<1> QED
  BY <1>1, <1>2, <1>3, <1>4, <1>5, <1>6, <1>7, <1>8, <1>9, <1>10, <1>11, <1>12, <1>13 DEF Next

\* What a published bundle says is what was measured, whatever estimators,
\* Ctrl-C and kills do.
THEOREM BundleIsAsValidated == Spec => []PublishedIsValidated
<1>1. IInv => PublishedIsValidated
  BY DEF IInv
<1> QED BY <1>1, InitIInv, NextIInv, PTL DEF Spec

=============================================================================
