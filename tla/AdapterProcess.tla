--------------------------- MODULE AdapterProcess ---------------------------
(***************************************************************************)
(* One estimator subprocess at a time (adapters/base.py): the orchestrator *)
(* starts it in a session of its own, polls it, signals its process group  *)
(* when its time is up, and writes a receipt of what it left in its output *)
(* directory.  Nothing ends a process that the orchestrator stops waiting  *)
(* for, or what a process leaves running when it exits: from then on its   *)
(* run is an orphan, which may still write to the directory of that name.  *)
(***************************************************************************)
EXTENDS Integers, FiniteSets

CONSTANTS
  Runs,              \* names of estimator runs, each with its directories
  Results,           \* contents of a complete output directory
  Torn, Missing,     \* ... of one that is not, and no directory or an empty one
  None

Contents == Results \union {Torn, Missing}
Executions == [output_sha256 : Contents, exit_code : {0}, timed_out : {FALSE}]

ASSUME ContentsAssumption == None \notin Results /\ Missing \notin Results
ASSUME ExecutionsAssumption == None \notin Executions

VARIABLES
  output,            \* output directory of each run
  process,           \* the process being polled
  execution,         \* adapter_execution.json of each run
  orphans            \* runs of which something may still be running

adapter == <<output, process, execution, orphans>>

NoOutput == [r \in Runs |-> Missing]
NoExecution == [r \in Runs |-> None]

Launch(r) ==
  /\ process = None
  /\ output[r] = Missing
  /\ process' = [run |-> r, state |-> "running", code |-> 0, timed_out |-> FALSE]
  /\ UNCHANGED <<output, execution, orphans>>

EstimatorWrites ==
  /\ process # None /\ process.state # "exited"
  /\ output' = [output EXCEPT ![process.run] = Torn]
  /\ UNCHANGED <<process, execution, orphans>>

\* It may finish, even after SIGTERM, or fail, or stop early with exit code 0;
\* a process of its group may outlive it.
EstimatorExits ==
  /\ process # None /\ process.state # "exited"
  /\ \E code \in {0, 1} :
       /\ process' = [process EXCEPT !.state = "exited", !.code = code]
       /\ \/ UNCHANGED output
          \/ \E result \in Results :
               code = 0 /\ output' = [output EXCEPT ![process.run] = result]
  /\ orphans' \in {orphans, orphans \union {process.run}}
  /\ UNCHANGED execution

\* The time is up at a poll that still finds the process running: SIGTERM.
TimeOut ==
  /\ process # None /\ process.state = "running"
  /\ process' = [process EXCEPT !.state = "signalled", !.timed_out = TRUE]
  /\ UNCHANGED <<output, execution, orphans>>

\* SIGKILL to the whole group, three seconds later.
KillGroup ==
  /\ process # None /\ process.state = "signalled"
  /\ process' = [process EXCEPT !.state = "exited", !.code = -9]
  /\ UNCHANGED <<output, execution, orphans>>

\* Mutant: the exit code alone decides.
Failed_LateIsFine(p) == p.code # 0 \/ output[p.run] = Missing

Failed(p) == p.timed_out \/ p.code # 0 \/ output[p.run] = Missing

\* A run that did not fail leaves its receipt.
Receipt ==
  /\ process # None /\ process.state = "exited" /\ ~Failed(process)
  /\ execution' = [execution EXCEPT ![process.run] =
                     [output_sha256 |-> output[process.run],
                      exit_code |-> process.code, timed_out |-> process.timed_out]]
  /\ process' = None
  /\ UNCHANGED <<output, orphans>>

Estimator == EstimatorWrites \/ EstimatorExits
Polling == TimeOut \/ KillGroup \/ Receipt

\* Whoever stops waiting for the process leaves it running.
Abandoned == IF process = None \/ process.state = "exited" THEN {} ELSE {process.run}

=============================================================================
