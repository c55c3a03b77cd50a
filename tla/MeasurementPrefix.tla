-------------------------- MODULE MeasurementPrefix --------------------------
(***************************************************************************)
(* The causal prefixes of a measurement log (hybrid/prefix.py and          *)
(* hybrid/prefix_log.py): the declared station ends, their check against   *)
(* the log, the log marked with them, and the log that a batch fit through *)
(* a cutoff is given.                                                      *)
(*                                                                         *)
(* A row is a record of its station and step; what was measured there is   *)
(* part of its identity.  A hash of rows, of a schedule or of a log is the *)
(* hashed value itself.  A log has its rows, the manifest entries that     *)
(* depend on rows, and the JSON and data files beside them, each mapped to *)
(* the files it names.                                                     *)
(***************************************************************************)
EXTENDS Integers, FiniteSets, Sequences, SequencesExt

CONSTANT None

Column(seq, field) == [i \in DOMAIN seq |-> seq[i][field]]
Increasing(seq) == \A i, j \in DOMAIN seq : i < j => seq[i] < seq[j]

\* What seq has at the positions of a set, in its order.
Kept(seq, at) ==
  FoldLeftDomain(LAMBDA kept, i : IF i \in at THEN Append(kept, seq[i]) ELSE kept, <<>>, seq)

\* Rows of a valid log: strictly increasing steps, stations in order.
ValidRows(rows) ==
  /\ rows # <<>>
  /\ Increasing(Column(rows, "step"))
  /\ \A i, j \in DOMAIN rows : i < j => rows[i].station <= rows[j].station

\* StationBoundarySchedule.create.
ScheduleCreated(schedule) ==
  /\ schedule # <<>>
  /\ Increasing(Column(schedule, "station"))
  /\ Increasing(Column(schedule, "step"))

EndsStation(rows, i) == i = Len(rows) \/ rows[i + 1].station # rows[i].station

\* The declaration made while the log is produced.
EndsOf(rows) ==
  LET ends == SetToSortSeq({i \in DOMAIN rows : EndsStation(rows, i)}, LAMBDA i, j : i < j)
  IN  [k \in DOMAIN ends |-> [station |-> rows[ends[k]].station, step |-> rows[ends[k]].step]]

AssertsComplete(schedule, station, step) ==
  \E k \in DOMAIN schedule : schedule[k].station = station /\ schedule[k].step = step

\* The declarations visible through a cutoff.
CoveredSchedule(schedule, cutoff) ==
  Kept(schedule, {k \in DOMAIN schedule : schedule[k].step <= cutoff})

\* The declaration fits the log: it names the log's stations, no row lies
\* beyond its station's declared end, and that end is the station's last row.
BoundariesAccepted(rows, schedule) ==
  /\ {rows[i].station : i \in DOMAIN rows} = {schedule[k].station : k \in DOMAIN schedule}
  /\ \A i \in DOMAIN rows, k \in DOMAIN schedule :
       rows[i].station = schedule[k].station =>
         /\ rows[i].step <= schedule[k].step
         /\ rows[i].step = schedule[k].step => EndsStation(rows, i)
  /\ \A k \in DOMAIN schedule : \E i \in DOMAIN rows :
       rows[i].station = schedule[k].station /\ rows[i].step = schedule[k].step
  /\ schedule[Len(schedule)].step = rows[Len(rows)].step

-----------------------------------------------------------------------------
\* The log as it was recorded: no markers, no attestation.
SourceLog(rows, files) ==
  [rows |-> [i \in DOMAIN rows |-> [station |-> rows[i].station, step |-> rows[i].step,
                                    complete |-> FALSE]],
   manifest |-> [count |-> Len(rows), attestation |-> None, prefix |-> None],
   files |-> files]

\* The complete log with a station-end marker in every row.
MarkedLog(log, schedule) ==
  [log EXCEPT
     !.rows = [i \in DOMAIN log.rows |->
                 [log.rows[i] EXCEPT
                    !.complete = AssertsComplete(schedule, log.rows[i].station, log.rows[i].step)]],
     !.manifest.attestation = schedule]

\* What measurement_records_sha256 identifies.
Records(log, n) == SubSeq(log.rows, 1, n)

\* The markers among the first n rows; they have to end with the n-th row.
CoveredBoundaries(log, n) ==
  LET marked == Kept(Records(log, n), {i \in DOMAIN log.rows : log.rows[i].complete})
  IN  [k \in DOMAIN marked |-> [station |-> marked[k].station, step |-> marked[k].step]]

PrefixAllowed(log, n) == log.rows[n].complete

Roots == {"environment.json", "forward_model_manifest.json", "runtime_config.resolved.json"}

\* The files a prefix keeps: the physical model and whatever it names.
InvariantFiles(files) ==
  LET reached[k \in Nat] ==
        IF k = 0 THEN Roots
        ELSE reached[k - 1] \union (UNION {files[f] : f \in reached[k - 1]} \intersect DOMAIN files)
  IN  reached[Cardinality(DOMAIN files)]
        \union {"repository_commit.txt"}
        \union ({"upstream_pf_commit.txt"} \intersect DOMAIN files)

\* Mutant: the replay schedule of the complete log stays in the manifest.
PrefixManifest_KeepsSchedule(log, n) ==
  [count |-> n, attestation |-> log.manifest.attestation,
   prefix |-> [cutoff |-> log.rows[n].step, station |-> log.rows[n].station,
               boundaries |-> CoveredBoundaries(log, n)]]

\* The manifest without the replay schedule, which would tell of later rows.
PrefixManifest(log, n) ==
  [count |-> n, attestation |-> None,
   prefix |-> [cutoff |-> log.rows[n].step, station |-> log.rows[n].station,
               boundaries |-> CoveredBoundaries(log, n)]]

\* The directory previewed for its digest and then published.
PrefixLog(log, n) ==
  [rows |-> Records(log, n),
   manifest |-> PrefixManifest(log, n),
   files |-> [f \in InvariantFiles(log.files) |-> log.files[f]]]

\* build_and_materialize_measurement_prefix: the prefix and its log.
PrefixThrough(log, schedule, n) ==
  [log |-> PrefixLog(log, n),
   covered |-> Column(Records(log, n), "step"),
   boundaries |-> CoveredSchedule(schedule, log.rows[n].step),
   cutoff |-> log.rows[n].step,
   station |-> log.rows[n].station]

\* What binds the prefix to its log and its declaration.
PrefixBound(prefix, schedule) ==
  /\ AssertsComplete(schedule, prefix.station, prefix.cutoff)
  /\ prefix.boundaries # <<>>
  /\ prefix.boundaries[Len(prefix.boundaries)].step = prefix.cutoff
  /\ prefix.covered = Column(prefix.log.rows, "step")
  /\ prefix.log.manifest.prefix.boundaries = prefix.boundaries

=============================================================================
