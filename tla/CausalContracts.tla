---------------------------- MODULE CausalContracts ----------------------------
(***************************************************************************)
(* The contracts of the artifacts of one v1 run: what the controller       *)
(* (hybrid/controller.py) and contracts/validators.py demand of an         *)
(* estimator's output and of an artifact the controller built, before it   *)
(* is used.  An artifact is the record of the fields these checks compare; *)
(* JSON schemas and number formats are left out.                           *)
(***************************************************************************)
EXTENDS MeasurementPrefix

-----------------------------------------------------------------------------
(* Batch MLE results: mode, fit kind, the fit they were warmed by, rows. *)

\* A prefix fit covers exactly the rows of its log and is cold if it is the
\* first, else warmed by the fit before it.
FitAccepted(fit, rows, previous) ==
  /\ fit.mode = "count"
  /\ fit.rows = rows
  /\ fit.attestation = "covered_prefix_markers_v1"
  /\ IF previous = None
       THEN fit.kind = "cold" /\ fit.from = None
       ELSE fit.kind = "warm" /\ fit.from = previous

\* A final fit is cold and covers the complete log.
FinalFitAccepted(fit, mode, rows) ==
  /\ fit.mode = mode
  /\ fit.rows = rows
  /\ fit.attestation = "finalized_measurement_log"
  /\ fit.kind = "cold" /\ fit.from = None

-----------------------------------------------------------------------------
(* Snapshots, directives and receipts *)

\* The snapshot built from a trigger at the cutoff, the prefix and the fit.
BuiltSnapshot(prefix, fit, clusters, previous) ==
  [cutoff |-> prefix.cutoff, station |-> prefix.station, covered |-> prefix.covered,
   boundaries |-> prefix.boundaries, clusters |-> clusters,
   predicted |-> Column(fit.rows, "step"), warm |-> previous, fit |-> fit]

SnapshotCovers(s) == Increasing(s.covered) /\ Last(s.covered) = s.cutoff

\* MLESnapshot.create and validate_mle_snapshot_v2.
SnapshotAccepted(s, prefix, previous) ==
  /\ SnapshotCovers(s)
  /\ s.predicted = s.covered
  /\ s.cutoff = prefix.cutoff /\ s.station = prefix.station
  /\ s.covered = prefix.covered
  /\ s.boundaries = prefix.boundaries
  /\ s.warm = previous

\* The directive that proposes some of a snapshot's clusters.
BuiltDirective(s, proposals) ==
  [cutoff |-> s.cutoff, covered |-> s.covered, applyAfter |-> s.cutoff,
   earliest |-> s.cutoff + 1, proposals |-> proposals]

\* build_pf_directive and validate_pf_directive.
DirectiveAccepted(d, s) ==
  /\ Increasing(d.covered) /\ Last(d.covered) = d.cutoff
  /\ d.applyAfter = d.cutoff
  /\ d.earliest = d.cutoff + 1
  /\ d.proposals # {}
  /\ d.cutoff = s.cutoff /\ d.covered = s.covered
  /\ d.proposals \subseteq s.clusters

\* The label that the counts of one proposal call for.
LabelOf(o) ==
  CASE o.accepted + o.rejected = 0 -> "not_applied"
    [] o.rejected = 0 /\ o.accepted > 0 -> "mh_accepted"
    [] o.accepted = 0 /\ o.rejected > 0 -> "mh_rejected"
    [] OTHER -> "mh_mixed"

CountsAgree(o) ==
  /\ o.attempts = o.accepted + o.rejected
  /\ o.eligible = o.attempts + o.notSampled
  /\ o.scalars <=> o.attempts = 1

\* One proposal's outcome in the eyes of the validator.
OutcomeAccepted(status, o) ==
  /\ CountsAgree(o)
  /\ status = "applied" => o.label = LabelOf(o)
  /\ status = "rejected" => o.label = "not_applied" /\ o.eligible = 0

\* ... and of the typed CandidateOutcome.
OutcomeConstructs(o) == CountsAgree(o) /\ o.label \in {"registered", LabelOf(o)}

ReceiptAccepted(r, d) ==
  /\ r.appliedAfter = d.cutoff
  /\ r.next = d.cutoff + 1
  /\ DOMAIN r.outcomes = d.proposals
  /\ \A n \in DOMAIN r.outcomes : OutcomeAccepted(r.status, r.outcomes[n])

\* The receipt rebuilt as a typed record says the same.
ReceiptConstructs(r) == \A n \in DOMAIN r.outcomes : OutcomeConstructs(r.outcomes[n])

-----------------------------------------------------------------------------
(* Future scores and planning *)

\* Mutant: only the window's first row is looked at.
ScoreAccepted_StartOnly(a, s, rows) ==
  /\ Increasing(a.steps)
  /\ a.steps # <<>> /\ Head(a.steps) > s.cutoff
  /\ a.snapshot = s.cutoff
  /\ DOMAIN a.ratios = s.clusters

\* The rows after a cutoff.
LaterRows(rows, c) == Kept(rows, {i \in DOMAIN rows : rows[i].step > c})

\* A score artifact has all the snapshot's clusters and, for each, exactly the
\* rows of the current prefix after the snapshot.
ScoreAccepted(a, s, rows) ==
  LET later == LaterRows(rows, s.cutoff)
  IN  /\ Increasing(a.steps)
      /\ a.steps # <<>> /\ Head(a.steps) > s.cutoff
      /\ a.snapshot = s.cutoff
      /\ DOMAIN a.ratios = s.clusters
      /\ \A n \in DOMAIN a.ratios : Len(a.ratios[n]) = Len(a.steps)
      /\ a.steps = Column(later, "step")
      /\ a.stations = Column(later, "station")

\* The planner is told every candidate and its state.
PlanningRequest(cutoff, station, queue) ==
  [cutoff |-> cutoff, station |-> station, modes |-> [k \in DOMAIN queue |-> queue[k].state]]

\* A recommendation is made for this request, left the particles alone, and
\* planned with the candidates that are not quarantined.
RecommendationAccepted(p, request) ==
  /\ p.cutoff = request.cutoff /\ p.station = request.station
  /\ ~p.mutated
  /\ p.included = {k \in DOMAIN request.modes : request.modes[k] \in {"pending", "verified"}}
  /\ p.excluded = {k \in DOMAIN request.modes : request.modes[k] = "quarantined"}

=============================================================================
