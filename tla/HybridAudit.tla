----------------------------- MODULE HybridAudit -----------------------------
(***************************************************************************)
(* How a finished v1 run is reported and audited before it is published:   *)
(* the ledger summary is validated on its own, build_hybrid_result         *)
(* (hybrid/reporting.py) projects the run's artifacts into one report, and *)
(* validate_hybrid_result (contracts/validators.py) checks that report     *)
(* against the artifacts again.                                            *)
(*                                                                         *)
(* A run w is a record of its source rows, its marked log, its boundary    *)
(* schedule and the artifacts it collected.                                *)
(***************************************************************************)
EXTENDS CausalContracts, ObservationUse

\* The ledger file read on its own: each event against those before it.
EventAccepted(before, e) ==
  CASE e.type = "snapshot_registered" -> TRUE
    [] e.type = "directive_issued" ->
         /\ Events(before, "snapshot_registered", e.cutoff) # {}
         /\ Events(before, "directive_issued", e.cutoff) = {}
    [] e.type = "directive_receipt" ->
         /\ Events(before, "directive_issued", e.cutoff) # {}
         /\ Events(before, "directive_receipt", e.cutoff) = {}
    [] e.type = "corroboration" ->
         /\ \E r \in Events(before, "directive_receipt", e.cutoff) : r.status = "applied"
         /\ \E d \in Events(before, "directive_issued", e.cutoff) : e.name \in d.proposals
         /\ e.step > e.cutoff
         /\ \A u \in Events(before, "corroboration", e.cutoff) : <<u.name, u.step>> # <<e.name, e.step>>
         /\ e.state \in Verdicts

LedgerSummaryAccepted(ledger) ==
  \A i \in DOMAIN ledger : EventAccepted(SubSeq(ledger, 1, i - 1), ledger[i])

\* What an event tells of the proposals' states.
Told(states, e) ==
  CASE e.type = "directive_issued" ->
         [k \in DOMAIN states \union Keys(e) |-> IF k \in Keys(e) THEN "pending" ELSE states[k]]
    [] e.type = "corroboration" ->
         [states EXCEPT ![[cutoff |-> e.cutoff, name |-> e.name]] = e.state]
    [] OTHER -> states

\* The state of every proposal as the ledger alone tells it.
LedgerStates(ledger) == FoldLeft(Told, <<>>, ledger)

CountsOf(states) ==
  [v \in Verdicts |-> Cardinality({k \in DOMAIN states : states[k] = v})]

\* The items of a list, sorted by their cutoffs.
ByCutoff(seq) ==
  LET order == CHOOSE p \in SetToSeqs(DOMAIN seq) :
                 \A i, j \in DOMAIN p : i < j => seq[p[i]].cutoff <= seq[p[j]].cutoff
  IN  [i \in DOMAIN seq |-> seq[order[i]]]

\* Score artifacts, sorted by their snapshots and then by their last rows.
ByWindow(scores) ==
  LET order == CHOOSE p \in SetToSeqs(DOMAIN scores) :
                 \A i, j \in DOMAIN p : i < j =>
                   LET a == scores[p[i]]
                       b == scores[p[j]]
                   IN  \/ a.snapshot < b.snapshot
                       \/ a.snapshot = b.snapshot /\ Last(a.steps) <= Last(b.steps)
  IN  [i \in DOMAIN scores |-> scores[order[i]]]

-----------------------------------------------------------------------------
(* References of the report *)

SnapshotRefs(snapshots) ==
  LET sorted == ByCutoff(snapshots)
  IN  [i \in DOMAIN sorted |-> [cutoff |-> sorted[i].cutoff, station |-> sorted[i].station,
                                warm |-> sorted[i].warm # None]]

DirectiveRefs(directives) ==
  LET sorted == ByCutoff(directives)
  IN  [i \in DOMAIN sorted |-> [cutoff |-> sorted[i].cutoff,
                                proposals |-> Cardinality(sorted[i].proposals)]]

ReceiptRefs(receipts) ==
  {[directive |-> d, status |-> receipts[d].status] : d \in DOMAIN receipts}

ScoreRefs(scores) ==
  LET sorted == ByWindow(scores)
  IN  [i \in DOMAIN sorted |-> [snapshot |-> sorted[i].snapshot, steps |-> sorted[i].steps]]

PlanRefs(plans) ==
  LET sorted == ByCutoff(plans)
  IN  [i \in DOMAIN sorted |-> [cutoff |-> sorted[i].cutoff, station |-> sorted[i].station]]

AppliedReceipts(refs) == {r \in refs : r.status = "applied"}

\* Counts of the controller's queue: queue file and report carry them.
QueueCounts(queue) == CountsOf([k \in DOMAIN queue |-> queue[k].state])

\* build_hybrid_result.
HybridResult(w) ==
  [sourceCount |-> Len(w.source.rows), inferenceCount |-> Len(w.log.rows),
   finalStep |-> Last(w.log.rows).step,
   snapshots |-> SnapshotRefs(w.snapshots), directives |-> DirectiveRefs(w.directives),
   receipts |-> ReceiptRefs(w.receipts), scores |-> ScoreRefs(w.scores),
   plans |-> PlanRefs(w.plans), events |-> Len(w.ledger),
   counts |-> QueueCounts(w.queue),
   mhPerformed |-> AppliedReceipts(ReceiptRefs(w.receipts)) # {},
   report |-> w.spectral, diagnostic |-> w.count]

\* Final fits are cold over the complete log; the spectral one, which is the
\* report, has to have converged.
FinalFitsReportable(w) ==
  /\ FinalFitAccepted(w.count, "count", w.log.rows)
  /\ FinalFitAccepted(w.spectral, "spectral", w.log.rows)
  /\ w.spectral.converged

ProposalsOf(directives) == SumFunction([i \in DOMAIN directives |-> directives[i].proposals])

\* What build_hybrid_result refuses to report.
Reportable(w) ==
  LET result == HybridResult(w)
  IN  /\ Len(w.source.rows) = Len(w.log.rows)
      /\ FinalFitsReportable(w)
      /\ result.counts = CountsOf(LedgerStates(w.ledger))
      /\ SumFunction(result.counts) = ProposalsOf(result.directives)

-----------------------------------------------------------------------------
(* validate_hybrid_result *)

SnapshotRefsSound(result) ==
  /\ Increasing(Column(result.snapshots, "cutoff"))
  /\ \A i \in DOMAIN result.snapshots : result.snapshots[i].cutoff <= result.finalStep

\* Scores name a snapshot, use only later rows, and no two are the same.
ScoreRefsSound(result) ==
  /\ \A i \in DOMAIN result.scores :
       /\ \E k \in DOMAIN result.snapshots :
            /\ result.snapshots[k].cutoff = result.scores[i].snapshot
            /\ Head(result.scores[i].steps) > result.snapshots[k].cutoff
       /\ Increasing(result.scores[i].steps)
  /\ \A i, j \in DOMAIN result.scores : i # j => result.scores[i] # result.scores[j]

PlanRefsSound(result) ==
  /\ Increasing(Column(result.plans, "cutoff"))
  /\ \A i \in DOMAIN result.plans : result.plans[i].cutoff <= result.finalStep

\* A directive for a snapshot, and exactly one receipt for each directive.
ReceiptRefsSound(result) ==
  LET issued == {result.directives[i].cutoff : i \in DOMAIN result.directives}
  IN  /\ Cardinality(issued) = Len(result.directives)
      /\ issued \subseteq {result.snapshots[k].cutoff : k \in DOMAIN result.snapshots}
      /\ {r.directive : r \in result.receipts} = issued
      /\ Cardinality(result.receipts) = Cardinality(issued)

\* The totals, the claim that moves were made, and the reported hash.
ClaimsSound(result, w) ==
  /\ SumFunction(result.counts) = ProposalsOf(result.directives)
  /\ result.mhPerformed <=> AppliedReceipts(result.receipts) # {}
  /\ result.report = w.spectral

\* The log kept its rows when it was marked.
LogsSound(result, w) ==
  /\ result.sourceCount = result.inferenceCount
  /\ result.inferenceCount = Len(w.log.rows)
  /\ result.finalStep = Last(w.log.rows).step
  /\ Column(w.source.rows, "step") = Column(w.log.rows, "step")

FinalsSound(result, w) ==
  /\ result.diagnostic = w.count
  /\ FinalFitAccepted(w.count, "count", w.log.rows)
  /\ FinalFitAccepted(w.spectral, "spectral", w.log.rows)
  /\ result.report.converged

LedgerSound(result, w) ==
  /\ result.events = Len(w.ledger)
  /\ result.counts = CountsOf(LedgerStates(w.ledger))

\* The references are those of the validated files, in their order.
RefsSound(result, w) ==
  /\ result.snapshots = SnapshotRefs(w.snapshots)
  /\ result.directives = DirectiveRefs(w.directives)
  /\ result.receipts = ReceiptRefs(w.receipts)
  /\ result.scores = ScoreRefs(w.scores)
  /\ result.plans = PlanRefs(w.plans)

\* Every use in the ledger is a row of the score artifact that it names.
UsesBound(w) ==
  \A i \in DOMAIN w.ledger : w.ledger[i].type = "corroboration" =>
    \E k \in DOMAIN w.scores : \E n \in DOMAIN w.scores[k].steps :
      /\ w.scores[k].snapshot = w.ledger[i].cutoff
      /\ w.scores[k].through = w.ledger[i].through
      /\ w.scores[k].steps[n] = w.ledger[i].step
      /\ w.scores[k].stations[n] = w.ledger[i].station
      /\ w.scores[k].ratios[w.ledger[i].name][n] = w.ledger[i].ratio

ResultAccepted(result, w) ==
  /\ SnapshotRefsSound(result)
  /\ ScoreRefsSound(result)
  /\ PlanRefsSound(result)
  /\ ReceiptRefsSound(result)
  /\ ClaimsSound(result, w)
  /\ LogsSound(result, w)
  /\ FinalsSound(result, w)
  /\ LedgerSound(result, w)
  /\ RefsSound(result, w)
  /\ UsesBound(w)

\* What stands between the last fit and the rename.
AuditPasses(w) ==
  /\ LedgerSummaryAccepted(w.ledger)
  /\ Reportable(w)
  /\ ResultAccepted(HybridResult(w), w)

=============================================================================
