---------------------------- MODULE ObservationUse ----------------------------
(***************************************************************************)
(* The two books that the v1 controller keeps on observations used for     *)
(* verification: VerificationQueue (hybrid/verification_queue.py), the     *)
(* candidates' states, and ObservationUseLedger (hybrid/ledger.py), the    *)
(* append-only events.  Both are values the controller keeps; each checks  *)
(* what it is told by rules of its own.                                    *)
(*                                                                         *)
(* A snapshot, its directive and its receipt have the snapshot's cutoff    *)
(* for their identity (at most one of each exists per cutoff); a candidate *)
(* has its cutoff and its name.  An event's index and the hash chain are   *)
(* its place in the sequence.  Ratios are integers.                        *)
(***************************************************************************)
EXTENDS Integers, FiniteSets, Sequences, SequencesExt

CONSTANTS
  Support, Reject,   \* thresholds of the cumulative log ratio
  MinFuture          \* observations before a verdict

ASSUME UseAssumption ==
  /\ Support \in Int /\ Support > 0
  /\ Reject \in Int /\ Reject < 0
  /\ MinFuture \in Nat \ {0}

Verdicts == {"pending", "verified", "quarantined"}

-----------------------------------------------------------------------------
(* VerificationQueue *)

NewCandidate == [state |-> "pending", steps |-> <<>>, sum |-> 0]

Keys(d) == {[cutoff |-> d.cutoff, name |-> n] : n \in d.proposals}

RegisterRefused(queue, d) == \E k \in DOMAIN queue : k.cutoff = d.cutoff

Register(queue, d) ==
  [k \in DOMAIN queue \union Keys(d) |-> IF k \in Keys(d) THEN NewCandidate ELSE queue[k]]

\* The refusals of corroborate: unknown, resolved, not future, not increasing.
CorroborateRefused(queue, k, step) ==
  \/ k \notin DOMAIN queue
  \/ queue[k].state # "pending"
  \/ step < k.cutoff + 1
  \/ queue[k].steps # <<>> /\ step <= Last(queue[k].steps)

VerdictOf(steps, sum) ==
  CASE Len(steps) >= MinFuture /\ sum >= Support -> "verified"
    [] Len(steps) >= MinFuture /\ sum <= Reject -> "quarantined"
    [] OTHER -> "pending"

Corroborate(queue, k, step, ratio) ==
  LET steps == Append(queue[k].steps, step)
      sum == queue[k].sum + ratio
  IN  [queue EXCEPT ![k] = [state |-> VerdictOf(steps, sum), steps |-> steps, sum |-> sum]]

-----------------------------------------------------------------------------
(* ObservationUseLedger *)

SnapshotEvent(s) == [type |-> "snapshot_registered", cutoff |-> s.cutoff, covered |-> s.covered]

DirectiveEvent(d) == [type |-> "directive_issued", cutoff |-> d.cutoff, proposals |-> d.proposals]

ReceiptEvent(r) == [type |-> "directive_receipt", cutoff |-> r.directive, status |-> r.status]

UseEvent(k, a, i, state) ==
  [type |-> "corroboration", cutoff |-> k.cutoff, name |-> k.name,
   step |-> a.steps[i], station |-> a.stations[i], ratio |-> a.ratios[k.name][i],
   through |-> a.through, state |-> state]

Events(ledger, type, cutoff) ==
  {ledger[i] : i \in {j \in DOMAIN ledger : ledger[j].type = type /\ ledger[j].cutoff = cutoff}}

\* The refusals of register_snapshot, issue_directive, record_receipt and
\* record_corroboration.
LedgerRefuses(ledger, e) ==
  CASE e.type = "snapshot_registered" -> Events(ledger, e.type, e.cutoff) # {}
    [] e.type = "directive_issued" ->
         \/ Events(ledger, "snapshot_registered", e.cutoff) = {}
         \/ Events(ledger, e.type, e.cutoff) # {}
    [] e.type = "directive_receipt" ->
         \/ Events(ledger, "directive_issued", e.cutoff) = {}
         \/ Events(ledger, e.type, e.cutoff) # {}
    [] e.type = "corroboration" ->
         \/ \A r \in Events(ledger, "directive_receipt", e.cutoff) : r.status # "applied"
         \/ \A d \in Events(ledger, "directive_issued", e.cutoff) : e.name \notin d.proposals
         \/ e.step <= e.cutoff
         \/ \E u \in Events(ledger, e.type, e.cutoff) : u.name = e.name /\ u.step = e.step

-----------------------------------------------------------------------------
(* Consuming a score artifact *)

\* Mutant: the ledger is told the state before the observation.
Used_OldState(use, k, a, i) ==
  LET queue == Corroborate(use.queue, k, a.steps[i], a.ratios[k.name][i])
      e == UseEvent(k, a, i, use.queue[k].state)
  IN  [queue |-> queue, ledger |-> Append(use.ledger, e),
       refused |-> \/ use.refused
                   \/ CorroborateRefused(use.queue, k, a.steps[i])
                   \/ LedgerRefuses(use.ledger, e)]

\* Row i of artifact a is used for candidate k: the queue first, then the
\* ledger, with the state the queue has come to.
Used(use, k, a, i) ==
  LET queue == Corroborate(use.queue, k, a.steps[i], a.ratios[k.name][i])
      e == UseEvent(k, a, i, queue[k].state)
  IN  [queue |-> queue, ledger |-> Append(use.ledger, e),
       refused |-> \/ use.refused
                   \/ CorroborateRefused(use.queue, k, a.steps[i])
                   \/ LedgerRefuses(use.ledger, e)]

\* Mutant: every row of the artifact counts, rows used before too.
ConsumeCandidate_Again(use, k, a) ==
  FoldLeftDomain(LAMBDA u, i : IF u.queue[k].state # "pending" THEN u ELSE Used(u, k, a, i),
                 use, a.steps)

\* The rows of artifact a for candidate k: none once it is resolved, and none
\* that was used before.
ConsumeCandidate(use, k, a) ==
  FoldLeftDomain(LAMBDA u, i : IF \/ u.queue[k].state # "pending"
                                  \/ Contains(u.queue[k].steps, a.steps[i])
                                 THEN u ELSE Used(u, k, a, i),
                 use, a.steps)

\* The artifact's candidates that a directive proposed.
Consume(use, a) ==
  FoldLeft(LAMBDA u, n : ConsumeCandidate(u, [cutoff |-> a.snapshot, name |-> n], a),
           use,
           SetToSeq({n \in DOMAIN a.ratios :
                       [cutoff |-> a.snapshot, name |-> n] \in DOMAIN use.queue}))

=============================================================================
