----------------------------- MODULE CausalReplay -----------------------------
(***************************************************************************)
(* HybridController.run (hybrid/controller.py), the causal v1 replay: for  *)
(* each declared station end the particle filter is run again from the     *)
(* first record with all directives so far, its receipts are taken in, its *)
(* predictions feed the scheduler, frozen snapshots are scored on the rows *)
(* that came after them, a triggered batch fit becomes a snapshot and its  *)
(* clusters a directive, and the planner may be asked for a recommendation.*)
(* Final fits and an audit of the whole run precede the one rename that    *)
(* publishes it; any exception removes the staging directory.              *)
(*                                                                         *)
(* What an estimator writes is chosen from a set that has wrong outputs    *)
(* too.  An output that its validator refuses ends the run (Discard);      *)
(* pc = "self_refused" is for the controller's checks of its own artifacts.*)
(***************************************************************************)
EXTENDS HybridAudit

CONSTANTS
  Inputs,          \* what a run is configured with: [rows, schedule, files, plans]
  Policy,          \* scheduler part of HybridConfig
  Deviances,       \* predictive deviances a record can have
  Names,           \* clusters a fit can find
  Ratios,          \* log predictive ratios a row can have
  Outcomes         \* outcomes a receipt can give a proposal

Sched == INSTANCE Scheduling

Ends == [station : Nat, step : Nat]

ASSUME NoneAssumption == None \notin Int
ASSUME PolicyAssumption == Policy \in Sched!PolicyRecords
ASSUME ValuesAssumption == Ratios \subseteq Int /\ Deviances \subseteq Nat /\ IsFiniteSet(Names)
ASSUME InputsAssumption ==
  \A in \in Inputs : in.rows \in Seq(Ends) /\ ValidRows(in.rows) /\ in.schedule \in Seq(Ends)

VARIABLES
  input,           \* the configuration and the source log
  disk,            \* [staging, target]: directories that outlive the process
  pc,              \* how far run() has come
  turn,            \* the station of the loop, counted from 1
  sched,           \* HybridScheduler: [core, lastStation]
  trigger,         \* the station's trigger, if any
  snapshots,       \* in the order they were taken
  directives,      \* in the order they were issued
  receipts,        \* the accepted receipts, by directive
  queue,           \* VerificationQueue
  ledger,          \* ObservationUseLedger
  scores,          \* the accepted score artifacts
  plans,           \* the accepted recommendations
  finals           \* the final fits

collected == <<snapshots, directives, receipts, queue, ledger, scores, plans>>
memory == <<turn, sched, trigger, collected, finals>>
vars == <<input, disk, pc, memory>>

-----------------------------------------------------------------------------
FreshScheduler == [core |-> Sched!FreshScheduler, lastStation |-> -1]

\* The state of a process that enters run().
FreshMemory ==
  /\ turn = 1
  /\ sched = FreshScheduler
  /\ trigger = FALSE
  /\ snapshots = <<>> /\ directives = <<>>
  /\ receipts = <<>>
  /\ queue = <<>> /\ ledger = <<>>
  /\ scores = <<>> /\ plans = <<>>
  /\ finals = <<>>

Init ==
  /\ input \in Inputs
  /\ disk = [staging |-> FALSE, target |-> FALSE]
  /\ pc = "idle"
  /\ FreshMemory

\* HybridRunConfig.load and the schedule's own checks.
Configured(in) ==
  /\ ScheduleCreated(in.schedule)
  /\ in.plans \subseteq {in.schedule[k].step : k \in DOMAIN in.schedule}

Accepted(in) == Configured(in) /\ BoundariesAccepted(in.rows, in.schedule)

Source == SourceLog(input.rows, input.files)
Marked == MarkedLog(Source, input.schedule)

Here == input.schedule[turn]
Count(step) == CHOOSE n \in DOMAIN input.rows : input.rows[n].step = step
HereCount == Count(Here.step)
DoneCount == IF turn = 1 THEN 0 ELSE Count(input.schedule[turn - 1].step)
Prefix == PrefixThrough(Marked, input.schedule, HereCount)

\* run() finds an output or a stale staging directory.
StartRefused ==
  /\ pc = "idle"
  /\ disk.target \/ disk.staging
  /\ pc' = "refused"
  /\ UNCHANGED <<input, disk, memory>>

\* Mutant: the declaration is not compared with the log.
Start_Unchecked ==
  /\ pc = "idle"
  /\ ~disk.target /\ ~disk.staging
  /\ pc' = IF Configured(input) THEN "pf" ELSE "discarded"
  /\ disk' = [disk EXCEPT !.staging = Configured(input)]
  /\ UNCHANGED <<input, memory>>

\* Staging is made and the declaration checked against the log.
Start ==
  /\ pc = "idle"
  /\ ~disk.target /\ ~disk.staging
  /\ pc' = IF Accepted(input) THEN "pf" ELSE "discarded"
  /\ disk' = [disk EXCEPT !.staging = Accepted(input)]
  /\ UNCHANGED <<input, memory>>

-----------------------------------------------------------------------------
(* Particle filter, receipts, scheduler *)

Issued == {directives[i].cutoff : i \in DOMAIN directives}
DirectiveOf(c) == CHOOSE d \in ToSet(directives) : d.cutoff = c
SnapshotOf(c) == CHOOSE s \in ToSet(snapshots) : s.cutoff = c

\* Receipts a run of the particle filter can write for a directive.
PossibleReceipts(c) ==
  [directive : {c}, status : {"applied"}, appliedAfter : {c, c + 1}, next : {c + 1},
   outcomes : {[n \in DirectiveOf(c).proposals |-> o] : o \in Outcomes}]
  \union
  [directive : {c}, status : {"rejected"}, appliedAfter : {c}, next : {c + 1},
   outcomes : {[n \in DirectiveOf(c).proposals |->
                  [label |-> "not_applied", attempts |-> 0, accepted |-> 0, rejected |-> 0,
                   notSampled |-> 0, eligible |-> 0, scalars |-> FALSE]]}]

\* The receipts of one run: for any of the directives it was given.
Emissions == UNION {[S -> UNION {PossibleReceipts(c) : c \in S}] : S \in SUBSET Issued}

EmissionAccepted(emitted) ==
  \A c \in DOMAIN emitted :
    /\ c \in Issued
    /\ ReceiptAccepted(emitted[c], DirectiveOf(c))
    /\ c \in DOMAIN receipts => receipts[c] = emitted[c]

NewReceipts(emitted) == DOMAIN emitted \ DOMAIN receipts

\* The ledger's receipt events for the new receipts, in file order.
ReceiptEvents(emitted) ==
  LET new == SetToSeq(NewReceipts(emitted))
  IN  [i \in DOMAIN new |-> ReceiptEvent(emitted[new[i]])]

AllEntered(book, events) ==
  \A i \in DOMAIN events : ~LedgerRefuses(book \o SubSeq(events, 1, i - 1), events[i])

\* _ingest_receipts; own says that no check of the controller's own raised.
IngestReceipts(emitted) ==
  /\ EmissionAccepted(emitted)
  /\ receipts' = [c \in DOMAIN receipts \union DOMAIN emitted |->
                    IF c \in DOMAIN receipts THEN receipts[c] ELSE emitted[c]]
  /\ ledger' = ledger \o ReceiptEvents(emitted)

IngestChecks(emitted) ==
  /\ \A c \in NewReceipts(emitted) : ReceiptConstructs(emitted[c])
  /\ AllEntered(ledger, ReceiptEvents(emitted))

\* The monitor's signals for the rows since the last station.
Signals(deviances) ==
  [i \in 1..(HereCount - DoneCount) |->
     LET row == Marked.rows[DoneCount + i]
     IN  [step |-> row.step, station |-> row.station, deviance |-> deviances[i], bins |-> 1,
          complete |-> AssertsComplete(input.schedule, row.station, row.step)]]

\* HybridScheduler.consider: what it refuses and what it becomes.
Unheard(s, g) ==
  \/ Sched!OutOfOrder(s.core, g)
  \/ g.complete /\ g.station <= s.lastStation

Heard(s, g) ==
  [core |-> Sched!Considered(Policy, s.core, g),
   lastStation |-> IF g.complete THEN g.station ELSE s.lastStation]

HeardAll(signals) == FoldLeft(Heard, sched, signals)

SignalsInOrder(signals) ==
  \A i \in DOMAIN signals : ~Unheard(FoldLeft(Heard, sched, SubSeq(signals, 1, i - 1)), signals[i])

\* The stages of a station that are due after the one named.
PlanDue == Here.step \in input.plans
Scoreable(q, r) ==
  {k \in DOMAIN q : /\ q[k].state = "pending"
                    /\ k.cutoff < Here.step
                    /\ k.cutoff \in DOMAIN r
                    /\ r[k.cutoff].status = "applied"}

AfterFit == IF PlanDue THEN "plan" ELSE "next"
AfterScore(triggered) == IF triggered THEN "fit" ELSE AfterFit
AfterPF(triggered, scoreable) == IF scoreable # {} THEN "score" ELSE AfterScore(triggered)

\* One turn of the station loop up to its stages, which need the prefix.
ReplayStation ==
  /\ pc = "pf"
  /\ \E deviances \in [1..(HereCount - DoneCount) -> Deviances], emitted \in Emissions :
       LET signals == Signals(deviances)
           stage == AfterPF(trigger', Scoreable(queue, receipts'))
       IN  /\ IngestReceipts(emitted)
           /\ sched' = HeardAll(signals)
           /\ trigger' = (sched'.core.cutoffs # sched.core.cutoffs)
           /\ pc' = IF /\ IngestChecks(emitted)
                       /\ SignalsInOrder(signals)
                       /\ sched'.core.cutoffs \ sched.core.cutoffs \subseteq {Here.step}
                       /\ stage # "next" => /\ PrefixAllowed(Marked, HereCount)
                                            /\ PrefixBound(Prefix, input.schedule)
                      THEN stage
                      ELSE "self_refused"
  /\ UNCHANGED <<input, disk, turn, snapshots, directives, queue, scores, plans, finals>>

-----------------------------------------------------------------------------
(* Future scores *)

ScoreableNow == Scoreable(queue, receipts)
ScoreableSnapshots == {k.cutoff : k \in ScoreableNow}

\* Row windows a scorer can come up with: right, from the cutoff row on, or
\* without the last row.
Windows(c) ==
  LET right == LaterRows(Prefix.log.rows, c)
  IN  {right, LaterRows(Prefix.log.rows, c - 1), Front(right)}

\* The ratio an earlier artifact gave to a row, if one did.
Recorded(k, step) ==
  LET uses == {e \in Events(ledger, "corroboration", k.cutoff) : e.name = k.name /\ e.step = step}
  IN  IF uses = {} THEN 0 ELSE (CHOOSE e \in uses : TRUE).ratio

\* The artifact with the rows of w: open candidates are given ratios for fresh
\* rows, and the scorer repeats itself on the others.
Artifact(c, w, open, fresh, ratio) ==
  [snapshot |-> c, through |-> Here.step,
   steps |-> Column(w, "step"), stations |-> Column(w, "station"),
   ratios |-> [n \in SnapshotOf(c).clusters |->
     [i \in DOMAIN w |->
        IF n \in open /\ w[i].step \in fresh THEN ratio[n][w[i].step]
        ELSE Recorded([cutoff |-> c, name |-> n], w[i].step)]]]

\* Score artifacts for the snapshot at c with the rows of w, and with any ratios
\* for the rows that are new to a pending candidate.
Artifacts(c, w) ==
  LET open == {k.name : k \in {j \in ScoreableNow : j.cutoff = c}}
      fresh == {r.step : r \in {s \in ToSet(Prefix.log.rows) :
                  \E n \in open : s.step > c /\ Recorded([cutoff |-> c, name |-> n], s.step) = 0}}
  IN  {Artifact(c, w, open, fresh, ratio) : ratio \in [open -> [fresh -> Ratios]]}

\* The snapshots of this station that have no artifact yet.
Unscored(artifacts) ==
  ScoreableSnapshots \ {a.snapshot : a \in {b \in ToSet(artifacts) : b.through = Here.step}}

\* _score_future_candidates, one snapshot: an artifact for the oldest that has
\* a pending candidate, consumed row by row.
Score ==
  /\ pc = "score"
  /\ LET c == CHOOSE s \in Unscored(scores) : \A other \in Unscored(scores) : s <= other
     IN  \E w \in Windows(c) : \E a \in Artifacts(c, w) :
           LET use == Consume([queue |-> queue, ledger |-> ledger, refused |-> FALSE], a)
           IN  /\ ScoreAccepted(a, SnapshotOf(c), Prefix.log.rows)
               /\ scores' = Append(scores, a)
               /\ queue' = use.queue
               /\ ledger' = use.ledger
               /\ pc' = IF use.refused THEN "self_refused"
                        ELSE IF Unscored(scores) = {c} THEN AfterScore(trigger)
                        ELSE "score"
  /\ UNCHANGED <<input, disk, turn, sched, trigger, snapshots, directives, receipts, plans, finals>>

-----------------------------------------------------------------------------
(* Batch fit, snapshot, directive *)

Previous == IF snapshots = <<>> THEN None ELSE Last(snapshots).cutoff

\* What a batch fit can claim: cold or warmed by an earlier fit, over the
\* prefix, over the rows of an earlier fit or over the complete log.
FitOutputs ==
  LET lineages == {<<"cold", None>>} \union {<<"warm", s.cutoff>> : s \in ToSet(snapshots)}
      covers == {Prefix.log.rows, Marked.rows} \union {s.fit.rows : s \in ToSet(snapshots)}
  IN  {[mode |-> "count", attestation |-> "covered_prefix_markers_v1", rows |-> rows,
        kind |-> l[1], from |-> l[2]] : l \in lineages, rows \in covers}

\* The fit becomes a snapshot, which is validated and entered, and the
\* clusters the filter can use become a directive, if there are any.
Fit ==
  /\ pc = "fit"
  /\ \E fit \in FitOutputs, found \in SUBSET Names : \E proposals \in SUBSET found :
       LET s == BuiltSnapshot(Prefix, fit, found, Previous)
           d == BuiltDirective(s, proposals)
           proposed == proposals # {}
           entered == Append(ledger, SnapshotEvent(s))
       IN  /\ FitAccepted(fit, Prefix.log.rows, Previous)
           /\ snapshots' = Append(snapshots, s)
           /\ directives' = IF proposed THEN Append(directives, d) ELSE directives
           /\ queue' = IF proposed THEN Register(queue, d) ELSE queue
           /\ ledger' = IF proposed THEN Append(entered, DirectiveEvent(d)) ELSE entered
           /\ pc' = IF /\ SnapshotAccepted(s, Prefix, Previous)
                       /\ ~LedgerRefuses(ledger, SnapshotEvent(s))
                       /\ proposed => /\ DirectiveAccepted(d, s)
                                      /\ ~LedgerRefuses(entered, DirectiveEvent(d))
                                      /\ ~RegisterRefused(queue, d)
                      THEN AfterFit
                      ELSE "self_refused"
  /\ UNCHANGED <<input, disk, turn, sched, trigger, receipts, scores, plans, finals>>

-----------------------------------------------------------------------------
(* Planning recommendation *)

\* A planner can leave candidates out, or move the particles.
Recommendations ==
  [cutoff : {Here.step}, station : {Here.station}, mutated : BOOLEAN,
   included : SUBSET DOMAIN queue, excluded : SUBSET DOMAIN queue]

Plan ==
  /\ pc = "plan"
  /\ \E p \in Recommendations :
       /\ RecommendationAccepted(p, PlanningRequest(Here.step, Here.station, queue))
       /\ plans' = Append(plans, p)
  /\ pc' = "next"
  /\ UNCHANGED <<input, disk, turn, sched, trigger, snapshots, directives, receipts, queue,
                 ledger, scores, finals>>

NextStation ==
  /\ pc = "next"
  /\ IF turn < Len(input.schedule)
       THEN turn' = turn + 1 /\ pc' = "pf"
       ELSE turn' = turn /\ pc' = "final_pf"
  /\ UNCHANGED <<input, disk, sched, trigger, collected, finals>>

-----------------------------------------------------------------------------
(* Final replay, final fits, publication *)

\* The last run has to have a receipt for every directive.
FinalPF ==
  /\ pc = "final_pf"
  /\ \E emitted \in Emissions :
       /\ IngestReceipts(emitted)
       /\ Issued \subseteq DOMAIN receipts'
       /\ pc' = IF IngestChecks(emitted) THEN "final_fits" ELSE "self_refused"
  /\ UNCHANGED <<input, disk, turn, sched, trigger, snapshots, directives, queue, scores, plans,
                 finals>>

\* What a final fit can claim; only the spectral one is asked for convergence.
FinalOutputs(m) ==
  LET lineages == {<<"cold", None>>} \union {<<"warm", s.cutoff>> : s \in ToSet(snapshots)}
      covers == {Marked.rows} \union {s.fit.rows : s \in ToSet(snapshots)}
  IN  {[mode |-> m, attestation |-> "finalized_measurement_log", rows |-> rows,
        kind |-> l[1], from |-> l[2], converged |-> c] :
         l \in lineages, rows \in covers, c \in {TRUE, m = "count"}}

FinalFits ==
  /\ pc = "final_fits"
  /\ \E count \in FinalOutputs("count") :
       /\ FinalFitAccepted(count, "count", Marked.rows)
       /\ \E spectral \in FinalOutputs("spectral") :
            /\ FinalFitAccepted(spectral, "spectral", Marked.rows)
            /\ finals' = [count |-> count, spectral |-> spectral]
  /\ pc' = "publish"
  /\ UNCHANGED <<input, disk, turn, sched, trigger, collected>>

\* The run as its reports see it.
Run ==
  [source |-> Source, log |-> Marked, snapshots |-> snapshots, directives |-> directives,
   receipts |-> receipts, queue |-> queue, ledger |-> ledger, scores |-> scores, plans |-> plans,
   count |-> finals.count, spectral |-> finals.spectral]

\* The reports are written and audited, and staging becomes the target.
Publish ==
  /\ pc = "publish"
  /\ finals.spectral.converged
  /\ IF AuditPasses(Run)
       THEN pc' = "published" /\ disk' = [staging |-> FALSE, target |-> TRUE]
       ELSE pc' = "self_refused" /\ UNCHANGED disk
  /\ UNCHANGED <<input, memory>>

-----------------------------------------------------------------------------
(* The ways a run ends *)

Active == {"pf", "score", "fit", "plan", "next", "final_pf", "final_fits", "publish"}

\* The books go with the process.
Forget ==
  /\ turn' = 1 /\ sched' = FreshScheduler /\ trigger' = FALSE
  /\ snapshots' = <<>> /\ directives' = <<>> /\ receipts' = <<>>
  /\ queue' = <<>> /\ ledger' = <<>> /\ scores' = <<>> /\ plans' = <<>> /\ finals' = <<>>

\* An estimator failed or wrote what its validator refuses.
Discard ==
  /\ pc \in Active \ {"next"}
  /\ pc' = "discarded"
  /\ disk' = [disk EXCEPT !.staging = FALSE]
  /\ Forget
  /\ UNCHANGED input

\* The process is killed; no handler runs.
Kill ==
  /\ pc \in Active
  /\ pc' = "killed"
  /\ Forget
  /\ UNCHANGED <<input, disk>>

\* The command is given again.
Rerun ==
  /\ pc \in {"discarded", "killed", "published"}
  /\ pc' = "idle"
  /\ Forget
  /\ UNCHANGED <<input, disk>>

Next ==
  \/ StartRefused \/ Start
  \/ ReplayStation \/ Score \/ Fit \/ Plan \/ NextStation
  \/ FinalPF \/ FinalFits \/ Publish
  \/ Discard \/ Kill \/ Rerun

Spec == Init /\ [][Next]_vars

-----------------------------------------------------------------------------
(* Properties *)

StepsThrough(n) == Column(SubSeq(input.rows, 1, n), "step")

\* Type invariant: control, station, books, and how they refer to each other.
TypeOK ==
  /\ input \in Inputs
  /\ disk \in [staging : BOOLEAN, target : BOOLEAN]
  /\ pc \in Active \union {"idle", "refused", "discarded", "killed", "published", "self_refused"}
  /\ turn \in 1..Len(input.schedule) \union {1}
  /\ sched.core \in Sched!SchedulerStates
  /\ trigger \in BOOLEAN
  /\ DOMAIN receipts \subseteq Issued
  /\ \A k \in DOMAIN queue : k.cutoff \in Issued /\ queue[k].state \in Verdicts
  /\ Issued \subseteq {s.cutoff : s \in ToSet(snapshots)}

UsesOf(book, k, through) ==
  Kept(book, {i \in DOMAIN book : /\ book[i].type = "corroboration"
                                  /\ book[i].cutoff = k.cutoff /\ book[i].name = k.name
                                  /\ book[i].through <= through})

Total(seq) == FoldLeft(LAMBDA a, b : a + b, 0, seq)

\* The ledger alone tells what the controller keeps elsewhere: the verdict,
\* the evidence and the sum of every candidate, the status of every receipt
\* and the snapshots; and it tells what each plan was made with: of the
\* candidates proposed by its cutoff, those that the evidence through that
\* cutoff had not quarantined.  Queue and ledger are written one after the
\* other by different rules (ledger.py:228, verification_queue.py:69).
LedgerTellsAll ==
  pc # "self_refused" =>
    /\ LedgerStates(ledger) = [k \in DOMAIN queue |-> queue[k].state]
    /\ \A k \in DOMAIN queue :
         LET uses == UsesOf(ledger, k, Last(input.rows).step)
         IN  /\ Column(uses, "step") = queue[k].steps
             /\ Total(Column(uses, "ratio")) = queue[k].sum
    /\ {<<e.cutoff, e.status>> : e \in {f \in ToSet(ledger) : f.type = "directive_receipt"}}
         = {<<c, receipts[c].status>> : c \in DOMAIN receipts}
    /\ Column(Kept(ledger, {i \in DOMAIN ledger : ledger[i].type = "snapshot_registered"}), "cutoff")
         = Column(snapshots, "cutoff")
    /\ \A p \in ToSet(plans) :
         p.included = {k \in DOMAIN queue :
                         /\ k.cutoff <= p.cutoff
                         /\ LET uses == UsesOf(ledger, k, p.cutoff)
                            IN  uses # <<>> => Last(uses).state # "quarantined"}

LaterSteps(c, n) == Column(LaterRows(SubSeq(input.rows, 1, n), c), "step")

\* A candidate is judged by the rows right after its cutoff, each once and
\* with none left out; when the loop comes to a station, a pending candidate
\* that was applied has used every row up to it; and a published run leaves
\* none half used: only a receipt of the last replay comes too late for any
\* scoring (controller.py:917).
EvidenceIsTheFuture ==
  \A k \in DOMAIN queue :
    LET later == LaterSteps(k.cutoff, Len(input.rows))
        applied == k.cutoff \in DOMAIN receipts /\ receipts[k.cutoff].status = "applied"
    IN  /\ IsPrefix(queue[k].steps, later)
        /\ pc = "pf" /\ queue[k].state = "pending" /\ applied =>
             queue[k].steps = LaterSteps(k.cutoff, DoneCount)
        /\ pc = "published" /\ queue[k].state = "pending" =>
             queue[k].steps \in {<<>>, later}

TrueEnds == {i \in DOMAIN input.rows : EndsStation(input.rows, i)}

\* The fits behind the snapshots are one lineage: each covers exactly the
\* rows through a real end of a station, beyond the one before it; the first
\* is cold and every other is warmed by the one just before it.
LineageIsAChain ==
  \A i \in DOMAIN snapshots :
    /\ \E n \in TrueEnds : /\ snapshots[i].covered = StepsThrough(n)
                            /\ Column(snapshots[i].fit.rows, "step") = StepsThrough(n)
    /\ IF i = 1
         THEN snapshots[i].fit.kind = "cold"
         ELSE /\ snapshots[i].fit.kind = "warm"
              /\ snapshots[i].fit.from = snapshots[i - 1].cutoff
              /\ snapshots[i - 1].cutoff < snapshots[i].cutoff

\* The checks the controller makes of its own artifacts, of its scheduler, of
\* queue against ledger and of the whole run before the rename never fire: a
\* run whose estimators' outputs were all accepted is published.
ChecksNeverFire == pc # "self_refused"

\* What a batch fit at a station is given depends on nothing after it: a log
\* with the same rows, declared ends and named files up to there, and
\* anything at all afterwards, gives the same prefix, digests included.
PrefixIsCausal ==
  pc \in Active => \A other \in Inputs \ {input} :
    /\ IsPrefix(SubSeq(input.rows, 1, HereCount), other.rows)
    /\ IsPrefix(SubSeq(input.schedule, 1, turn), other.schedule)
    /\ Accepted(other)
    /\ InvariantFiles(other.files) = InvariantFiles(input.files)
    /\ \A f \in InvariantFiles(input.files) : other.files[f] = input.files[f]
    => PrefixThrough(MarkedLog(SourceLog(other.rows, other.files), other.schedule),
                     other.schedule, HereCount) = Prefix

=============================================================================
