--------------------------- MODULE HybridMission ---------------------------
(***************************************************************************)
(* The resumable live mission of src/orchestrator/hybrid_v2: the mission   *)
(* controller (mission.py) with its hash-chained ledger                    *)
(* (mission_ledger.py) and its state file, over the live planner, the live *)
(* estimator updater and the adaptive runtime as the controller meets      *)
(* them.                                                                   *)
(*                                                                         *)
(* The controller runs in one process that can die at any moment.  A       *)
(* handler is therefore split where it makes something durable (a ledger   *)
(* line, the state file, the planner's result directory, the updater's     *)
(* state file) or waits for the runtime: the process can be lost between   *)
(* any two of these steps and nowhere else with a different outcome.       *)
(* Ledger heads are hashes of a chain; the model names a head by the       *)
(* length of the chain it stands for, and a measurement-log prefix by its  *)
(* last step, which is what collision-free hashes of append-only data      *)
(* tell apart.                                                             *)
(***************************************************************************)
EXTENDS Integers, Sequences

CONSTANTS
  Programs,          \* lengths a planned shield program can have
  Costs,             \* times one action may take: [live, travel, shield]
  Budget,            \* [actions, total, live, travel, shield]
  MaxFaults,         \* bound on crashes and lost answers
  TornWrites,        \* whether a crash can leave part of a ledger line
  Nothing            \* Python's None

Seconds == [live : Nat, travel : Nat, shield : Nat]

ASSUME ProgramsAssumption == Programs \subseteq Nat \ {0}
ASSUME CostsAssumption == Costs \subseteq Seconds
ASSUME BudgetAssumption == Budget \in [actions : Nat \ {0}, total : Nat, live : Nat,
                                      travel : Nat, shield : Nat]
ASSUME FaultsAssumption == MaxFaults \in Nat /\ TornWrites \in BOOLEAN

VARIABLES
  \* durable, written by the orchestrator
  ledger,            \* mission_ledger.jsonl, one entry per line
  tail,              \* what the last write left at the end of that file
  saved,             \* mission_state.json
  plans,             \* hybrid_planning_recommendation.json, per cutoff
  planDirs,          \* cutoffs whose planner result directory exists
  estimated,         \* last_step of live_estimator_state.json
  doomed,            \* the estimator operation that fails whenever it is retried
  \* durable, owned by the runtime
  receipts,          \* action receipts
  recorded,          \* records in the runtime's MeasurementLog
  published,         \* the log has been finalized
  \* volatile
  pc,                \* where the controller process is
  mem,               \* HybridMissionController.state
  inflight,          \* decisions sent to a runtime process, not yet answered
  refusal,           \* the error the last process ended with
  faults             \* crashes and lost answers so far (bounded)

durable == <<ledger, tail, saved, plans, planDirs, estimated, doomed>>
runtime == <<receipts, recorded, published, inflight>>
vars == <<durable, runtime, pc, mem, refusal, faults>>

-----------------------------------------------------------------------------
(* Data *)

Phases == {"ready", "action_proposed", "action_realized",
           "observation_appended", "estimators_updated", "complete"}
BetweenActions == {"ready", "estimators_updated"}

Decisions == [cutoff : Nat \union {-1}, station : Nat,
              program : Programs \union {1}]
Receipts == [decision : Decisions, first : Nat, cost : Costs]
Entries ==
  [event : {"action_proposed"}, body : Decisions]
    \union [event : {"action_realized", "observation_appended", "estimators_updated"},
            body : Receipts]
    \union [event : {"mission_completed"}, body : {Nothing}]

\* step_id of the last record a receipt carries
LastStep(r) == r.first + r.decision.program - 1

NoTime == [live |-> 0, travel |-> 0, shield |-> 0]
AddTime(s, c) == [live |-> s.live + c.live,
                  travel |-> s.travel + c.travel,
                  shield |-> s.shield + c.shield]

\* MissionState, with what _require_proposed and _require_realized demand.
States ==
  {m \in [phase : Phases, actions : Nat, step : Nat \union {-1},
          station : Nat \union {-1}, spent : Seconds,
          proposed : Decisions \union {Nothing},
          realized : Receipts \union {Nothing},
          head : Nat] :
     /\ m.phase = "action_proposed" => m.proposed \in Decisions
     /\ m.phase \in {"action_realized", "observation_appended"} => m.realized \in Receipts}

ASSUME NothingAssumption == Nothing \notin States

FreshState == [phase |-> "ready", actions |-> 0, step |-> -1, station |-> -1,
               spent |-> NoTime, proposed |-> Nothing, realized |-> Nothing,
               head |-> 0]

BudgetExhausted(m) ==
  \/ m.actions >= Budget.actions
  \/ m.spent.live + m.spent.travel + m.spent.shield >= Budget.total
  \/ m.spent.live >= Budget.live
  \/ m.spent.travel >= Budget.travel
  \/ m.spent.shield >= Budget.shield

Entry(event, body) == [event |-> event, body |-> body]

\* Mutant: the station of the closed action is not remembered.
AfterUpdate_KeepsStation(m) ==
  [m EXCEPT !.phase = "estimators_updated", !.actions = @ + 1,
            !.step = LastStep(m.realized), !.spent = AddTime(@, m.realized.cost),
            !.proposed = Nothing, !.realized = Nothing]

AfterUpdate(m) ==
  [m EXCEPT !.phase = "estimators_updated", !.actions = @ + 1,
            !.step = LastStep(m.realized),
            !.station = m.realized.decision.station,
            !.spent = AddTime(@, m.realized.cost),
            !.proposed = Nothing, !.realized = Nothing]

\* The state change that goes with each ledger entry: the end of the handler
\* that writes it, and the branch of _recover_state_from_ledger that meets it
\* after a crash.  Both read the records from the realized action in memory.
AfterEntry(m, e) ==
  CASE e.event = "action_proposed" ->
         [m EXCEPT !.phase = "action_proposed", !.proposed = e.body,
                   !.realized = Nothing]
    [] e.event = "action_realized" ->
         [m EXCEPT !.phase = "action_realized", !.realized = e.body]
    [] e.event = "observation_appended" ->
         [m EXCEPT !.phase = "observation_appended"]
    [] e.event = "estimators_updated" -> AfterUpdate(m)
    [] OTHER -> [m EXCEPT !.phase = "complete"]

\* The phase guards of _recover_state_from_ledger.
Accepts(m, e) ==
  CASE e.event = "action_proposed" -> m.phase \in BetweenActions
    [] e.event = "action_realized" -> m.phase = "action_proposed"
    [] e.event = "observation_appended" -> m.phase = "action_realized"
    [] e.event = "estimators_updated" ->
         m.phase = "observation_appended" /\ LastStep(e.body) = LastStep(m.realized)
    [] OTHER -> m.phase \in BetweenActions

-----------------------------------------------------------------------------
(* Starting: LiveSpectralHybridRunner.run builds the controller, which reads *)
(* the ledger and the state file and replays what the state file lacks.      *)

Init ==
  /\ ledger = <<>>
  /\ tail = "whole"
  /\ saved = Nothing
  /\ plans = {}
  /\ planDirs = {}
  /\ estimated = -1
  /\ doomed = "no"
  /\ receipts = {}
  /\ recorded = 0
  /\ published = FALSE
  /\ pc = "down"
  /\ mem = FreshState
  /\ inflight = {}
  /\ refusal = "none"
  /\ faults = 0

\* Mutant: the replay starts at the first entry, over the saved state.
Restart_FromGenesis ==
  /\ pc = "down"
  /\ tail # "unreadable"
  /\ refusal' = "none"
  /\ IF saved = Nothing
       THEN mem' = FreshState /\ pc' = "created"
       ELSE /\ mem' = [saved EXCEPT !.head = 0]
            /\ pc' = IF saved.head = Len(ledger) THEN "loop" ELSE "replaying"
  /\ UNCHANGED <<durable, runtime, faults>>

Restart ==
  /\ pc = "down"
  /\ tail # "unreadable"
  /\ refusal' = "none"
  /\ IF saved = Nothing
       THEN /\ mem' = [FreshState EXCEPT !.head = Len(ledger)]
            /\ pc' = "created"
       ELSE /\ mem' = saved
            /\ pc' = IF saved.head = Len(ledger) THEN "loop" ELSE "replaying"
  /\ UNCHANGED <<durable, runtime, faults>>

\* MissionLedger._load rejects a file with a line it cannot decode.
LedgerRefuses ==
  /\ pc = "down"
  /\ tail = "unreadable"
  /\ refusal' = "ledger"
  /\ UNCHANGED <<durable, runtime, pc, mem, faults>>

\* Mutant: a replayed update does not count its action and its times again.
ReplayEntry_ForgetsTimes ==
  /\ pc = "replaying"
  /\ mem.head < Len(ledger)
  /\ LET e == ledger[mem.head + 1]
     IN  /\ Accepts(mem, e)
         /\ mem' = [AfterEntry(mem, e) EXCEPT !.head = mem.head + 1,
                                              !.actions = mem.actions,
                                              !.spent = mem.spent]
  /\ UNCHANGED <<durable, runtime, pc, refusal, faults>>

ReplayEntry ==
  /\ pc = "replaying"
  /\ mem.head < Len(ledger)
  /\ LET e == ledger[mem.head + 1]
     IN  /\ Accepts(mem, e)
         /\ mem' = [AfterEntry(mem, e) EXCEPT !.head = mem.head + 1]
  /\ UNCHANGED <<durable, runtime, pc, refusal, faults>>

\* Mutant: the file keeps the head the state had when it was read.
SaveState_OldHead ==
  /\ pc \in {"created", "saving"} \/ (pc = "replaying" /\ mem.head = Len(ledger))
  /\ saved' = mem
  /\ pc' = "loop"
  /\ UNCHANGED <<ledger, tail, plans, planDirs, estimated,
                doomed, runtime, mem, refusal, faults>>

\* _save: after construction, after a replay, and after every ledger entry.
SaveState ==
  /\ \/ pc \in {"created", "saving"}
     \/ pc = "replaying" /\ mem.head = Len(ledger)
  /\ mem' = [mem EXCEPT !.head = Len(ledger)]
  /\ saved' = [mem EXCEPT !.head = Len(ledger)]
  /\ pc' = "loop"
  /\ UNCHANGED <<ledger, tail, plans, planDirs, estimated,
                doomed, runtime, refusal, faults>>

-----------------------------------------------------------------------------
(* Appending to the ledger: one line written and fsynced, then the state in  *)
(* memory.  A line that follows one whose newline was lost joins it.         *)

\* Mutant: the ledger file is opened for writing, not for appending.
WriteEntry_Truncates(e) ==
  /\ ledger' = <<e>>
  /\ tail' = "whole"
  /\ mem' = AfterEntry(mem, e)
  /\ pc' = "saving"
  /\ UNCHANGED <<saved, plans, planDirs, estimated, doomed, runtime, refusal, faults>>

WriteEntry(e) ==
  /\ ledger' = Append(ledger, e)
  /\ tail' = IF tail = "unterminated" THEN "unreadable" ELSE tail
  /\ mem' = AfterEntry(mem, e)
  /\ pc' = "saving"
  /\ UNCHANGED <<saved, plans, planDirs, estimated, doomed, runtime, refusal, faults>>

-----------------------------------------------------------------------------
(* _propose *)

Proposing ==
  /\ pc = "loop"
  /\ mem.phase \in BetweenActions
  /\ ~BudgetExhausted(mem)

Bootstrap == [cutoff |-> -1, station |-> 0, program |-> 1]

\* The planner answers from its prefix only when the estimators stand at the
\* mission's own cutoff.
Planned(m) ==
  IF m.step = -1 THEN {Bootstrap}
  ELSE {d \in plans : d.cutoff = m.step /\ estimated = m.step}

PriorDecisions == {ledger[i].body : i \in {j \in DOMAIN ledger :
                                             ledger[j].event = "action_proposed"}}

ProposalEntries ==
  IF Proposing
  THEN {Entry("action_proposed", d) : d \in Planned(mem) \ PriorDecisions}
  ELSE {}

\* Mutant: the proposal reaches the state file only.
Propose_WithoutLedger ==
  /\ \E e \in ProposalEntries : mem' = AfterEntry(mem, e)
  /\ pc' = "saving"
  /\ UNCHANGED <<durable, runtime, refusal, faults>>

Propose == \E e \in ProposalEntries : WriteEntry(e)

\* Mutants: no special case for the first action; no reuse of a plan found.
NeedsPlan_Bootstrap ==
  Proposing /\ estimated = mem.step /\ \A d \in plans : d.cutoff # mem.step

NeedsPlan_NoReuse == Proposing /\ mem.step # -1 /\ estimated = mem.step

NeedsPlan ==
  /\ Proposing
  /\ mem.step # -1
  /\ estimated = mem.step
  /\ \A d \in plans : d.cutoff # mem.step

\* output.mkdir(exist_ok=False)
BeginPlan ==
  /\ NeedsPlan
  /\ mem.step \notin planDirs
  /\ planDirs' = planDirs \union {mem.step}
  /\ pc' = "planning"
  /\ UNCHANGED <<ledger, tail, saved, plans, estimated,
                doomed, runtime, mem, refusal, faults>>

PlannerRefuses ==
  /\ NeedsPlan
  /\ mem.step \in planDirs
  /\ refusal' = "planner"
  /\ pc' = "down"
  /\ UNCHANGED <<durable, runtime, mem, faults>>

\* plan_from_checkpoint publishes the recommendation atomically.
WritePlan ==
  /\ pc = "planning"
  /\ \E n \in Programs :
       plans' = plans \union
         {[cutoff |-> mem.step, station |-> mem.station + 1, program |-> n]}
  /\ pc' = "loop"
  /\ UNCHANGED <<ledger, tail, saved, planDirs, estimated,
                doomed, runtime, mem, refusal, faults>>

-----------------------------------------------------------------------------
(* _execute_or_recover *)

Receipt(d) == {r \in receipts : r.decision = d}

\* lookup_receipt found nothing: execute_once writes its request.
SendDecision ==
  /\ pc = "loop"
  /\ mem.phase = "action_proposed"
  /\ Receipt(mem.proposed) = {}
  /\ inflight' = inflight \union {mem.proposed}
  /\ pc' = "executing"
  /\ UNCHANGED <<durable, receipts, recorded, published, mem, refusal, faults>>

\* A receipt found by lookup, or the answer to execute_once.
RealizedEntries ==
  IF pc \in {"loop", "executing"} /\ mem.phase = "action_proposed"
  THEN {Entry("action_realized", r) : r \in Receipt(mem.proposed)}
  ELSE {}

Realize == \E e \in RealizedEntries : WriteEntry(e)

\* The runtime answers a decision it has a receipt for from that receipt.
RuntimeExecutes(d) ==
  /\ d \in inflight
  /\ inflight' = inflight \ {d}
  /\ IF Receipt(d) = {}
       THEN /\ \E c \in Costs : receipts' = receipts \union
                 {[decision |-> d, first |-> recorded, cost |-> c]}
            /\ recorded' = recorded + d.program
       ELSE UNCHANGED <<receipts, recorded>>
  /\ UNCHANGED <<durable, published, pc, mem, refusal, faults>>

-----------------------------------------------------------------------------
(* _record_append and _update_estimators *)

AppendedEntries ==
  IF /\ pc = "loop"
     /\ mem.phase = "action_realized"
     /\ mem.realized.first = mem.step + 1
  THEN {Entry("observation_appended", mem.realized)}
  ELSE {}

RecordAppend == \E e \in AppendedEntries : WriteEntry(e)

\* Mutants: the records are counted from the last one used; they are used as
\* soon as they are realized.
CausalNext_OffByOne(r) == r.first = estimated

\* The causal check of update_after_append.
CausalNext(r) == r.first = estimated + 1

Assimilate_BeforeAppend ==
  /\ pc = "loop"
  /\ doomed = "no"
  /\ mem.phase \in {"action_realized", "observation_appended"}
  /\ CausalNext(mem.realized)
  /\ estimated' = LastStep(mem.realized)
  /\ pc' = "assimilated"
  /\ UNCHANGED <<ledger, tail, saved, plans, planDirs,
                doomed, runtime, mem, refusal, faults>>

\* update_after_append: the updater's own state file moves before the
\* controller's ledger does.
Assimilate ==
  /\ pc = "loop"
  /\ doomed = "no"
  /\ mem.phase = "observation_appended"
  /\ CausalNext(mem.realized)
  /\ estimated' = LastStep(mem.realized)
  /\ pc' = "assimilated"
  /\ UNCHANGED <<ledger, tail, saved, plans, planDirs,
                doomed, runtime, mem, refusal, faults>>

\* A snapshot fit that did not converge, or a jump with no possible move, ends
\* the update with an error.  The retry finds the signed fit, or the same jump
\* request, and fails as the first attempt did.
EstimatorsFail ==
  /\ pc = "loop"
  /\ mem.phase = "observation_appended"
  /\ CausalNext(mem.realized)
  /\ doomed' = "update"
  /\ refusal' = "estimator"
  /\ pc' = "down"
  /\ UNCHANGED <<ledger, tail, saved, plans, planDirs, estimated, runtime, mem, faults>>

UpdaterRefuses ==
  /\ pc = "loop"
  /\ mem.phase = "observation_appended"
  /\ ~CausalNext(mem.realized)
  /\ refusal' = "updater"
  /\ pc' = "down"
  /\ UNCHANGED <<durable, runtime, mem, faults>>

UpdatedEntries ==
  IF pc = "assimilated" THEN {Entry("estimators_updated", mem.realized)} ELSE {}

UpdateEstimators == \E e \in UpdatedEntries : WriteEntry(e)

-----------------------------------------------------------------------------
(* _complete *)

\* Mutant: an exhausted budget ends the mission in the middle of an action.
Finalize_AnyPhase ==
  /\ pc = "loop"
  /\ mem.phase # "complete"
  /\ mem.actions + 1 >= Budget.actions \/ BudgetExhausted(mem)
  /\ published' = TRUE
  /\ pc' = "finalized"
  /\ UNCHANGED <<durable, receipts, recorded, inflight, mem, refusal, faults>>

Finalize ==
  /\ pc = "loop"
  /\ mem.phase \in BetweenActions
  /\ BudgetExhausted(mem)
  /\ published' = TRUE
  /\ pc' = "finalized"
  /\ UNCHANGED <<durable, receipts, recorded, inflight, mem, refusal, faults>>

\* finalize_after_publish refuses a full-log fit that did not converge, and
\* recovers that same fit on every retry.
FinalFitFails ==
  /\ pc = "finalized"
  /\ doomed' = "final"
  /\ refusal' = "estimator"
  /\ pc' = "down"
  /\ UNCHANGED <<ledger, tail, saved, plans, planDirs, estimated, runtime, mem, faults>>

CompletedEntries ==
  IF pc = "finalized" /\ doomed = "no"
  THEN {Entry("mission_completed", Nothing)}
  ELSE {}

Complete == \E e \in CompletedEntries : WriteEntry(e)

Finish ==
  /\ pc = "loop"
  /\ mem.phase = "complete"
  /\ pc' = "done"
  /\ UNCHANGED <<durable, runtime, mem, refusal, faults>>

\* The command is run again on a finished mission.
Rerun ==
  /\ pc = "done"
  /\ pc' = "down"
  /\ UNCHANGED <<durable, runtime, mem, refusal, faults>>

-----------------------------------------------------------------------------
(* Faults *)

Running == pc \notin {"down", "done"}

\* The process dies, or a call it made failed for a cause that is gone at the
\* next attempt, which ends run() as well.  Its runtime child was started in a
\* session of its own and may still finish a request it has read.
Crash ==
  /\ Running
  /\ faults < MaxFaults
  /\ faults' = faults + 1
  /\ pc' = "down"
  /\ UNCHANGED <<durable, runtime, mem, refusal>>

\* _read_event times out: the error leaves run(), whose finally clause
\* terminates the runtime child with the request.
LoseAnswer ==
  /\ pc = "executing"
  /\ faults < MaxFaults
  /\ faults' = faults + 1
  /\ pc' = "down"
  /\ inflight' = inflight \ {mem.proposed}
  /\ UNCHANGED <<durable, receipts, recorded, published, mem, refusal>>

NextEntries == ProposalEntries \union RealizedEntries \union AppendedEntries
                 \union UpdatedEntries \union CompletedEntries

\* The process dies inside MissionLedger.append: a line cut short, or a whole
\* line without its newline, is left behind.
TornAppend ==
  /\ TornWrites
  /\ faults < MaxFaults
  /\ faults' = faults + 1
  /\ pc' = "down"
  /\ \E e \in NextEntries :
       \/ tail' = "unreadable" /\ ledger' = ledger
       \/ /\ ledger' = Append(ledger, e)
          /\ tail' = IF tail = "unterminated" THEN "unreadable" ELSE "unterminated"
  /\ UNCHANGED <<saved, plans, planDirs, estimated, doomed, runtime, mem, refusal>>

-----------------------------------------------------------------------------
Controller ==
  \/ Restart \/ LedgerRefuses \/ ReplayEntry \/ SaveState
  \/ Propose \/ BeginPlan \/ PlannerRefuses \/ WritePlan
  \/ SendDecision \/ Realize \/ RecordAppend
  \/ Assimilate \/ EstimatorsFail \/ UpdaterRefuses \/ UpdateEstimators
  \/ Finalize \/ FinalFitFails \/ Complete \/ Finish

Runtime == \E d \in inflight : RuntimeExecutes(d)

Fault == Crash \/ LoseAnswer \/ TornAppend

Next == Controller \/ Rerun \/ Runtime \/ Fault

Spec == Init /\ [][Next]_vars

\* The controller never waits except for the runtime, the runtime answers
\* what it was sent, and whoever runs the mission starts it again after it
\* stopped: each is a process that keeps taking the steps it can take.
Fairness == WF_vars(Controller) /\ WF_vars(Runtime)

FairSpec == Spec /\ Fairness

-----------------------------------------------------------------------------
(* Properties *)

\* The values of the state.
TypeOK ==
  /\ ledger \in Seq(Entries)
  /\ tail \in {"whole", "unterminated", "unreadable"}
  /\ saved \in States \union {Nothing}
  /\ plans \subseteq Decisions
  /\ planDirs \subseteq Nat
  /\ estimated \in Nat \union {-1}
  /\ doomed \in {"no", "update", "final"}
  /\ receipts \subseteq Receipts
  /\ recorded \in Nat
  /\ published \in BOOLEAN
  /\ pc \in {"down", "created", "replaying", "loop", "planning", "executing",
             "assimilated", "finalized", "saving", "done"}
  /\ mem \in States
  /\ inflight \subseteq Decisions
  /\ refusal \in {"none", "ledger", "planner", "updater", "estimator"}
  /\ faults \in 0..MaxFaults

\* Whether the i-th entry of l continues the ones before it.
Continues(l, i) ==
  LET e == l[i]
      before == l[i - 1]
  IN  CASE e.event = "action_proposed" ->
             \/ i = 1 /\ e.body.cutoff = -1 /\ e.body.station = 0
             \/ /\ i > 1 /\ before.event = "estimators_updated"
                /\ e.body.cutoff = LastStep(before.body)
                /\ e.body.station = before.body.decision.station + 1
        [] e.event = "action_realized" ->
             /\ i > 1 /\ before.event = "action_proposed"
             /\ e.body.decision = before.body
             /\ e.body.first = before.body.cutoff + 1
        [] e.event = "observation_appended" ->
             i > 1 /\ before = Entry("action_realized", e.body)
        [] e.event = "estimators_updated" ->
             i > 1 /\ before = Entry("observation_appended", e.body)
        [] OTHER -> i = 1 \/ before.event = "estimators_updated"

\* The ledger read alone is a sequence of whole action cycles, each about one
\* decision bound to the cutoff and station the cycle before it ended with,
\* and each realizing the records that follow the last ones, whatever crashes
\* fell between its lines; only the last entry can complete the mission.
LedgerOrder ==
  \A i \in DOMAIN ledger :
    /\ Continues(ledger, i)
    /\ ledger[i].event = "mission_completed" => i = Len(ledger)

\* The controller state a replay of the first n ledger entries gives.
Replay ==
  LET r[n \in 0..Len(ledger)] ==
        IF n = 0 THEN FreshState
        ELSE [AfterEntry(r[n - 1], ledger[n]) EXCEPT !.head = n]
  IN  r

\* The state file is never ahead of the ledger and at most one entry behind
\* it, it is exactly what a replay of the entries it names gives, and a
\* controller that is past its recovery works on the replay of the whole
\* ledger: no crash makes a counter move twice or not at all.
StateReplaysLedger ==
  /\ saved # Nothing =>
       /\ saved.head \in {Len(ledger) - 1, Len(ledger)}
       /\ saved = Replay[saved.head]
  /\ saved = Nothing => ledger = <<>>
  /\ pc \in {"loop", "planning", "executing", "assimilated", "finalized"} =>
       mem = Replay[Len(ledger)]

\* What the runtime did is what the ledger proposed: every request that a
\* runtime process still holds and every receipt belongs to a proposal, the
\* ledger's realized entries carry those receipts, and only the last proposal
\* can have a receipt the ledger does not know yet.
OnlyProposedActionsHappen ==
  LET known == {ledger[i].body : i \in {j \in DOMAIN ledger :
                                          ledger[j].event = "action_realized"}}
      last == IF ledger = <<>> THEN Nothing ELSE ledger[Len(ledger)]
  IN  /\ inflight \subseteq PriorDecisions
      /\ known \subseteq receipts
      /\ \A r \in receipts \ known : last = Entry("action_proposed", r.decision)

LastEntry == ledger[Len(ledger)]

\* The last step and the station of the last cycle the ledger has closed.
SettledStep ==
  CASE ledger = <<>> -> -1
    [] ledger # <<>> /\ LastEntry.event = "action_proposed" -> LastEntry.body.cutoff
    [] ledger # <<>> /\ LastEntry.event \in {"action_realized", "observation_appended"} ->
         LastEntry.body.decision.cutoff
    [] ledger # <<>> /\ LastEntry.event = "estimators_updated" -> LastStep(LastEntry.body)
    [] OTHER -> IF Len(ledger) = 1 THEN -1 ELSE LastStep(ledger[Len(ledger) - 1].body)

SettledStation ==
  CASE ledger = <<>> -> -1
    [] ledger # <<>> /\ LastEntry.event = "action_proposed" -> LastEntry.body.station - 1
    [] ledger # <<>> /\ LastEntry.event \in {"action_realized", "observation_appended"} ->
         LastEntry.body.decision.station - 1
    [] ledger # <<>> /\ LastEntry.event = "estimators_updated" ->
         LastEntry.body.decision.station
    [] OTHER -> IF Len(ledger) = 1 THEN -1
                ELSE ledger[Len(ledger) - 1].body.decision.station

\* The estimators have used exactly the records of the cycles the ledger
\* closed, or those and the ones it has just appended: they never see a record
\* before its append is durable and never skip one.
EstimatorsFollowLedger ==
  \/ estimated = SettledStep
  \/ /\ ledger # <<>>
     /\ LastEntry.event = "observation_appended"
     /\ estimated = LastStep(LastEntry.body)

\* By the ledger alone, an action is proposed only while every budget is
\* unspent, and the mission ends only when one is spent: the overshoot is
\* never more than the one action.
BudgetDecidesTheEnd ==
  \A i \in DOMAIN ledger :
    /\ ledger[i].event = "action_proposed" => ~BudgetExhausted(Replay[i - 1])
    /\ ledger[i].event = "mission_completed" => BudgetExhausted(Replay[i - 1])

\* No check of the controller or the planner rejects what the mission itself
\* wrote: a replay meets each entry in the phase it expects, the records of a
\* receipt are the next causal steps, the planner finds the estimators at the
\* mission's cutoff and its decision is new.
OwnChecksNeverFire ==
  /\ pc = "replaying" /\ mem.head < Len(ledger) =>
       Accepts(mem, ledger[mem.head + 1])
  /\ pc = "loop" /\ mem.phase = "action_realized" =>
       mem.realized.first = mem.step + 1
  /\ Proposing /\ mem.step # -1 => estimated = mem.step
  /\ Proposing => Planned(mem) \intersect PriorDecisions = {}

\* The fields of controller state m that decide what it does next are what
\* the n-th entry of l left them as.
Agrees(l, m, n) ==
  IF n = 0
    THEN m.phase = "ready" /\ m.step = -1 /\ m.station = -1
    ELSE CASE l[n].event = "action_proposed" ->
                /\ m.phase = "action_proposed"
                /\ m.proposed = l[n].body
                /\ m.step = l[n].body.cutoff
           [] l[n].event \in {"action_realized", "observation_appended"} ->
                /\ m.phase = l[n].event
                /\ m.realized = l[n].body
                /\ m.step = l[n].body.decision.cutoff
           [] l[n].event = "estimators_updated" ->
                /\ m.phase = "estimators_updated"
                /\ m.step = LastStep(l[n].body)
                /\ m.station = l[n].body.decision.station
           [] OTHER -> m.phase = "complete"

Working == {"loop", "planning", "executing", "assimilated", "finalized"}

\* The state file and the controller's memory against the ledger.
StateAgrees ==
  /\ saved = Nothing => ledger = <<>> /\ pc \in {"down", "created"}
  /\ pc = "created" => saved = Nothing /\ Agrees(ledger, mem, 0)
  /\ saved # Nothing =>
       saved.head \in {Len(ledger) - 1, Len(ledger)} /\ Agrees(ledger, saved, saved.head)
  /\ pc = "replaying" => mem.head <= Len(ledger) /\ Agrees(ledger, mem, mem.head)
  /\ pc = "saving" => Agrees(ledger, mem, Len(ledger))
  /\ pc \in {"replaying", "saving"} => saved.head # Len(ledger)
  /\ pc \in Working => mem = saved /\ mem.head = Len(ledger)
  /\ pc = "assimilated" =>
       mem.phase = "observation_appended" /\ estimated = LastStep(mem.realized)
  /\ pc = "planning" => mem.phase \in BetweenActions
  /\ pc = "finalized" => published /\ mem.phase \in BetweenActions

\* No action is open.
Between == ledger # <<>> => LastEntry.event = "estimators_updated"

\* The runtime's receipts and record count against the ledger.
RuntimeAgrees ==
  /\ inflight \subseteq PriorDecisions
  /\ \A i \in DOMAIN ledger :
       ledger[i].event = "action_realized" => ledger[i].body \in receipts
  /\ \A r \in receipts :
       /\ r.decision \in PriorDecisions
       /\ r.first = r.decision.cutoff + 1
       /\ Receipt(r.decision) = {r}
       /\ \/ LastStep(r) <= SettledStep
          \/ LastEntry = Entry("action_proposed", r.decision)
          \/ LastEntry.event \in {"action_realized", "observation_appended"}
               /\ LastEntry.body = r
  /\ Between => recorded = SettledStep + 1
  /\ ledger # <<>> /\ LastEntry.event = "action_proposed" =>
       \/ Receipt(LastEntry.body) = {} /\ recorded = LastEntry.body.cutoff + 1
       \/ \E r \in Receipt(LastEntry.body) : recorded = LastStep(r) + 1
  /\ ledger # <<>> /\ LastEntry.event \in {"action_realized", "observation_appended"} =>
       recorded = LastStep(LastEntry.body) + 1

\* A plan is about the settled cutoff or an older one.
PlansAgree ==
  \A d \in plans :
    /\ d.cutoff <= SettledStep
    /\ d.cutoff = SettledStep => d.station = SettledStation + 1

\* Once the log is published, the ledger holds no open cycle and the state
\* file has a spent budget.
PublishedAtEnd ==
  published =>
    \/ ledger # <<>> /\ LastEntry.event = "mission_completed"
    \/ /\ Between
       /\ saved # Nothing
       /\ saved.head = Len(ledger)
       /\ BudgetExhausted(saved)

\* The inductive invariant: how the files, the runtime and the memory of the
\* controller agree between any two steps.
Consistent ==
  /\ LedgerOrder
  /\ StateAgrees
  /\ RuntimeAgrees
  /\ EstimatorsFollowLedger
  /\ PlansAgree
  /\ PublishedAtEnd

\* The planner's result directory exists and its recommendation does not.
PlanHalfWritten == \E c \in planDirs : \A d \in plans : d.cutoff # c

\* The updater has saved the records of an observation the ledger has not
\* seen the estimators use.
UpdaterAhead ==
  /\ ledger # <<>>
  /\ ledger[Len(ledger)].event = "observation_appended"
  /\ estimated = LastStep(ledger[Len(ledger)].body)

\* The last appended observation cannot be assimilated, or the published log
\* cannot be fitted: the same operation fails on every attempt.
EstimatorStuck == doomed # "no"

Stranded == PlanHalfWritten \/ UpdaterAhead \/ tail = "unreadable" \/ EstimatorStuck

\* A mission that refuses to go on is in the situation its error names: one of
\* the three crash windows, or an estimator operation that fails for good.  It
\* failed on an observation that is appended and that the estimators have not
\* used, or on a log that is published and not completed, and nothing moves the
\* mission past it afterwards.
RefusedOnlyInWindow ==
  /\ refusal = "planner" => PlanHalfWritten
  /\ refusal = "updater" => UpdaterAhead
  /\ refusal = "ledger" => tail = "unreadable"
  /\ refusal = "estimator" => EstimatorStuck
  /\ doomed = "update" =>
       /\ ledger # <<>>
       /\ LastEntry.event = "observation_appended"
       /\ ~UpdaterAhead
  /\ doomed = "final" => published /\ Between

\* What is durable is never taken back: ledger entries, plans, receipts and
\* the published log stay, nothing is written behind a mission_completed
\* entry, and no action happens after the log was published.
NothingTakenBack ==
  [][/\ Len(ledger') >= Len(ledger)
     /\ SubSeq(ledger', 1, Len(ledger)) = ledger
     /\ estimated' >= estimated
     /\ receipts \subseteq receipts'
     /\ published => published' /\ receipts' = receipts
     /\ plans \subseteq plans']_vars

Done == pc = "done" /\ saved # Nothing /\ saved.phase = "complete"

\* A mission that meets no fault, and whose estimators do not fail for good,
\* spends a budget and reaches its durable completion.
Completes == <>(Done \/ faults > 0 \/ EstimatorStuck)

\* With faults a mission still reaches it, unless a crash fell into one of the
\* three windows or an estimator operation fails for good, and then it stays
\* there: no other fault, and no order of faults, keeps it from completing.
CompletesUnlessStranded == <>Done \/ <>[]Stranded

\* What docs/hybrid_v2.md says of a crash at any boundary: an incomplete
\* planner output never keeps a mission from going on.
PlannerNeverRefuses == refusal # "planner"

\* The same of a crash between the updater's save and the ledger entry.
UpdaterNeverRefuses == refusal # "updater"

-----------------------------------------------------------------------------
(* The promise this controller implements *)

PromiseStage ==
  CASE published -> "closed"
    [] ~published /\ (ledger = <<>> \/ LastEntry.event = "estimators_updated") -> "idle"
    [] ~published /\ ledger # <<>> /\ LastEntry.event = "action_proposed" ->
         IF Receipt(LastEntry.body) = {} THEN "decided" ELSE "executed"
    [] OTHER -> IF estimated < LastStep(LastEntry.body) THEN "executed"
                ELSE "assimilated"

PromiseAction ==
  CASE ledger = <<>> -> Nothing
    [] ledger # <<>> /\ LastEntry.event = "action_proposed" -> LastEntry.body
    [] ledger # <<>> /\ LastEntry.event = "mission_completed" ->
         (IF Len(ledger) = 1 THEN Nothing ELSE ledger[Len(ledger) - 1].body.decision)
    [] OTHER -> LastEntry.body.decision

PromiseExecuted == {r.decision : r \in receipts}
PromiseAssimilated == {r.decision : r \in {x \in receipts : LastStep(x) <= estimated}}

Promise == INSTANCE MissionPromise WITH
  Action <- Decisions,
  stage <- PromiseStage,
  action <- PromiseAction,
  executed <- PromiseExecuted,
  assimilated <- PromiseAssimilated

\* Restarts, lost answers and half-finished writes are invisible: the mission
\* decides, executes, assimilates and closes as MissionPromise says.
KeepsPromise == Promise!Spec

=============================================================================
