------------------------ MODULE HybridMissionProofs ------------------------
(***************************************************************************)
(* Proofs about HybridMission, for every program set, cost set, budget,    *)
(* number of faults and with torn writes or without: type correctness, the *)
(* inductive invariant and the safety properties that follow from it, what *)
(* a replay of the ledger gives, and the refinement of MissionPromise.     *)
(***************************************************************************)
EXTENDS HybridMission, WellFoundedInduction, TLAPS

\* A decision's program is not empty.
LEMMA ProgramType ==
  ASSUME NEW d \in Decisions
  PROVE  d.program \in Nat \ {0}
<1>1. d.program \in Programs \union {1}
  BY DEF Decisions
<1>2. 1 \in Nat \ {0}
  OBVIOUS
<1> QED BY <1>1, <1>2, ProgramsAssumption

\* A last step is a natural number, at or after the first step.
LEMMA LastStepType ==
  ASSUME NEW r \in Receipts
  PROVE  LastStep(r) \in Nat /\ LastStep(r) >= r.first /\ r.first \in Nat
<1>1. r.first \in Nat /\ r.decision \in Decisions
  BY DEF Receipts
<1> QED BY <1>1, ProgramType DEF LastStep

\* Durations add up to durations.
LEMMA AddTimeType ==
  ASSUME NEW a \in Seconds, NEW b \in Seconds
  PROVE  AddTime(a, b) \in Seconds
BY DEF AddTime, Seconds

\* What the constructors of entries give.
LEMMA EntryTypes ==
  /\ \A d \in Decisions : Entry("action_proposed", d) \in Entries
  /\ \A r \in Receipts : /\ Entry("action_realized", r) \in Entries
                         /\ Entry("observation_appended", r) \in Entries
                         /\ Entry("estimators_updated", r) \in Entries
  /\ Entry("mission_completed", Nothing) \in Entries
BY DEF Entry, Entries

\* The entries by their event.
LEMMA EntryBodies ==
  ASSUME NEW e \in Entries
  PROVE  /\ e.event \in {"action_proposed", "action_realized", "observation_appended",
                         "estimators_updated", "mission_completed"}
         /\ e.event = "action_proposed" => e.body \in Decisions
         /\ e.event \in {"action_realized", "observation_appended", "estimators_updated"}
              => e.body \in Receipts
         /\ e = Entry(e.event, e.body)
BY DEF Entry, Entries

\* The update branch gives a controller state again.
LEMMA AfterUpdateType ==
  ASSUME NEW m \in States, m.realized \in Receipts
  PROVE  AfterUpdate(m) \in States
<1>1. m.realized.cost \in Seconds
  BY CostsAssumption DEF Receipts
<1>2. AddTime(m.spent, m.realized.cost) \in Seconds
  BY <1>1, AddTimeType DEF States
<1>3. LastStep(m.realized) \in Nat
  BY LastStepType
<1>4. m.realized.decision.station \in Nat
  BY DEF Receipts, Decisions
<1>5. m.actions + 1 \in Nat
  BY DEF States
<1>6. AfterUpdate(m) \in
        [phase : Phases, actions : Nat, step : Nat \union {-1},
         station : Nat \union {-1}, spent : Seconds,
         proposed : Decisions \union {Nothing},
         realized : Receipts \union {Nothing}, head : Nat]
  BY <1>2, <1>3, <1>4, <1>5 DEF AfterUpdate, States, Phases
<1>7. AfterUpdate(m).phase = "estimators_updated"
  BY DEF AfterUpdate, States
<1> QED BY <1>6, <1>7 DEF States

\* Every entry, met in a phase that accepts it, gives a controller state.
LEMMA AfterEntryType ==
  ASSUME NEW m \in States, NEW e \in Entries,
         e.event \in {"observation_appended", "estimators_updated"} => m.realized \in Receipts
  PROVE  AfterEntry(m, e) \in States
<1>1. CASE e.event = "action_proposed"
  BY <1>1, EntryBodies DEF AfterEntry, States, Phases
<1>2. CASE e.event = "action_realized"
  BY <1>2, EntryBodies DEF AfterEntry, States, Phases
<1>3. CASE e.event = "observation_appended"
  BY <1>3 DEF AfterEntry, States, Phases
<1>4. CASE e.event = "estimators_updated"
  BY <1>4, AfterUpdateType DEF AfterEntry
<1>5. CASE e.event = "mission_completed"
  BY <1>5 DEF AfterEntry, States, Phases
<1> QED BY <1>1, <1>2, <1>3, <1>4, <1>5, EntryBodies

-----------------------------------------------------------------------------
(* Type correctness *)

\* What TypeOK needs to be inductive: the records are still in memory when the
\* updater has answered.
Assimilated == pc = "assimilated" => mem.phase = "observation_appended"

Typed == TypeOK /\ Assimilated

\* The phases that carry a decision or the records of one.
LEMMA PhaseCarries ==
  ASSUME NEW m \in States
  PROVE  /\ m.phase = "action_proposed" => m.proposed \in Decisions
         /\ m.phase \in {"action_realized", "observation_appended"} => m.realized \in Receipts
         /\ m.head \in Nat
         /\ m.step \in Nat \union {-1}
         /\ m.station \in Nat \union {-1}
         /\ m.phase \in Phases
BY DEF States

\* The state of a new mission.
LEMMA FreshStateType == FreshState \in States
<1>1. NoTime \in Seconds
  BY DEF NoTime, Seconds
<1> QED BY <1>1 DEF FreshState, States, Phases

\* A new state may name any ledger head.
LEMMA FreshHead ==
  ASSUME NEW n \in Nat
  PROVE  [FreshState EXCEPT !.head = n] \in States
BY FreshStateType DEF States

\* A receipt's decision is a decision.
LEMMA ReceiptDecision == \A r \in Receipts : r.decision \in Decisions
BY DEF Receipts

\* Whatever the controller is about to append is an entry, and the memory
\* holds the records an update needs.
LEMMA NextEntriesTyped ==
  ASSUME Typed, NEW e \in NextEntries
  PROVE  /\ e \in Entries
         /\ e.event \in {"observation_appended", "estimators_updated"}
              => mem.realized \in Receipts
         /\ pc \in Working
<1> USE DEF Typed, TypeOK
<1>1. CASE e \in ProposalEntries
  <2>1. Planned(mem) \subseteq Decisions
    BY DEF Planned, Bootstrap, Decisions
  <2>2. PICK d \in Planned(mem) : e = Entry("action_proposed", d)
    BY <1>1 DEF ProposalEntries
  <2>3. pc = "loop"
    BY <1>1 DEF ProposalEntries, Proposing
  <2> QED BY <2>1, <2>2, <2>3, EntryTypes DEF Entry, Working
<1>2. CASE e \in RealizedEntries
  <2>1. PICK r \in receipts : e = Entry("action_realized", r)
    BY <1>2 DEF RealizedEntries, Receipt
  <2>2. pc \in {"loop", "executing"}
    BY <1>2 DEF RealizedEntries
  <2> QED BY <2>1, <2>2, EntryTypes DEF Entry, Working
<1>3. CASE e \in AppendedEntries
  <2>1. pc = "loop" /\ mem.phase = "action_realized" /\ e = Entry("observation_appended", mem.realized)
    BY <1>3 DEF AppendedEntries
  <2> QED BY <2>1, PhaseCarries, EntryTypes DEF Entry, Working
<1>4. CASE e \in UpdatedEntries
  <2>1. pc = "assimilated" /\ e = Entry("estimators_updated", mem.realized)
    BY <1>4 DEF UpdatedEntries
  <2>2. mem.realized \in Receipts
    BY <2>1, PhaseCarries DEF Assimilated
  <2> QED BY <2>1, <2>2, EntryTypes DEF Entry, Working
<1>5. CASE e \in CompletedEntries
  <2>1. pc = "finalized" /\ e = Entry("mission_completed", Nothing)
    BY <1>5 DEF CompletedEntries
  <2> QED BY <2>1, EntryTypes DEF Entry, Working
<1> QED BY <1>1, <1>2, <1>3, <1>4, <1>5 DEF NextEntries

\* Appending what comes next keeps the types.
LEMMA WriteTyped ==
  ASSUME Typed, NEW e \in NextEntries, WriteEntry(e)
  PROVE  Typed'
<1>1. e \in Entries /\ (e.event \in {"observation_appended", "estimators_updated"}
                            => mem.realized \in Receipts)
  BY NextEntriesTyped
<1>2. mem' \in States
  BY <1>1, AfterEntryType DEF WriteEntry, Typed, TypeOK
<1>3. ledger' \in Seq(Entries)
  BY <1>1 DEF WriteEntry, Typed, TypeOK
<1>4. pc' = "saving" /\ tail' \in {"whole", "unterminated", "unreadable"}
  BY DEF WriteEntry, Typed, TypeOK
<1> QED BY <1>2, <1>3, <1>4 DEF WriteEntry, Typed, TypeOK, Assimilated, runtime

\* Every step keeps the types.
LEMMA TypedStep == Typed /\ [Next]_vars => Typed'
<1> SUFFICES ASSUME Typed, [Next]_vars PROVE Typed'
  OBVIOUS
<1> USE DEF Typed, TypeOK, Assimilated, durable, runtime
<1>1. CASE Restart
  <2>2. [FreshState EXCEPT !.head = Len(ledger)] \in States
    BY FreshHead
  <2> QED BY <1>1, <2>2 DEF Restart
<1>2. CASE LedgerRefuses
  BY <1>2 DEF LedgerRefuses
<1>3. CASE ReplayEntry
  <2> DEFINE e == ledger[mem.head + 1]
  <2>1. e \in Entries
    BY <1>3, PhaseCarries DEF ReplayEntry
  <2>2. Accepts(mem, e)
    BY <1>3 DEF ReplayEntry
  <2>3. e.event \in {"observation_appended", "estimators_updated"} => mem.realized \in Receipts
    BY <2>2, PhaseCarries DEF Accepts
  <2>4. AfterEntry(mem, e) \in States
    BY <2>1, <2>3, AfterEntryType
  <2>5. [AfterEntry(mem, e) EXCEPT !.head = mem.head + 1] \in States
    BY <2>4, PhaseCarries DEF States
  <2> QED BY <1>3, <2>5 DEF ReplayEntry
<1>4. CASE SaveState
  <2>1. [mem EXCEPT !.head = Len(ledger)] \in States
    BY DEF States
  <2> QED BY <1>4, <2>1 DEF SaveState
<1>5. CASE Propose
  BY <1>5, WriteTyped DEF Propose, NextEntries
<1>6. CASE BeginPlan
  <2>1. mem.step \in Nat
    BY <1>6, PhaseCarries DEF BeginPlan, NeedsPlan
  <2> QED BY <1>6, <2>1 DEF BeginPlan
<1>7. CASE PlannerRefuses
  BY <1>7 DEF PlannerRefuses
<1>8. CASE WritePlan
  <2>1. PICK n \in Programs : plans' = plans \union
          {[cutoff |-> mem.step, station |-> mem.station + 1, program |-> n]}
    BY <1>8 DEF WritePlan
  <2>2. mem.station + 1 \in Nat
    BY PhaseCarries
  <2>3. [cutoff |-> mem.step, station |-> mem.station + 1, program |-> n] \in Decisions
    BY <2>2, PhaseCarries DEF Decisions
  <2> QED BY <1>8, <2>1, <2>3 DEF WritePlan
<1>9. CASE SendDecision
  BY <1>9, PhaseCarries DEF SendDecision
<1>10. CASE Realize
  BY <1>10, WriteTyped DEF Realize, NextEntries
<1>11. CASE RecordAppend
  BY <1>11, WriteTyped DEF RecordAppend, NextEntries
<1>12. CASE Assimilate
  <2>1. LastStep(mem.realized) \in Nat
    BY <1>12, PhaseCarries, LastStepType DEF Assimilate
  <2> QED BY <1>12, <2>1 DEF Assimilate
<1>13. CASE UpdaterRefuses
  BY <1>13 DEF UpdaterRefuses
<1>24. CASE EstimatorsFail \/ FinalFitFails
  BY <1>24 DEF EstimatorsFail, FinalFitFails
<1>14. CASE UpdateEstimators
  BY <1>14, WriteTyped DEF UpdateEstimators, NextEntries
<1>15. CASE Finalize
  BY <1>15 DEF Finalize
<1>16. CASE Complete
  BY <1>16, WriteTyped DEF Complete, NextEntries
<1>17. CASE Finish
  BY <1>17 DEF Finish
<1>18. CASE Rerun
  BY <1>18 DEF Rerun
<1>19. CASE Runtime
  <2>1. PICK d \in inflight : RuntimeExecutes(d)
    BY <1>19 DEF Runtime
  <2>2. CASE Receipt(d) = {}
    <3>1. PICK c \in Costs :
            receipts' = receipts \union {[decision |-> d, first |-> recorded, cost |-> c]}
      BY <2>1, <2>2 DEF RuntimeExecutes
    <3>2. [decision |-> d, first |-> recorded, cost |-> c] \in Receipts
      BY DEF Receipts
    <3>3. d.program \in Nat
      BY ProgramType
    <3>4. recorded' \in Nat
      BY <2>1, <2>2, <3>3 DEF RuntimeExecutes
    <3> QED BY <2>1, <2>2, <3>1, <3>2, <3>4 DEF RuntimeExecutes
  <2> QED BY <2>1, <2>2 DEF RuntimeExecutes
<1>20. CASE Crash
  BY <1>20, FaultsAssumption DEF Crash
<1>21. CASE LoseAnswer
  BY <1>21, FaultsAssumption DEF LoseAnswer
<1>22. CASE TornAppend
  <2>1. PICK e \in NextEntries :
          ledger' \in {ledger, Append(ledger, e)} /\ tail' \in {"unterminated", "unreadable"}
    BY <1>22 DEF TornAppend
  <2>2. ledger' \in Seq(Entries)
    BY <2>1, NextEntriesTyped
  <2> QED BY <1>22, <2>1, <2>2, FaultsAssumption DEF TornAppend
<1>23. CASE UNCHANGED vars
  BY <1>23 DEF vars
<1> QED
  BY <1>1, <1>2, <1>3, <1>4, <1>5, <1>6, <1>7, <1>8, <1>9, <1>10, <1>11, <1>12, <1>13, <1>14,
     <1>15, <1>16, <1>17, <1>18, <1>19, <1>20, <1>21, <1>22, <1>23, <1>24
     DEF Next, Controller, Fault

\* The mission starts typed.
LEMMA TypedInit == Init => Typed
<1> SUFFICES ASSUME Init PROVE Typed
  OBVIOUS
<1>1. ledger \in Seq(Entries) /\ mem \in States
  BY FreshStateType DEF Init
<1>2. faults \in 0..MaxFaults
  BY FaultsAssumption DEF Init
<1> QED BY <1>1, <1>2 DEF Init, Typed, TypeOK, Assimilated

\* Every reachable state is typed.
LEMMA AlwaysTyped == Spec => []Typed
BY TypedInit, TypedStep, PTL DEF Spec

\* Type correctness: no crash, replay or torn write leaves a value the
\* controller could not have written.
THEOREM TypeCorrect == Spec => []TypeOK
<1>1. Typed => TypeOK
  BY DEF Typed
<1> QED BY <1>1, AlwaysTyped, PTL

-----------------------------------------------------------------------------
(* The inductive invariant of HybridMission: the ledger, the state file,     *)
(* the controller's memory, the runtime's receipts and the estimators agree  *)
(* after every step, for every number of crashes, lost answers and torn      *)
(* writes.  The argument goes by the entry a step appends: five kinds of     *)
(* entry can come next, each with what the invariant says about it, and      *)
(* every other step leaves the ledger alone.                                 *)

-----------------------------------------------------------------------------
(* Frames: what an invariant part does not read cannot disturb it. *)

\* A step that leaves the ledger alone keeps everything read from it.
LEMMA LedgerFrame ==
  ASSUME UNCHANGED ledger
  PROVE  /\ LedgerOrder' <=> LedgerOrder
         /\ SettledStep' = SettledStep
         /\ SettledStation' = SettledStation
         /\ LastEntry' = LastEntry
         /\ PriorDecisions' = PriorDecisions
BY DEF LedgerOrder, SettledStep, SettledStation, LastEntry, PriorDecisions

\* The runtime's agreement reads the ledger, the receipts, the record count
\* and the requests in flight only.
LEMMA RuntimeFrame ==
  ASSUME UNCHANGED <<ledger, receipts, recorded, inflight>>, RuntimeAgrees
  PROVE  RuntimeAgrees'
BY LedgerFrame DEF RuntimeAgrees, Receipt, Between

\* The estimators' agreement reads the ledger and the estimators only.
LEMMA EstimatorsFrame ==
  ASSUME UNCHANGED <<ledger, estimated>>, EstimatorsFollowLedger
  PROVE  EstimatorsFollowLedger'
BY LedgerFrame DEF EstimatorsFollowLedger

\* The plans' agreement reads the ledger and the plans only.
LEMMA PlansFrame ==
  ASSUME UNCHANGED <<ledger, plans>>, PlansAgree
  PROVE  PlansAgree'
BY LedgerFrame DEF PlansAgree

\* What a published log demands is read from the ledger, the log and the
\* state file only.
LEMMA PublishedFrame ==
  ASSUME UNCHANGED <<ledger, published, saved>>, PublishedAtEnd
  PROVE  PublishedAtEnd'
BY LedgerFrame DEF PublishedAtEnd, Between

-----------------------------------------------------------------------------
(* The ledger with one more entry *)

\* A ledger with one more entry keeps the entries it had.
LEMMA LongerLedger ==
  ASSUME NEW l \in Seq(Entries), NEW e \in Entries, NEW k, k = Append(l, e)
  PROVE  /\ k \in Seq(Entries)
         /\ Len(k) = Len(l) + 1
         /\ DOMAIN k = 1..(Len(l) + 1)
         /\ k[Len(l) + 1] = e
         /\ \A i \in 1..Len(l) : k[i] = l[i]
         /\ k # <<>>
OBVIOUS

\* A state that agrees with an entry agrees with it in the longer ledger.
LEMMA AgreesLonger ==
  ASSUME NEW l \in Seq(Entries), NEW e \in Entries, NEW k, k = Append(l, e),
         NEW m, NEW n \in 0..Len(l), Agrees(l, m, n)
  PROVE  Agrees(k, m, n)
<1>1. n # 0 => k[n] = l[n]
  BY LongerLedger
<1> QED BY <1>1 DEF Agrees

\* The last entry an agreeing state tells of.
LEMMA PhaseTells ==
  ASSUME Typed, NEW m \in States, Agrees(ledger, m, Len(ledger))
  PROVE  /\ m.phase \in BetweenActions =>
              /\ ledger # <<>> => LastEntry.event = "estimators_updated"
              /\ m.step = SettledStep
              /\ m.station = SettledStation
         /\ m.phase = "action_proposed" =>
              ledger # <<>> /\ LastEntry = Entry("action_proposed", m.proposed)
         /\ m.phase \in {"action_realized", "observation_appended"} =>
              /\ ledger # <<>>
              /\ LastEntry = Entry(m.phase, m.realized)
              /\ m.step = m.realized.decision.cutoff
<1>1. CASE ledger = <<>>
  BY <1>1 DEF Agrees, SettledStep, SettledStation, BetweenActions
<1>2. CASE ledger # <<>>
  <2>1. Len(ledger) # 0 /\ LastEntry \in Entries /\ LastEntry = ledger[Len(ledger)]
    BY <1>2 DEF Typed, TypeOK, LastEntry
  <2>2. LastEntry = Entry(LastEntry.event, LastEntry.body)
    BY <2>1, EntryBodies
  <2>3. LastEntry.event \in {"action_proposed", "action_realized", "observation_appended",
                             "estimators_updated", "mission_completed"}
    BY <2>1, EntryBodies
  <2> QED BY <1>2, <2>1, <2>2, <2>3 DEF Agrees, SettledStep, SettledStation, BetweenActions
<1> QED BY <1>1, <1>2

-----------------------------------------------------------------------------
(* The five entries that can come next *)

Proposes(e) ==
  /\ e.event = "action_proposed" /\ e.body \in Decisions
  /\ Between /\ ~published
  /\ e.body.cutoff = SettledStep /\ e.body.station = SettledStation + 1
  /\ e.body \notin PriorDecisions

Realizes(e) ==
  /\ e.event = "action_realized" /\ e.body \in receipts
  /\ ledger # <<>> /\ LastEntry = Entry("action_proposed", e.body.decision)

RecordsAppend(e) ==
  /\ e.event = "observation_appended" /\ e.body \in Receipts
  /\ ledger # <<>> /\ LastEntry = Entry("action_realized", e.body)

Updates(e) ==
  /\ e.event = "estimators_updated" /\ e.body \in Receipts
  /\ ledger # <<>> /\ LastEntry = Entry("observation_appended", e.body)
  /\ estimated = LastStep(e.body)

Ends(e) == e.event = "mission_completed" /\ Between /\ published

\* The memory of a working controller agrees with the whole ledger.
LEMMA WorkingAgrees ==
  ASSUME Typed, Consistent, pc \in Working
  PROVE  /\ saved # Nothing /\ mem = saved /\ mem.head = Len(ledger)
         /\ saved \in States /\ mem \in States
         /\ Agrees(ledger, mem, Len(ledger))
<1>1. saved # Nothing
  BY DEF Consistent, StateAgrees, Working
<1> QED BY <1>1 DEF Consistent, StateAgrees, Typed, TypeOK

\* A working controller between two actions proposes only what is new and
\* bound to the settled step.
LEMMA ProposalCase ==
  ASSUME Typed, Consistent, NEW e \in ProposalEntries
  PROVE  Proposes(e)
<1>1. Proposing /\ pc \in Working
  BY DEF ProposalEntries, Proposing, Working
<1>2. PICK d \in Planned(mem) : e = Entry("action_proposed", d) /\ d \notin PriorDecisions
  BY DEF ProposalEntries
<1>3. mem.phase \in BetweenActions /\ ~BudgetExhausted(mem)
  BY <1>1 DEF Proposing
<1>4. /\ Between
      /\ mem.step = SettledStep /\ mem.station = SettledStation
      /\ mem = saved /\ mem \in States
  BY <1>1, <1>3, WorkingAgrees, PhaseTells DEF Between
<1>5. d \in Decisions
  BY DEF Planned, Bootstrap, Decisions, Typed, TypeOK
<1>6. ~published
  BY <1>3, <1>4 DEF Consistent, PublishedAtEnd, Between
<1>7. d.cutoff = SettledStep /\ d.station = SettledStation + 1
  <2>1. CASE mem.step = -1
    <3>1. ledger = <<>>
      <4> SUFFICES ASSUME ledger # <<>> PROVE FALSE
        OBVIOUS
      <4>1. LastEntry \in Entries /\ LastEntry.event = "estimators_updated"
        BY <1>4 DEF Between, LastEntry, Typed, TypeOK
      <4>2. LastStep(LastEntry.body) \in Nat
        BY <4>1, EntryBodies, LastStepType
      <4>3. SettledStep = LastStep(LastEntry.body)
        BY <4>1 DEF SettledStep
      <4> QED BY <4>2, <4>3, <2>1, <1>4
    <3> QED BY <3>1, <2>1, <1>4, <1>2 DEF Planned, Bootstrap, SettledStation
  <2>2. CASE mem.step # -1
    BY <2>2, <1>2, <1>4 DEF Planned, Consistent, PlansAgree
  <2> QED BY <2>1, <2>2
<1> QED BY <1>2, <1>4, <1>5, <1>6, <1>7 DEF Proposes, Entry

\* Whatever comes next is one of the five.
LEMMA NextEntryCases ==
  ASSUME Typed, Consistent, NEW e \in NextEntries
  PROVE  Proposes(e) \/ Realizes(e) \/ RecordsAppend(e) \/ Updates(e) \/ Ends(e)
<1>1. pc \in Working /\ e \in Entries
  BY NextEntriesTyped
<1>2. mem \in States /\ Agrees(ledger, mem, Len(ledger))
  BY <1>1, WorkingAgrees
<1>3. CASE e \in ProposalEntries
  BY <1>3, ProposalCase
<1>4. CASE e \in RealizedEntries
  <2>1. PICK r \in receipts : e = Entry("action_realized", r) /\ r.decision = mem.proposed
    BY <1>4 DEF RealizedEntries, Receipt
  <2>2. mem.phase = "action_proposed"
    BY <1>4 DEF RealizedEntries
  <2> QED BY <2>1, <2>2, <1>2, PhaseTells DEF Realizes, Entry
<1>5. CASE e \in AppendedEntries
  BY <1>5, <1>2, PhaseTells, PhaseCarries DEF AppendedEntries, RecordsAppend, Entry
<1>6. CASE e \in UpdatedEntries
  <2>1. pc = "assimilated" /\ e = Entry("estimators_updated", mem.realized)
    BY <1>6 DEF UpdatedEntries
  <2>2. mem.phase = "observation_appended" /\ estimated = LastStep(mem.realized)
    BY <2>1 DEF Consistent, StateAgrees
  <2> QED BY <2>1, <2>2, <1>2, PhaseTells, PhaseCarries DEF Updates, Entry
<1>7. CASE e \in CompletedEntries
  <2>1. pc = "finalized" /\ e = Entry("mission_completed", Nothing)
    BY <1>7 DEF CompletedEntries
  <2>2. published /\ mem.phase \in BetweenActions
    BY <2>1 DEF Consistent, StateAgrees
  <2> QED BY <2>1, <2>2, <1>2, PhaseTells DEF Ends, Between, Entry
<1> QED BY <1>3, <1>4, <1>5, <1>6, <1>7 DEF NextEntries

-----------------------------------------------------------------------------
(* What an appended entry changes *)

\* The records of the open cycle are a receipt of the runtime and follow the
\* settled step.
LEMMA CurrentReceipt ==
  ASSUME Typed, Consistent, ledger # <<>>,
         LastEntry.event \in {"action_realized", "observation_appended"}
  PROVE  /\ LastEntry.body \in receipts /\ LastEntry.body \in Receipts
         /\ LastEntry.body.first = SettledStep + 1
         /\ LastStep(LastEntry.body) > SettledStep
         /\ SettledStep \in Nat \union {-1}
<1>1. Len(ledger) \in DOMAIN ledger /\ LastEntry \in Entries /\ LastEntry.body \in Receipts
  BY EntryBodies DEF Typed, TypeOK, LastEntry
<1>2. \A i \in DOMAIN ledger : ledger[i].event = "action_realized" => ledger[i].body \in receipts
  BY DEF Consistent, RuntimeAgrees
<1>3. ASSUME LastEntry.event = "observation_appended" PROVE LastEntry.body \in receipts
  <2>1. Continues(ledger, Len(ledger))
    BY <1>1 DEF Consistent, LedgerOrder
  <2>2. Len(ledger) > 1 /\ ledger[Len(ledger) - 1] = Entry("action_realized", LastEntry.body)
    BY <2>1, <1>1, <1>3 DEF Continues, LastEntry, Typed, TypeOK
  <2>3. Len(ledger) - 1 \in DOMAIN ledger
    BY <2>2 DEF Typed, TypeOK
  <2> QED BY <2>2, <2>3, <1>2 DEF Entry
<1>4. SettledStep = LastEntry.body.decision.cutoff
  BY DEF SettledStep
<1>5. LastEntry.body \in receipts
  BY <1>1, <1>2, <1>3 DEF LastEntry
<1>6. LastEntry.body.first = LastEntry.body.decision.cutoff + 1
  BY <1>5 DEF Consistent, RuntimeAgrees
<1>7. LastEntry.body.decision.cutoff \in Nat \union {-1}
  BY <1>1 DEF Receipts, Decisions
<1>8. /\ LastStep(LastEntry.body) \in Nat
      /\ LastStep(LastEntry.body) >= LastEntry.body.first
  BY <1>1, LastStepType
<1> QED BY <1>1, <1>4, <1>5, <1>6, <1>7, <1>8

\* The ledger after an append, in the terms of the invariant.
LEMMA Appended ==
  ASSUME Typed, NEW e \in NextEntries, ledger' = Append(ledger, e)
  PROVE  /\ e \in Entries /\ ledger \in Seq(Entries) /\ Len(ledger) \in Nat
         /\ Len(ledger') = Len(ledger) + 1 /\ ledger'[Len(ledger) + 1] = e
         /\ DOMAIN ledger = 1..Len(ledger) /\ DOMAIN ledger' = 1..(Len(ledger) + 1)
         /\ \A i \in 1..Len(ledger) : ledger'[i] = ledger[i]
         /\ LastEntry' = e /\ ledger' # <<>>
         /\ PriorDecisions' = PriorDecisions \union
              (IF e.event = "action_proposed" THEN {e.body} ELSE {})
<1>1. e \in Entries /\ ledger \in Seq(Entries)
  BY NextEntriesTyped DEF Typed, TypeOK
<1>2. /\ Len(ledger') = Len(ledger) + 1 /\ ledger'[Len(ledger) + 1] = e
      /\ DOMAIN ledger' = 1..(Len(ledger) + 1) /\ ledger' # <<>>
      /\ \A i \in 1..Len(ledger) : ledger'[i] = ledger[i]
  BY <1>1, LongerLedger
<1>3. DOMAIN ledger = 1..Len(ledger) /\ Len(ledger) \in Nat
  BY <1>1
<1>4. {j \in DOMAIN ledger' : ledger'[j].event = "action_proposed"} =
        {j \in DOMAIN ledger : ledger[j].event = "action_proposed"} \union
          (IF e.event = "action_proposed" THEN {Len(ledger) + 1} ELSE {})
  BY <1>2, <1>3
<1>5. PriorDecisions' = PriorDecisions \union
        (IF e.event = "action_proposed" THEN {e.body} ELSE {})
  BY <1>2, <1>3, <1>4 DEF PriorDecisions
<1> QED BY <1>1, <1>2, <1>3, <1>5 DEF LastEntry

\* The settled step and station are numbers.
LEMMA SettledTypes ==
  ASSUME Typed, Consistent
  PROVE  SettledStep \in Nat \union {-1} /\ SettledStation \in Nat \union {-1}
<1>1. CASE ledger = <<>>
  BY <1>1 DEF SettledStep, SettledStation
<1>2. CASE ledger # <<>>
  <2>1. Len(ledger) \in DOMAIN ledger /\ LastEntry \in Entries
    BY <1>2 DEF Typed, TypeOK, LastEntry
  <2>2. ASSUME LastEntry.event = "mission_completed", Len(ledger) # 1
        PROVE  ledger[Len(ledger) - 1].body \in Receipts
    <3>1. Continues(ledger, Len(ledger))
      BY <2>1 DEF Consistent, LedgerOrder
    <3>2. ledger[Len(ledger) - 1].event = "estimators_updated"
      BY <2>2, <3>1 DEF Continues, LastEntry
    <3>3. ledger \in Seq(Entries) /\ DOMAIN ledger = 1..Len(ledger) /\ Len(ledger) \in Nat
      BY DEF Typed, TypeOK
    <3>4. Len(ledger) - 1 \in DOMAIN ledger
      BY <2>1, <2>2, <3>3
    <3>5. ledger[Len(ledger) - 1] \in Entries
      BY <3>3, <3>4
    <3> QED BY <3>2, <3>5, EntryBodies
  <2>3. \A r \in Receipts : /\ LastStep(r) \in Nat
                            /\ r.decision \in Decisions
    BY LastStepType DEF Receipts
  <2>4. \A d \in Decisions : /\ d.cutoff \in Nat \union {-1}
                             /\ d.station \in Nat
                             /\ d.station - 1 \in Nat \union {-1}
    BY DEF Decisions
  <2>5. CASE LastEntry.event = "action_proposed"
    BY <1>2, <2>1, <2>4, <2>5, EntryBodies DEF SettledStep, SettledStation
  <2>6. CASE LastEntry.event \in {"action_realized", "observation_appended"}
    BY <1>2, <2>1, <2>3, <2>4, <2>6, EntryBodies DEF SettledStep, SettledStation
  <2>7. CASE LastEntry.event = "estimators_updated"
    BY <1>2, <2>1, <2>3, <2>4, <2>7, EntryBodies DEF SettledStep, SettledStation
  <2>8. CASE LastEntry.event = "mission_completed"
    BY <1>2, <2>2, <2>3, <2>4, <2>8 DEF SettledStep, SettledStation
  <2> QED BY <2>1, <2>5, <2>6, <2>7, <2>8, EntryBodies
<1> QED BY <1>1, <1>2

\* Only an update moves the settled step and station.
LEMMA Settles ==
  ASSUME Typed, Consistent, NEW e \in NextEntries, ledger' = Append(ledger, e)
  PROVE  /\ e.event # "estimators_updated" =>
              SettledStep' = SettledStep /\ SettledStation' = SettledStation
         /\ e.event = "estimators_updated" =>
              /\ SettledStep' = LastStep(e.body)
              /\ SettledStation' = e.body.decision.station
              /\ SettledStep' > SettledStep
<1> USE DEF Typed, TypeOK
<1>2. /\ Len(ledger') = Len(ledger) + 1
      /\ \A i \in 1..Len(ledger) : ledger'[i] = ledger[i]
      /\ LastEntry' = e /\ ledger' # <<>> /\ ledger \in Seq(Entries)
  BY Appended
<1>5. ledger # <<>> => LastEntry = ledger[Len(ledger)] /\ Len(ledger) \in 1..Len(ledger)
  BY <1>2 DEF LastEntry
<1>6. CASE Proposes(e)
  <2>1. SettledStep' = e.body.cutoff /\ SettledStation' = e.body.station - 1
    BY <1>2, <1>6 DEF Proposes, SettledStep, SettledStation
  <2>2. e.body.cutoff = SettledStep /\ e.body.station = SettledStation + 1
    BY <1>6 DEF Proposes
  <2>3. SettledStation' = SettledStation
    BY <2>1, <2>2, SettledTypes
  <2>4. e.event = "action_proposed"
    BY <1>6 DEF Proposes
  <2> QED BY <2>1, <2>2, <2>3, <2>4
<1>7. CASE Realizes(e)
  BY <1>2, <1>7 DEF Realizes, SettledStep, SettledStation, Entry
<1>8. CASE RecordsAppend(e)
  BY <1>2, <1>8 DEF RecordsAppend, SettledStep, SettledStation, Entry
<1>9. CASE Updates(e)
  <2>1. SettledStep < LastStep(e.body)
    BY <1>9, CurrentReceipt DEF Updates, Entry
  <2> QED BY <1>2, <1>9, <2>1 DEF Updates, SettledStep, SettledStation
<1>10. CASE Ends(e)
  <2>1. CASE ledger = <<>>
    BY <1>2, <1>10, <2>1 DEF Ends, SettledStep, SettledStation
  <2>2. CASE ledger # <<>>
    <3>1. ledger'[Len(ledger') - 1] = LastEntry /\ Len(ledger') # 1
      BY <1>2, <1>5, <2>2
    <3> QED BY <1>2, <1>10, <2>2, <3>1 DEF Ends, Between, SettledStep, SettledStation
  <2> QED BY <2>1, <2>2
<1> QED BY <1>6, <1>7, <1>8, <1>9, <1>10, NextEntryCases

\* Nothing is appended behind the end of a mission.
LEMMA NotOver ==
  ASSUME Typed, Consistent, NEW e \in NextEntries, ledger # <<>>
  PROVE  LastEntry.event # "mission_completed"
BY NextEntryCases DEF Proposes, Realizes, RecordsAppend, Updates, Ends, Between, Entry

\* Whatever comes next continues the order of the ledger.
LEMMA AppendKeepsOrder ==
  ASSUME Typed, Consistent, NEW e \in NextEntries, ledger' = Append(ledger, e)
  PROVE  LedgerOrder'
<1> DEFINE n == Len(ledger)
<1>1. /\ n \in Nat /\ Len(ledger') = n + 1 /\ ledger'[n + 1] = e
      /\ DOMAIN ledger = 1..n /\ DOMAIN ledger' = 1..(n + 1)
      /\ \A i \in 1..n : ledger'[i] = ledger[i]
      /\ ledger \in Seq(Entries)
  BY Appended
<1>2. ledger # <<>> <=> n # 0
  BY <1>1
<1>3. \A i \in 1..n : Continues(ledger', i)
  <2> SUFFICES ASSUME NEW i \in 1..n PROVE Continues(ledger', i)
    OBVIOUS
  <2>1. Continues(ledger, i)
    BY <1>1 DEF Consistent, LedgerOrder
  <2>2. ledger'[i] = ledger[i] /\ (i > 1 => ledger'[i - 1] = ledger[i - 1])
    BY <1>1
  <2> QED BY <2>1, <2>2 DEF Continues
<1>4. Continues(ledger', n + 1)
  <2> DEFINE k == n + 1
  <2>1. k \in Nat /\ ledger'[k] = e /\ (n = 0 <=> k = 1) /\ (n # 0 <=> k > 1) /\ k - 1 = n
    BY <1>1
  <2>2. n # 0 => ledger'[k - 1] = LastEntry /\ ledger # <<>>
    <3>1. n # 0 => n \in 1..n
      BY <1>1
    <3>2. n # 0 => ledger'[n] = ledger[n] /\ ledger # <<>>
      BY <1>1, <3>1
    <3> QED BY <2>1, <3>2 DEF LastEntry
  <2> HIDE DEF k
  <2>3. ASSUME Proposes(e) PROVE Continues(ledger', k)
    <3>1. CASE n = 0
      BY <1>2, <2>1, <2>3, <3>1 DEF Proposes, Continues, SettledStep, SettledStation
    <3>2. CASE n # 0
      BY <1>2, <2>1, <2>2, <2>3, <3>2
         DEF Proposes, Continues, SettledStep, SettledStation, Between
    <3> QED BY <3>1, <3>2
  <2>4. ASSUME Realizes(e) PROVE Continues(ledger', k)
    <3>1. e.body.first = e.body.decision.cutoff + 1
      BY <2>4 DEF Realizes, Consistent, RuntimeAgrees
    <3> QED BY <1>2, <2>1, <2>2, <2>4, <3>1 DEF Realizes, Continues, Entry
  <2>5. ASSUME RecordsAppend(e) PROVE Continues(ledger', k)
    BY <1>2, <2>1, <2>2, <2>5 DEF RecordsAppend, Continues
  <2>6. ASSUME Updates(e) PROVE Continues(ledger', k)
    BY <1>2, <2>1, <2>2, <2>6 DEF Updates, Continues
  <2>7. ASSUME Ends(e) PROVE Continues(ledger', k)
    BY <1>2, <2>1, <2>2, <2>7 DEF Ends, Continues, Between
  <2>8. Continues(ledger', k)
    BY <2>3, <2>4, <2>5, <2>6, <2>7, NextEntryCases
  <2> QED BY <2>8 DEF k
<1>5. \A i \in 1..n : ledger'[i].event # "mission_completed"
  <2> SUFFICES ASSUME NEW i \in 1..n, ledger'[i].event = "mission_completed" PROVE FALSE
    OBVIOUS
  <2>1. i = n
    BY <1>1 DEF Consistent, LedgerOrder
  <2> QED BY <1>1, <1>2, <2>1, NotOver DEF LastEntry
<1> QED BY <1>1, <1>3, <1>4, <1>5 DEF LedgerOrder

\* Whatever comes next keeps the receipts and the requests in flight those of
\* the ledger's proposals.
LEMMA AppendKeepsRuntime ==
  ASSUME Typed, Consistent, NEW e \in NextEntries, ledger' = Append(ledger, e),
         UNCHANGED <<receipts, recorded, inflight>>
  PROVE  RuntimeAgrees'
<1>1. /\ LastEntry' = e /\ ledger' # <<>>
      /\ DOMAIN ledger = 1..Len(ledger) /\ DOMAIN ledger' = 1..(Len(ledger) + 1)
      /\ ledger'[Len(ledger) + 1] = e /\ Len(ledger) \in Nat
      /\ \A i \in 1..Len(ledger) : ledger'[i] = ledger[i]
      /\ PriorDecisions \subseteq PriorDecisions'
  BY Appended
<1>2. \A d : (Receipt(d))' = Receipt(d)
  BY DEF Receipt
<1>3. (inflight \subseteq PriorDecisions)'
  BY <1>1 DEF Consistent, RuntimeAgrees
<1>4. \A i \in DOMAIN ledger' :
        ledger'[i].event = "action_realized" => ledger'[i].body \in receipts
  <2>1. e.event = "action_realized" => e.body \in receipts
    BY NextEntryCases DEF Proposes, Realizes, RecordsAppend, Updates, Ends
  <2> QED BY <1>1, <2>1 DEF Consistent, RuntimeAgrees
<1>5. ASSUME NEW r \in receipts
      PROVE  \/ LastStep(r) <= SettledStep'
             \/ e = Entry("action_proposed", r.decision)
             \/ e.event \in {"action_realized", "observation_appended"} /\ e.body = r
  <2>1. /\ r.decision \in PriorDecisions /\ Receipt(r.decision) = {r}
        /\ \/ LastStep(r) <= SettledStep
           \/ LastEntry = Entry("action_proposed", r.decision)
           \/ LastEntry.event \in {"action_realized", "observation_appended"}
                /\ LastEntry.body = r
    BY DEF Consistent, RuntimeAgrees
  <2>2. ledger # <<>>
    BY <2>1 DEF PriorDecisions
  <2>3. LastStep(r) \in Nat
    BY LastStepType DEF Typed, TypeOK
  <2>4. SettledStep' >= SettledStep /\ SettledStep \in Int /\ SettledStep' \in Int
    <3>1. e.event = "estimators_updated" => e.body \in Receipts
      BY NextEntriesTyped, EntryBodies
    <3>2. e.event = "estimators_updated" => LastStep(e.body) \in Nat
      BY <3>1, LastStepType
    <3> QED BY <3>2, Settles, SettledTypes
  <2>5. LastStep(r) <= SettledStep => LastStep(r) <= SettledStep'
    BY <2>3, <2>4
  <2>6. CASE Proposes(e)
    BY <2>1, <2>2, <2>5, <2>6 DEF Proposes, Between, Entry
  <2>7. CASE Realizes(e)
    BY <2>1, <2>5, <2>7 DEF Realizes, Entry, Receipt
  <2>8. CASE RecordsAppend(e)
    BY <2>1, <2>5, <2>8 DEF RecordsAppend, Entry
  <2>9. CASE Updates(e)
    <3>1. SettledStep' = LastStep(e.body)
      BY <2>9, Settles DEF Updates
    <3> QED BY <2>1, <2>3, <2>5, <2>9, <3>1 DEF Updates, Entry
  <2>10. CASE Ends(e)
    BY <2>1, <2>2, <2>5, <2>10 DEF Ends, Between, Entry
  <2> QED BY <2>6, <2>7, <2>8, <2>9, <2>10, NextEntryCases
<1>6. /\ Between' => recorded = SettledStep' + 1
      /\ e.event = "action_proposed" =>
           \/ Receipt(e.body) = {} /\ recorded = e.body.cutoff + 1
           \/ \E r \in Receipt(e.body) : recorded = LastStep(r) + 1
      /\ e.event \in {"action_realized", "observation_appended"} =>
           recorded = LastStep(e.body) + 1
  <2>1. Between' => e.event = "estimators_updated"
    BY <1>1 DEF Between
  <2>2. CASE Proposes(e)
    <3>1. Receipt(e.body) = {}
      BY <2>2 DEF Proposes, Receipt, Consistent, RuntimeAgrees
    <3>2. recorded = e.body.cutoff + 1
      BY <2>2 DEF Proposes, Consistent, RuntimeAgrees
    <3> QED BY <2>1, <2>2, <3>1, <3>2 DEF Proposes
  <2>3. CASE Realizes(e)
    <3>1. Receipt(LastEntry.body) = {e.body}
      BY <2>3 DEF Realizes, Entry, Consistent, RuntimeAgrees
    <3>2. recorded = LastStep(e.body) + 1
      BY <2>3, <3>1 DEF Realizes, Entry, Consistent, RuntimeAgrees
    <3> QED BY <2>1, <2>3, <3>2 DEF Realizes
  <2>4. CASE RecordsAppend(e)
    BY <2>1, <2>4 DEF RecordsAppend, Entry, Consistent, RuntimeAgrees
  <2>5. CASE Updates(e)
    BY <2>1, <2>5, Settles DEF Updates, Entry, Consistent, RuntimeAgrees
  <2>6. CASE Ends(e)
    BY <2>1, <2>6 DEF Ends
  <2> QED BY <2>2, <2>3, <2>4, <2>5, <2>6, NextEntryCases
<1>7. \A r \in receipts :
        /\ r.decision \in PriorDecisions'
        /\ r.first = r.decision.cutoff + 1
        /\ Receipt(r.decision) = {r}
  BY <1>1 DEF Consistent, RuntimeAgrees
<1> QED BY <1>1, <1>2, <1>3, <1>4, <1>5, <1>6, <1>7 DEF RuntimeAgrees

\* Whatever comes next keeps the estimators at the settled step or at the
\* records just appended.
LEMMA AppendKeepsEstimators ==
  ASSUME Typed, Consistent, NEW e \in NextEntries, ledger' = Append(ledger, e),
         UNCHANGED estimated
  PROVE  EstimatorsFollowLedger'
<1>1. LastEntry' = e /\ ledger' # <<>>
  BY Appended
<1>2. EstimatorsFollowLedger
  BY DEF Consistent
<1>3. CASE Proposes(e)
  BY <1>1, <1>2, <1>3, Settles DEF Proposes, Between, EstimatorsFollowLedger
<1>4. CASE Realizes(e)
  BY <1>1, <1>2, <1>4, Settles DEF Realizes, Entry, EstimatorsFollowLedger
<1>5. CASE RecordsAppend(e)
  BY <1>1, <1>2, <1>5, Settles DEF RecordsAppend, Entry, EstimatorsFollowLedger
<1>6. CASE Updates(e)
  BY <1>6, Settles DEF Updates, EstimatorsFollowLedger
<1>7. CASE Ends(e)
  BY <1>1, <1>2, <1>7, Settles DEF Ends, Between, EstimatorsFollowLedger
<1> QED BY <1>3, <1>4, <1>5, <1>6, <1>7, NextEntryCases

\* Whatever comes next keeps every plan at or before the settled cutoff.
LEMMA AppendKeepsPlans ==
  ASSUME Typed, Consistent, NEW e \in NextEntries, ledger' = Append(ledger, e),
         UNCHANGED plans
  PROVE  PlansAgree'
<1>1. CASE e.event # "estimators_updated"
  BY <1>1, Settles DEF Consistent, PlansAgree
<1>2. CASE e.event = "estimators_updated"
  <2>1. e.body \in Receipts
    BY <1>2, NextEntriesTyped, EntryBodies
  <2>2. SettledStep' \in Nat /\ SettledStep \in Int /\ SettledStep' > SettledStep
    BY <1>2, <2>1, Settles, SettledTypes, LastStepType
  <2>3. \A d \in plans : d.cutoff \in Int /\ d.cutoff <= SettledStep
    BY DEF Consistent, PlansAgree, Typed, TypeOK, Decisions
  <2>4. \A d \in plans : d.cutoff < SettledStep'
    BY <2>2, <2>3
  <2> QED BY <2>2, <2>3, <2>4 DEF PlansAgree
<1> QED BY <1>1, <1>2

\* Whatever comes next once the log is published completes the mission.
LEMMA AppendKeepsPublished ==
  ASSUME Typed, Consistent, NEW e \in NextEntries, ledger' = Append(ledger, e),
         UNCHANGED published
  PROVE  PublishedAtEnd'
<1>1. LastEntry' = e /\ ledger' # <<>>
  BY Appended
<1>2. published => (ledger # <<>> => LastEntry.event \in {"mission_completed", "estimators_updated"})
  BY DEF Consistent, PublishedAtEnd, Between
<1>3. published => Ends(e)
  BY <1>2, NotOver, NextEntryCases
     DEF Proposes, Realizes, RecordsAppend, Updates, Ends, Entry
<1> QED BY <1>1, <1>3 DEF PublishedAtEnd, Ends

\* What a state that agrees with the ledger holds.
LEMMA EntryTells ==
  ASSUME Typed, NEW m \in States, Agrees(ledger, m, Len(ledger))
  PROVE  /\ Between => m.step = SettledStep
         /\ ledger # <<>> /\ LastEntry.event = "action_proposed" =>
              m.step = LastEntry.body.cutoff
         /\ ledger # <<>> /\ LastEntry.event \in {"action_realized", "observation_appended"} =>
              m.realized = LastEntry.body /\ m.step = LastEntry.body.decision.cutoff
<1>1. CASE ledger = <<>>
  BY <1>1 DEF Agrees, SettledStep
<1>2. CASE ledger # <<>>
  <2>1. Len(ledger) # 0 /\ LastEntry = ledger[Len(ledger)]
    BY <1>2 DEF Typed, TypeOK, LastEntry
  <2> QED BY <1>2, <2>1 DEF Agrees, SettledStep, Between
<1> QED BY <1>1, <1>2

\* The state a handler leaves in memory agrees with the entry it wrote.
LEMMA MemoryFollows ==
  ASSUME Typed, Consistent, NEW e \in NextEntries, ledger' = Append(ledger, e)
  PROVE  Agrees(ledger', AfterEntry(mem, e), Len(ledger'))
<1>1. ledger'[Len(ledger')] = e /\ Len(ledger') # 0
  BY Appended
<1>2. mem \in States /\ Agrees(ledger, mem, Len(ledger))
  BY NextEntriesTyped, WorkingAgrees
<1>3. CASE Proposes(e)
  <2>1. mem.step = e.body.cutoff
    BY <1>2, <1>3, EntryTells DEF Proposes
  <2> QED BY <1>1, <1>2, <1>3, <2>1 DEF Proposes, Agrees, AfterEntry, States
<1>4. CASE Realizes(e)
  <2>1. mem.step = e.body.decision.cutoff
    BY <1>2, <1>4, EntryTells DEF Realizes, Entry
  <2> QED BY <1>1, <1>2, <1>4, <2>1 DEF Realizes, Agrees, AfterEntry, States
<1>5. CASE RecordsAppend(e)
  <2>1. mem.step = e.body.decision.cutoff /\ mem.realized = e.body
    BY <1>2, <1>5, EntryTells DEF RecordsAppend, Entry
  <2> QED BY <1>1, <1>2, <1>5, <2>1 DEF RecordsAppend, Agrees, AfterEntry, States
<1>6. CASE Updates(e)
  <2>1. mem.realized = e.body
    BY <1>2, <1>6, EntryTells DEF Updates, Entry
  <2> QED BY <1>1, <1>2, <1>6, <2>1 DEF Updates, Agrees, AfterEntry, AfterUpdate, States
<1>7. CASE Ends(e)
  BY <1>1, <1>2, <1>7 DEF Ends, Agrees, AfterEntry, States
<1> QED BY <1>3, <1>4, <1>5, <1>6, <1>7, NextEntryCases

\* The state file against the longer ledger.
LEMMA AppendKeepsSaved ==
  ASSUME Typed, Consistent, NEW e \in NextEntries, ledger' = Append(ledger, e),
         UNCHANGED saved
  PROVE  /\ saved' # Nothing
         /\ saved'.head = Len(ledger') - 1
         /\ Agrees(ledger', saved', saved'.head)
<1>1. saved # Nothing /\ saved = mem /\ mem.head = Len(ledger)
      /\ Agrees(ledger, mem, Len(ledger))
  BY NextEntriesTyped, WorkingAgrees
<1>2. e \in Entries /\ ledger \in Seq(Entries) /\ Len(ledger) \in 0..Len(ledger)
  BY NextEntriesTyped DEF Typed, TypeOK
<1>3. Agrees(ledger', mem, Len(ledger))
  BY <1>1, <1>2, AgreesLonger
<1>4. Len(ledger') - 1 = Len(ledger)
  BY Appended
<1> QED BY <1>1, <1>3, <1>4

\* A whole ledger line keeps the invariant.
LEMMA WriteConsistent ==
  ASSUME Typed, Consistent, NEW e \in NextEntries, WriteEntry(e)
  PROVE  Consistent'
<1>1. /\ ledger' = Append(ledger, e) /\ mem' = AfterEntry(mem, e) /\ pc' = "saving"
      /\ UNCHANGED <<saved, plans, estimated, receipts, recorded, inflight, published>>
  BY DEF WriteEntry, runtime
<1>2. Agrees(ledger', mem', Len(ledger'))
  BY <1>1, MemoryFollows
<1>3. /\ saved' # Nothing /\ saved'.head = Len(ledger') - 1
      /\ Agrees(ledger', saved', saved'.head)
  BY <1>1, AppendKeepsSaved
<1>4. Len(ledger') \in Nat
  BY <1>1, Appended
<1>5. StateAgrees'
  BY <1>1, <1>2, <1>3, <1>4 DEF StateAgrees, Working
<1> QED BY <1>1, <1>5, AppendKeepsOrder, AppendKeepsRuntime, AppendKeepsEstimators,
           AppendKeepsPlans, AppendKeepsPublished DEF Consistent

-----------------------------------------------------------------------------
(* The steps that leave the ledger alone *)

\* A step of the controller's process alone.
LEMMA QuietStep ==
  ASSUME Typed, Consistent, UNCHANGED <<durable, runtime>>, StateAgrees'
  PROVE  Consistent'
BY LedgerFrame, RuntimeFrame, EstimatorsFrame, PlansFrame, PublishedFrame
   DEF Consistent, durable, runtime

\* A restart finds a state file that agrees with the entry it names.
LEMMA RestartConsistent ==
  ASSUME Typed, Consistent, Restart
  PROVE  StateAgrees'
<1>1. UNCHANGED <<ledger, saved, published, estimated>> /\ pc = "down"
  BY DEF Restart, durable, runtime
<1>2. StateAgrees
  BY DEF Consistent
<1>3. CASE saved = Nothing
  <2>1. ledger = <<>> /\ pc' = "created" /\ mem' = [FreshState EXCEPT !.head = Len(ledger)]
    BY <1>2, <1>3 DEF StateAgrees, Restart
  <2>2. Agrees(ledger', mem', 0)
    BY <2>1 DEF Agrees, FreshState
  <2> QED BY <1>1, <1>2, <1>3, <2>1, <2>2 DEF StateAgrees, Working
<1>4. CASE saved # Nothing
  <2>1. mem' = saved /\ pc' = IF saved.head = Len(ledger) THEN "loop" ELSE "replaying"
    BY <1>4 DEF Restart
  <2>2. saved.head \in {Len(ledger) - 1, Len(ledger)} /\ Agrees(ledger, saved, saved.head)
    BY <1>2, <1>4 DEF StateAgrees
  <2>3. Len(ledger) \in Nat /\ saved \in States
    BY <1>4 DEF Typed, TypeOK
  <2>4. saved.head <= Len(ledger)
    BY <2>2, <2>3
  <2> QED BY <1>1, <1>2, <1>4, <2>1, <2>2, <2>4 DEF StateAgrees, Working
<1> QED BY <1>3, <1>4

\* The replay meets every entry in the phase it expects.
LEMMA ReplayAccepts ==
  ASSUME Typed, Consistent, pc = "replaying", mem.head < Len(ledger)
  PROVE  /\ Accepts(mem, ledger[mem.head + 1])
         /\ Agrees(ledger, AfterEntry(mem, ledger[mem.head + 1]), mem.head + 1)
<1> DEFINE k == mem.head + 1
           e == ledger[k]
<1>1. mem \in States /\ mem.head \in Nat /\ ledger \in Seq(Entries) /\ Len(ledger) \in Nat
  BY PhaseCarries DEF Typed, TypeOK
<1>2. Agrees(ledger, mem, mem.head)
  BY DEF Consistent, StateAgrees
<1>3. k \in DOMAIN ledger /\ k - 1 = mem.head /\ (mem.head = 0 <=> k = 1) /\ k # 0
      /\ (k > 1 <=> mem.head # 0)
  BY <1>1
<1>4. Continues(ledger, k)
  BY <1>3 DEF Consistent, LedgerOrder
<1>5. e \in Entries
  BY <1>1, <1>3
<1>6. mem.head # 0 => ledger[mem.head] \in Entries
  BY <1>1, <1>3
<1> HIDE DEF k
<1>7. CASE e.event = "action_proposed"
  <2>1. CASE mem.head = 0
    BY <1>1, <1>2, <1>3, <1>4, <1>7, <2>1
       DEF Accepts, Agrees, Continues, AfterEntry, States, BetweenActions
  <2>2. CASE mem.head # 0
    <3>1. ledger[mem.head].event = "estimators_updated" /\ e.body.cutoff = LastStep(ledger[mem.head].body)
      BY <1>3, <1>4, <1>7, <2>2 DEF Continues
    <3>2. mem.phase = "estimators_updated" /\ mem.step = e.body.cutoff
      BY <1>2, <2>2, <3>1 DEF Agrees
    <3> QED BY <1>1, <1>3, <1>7, <3>2 DEF Accepts, Agrees, AfterEntry, States, BetweenActions
  <2> QED BY <2>1, <2>2
<1>8. CASE e.event = "action_realized"
  <2>1. /\ mem.head # 0 /\ ledger[mem.head].event = "action_proposed"
        /\ e.body.decision = ledger[mem.head].body
    BY <1>3, <1>4, <1>8 DEF Continues
  <2>2. mem.phase = "action_proposed" /\ mem.step = e.body.decision.cutoff
    BY <1>2, <2>1 DEF Agrees
  <2> QED BY <1>1, <1>3, <1>8, <2>2 DEF Accepts, Agrees, AfterEntry, States
<1>9. CASE e.event = "observation_appended"
  <2>1. mem.head # 0 /\ ledger[mem.head] = Entry("action_realized", e.body)
    BY <1>3, <1>4, <1>9 DEF Continues
  <2>2. mem.phase = "action_realized" /\ mem.step = e.body.decision.cutoff /\ mem.realized = e.body
    BY <1>2, <2>1 DEF Agrees, Entry
  <2> QED BY <1>1, <1>3, <1>9, <2>2 DEF Accepts, Agrees, AfterEntry, States
<1>10. CASE e.event = "estimators_updated"
  <2>1. mem.head # 0 /\ ledger[mem.head] = Entry("observation_appended", e.body)
    BY <1>3, <1>4, <1>10 DEF Continues
  <2>2. mem.phase = "observation_appended" /\ mem.realized = e.body
    BY <1>2, <2>1 DEF Agrees, Entry
  <2> QED BY <1>1, <1>3, <1>10, <2>2 DEF Accepts, Agrees, AfterEntry, AfterUpdate, States
<1>11. CASE e.event = "mission_completed"
  <2>1. mem.head = 0 \/ ledger[mem.head].event = "estimators_updated"
    BY <1>3, <1>4, <1>11 DEF Continues
  <2>2. mem.phase \in BetweenActions
    BY <1>2, <2>1 DEF Agrees, BetweenActions
  <2> QED BY <1>1, <1>3, <1>11, <2>2 DEF Accepts, Agrees, AfterEntry, States
<1> QED BY <1>5, <1>7, <1>8, <1>9, <1>10, <1>11, EntryBodies

\* What agrees with an entry does so whatever head it carries.
LEMMA AgreesAnyHead ==
  ASSUME NEW l, NEW m \in States, NEW n, NEW h, Agrees(l, m, n)
  PROVE  Agrees(l, [m EXCEPT !.head = h], n)
BY DEF Agrees, States

\* A replayed entry leaves the memory agreeing with that entry.
LEMMA ReplayConsistent ==
  ASSUME Typed, Consistent, ReplayEntry
  PROVE  StateAgrees'
<1> DEFINE e == ledger[mem.head + 1]
<1>1. /\ pc = "replaying" /\ pc' = "replaying" /\ mem.head < Len(ledger)
      /\ Accepts(mem, e)
      /\ mem' = [AfterEntry(mem, e) EXCEPT !.head = mem.head + 1]
      /\ UNCHANGED <<ledger, saved, published, estimated>>
  BY DEF ReplayEntry, durable, runtime
<1>2. mem \in States /\ mem.head \in Nat /\ Len(ledger) \in Nat /\ e \in Entries
  BY <1>1, PhaseCarries DEF Typed, TypeOK
<1>3. e.event \in {"observation_appended", "estimators_updated"} => mem.realized \in Receipts
  BY <1>1, <1>2, PhaseCarries DEF Accepts
<1>4. AfterEntry(mem, e) \in States
  BY <1>2, <1>3, AfterEntryType
<1>5. Agrees(ledger, mem', mem.head + 1)
  BY <1>1, <1>4, ReplayAccepts, AgreesAnyHead
<1>6. mem'.head = mem.head + 1
  BY <1>1, <1>4 DEF States
<1>7. mem.head + 1 <= Len(ledger)
  BY <1>1, <1>2
<1> QED BY <1>1, <1>5, <1>6, <1>7 DEF Consistent, StateAgrees, Working

\* A save brings the state file up to the ledger.
LEMMA SaveConsistent ==
  ASSUME Typed, Consistent, SaveState
  PROVE  Consistent'
<1>1. /\ UNCHANGED <<ledger, plans, estimated, receipts, recorded, inflight, published>>
      /\ pc' = "loop" /\ pc \in {"created", "saving", "replaying"}
      /\ mem' = [mem EXCEPT !.head = Len(ledger)] /\ saved' = mem'
  BY DEF SaveState, runtime
<1>2. mem \in States /\ Len(ledger) \in Nat
  BY DEF Typed, TypeOK
<1>3. mem'.head = Len(ledger) /\ mem' \in States
  BY <1>1, <1>2 DEF States
<1>4. saved' # Nothing
  BY <1>1, <1>3, NothingAssumption
<1>5. Agrees(ledger, mem, Len(ledger))
  <2>1. CASE pc = "created"
    BY <2>1 DEF Consistent, StateAgrees
  <2>2. CASE pc = "saving"
    BY <2>2 DEF Consistent, StateAgrees
  <2>3. CASE pc = "replaying"
    BY <2>3 DEF SaveState, Consistent, StateAgrees
  <2> QED BY <1>1, <2>1, <2>2, <2>3
<1>6. Agrees(ledger, mem', Len(ledger))
  BY <1>1, <1>2, <1>5, AgreesAnyHead
<1>7. StateAgrees'
  BY <1>1, <1>2, <1>3, <1>4, <1>6 DEF StateAgrees, Working
<1>8. PublishedAtEnd'
  <2>1. published => ledger # <<>> /\ LastEntry.event = "mission_completed"
    BY <1>1 DEF Consistent, StateAgrees, PublishedAtEnd
  <2> QED BY <1>1, <2>1, LedgerFrame DEF PublishedAtEnd
<1> QED BY <1>1, <1>7, <1>8, LedgerFrame, RuntimeFrame, EstimatorsFrame, PlansFrame DEF Consistent

\* A proposal that is not the last entry has been answered, and the ledger
\* carries the receipt.
LEMMA Answered ==
  ASSUME Typed, Consistent, NEW i \in DOMAIN ledger,
         ledger[i].event = "action_proposed", i # Len(ledger)
  PROVE  \E k \in DOMAIN ledger :
           /\ ledger[k].event = "action_realized"
           /\ ledger[k].body \in receipts
           /\ ledger[k].body.decision = ledger[i].body
<1> DEFINE k == i + 1
<1>1. ledger \in Seq(Entries) /\ Len(ledger) \in Nat /\ DOMAIN ledger = 1..Len(ledger)
  BY DEF Typed, TypeOK
<1>2. k \in DOMAIN ledger /\ k > 1 /\ k - 1 = i
  BY <1>1
<1>3. Continues(ledger, k)
  BY <1>2 DEF Consistent, LedgerOrder
<1> HIDE DEF k
<1>4. ledger[k] \in Entries
  BY <1>1, <1>2
<1>5. ledger[k].event = "action_realized" /\ ledger[k].body.decision = ledger[i].body
  BY <1>2, <1>3, <1>4, EntryBodies DEF Continues, Entry
<1>6. ledger[k].body \in receipts
  BY <1>2, <1>5 DEF Consistent, RuntimeAgrees
<1> QED BY <1>2, <1>5, <1>6

\* A decision is carried out for the first time only while it is the last
\* entry of the ledger.
LEMMA FreshExecution ==
  ASSUME Typed, Consistent, NEW d \in inflight, Receipt(d) = {}
  PROVE  /\ ledger # <<>> /\ LastEntry = Entry("action_proposed", d)
         /\ recorded = d.cutoff + 1
         /\ SettledStep = d.cutoff
<1>1. ledger \in Seq(Entries) /\ Len(ledger) \in Nat /\ DOMAIN ledger = 1..Len(ledger)
  BY DEF Typed, TypeOK
<1>2. PICK i \in DOMAIN ledger : ledger[i].event = "action_proposed" /\ ledger[i].body = d
  BY DEF Consistent, RuntimeAgrees, PriorDecisions
<1>3. i = Len(ledger)
  <2> SUFFICES ASSUME i # Len(ledger) PROVE FALSE
    OBVIOUS
  <2> QED BY <1>2, Answered DEF Receipt
<1>4. ledger # <<>> /\ LastEntry.event = "action_proposed" /\ LastEntry.body = d
  BY <1>1, <1>2, <1>3 DEF LastEntry
<1>5. LastEntry = Entry("action_proposed", d)
  BY <1>1, <1>2, <1>3, <1>4, EntryBodies DEF LastEntry
<1>6. recorded = d.cutoff + 1
  BY <1>4 DEF Consistent, RuntimeAgrees
<1>7. SettledStep = d.cutoff
  BY <1>4 DEF SettledStep
<1> QED BY <1>4, <1>5, <1>6, <1>7

\* A runtime that executes a request keeps the invariant.
LEMMA RuntimeConsistent ==
  ASSUME Typed, Consistent, NEW d \in inflight, RuntimeExecutes(d)
  PROVE  RuntimeAgrees'
<1>1. UNCHANGED ledger /\ inflight' \subseteq inflight
  BY DEF RuntimeExecutes, durable
<1>2. CASE Receipt(d) # {}
  <2>1. UNCHANGED <<receipts, recorded>>
    BY <1>2 DEF RuntimeExecutes
  <2> QED BY <1>1, <2>1, LedgerFrame DEF Consistent, RuntimeAgrees, Receipt, Between
<1>3. CASE Receipt(d) = {}
  <2>1. PICK c \in Costs :
          receipts' = receipts \union {[decision |-> d, first |-> recorded, cost |-> c]}
    BY <1>3 DEF RuntimeExecutes
  <2> PICK new : new = [decision |-> d, first |-> recorded, cost |-> c]
    OBVIOUS
  <2>2. recorded' = recorded + d.program
    BY <1>3 DEF RuntimeExecutes
  <2>3. new.decision = d /\ new.first = recorded /\ new \notin receipts
        /\ receipts' = receipts \union {new}
    BY <1>3, <2>1 DEF Receipt
  <2>4. /\ ledger # <<>> /\ LastEntry = Entry("action_proposed", d)
        /\ recorded = d.cutoff + 1 /\ SettledStep = d.cutoff
    BY <1>3, FreshExecution
  <2>5. d \in PriorDecisions
    BY DEF Consistent, RuntimeAgrees
  <2>6. \A r \in receipts : r.decision # d
    BY <1>3 DEF Receipt
  <2>7. \A r \in receipts : (Receipt(r.decision))' = Receipt(r.decision)
    BY <2>3, <2>6 DEF Receipt
  <2>8. (Receipt(d))' = {new}
    BY <1>3, <2>3 DEF Receipt
  <2>9. recorded' = LastStep(new) + 1
    <3>1. d.program \in Nat /\ recorded \in Nat
      BY ProgramType DEF Typed, TypeOK
    <3> QED BY <2>2, <2>3, <3>1 DEF LastStep
  <2>10. \A r \in receipts' :
           /\ r.decision \in PriorDecisions
           /\ r.first = r.decision.cutoff + 1
           /\ (Receipt(r.decision))' = {r}
           /\ \/ LastStep(r) <= SettledStep
              \/ LastEntry = Entry("action_proposed", r.decision)
              \/ LastEntry.event \in {"action_realized", "observation_appended"}
                   /\ LastEntry.body = r
    <3> SUFFICES ASSUME NEW r \in receipts'
                 PROVE  /\ r.decision \in PriorDecisions
                        /\ r.first = r.decision.cutoff + 1
                        /\ (Receipt(r.decision))' = {r}
                        /\ \/ LastStep(r) <= SettledStep
                           \/ LastEntry = Entry("action_proposed", r.decision)
                           \/ LastEntry.event \in {"action_realized", "observation_appended"}
                                /\ LastEntry.body = r
      OBVIOUS
    <3>1. CASE r = new
      BY <2>3, <2>4, <2>5, <2>8, <3>1
    <3>2. CASE r \in receipts
      <4>1. (Receipt(r.decision))' = {r}
        BY <2>7, <3>2 DEF Consistent, RuntimeAgrees
      <4> QED BY <3>2, <4>1 DEF Consistent, RuntimeAgrees
    <3> QED BY <2>3, <3>1, <3>2
  <2>11. /\ ~Between /\ LastEntry.event = "action_proposed" /\ LastEntry.body = d
    BY <2>4 DEF Between, Entry
  <2>12. (inflight \subseteq PriorDecisions)'
    BY <1>1, LedgerFrame DEF Consistent, RuntimeAgrees
  <2>13. \A i \in DOMAIN ledger' :
           ledger'[i].event = "action_realized" => ledger'[i].body \in receipts'
    BY <1>1, <2>3 DEF Consistent, RuntimeAgrees
  <2>14. Between' = Between
    BY <1>1, LedgerFrame DEF Between
  <2>15. \E r \in (Receipt(LastEntry.body))' : recorded' = LastStep(r) + 1
    BY <1>1, <2>8, <2>9, <2>11, LedgerFrame
  <2> QED BY <1>1, <2>4, <2>10, <2>11, <2>12, <2>13, <2>14, <2>15, LedgerFrame DEF RuntimeAgrees
<1> QED BY <1>2, <1>3

\* A crash inside an append keeps the invariant: the entry is either there or
\* it is not.
LEMMA TornConsistent ==
  ASSUME Typed, Consistent, TornAppend
  PROVE  Consistent'
<1>1. UNCHANGED <<saved, plans, planDirs, estimated, runtime, mem>> /\ pc' = "down"
  BY DEF TornAppend
<1>2. PICK e \in NextEntries : ledger' = ledger \/ ledger' = Append(ledger, e)
  BY DEF TornAppend
<1>3. pc \in Working /\ saved # Nothing
  BY NextEntriesTyped, WorkingAgrees
<1>4. CASE ledger' = ledger
  <2>1. StateAgrees'
    BY <1>1, <1>3, <1>4 DEF Consistent, StateAgrees, Working
  <2> QED BY <1>1, <1>4, <2>1, LedgerFrame, RuntimeFrame, EstimatorsFrame, PlansFrame,
             PublishedFrame DEF Consistent, runtime
<1>5. CASE ledger' = Append(ledger, e)
  <2>1. /\ saved' # Nothing /\ saved'.head = Len(ledger') - 1
        /\ Agrees(ledger', saved', saved'.head)
    BY <1>1, <1>5, AppendKeepsSaved
  <2>2. StateAgrees'
    BY <1>1, <2>1 DEF StateAgrees, Working
  <2>3. UNCHANGED <<receipts, recorded, inflight, published, plans, estimated>>
    BY <1>1 DEF runtime
  <2> QED BY <1>5, <2>2, <2>3, AppendKeepsOrder, AppendKeepsRuntime, AppendKeepsEstimators,
             AppendKeepsPlans, AppendKeepsPublished DEF Consistent
<1> QED BY <1>2, <1>4, <1>5

\* What the controller holds in each phase, as the ledger says it.
LEMMA LoopTells ==
  ASSUME Typed, Consistent, pc \in Working
  PROVE  /\ mem.phase \in BetweenActions =>
              Between /\ mem.step = SettledStep /\ mem.station = SettledStation
         /\ mem.phase = "action_proposed" =>
              ledger # <<>> /\ LastEntry = Entry("action_proposed", mem.proposed)
         /\ mem.phase \in {"action_realized", "observation_appended"} =>
              /\ ledger # <<>> /\ LastEntry = Entry(mem.phase, mem.realized)
              /\ mem.step = SettledStep
<1>1. mem \in States /\ Agrees(ledger, mem, Len(ledger))
  BY WorkingAgrees
<1> QED BY <1>1, PhaseTells DEF Between, SettledStep, Entry

\* The planner writes a plan for the settled cutoff.
LEMMA PlanConsistent ==
  ASSUME Typed, Consistent, WritePlan
  PROVE  PlansAgree'
<1>1. PICK n \in Programs :
        plans' = plans \union
          {[cutoff |-> mem.step, station |-> mem.station + 1, program |-> n]}
  BY DEF WritePlan
<1>2. pc = "planning" /\ pc \in Working /\ UNCHANGED ledger
  BY DEF WritePlan, Working
<1>3. mem.step = SettledStep /\ mem.station = SettledStation
  BY <1>2, LoopTells DEF Consistent, StateAgrees
<1>4. SettledStep' = SettledStep /\ SettledStation' = SettledStation /\ SettledStep \in Int
  BY <1>2, LedgerFrame, SettledTypes
<1> QED BY <1>1, <1>3, <1>4 DEF PlansAgree, Consistent

\* The updater moves to the records the ledger has just appended.
LEMMA AssimilateConsistent ==
  ASSUME Typed, Consistent, Assimilate
  PROVE  EstimatorsFollowLedger' /\ StateAgrees'
<1>1. /\ pc = "loop" /\ pc \in Working /\ mem.phase = "observation_appended"
      /\ estimated' = LastStep(mem.realized) /\ pc' = "assimilated"
      /\ UNCHANGED <<ledger, saved, published, mem>>
  BY DEF Assimilate, Working, runtime
<1>2. ledger # <<>> /\ LastEntry = Entry("observation_appended", mem.realized)
  BY <1>1, LoopTells
<1>3. EstimatorsFollowLedger'
  BY <1>1, <1>2, LedgerFrame DEF EstimatorsFollowLedger, Entry
<1>4. (LastStep(mem.realized))' = LastStep(mem.realized)
  BY <1>1 DEF LastStep
<1>5. StateAgrees'
  BY <1>1, <1>4 DEF Consistent, StateAgrees, Working
<1> QED BY <1>3, <1>5

\* The log is published between two actions, when a budget is spent.
LEMMA FinalizeConsistent ==
  ASSUME Typed, Consistent, Finalize
  PROVE  PublishedAtEnd' /\ StateAgrees'
<1>1. /\ pc = "loop" /\ pc \in Working /\ mem.phase \in BetweenActions
      /\ BudgetExhausted(mem) /\ published' /\ pc' = "finalized"
      /\ UNCHANGED <<ledger, saved, mem, estimated>>
  BY DEF Finalize, Working, durable
<1>2. Between /\ saved # Nothing /\ mem = saved /\ mem.head = Len(ledger)
  BY <1>1, LoopTells, WorkingAgrees
<1>3. BudgetExhausted(saved)
  BY <1>1, <1>2
<1>4. BudgetExhausted(saved)' <=> BudgetExhausted(saved)
  BY <1>1 DEF BudgetExhausted
<1>5. PublishedAtEnd'
  BY <1>1, <1>2, <1>3, <1>4, LedgerFrame DEF PublishedAtEnd, Between
<1>6. StateAgrees'
  BY <1>1 DEF Consistent, StateAgrees, Working
<1> QED BY <1>5, <1>6

\* Every step keeps files, runtime and memory consistent.
LEMMA ConsistentStep == Typed /\ Consistent /\ [Next]_vars => Consistent'
<1> SUFFICES ASSUME Typed, Consistent, [Next]_vars PROVE Consistent'
  OBVIOUS
<1>1. CASE Restart
  BY <1>1, RestartConsistent, QuietStep DEF Restart
<1>2. CASE LedgerRefuses
  BY <1>2, QuietStep DEF LedgerRefuses, Consistent, StateAgrees, durable, runtime
<1>3. CASE ReplayEntry
  BY <1>3, ReplayConsistent, QuietStep DEF ReplayEntry
<1>4. CASE SaveState
  BY <1>4, SaveConsistent
<1>5. CASE Propose \/ Realize \/ RecordAppend \/ UpdateEstimators \/ Complete
  BY <1>5, WriteConsistent
     DEF Propose, Realize, RecordAppend, UpdateEstimators, Complete, NextEntries
<1>6. CASE BeginPlan
  <2>1. /\ mem.phase \in BetweenActions /\ pc = "loop" /\ pc' = "planning"
        /\ UNCHANGED <<ledger, saved, plans, estimated, runtime, mem>>
    BY <1>6 DEF BeginPlan, NeedsPlan, Proposing
  <2>2. StateAgrees'
    BY <2>1 DEF Consistent, StateAgrees, Working, runtime
  <2> QED BY <2>1, <2>2, LedgerFrame, RuntimeFrame, EstimatorsFrame, PlansFrame, PublishedFrame
           DEF Consistent, runtime
<1>7. CASE PlannerRefuses
  BY <1>7, QuietStep
     DEF PlannerRefuses, NeedsPlan, Proposing, Consistent, StateAgrees, Working, durable, runtime
<1>8. CASE WritePlan
  <2>1. /\ pc = "planning" /\ pc' = "loop"
        /\ UNCHANGED <<ledger, saved, estimated, runtime, mem>>
    BY <1>8 DEF WritePlan
  <2>2. StateAgrees'
    BY <2>1 DEF Consistent, StateAgrees, Working, runtime
  <2> QED BY <1>8, <2>1, <2>2, PlanConsistent, LedgerFrame, RuntimeFrame, EstimatorsFrame,
             PublishedFrame DEF Consistent, runtime
<1>9. CASE SendDecision
  <2>1. /\ pc = "loop" /\ pc \in Working /\ pc' = "executing" /\ mem.phase = "action_proposed"
        /\ inflight' = inflight \union {mem.proposed}
        /\ UNCHANGED <<ledger, saved, plans, estimated, receipts, recorded, published, mem>>
    BY <1>9 DEF SendDecision, durable, Working
  <2>2. mem.proposed \in PriorDecisions
    <3>1. ledger # <<>> /\ LastEntry = Entry("action_proposed", mem.proposed)
      BY <2>1, LoopTells
    <3>2. Len(ledger) \in DOMAIN ledger /\ ledger[Len(ledger)] = LastEntry
      BY <3>1 DEF Typed, TypeOK, LastEntry
    <3> QED BY <3>1, <3>2 DEF PriorDecisions, Entry
  <2>3. StateAgrees'
    BY <2>1 DEF Consistent, StateAgrees, Working
  <2>4. RuntimeAgrees'
    BY <2>1, <2>2, LedgerFrame DEF Consistent, RuntimeAgrees, Receipt, Between
  <2> QED BY <2>1, <2>3, <2>4, LedgerFrame, EstimatorsFrame, PlansFrame, PublishedFrame
           DEF Consistent
<1>10. CASE Assimilate
  BY <1>10, AssimilateConsistent, LedgerFrame, RuntimeFrame, PlansFrame, PublishedFrame
     DEF Assimilate, Consistent, runtime
<1>11. CASE UpdaterRefuses
  BY <1>11, QuietStep DEF UpdaterRefuses, Consistent, StateAgrees, Working, durable, runtime
<1>20. CASE EstimatorsFail \/ FinalFitFails
  <2>1. UNCHANGED <<ledger, saved, plans, estimated, runtime, mem>> /\ pc' = "down"
        /\ pc \in Working
    BY <1>20 DEF EstimatorsFail, FinalFitFails, Working
  <2>2. StateAgrees'
    BY <2>1 DEF Consistent, StateAgrees, Working
  <2> QED BY <2>1, <2>2, LedgerFrame, RuntimeFrame, EstimatorsFrame, PlansFrame, PublishedFrame
           DEF Consistent, runtime
<1>12. CASE Finalize
  BY <1>12, FinalizeConsistent, LedgerFrame, RuntimeFrame, EstimatorsFrame, PlansFrame
     DEF Finalize, Consistent, durable
<1>13. CASE Finish
  BY <1>13, QuietStep, WorkingAgrees
     DEF Finish, Consistent, StateAgrees, Working, durable, runtime
<1>14. CASE Rerun
  BY <1>14, QuietStep DEF Rerun, Consistent, StateAgrees, Working, durable, runtime
<1>15. CASE Runtime
  <2>1. PICK d \in inflight : RuntimeExecutes(d)
    BY <1>15 DEF Runtime
  <2>2. UNCHANGED <<ledger, saved, plans, estimated, published, pc, mem>>
    BY <2>1 DEF RuntimeExecutes, durable
  <2>3. StateAgrees'
    BY <2>2 DEF Consistent, StateAgrees
  <2> QED BY <2>1, <2>2, <2>3, RuntimeConsistent, LedgerFrame, EstimatorsFrame, PlansFrame,
             PublishedFrame DEF Consistent
<1>16. CASE Crash
  BY <1>16, QuietStep DEF Crash, Running, Consistent, StateAgrees, Working, durable, runtime
<1>17. CASE LoseAnswer
  <2>1. /\ pc = "executing" /\ pc' = "down" /\ inflight' \subseteq inflight
        /\ UNCHANGED <<ledger, saved, plans, estimated, receipts, recorded, published, mem>>
    BY <1>17 DEF LoseAnswer, durable
  <2>2. StateAgrees'
    BY <2>1 DEF Consistent, StateAgrees, Working
  <2>3. RuntimeAgrees'
    BY <2>1, LedgerFrame DEF Consistent, RuntimeAgrees, Receipt, Between
  <2> QED BY <2>1, <2>2, <2>3, LedgerFrame, EstimatorsFrame, PlansFrame, PublishedFrame
           DEF Consistent
<1>18. CASE TornAppend
  BY <1>18, TornConsistent
<1>19. CASE UNCHANGED vars
  BY <1>19, QuietStep DEF vars, Consistent, StateAgrees, durable, runtime
<1> QED
  BY <1>1, <1>2, <1>3, <1>4, <1>5, <1>6, <1>7, <1>8, <1>9, <1>10, <1>11, <1>12, <1>13, <1>14,
     <1>15, <1>16, <1>17, <1>18, <1>19, <1>20 DEF Next, Controller, Fault

\* A new mission is consistent.
LEMMA ConsistentInit == Init => Consistent
<1> SUFFICES ASSUME Init PROVE Consistent
  OBVIOUS
<1>1. ledger = <<>> /\ Len(ledger) = 0 /\ DOMAIN ledger = {}
  BY DEF Init
<1>2. PriorDecisions = {} /\ SettledStep = -1
  BY <1>1 DEF PriorDecisions, SettledStep
<1> QED BY <1>1, <1>2 DEF Init, Consistent, LedgerOrder, StateAgrees, Working, RuntimeAgrees,
         Between, EstimatorsFollowLedger, PlansAgree, PublishedAtEnd

\* The ledger, the state file, the memory, the receipts and the estimators
\* agree with each other after any number of faults.
THEOREM AlwaysConsistent == Spec => []Consistent
BY ConsistentInit, ConsistentStep, AlwaysTyped, PTL DEF Spec

\* The ledger is a sequence of whole action cycles, whatever crashed between
\* its lines.
THEOREM LedgerInOrder == Spec => []LedgerOrder
<1>1. Consistent => LedgerOrder
  BY DEF Consistent
<1> QED BY <1>1, AlwaysConsistent, PTL

\* The estimators use records after their append is durable, each once.
THEOREM EstimatorsCausal == Spec => []EstimatorsFollowLedger
<1>1. Consistent => EstimatorsFollowLedger
  BY DEF Consistent
<1> QED BY <1>1, AlwaysConsistent, PTL

\* Whatever the runtime holds or has done was proposed by the ledger, and
\* only the last proposal can be ahead of it.
THEOREM ActionsProposed == Spec => []OnlyProposedActionsHappen
<1>1. Typed /\ Consistent => OnlyProposedActionsHappen
  <2> SUFFICES ASSUME Typed, Consistent PROVE OnlyProposedActionsHappen
    OBVIOUS
  <2> DEFINE known == {ledger[i].body : i \in {j \in DOMAIN ledger :
                                                 ledger[j].event = "action_realized"}}
  <2>1. inflight \subseteq PriorDecisions
    BY DEF Consistent, RuntimeAgrees
  <2>2. known \subseteq receipts
    BY DEF Consistent, RuntimeAgrees
  <2>3. ASSUME NEW r \in receipts \ known
        PROVE  ledger # <<>> /\ ledger[Len(ledger)] = Entry("action_proposed", r.decision)
    <3>1. ledger \in Seq(Entries) /\ Len(ledger) \in Nat /\ DOMAIN ledger = 1..Len(ledger)
      BY DEF Typed, TypeOK
    <3>2. PICK i \in DOMAIN ledger :
            ledger[i].event = "action_proposed" /\ ledger[i].body = r.decision
      BY DEF Consistent, RuntimeAgrees, PriorDecisions
    <3>3. i = Len(ledger)
      <4> SUFFICES ASSUME i # Len(ledger) PROVE FALSE
        OBVIOUS
      <4>1. PICK k \in DOMAIN ledger : /\ ledger[k].event = "action_realized"
                                      /\ ledger[k].body \in receipts
                                      /\ ledger[k].body.decision = r.decision
        BY <3>2, Answered
      <4>2. ledger[k].body \in known
        BY <4>1
      <4>3. ledger[k].body = r
        BY <4>1 DEF Consistent, RuntimeAgrees, Receipt
      <4> QED BY <4>2, <4>3
    <3> QED BY <3>1, <3>2, <3>3, EntryBodies
  <2> QED BY <2>1, <2>2, <2>3 DEF OnlyProposedActionsHappen
<1> QED BY <1>1, AlwaysTyped, AlwaysConsistent, PTL

\* Every proposal is older than the step the estimators stand at when the
\* next one is made.
LEMMA PriorOlder ==
  ASSUME Typed, Consistent, Between, NEW d \in PriorDecisions
  PROVE  d.cutoff < SettledStep
<1>1. ledger \in Seq(Entries) /\ Len(ledger) \in Nat /\ DOMAIN ledger = 1..Len(ledger)
  BY DEF Typed, TypeOK
<1>2. PICK i \in DOMAIN ledger : ledger[i].event = "action_proposed" /\ ledger[i].body = d
  BY DEF PriorDecisions
<1>3. ledger # <<>> /\ i # Len(ledger) /\ LastEntry.event = "estimators_updated"
  BY <1>1, <1>2 DEF Between, LastEntry
<1>4. PICK r \in receipts : r.decision = d
  BY <1>2, <1>3, Answered
<1>5. LastStep(r) <= SettledStep /\ r.first = d.cutoff + 1
  BY <1>3, <1>4 DEF Consistent, RuntimeAgrees, Entry
<1>6. LastStep(r) \in Nat /\ r.first \in Nat /\ LastStep(r) >= r.first /\ d.cutoff \in Int
  <2>1. r \in Receipts /\ d \in Decisions
    BY <1>4, ReceiptDecision DEF Typed, TypeOK
  <2> QED BY <2>1, LastStepType DEF Decisions
<1> QED BY <1>5, <1>6, SettledTypes

\* No check of the controller, the planner or the replay rejects what the
\* mission itself wrote.
THEOREM ChecksNeverFire == Spec => []OwnChecksNeverFire
<1>1. Typed /\ Consistent => OwnChecksNeverFire
  <2> SUFFICES ASSUME Typed, Consistent PROVE OwnChecksNeverFire
    OBVIOUS
  <2>1. pc = "replaying" /\ mem.head < Len(ledger) => Accepts(mem, ledger[mem.head + 1])
    BY ReplayAccepts
  <2>2. pc = "loop" /\ mem.phase = "action_realized" => mem.realized.first = mem.step + 1
    BY LoopTells, CurrentReceipt DEF Working, Entry
  <2>3. Proposing => Between /\ mem.step = SettledStep /\ pc \in Working
    BY LoopTells DEF Proposing, Working
  <2>4. Proposing => estimated = mem.step
    <3> SUFFICES ASSUME Proposing PROVE estimated = mem.step
      OBVIOUS
    <3>1. CASE ledger = <<>>
      BY <2>3, <3>1 DEF Consistent, EstimatorsFollowLedger
    <3>2. CASE ledger # <<>>
      BY <2>3, <3>2 DEF Consistent, EstimatorsFollowLedger, Between
    <3> QED BY <3>1, <3>2
  <2>5. Proposing => Planned(mem) \intersect PriorDecisions = {}
    <3> SUFFICES ASSUME Proposing, NEW d \in Planned(mem), d \in PriorDecisions PROVE FALSE
      OBVIOUS
    <3>1. d.cutoff = mem.step
      BY DEF Planned, Bootstrap
    <3>2. d.cutoff < SettledStep
      BY <2>3, PriorOlder
    <3> QED BY <2>3, <3>1, <3>2, SettledTypes
  <2> QED BY <2>1, <2>2, <2>4, <2>5 DEF OwnChecksNeverFire
<1> QED BY <1>1, AlwaysTyped, AlwaysConsistent, PTL

\* Where an estimator operation that fails for good leaves the mission.
StuckInPlace ==
  /\ doomed = "update" =>
       /\ ledger # <<>>
       /\ LastEntry.event = "observation_appended"
       /\ ~UpdaterAhead
  /\ doomed = "final" => published /\ Between

\* A mission whose estimators fail for good has nothing to write any more.
LEMMA StuckWritesNothing ==
  ASSUME Typed, Consistent, StuckInPlace, NEW e \in NextEntries
  PROVE  doomed = "no"
<1>1. CASE doomed = "update"
  <2>1. ledger # <<>> /\ LastEntry.event = "observation_appended" /\ ~UpdaterAhead
    BY <1>1 DEF StuckInPlace
  <2>2. Updates(e)
    BY <2>1, NextEntryCases DEF Proposes, Realizes, RecordsAppend, Ends, Between, Entry
  <2> QED BY <2>1, <2>2 DEF Updates, Entry, UpdaterAhead, LastEntry
<1>2. CASE doomed = "final"
  <2>1. published /\ Between
    BY <1>2 DEF StuckInPlace
  <2>2. Ends(e)
    BY <2>1, NextEntryCases
       DEF Proposes, Realizes, RecordsAppend, Updates, Between, Entry
  <2>3. e \in CompletedEntries
    BY <2>2 DEF Ends, NextEntries, ProposalEntries, RealizedEntries, AppendedEntries,
       UpdatedEntries, Entry
  <2> QED BY <2>3 DEF CompletedEntries
<1> QED BY <1>1, <1>2 DEF Typed, TypeOK

\* No step moves the mission past an operation that fails for good.
LEMMA StuckStep == Typed /\ Consistent /\ StuckInPlace /\ [Next]_vars => StuckInPlace'
<1> SUFFICES ASSUME Typed, Consistent, StuckInPlace, [Next]_vars PROVE StuckInPlace'
  OBVIOUS
<1>1. ASSUME UNCHANGED <<ledger, estimated, doomed>>, published => published'
      PROVE  StuckInPlace'
  <2>1. LastEntry' = LastEntry /\ (UpdaterAhead' <=> UpdaterAhead) /\ (Between' <=> Between)
    BY <1>1, LedgerFrame DEF UpdaterAhead, LastStep, Between
  <2> QED BY <1>1, <2>1 DEF StuckInPlace
<1>2. ASSUME doomed = "no", UNCHANGED doomed PROVE StuckInPlace'
  BY <1>2 DEF StuckInPlace
<1>3. CASE EstimatorsFail
  <2>1. /\ pc \in Working /\ mem.phase = "observation_appended"
        /\ mem.realized.first = estimated + 1 /\ doomed' = "update"
        /\ UNCHANGED <<ledger, estimated>>
    BY <1>3 DEF EstimatorsFail, CausalNext, Working
  <2>2. ledger # <<>> /\ LastEntry = Entry("observation_appended", mem.realized)
    BY <2>1, LoopTells
  <2>3. mem.realized \in Receipts
    BY <2>2, CurrentReceipt DEF Entry
  <2>4. LastStep(mem.realized) >= mem.realized.first /\ mem.realized.first \in Nat
    BY <2>3, LastStepType
  <2>5. estimated # LastStep(mem.realized)
    BY <2>1, <2>4 DEF Typed, TypeOK
  <2>6. ~UpdaterAhead
    BY <2>2, <2>5 DEF UpdaterAhead, LastEntry, Entry
  <2>7. LastEntry' = LastEntry /\ (UpdaterAhead' <=> UpdaterAhead)
    BY <2>1, LedgerFrame DEF UpdaterAhead, LastStep
  <2> QED BY <2>1, <2>2, <2>6, <2>7 DEF StuckInPlace, Entry
<1>4. CASE FinalFitFails
  <2>1. /\ pc \in Working /\ pc = "finalized" /\ doomed' = "final"
        /\ UNCHANGED <<ledger, published>>
    BY <1>4 DEF FinalFitFails, Working, runtime
  <2>2. published /\ mem.phase \in BetweenActions
    BY <2>1 DEF Consistent, StateAgrees
  <2>3. Between
    BY <2>1, <2>2, LoopTells
  <2> QED BY <2>1, <2>2, <2>3, LedgerFrame DEF StuckInPlace, Between
<1>5. CASE Propose \/ Realize \/ RecordAppend \/ UpdateEstimators \/ Complete
  <2>1. PICK e \in NextEntries : WriteEntry(e)
    BY <1>5 DEF Propose, Realize, RecordAppend, UpdateEstimators, Complete, NextEntries
  <2> QED BY <1>2, <2>1, StuckWritesNothing DEF WriteEntry
<1>6. CASE TornAppend
  <2>1. NextEntries # {} /\ UNCHANGED doomed
    BY <1>6 DEF TornAppend
  <2> QED BY <1>2, <2>1, StuckWritesNothing
<1>7. CASE Assimilate
  BY <1>2, <1>7 DEF Assimilate
<1>8. CASE Restart \/ LedgerRefuses \/ ReplayEntry \/ PlannerRefuses \/ UpdaterRefuses \/ Finish
           \/ Rerun \/ Crash \/ LoseAnswer \/ SendDecision
  BY <1>1, <1>8 DEF Restart, LedgerRefuses, ReplayEntry, PlannerRefuses, UpdaterRefuses, Finish,
     Rerun, Crash, LoseAnswer, SendDecision, durable, runtime
<1>9. CASE SaveState \/ BeginPlan \/ WritePlan \/ Finalize
  BY <1>1, <1>9 DEF SaveState, BeginPlan, WritePlan, Finalize, durable, runtime
<1>10. CASE Runtime
  BY <1>1, <1>10 DEF Runtime, RuntimeExecutes, durable
<1>11. CASE UNCHANGED vars
  BY <1>1, <1>11 DEF vars, durable, runtime
<1> QED BY <1>3, <1>4, <1>5, <1>6, <1>7, <1>8, <1>9, <1>10, <1>11 DEF Next, Controller, Fault

\* A process that gave up is down, in the window its error names or stopped
\* for good by an estimator.
Refused ==
  /\ refusal # "none" => pc = "down"
  /\ refusal = "planner" => PlanHalfWritten
  /\ refusal = "updater" => UpdaterAhead
  /\ refusal = "ledger" => tail = "unreadable"
  /\ refusal = "estimator" => EstimatorStuck

\* A refusal has the cause its error names, and every step keeps it so.
LEMMA RefusedStep == Typed /\ Consistent /\ Refused /\ [Next]_vars => Refused'
<1> SUFFICES ASSUME Typed, Consistent, Refused, [Next]_vars PROVE Refused'
  OBVIOUS
<1> USE DEF Refused, PlanHalfWritten, EstimatorStuck
<1>1. ASSUME refusal' = "none" PROVE Refused'
  BY <1>1
<1>2. ASSUME UNCHANGED refusal, pc # "down" PROVE Refused'
  BY <1>1, <1>2
<1>3. ASSUME UNCHANGED <<ledger, estimated, tail, planDirs, plans, doomed, refusal, pc>>
      PROVE  Refused'
  BY <1>3, LedgerFrame DEF UpdaterAhead
<1>4. CASE PlannerRefuses
  <2>1. mem.step \in planDirs /\ (\A d \in plans : d.cutoff # mem.step) /\ pc' = "down"
        /\ refusal' = "planner" /\ UNCHANGED <<planDirs, plans, mem>>
    BY <1>4 DEF PlannerRefuses, NeedsPlan, durable
  <2> QED BY <2>1
<1>5. CASE UpdaterRefuses
  <2>1. /\ pc = "loop" /\ pc \in Working /\ mem.phase = "observation_appended"
        /\ mem.realized.first # estimated + 1
        /\ pc' = "down" /\ refusal' = "updater" /\ UNCHANGED <<ledger, estimated>>
    BY <1>5 DEF UpdaterRefuses, CausalNext, durable, Working
  <2>2. /\ ledger # <<>> /\ LastEntry = Entry("observation_appended", mem.realized)
        /\ mem.realized.first = SettledStep + 1
    BY <2>1, LoopTells, CurrentReceipt DEF Entry
  <2>3. UpdaterAhead
    BY <2>1, <2>2 DEF UpdaterAhead, Consistent, EstimatorsFollowLedger, LastEntry, Entry
  <2>4. UpdaterAhead'
    BY <2>1, <2>3, LedgerFrame DEF UpdaterAhead, LastStep
  <2> QED BY <2>1, <2>4
<1>14. CASE EstimatorsFail \/ FinalFitFails
  BY <1>14 DEF EstimatorsFail, FinalFitFails
<1>6. CASE LedgerRefuses
  BY <1>6 DEF LedgerRefuses, durable
<1>7. CASE Restart
  BY <1>1, <1>7 DEF Restart
<1>8. CASE Propose \/ Realize \/ RecordAppend \/ UpdateEstimators \/ Complete
  <2>1. PICK e \in NextEntries : WriteEntry(e)
    BY <1>8 DEF Propose, Realize, RecordAppend, UpdateEstimators, Complete, NextEntries
  <2>2. pc \in Working
    BY NextEntriesTyped
  <2> QED BY <1>2, <2>1, <2>2 DEF WriteEntry, Working
<1>9. CASE ReplayEntry \/ SaveState \/ BeginPlan \/ WritePlan \/ SendDecision \/ Assimilate
           \/ Finalize \/ Finish \/ Rerun
  BY <1>2, <1>9 DEF ReplayEntry, SaveState, BeginPlan, NeedsPlan, Proposing, WritePlan,
     SendDecision, Assimilate, Finalize, Finish, Rerun
<1>10. CASE Runtime
  BY <1>3, <1>10 DEF Runtime, RuntimeExecutes, durable
<1>11. CASE Crash \/ LoseAnswer
  BY <1>2, <1>11 DEF Crash, LoseAnswer, Running
<1>12. CASE TornAppend
  <2>1. NextEntries # {} /\ UNCHANGED refusal
    BY <1>12 DEF TornAppend
  <2>2. pc \in Working
    BY <2>1, NextEntriesTyped
  <2> QED BY <1>2, <2>1, <2>2 DEF Working
<1>13. CASE UNCHANGED vars
  BY <1>3, <1>13 DEF vars, durable
<1> QED
  BY <1>4, <1>5, <1>6, <1>7, <1>8, <1>9, <1>10, <1>11, <1>12, <1>13, <1>14
     DEF Next, Controller, Fault

\* A mission gives up only in one of the three crash windows, the one its error
\* names, or because an estimator operation fails for good on an observation it
\* has not used or on a log that is published, and it stays there.
THEOREM RefusesInWindow == Spec => []RefusedOnlyInWindow
<1>1. Init => Refused /\ StuckInPlace
  BY DEF Init, Refused, StuckInPlace
<1>2. Refused /\ StuckInPlace => RefusedOnlyInWindow
  BY DEF Refused, StuckInPlace, RefusedOnlyInWindow
<1> QED BY <1>1, <1>2, RefusedStep, StuckStep, AlwaysTyped, AlwaysConsistent, PTL DEF Spec

-----------------------------------------------------------------------------
(* What a replay gives: the state file and the memory of a working           *)
(* controller are the replay of the ledger entries they name, and every      *)
(* budget decision the ledger records was taken on such a replay.            *)

\* A nonempty set of natural numbers has a least one: what stands in for an
\* induction over the entries of a ledger.
LEMMA LeastEntry ==
  ASSUME NEW T, T \subseteq Nat, T # {}
  PROVE  \E x \in T : \A y \in T : x <= y
<1>1. IsWellFoundedOn(OpToRel(<, Nat), Nat)
  BY NatLessThanWellFounded
<1>2. PICK x \in T : \A y \in T : ~(<<y, x>> \in OpToRel(<, Nat))
  BY <1>1, WFMin
<1>3. \A y \in T : <<y, x>> \in OpToRel(<, Nat) <=> y < x
  BY DEF OpToRel
<1>4. \A y \in T : ~(y < x)
  BY <1>2, <1>3, Zenon
<1> QED BY <1>4

\* The controller state entry e leaves, as the n-th of a ledger, on state m.
Replayed(m, e, n) == [AfterEntry(m, e) EXCEPT !.head = n]

\* What the recursion of Replay says of its values r, for a ledger l.
IsReplay(l, r) ==
  r = [n \in 0..Len(l) |-> IF n = 0 THEN FreshState ELSE Replayed(r[n - 1], l[n], n)]

\* Every ledger can be replayed.
LEMMA ReplayExists ==
  ASSUME NEW l \in Seq(Entries)
  PROVE  \E r : IsReplay(l, r)
<1> DEFINE Upto(m, r) == r = [n \in 0..m |->
                            IF n = 0 THEN FreshState ELSE Replayed(r[n - 1], l[n], n)]
           Bad == {m \in 0..Len(l) : ~\E r : Upto(m, r)}
<1>1. Bad = {}
  <2> SUFFICES ASSUME Bad # {} PROVE FALSE
    OBVIOUS
  <2>0. Bad \subseteq Nat
    OBVIOUS
  <2>1. PICK m \in Bad : \A k \in Bad : m <= k
    <3> HIDE DEF Bad
    <3> QED BY <2>0, LeastEntry
  <2>2. 0 \notin Bad
    <3>1. Upto(0, [n \in 0..0 |-> FreshState])
      OBVIOUS
    <3> HIDE DEF Upto
    <3> QED BY <3>1
  <2>3. m - 1 \in 0..Len(l) /\ m - 1 \notin Bad /\ m \in 1..Len(l)
    <3>1. m \in 0..Len(l)
      OBVIOUS
    <3> HIDE DEF Bad
    <3> QED BY <2>1, <2>2, <3>1
  <2>4. PICK r : Upto(m - 1, r)
    <3> HIDE DEF Upto
    <3> QED BY <2>3
  <2> DEFINE more == [n \in 0..m |-> IF n = m THEN Replayed(r[m - 1], l[m], m) ELSE r[n]]
  <2>5. ASSUME NEW n \in 0..m
        PROVE  more[n] = IF n = 0 THEN FreshState ELSE Replayed(more[n - 1], l[n], n)
    <3>1. CASE n = m
      <4>1. more[n] = Replayed(r[m - 1], l[m], m) /\ more[n - 1] = r[m - 1] /\ n # 0
        BY <2>3, <3>1
      <4> QED BY <3>1, <4>1
    <3>2. CASE n # m
      <4>1. n \in 0..(m - 1) /\ more[n] = r[n] /\ (n # 0 => more[n - 1] = r[n - 1])
        BY <2>3, <3>2
      <4>2. r[n] = IF n = 0 THEN FreshState ELSE Replayed(r[n - 1], l[n], n)
        BY <2>4, <4>1
      <4> QED BY <4>1, <4>2
    <3> QED BY <3>1, <3>2
  <2>6. Upto(m, more)
    BY <2>5
  <2> HIDE DEF Upto, more
  <2> QED BY <2>1, <2>6
<1>2. \E r : Upto(Len(l), r)
  <2>1. Len(l) \in 0..Len(l)
    OBVIOUS
  <2> HIDE DEF Upto
  <2> QED BY <1>1, <2>1
<1> QED BY <1>2 DEF IsReplay

\* The values of a replay.
LEMMA ReplayValues ==
  ASSUME NEW l \in Seq(Entries), NEW r, IsReplay(l, r)
  PROVE  /\ r[0] = FreshState
         /\ \A n \in 1..Len(l) : r[n] = Replayed(r[n - 1], l[n], n)
<1>1. \A n \in 0..Len(l) :
        r[n] = IF n = 0 THEN FreshState ELSE Replayed(r[n - 1], l[n], n)
  BY Zenon DEF IsReplay
<1>2. 0 \in 0..Len(l) /\ \A n \in 1..Len(l) : n \in 0..Len(l) /\ n # 0
  OBVIOUS
<1> QED BY <1>1, <1>2

\* Replay is the replay of the ledger, before a step and after it.
LEMMA ReplayNow ==
  ASSUME ledger \in Seq(Entries)
  PROVE  IsReplay(ledger, Replay)
<1>1. \E r : IsReplay(ledger, r)
  BY ReplayExists
<1>2. \E r : r = [n \in 0..Len(ledger) |->
        IF n = 0 THEN FreshState
        ELSE [AfterEntry(r[n - 1], ledger[n]) EXCEPT !.head = n]]
  BY <1>1 DEF IsReplay, Replayed
<1> QED BY <1>2, Zenon DEF Replay, IsReplay, Replayed

\* The same of the state after a step.
LEMMA ReplayNext ==
  ASSUME ledger' \in Seq(Entries)
  PROVE  IsReplay(ledger', Replay')
<1>1. \E r : IsReplay(ledger', r)
  BY ReplayExists
<1>2. \E r : r = [n \in 0..Len(ledger') |->
        IF n = 0 THEN FreshState
        ELSE [AfterEntry(r[n - 1], ledger'[n]) EXCEPT !.head = n]]
  BY <1>1 DEF IsReplay, Replayed
<1> QED BY <1>2, Zenon DEF Replay, IsReplay, Replayed

\* What replay s of a ledger with entry e added to l has in common with
\* replay r of l.
Grows(l, e, r, s) ==
  /\ \A n \in 0..Len(l) : s[n] = r[n]
  /\ s[Len(l) + 1] = Replayed(r[Len(l)], e, Len(l) + 1)

\* One more entry does not change what the entries before it replay to.
LEMMA ReplayGrows ==
  ASSUME NEW l \in Seq(Entries), NEW e \in Entries,
         NEW r, IsReplay(l, r), NEW s, IsReplay(Append(l, e), s)
  PROVE  Grows(l, e, r, s)
<1> DEFINE k == Append(l, e)
           Differs == {n \in 0..Len(l) : s[n] # r[n]}
<1>1. /\ k \in Seq(Entries) /\ Len(k) = Len(l) + 1 /\ Len(l) \in Nat
      /\ k[Len(l) + 1] = e
      /\ \A i \in 1..Len(l) : k[i] = l[i]
  BY LongerLedger
<1>2. r[0] = FreshState /\ \A n \in 1..Len(l) : r[n] = Replayed(r[n - 1], l[n], n)
  BY ReplayValues
<1>3. s[0] = FreshState /\ \A n \in 1..(Len(l) + 1) : s[n] = Replayed(s[n - 1], k[n], n)
  BY <1>1, ReplayValues
<1>4. Differs = {}
  <2> SUFFICES ASSUME Differs # {} PROVE FALSE
    OBVIOUS
  <2>1. Differs \subseteq Nat
    BY <1>1
  <2>2. PICK n \in Differs : \A i \in Differs : n <= i
    <3> HIDE DEF Differs
    <3> QED BY <2>1, LeastEntry
  <2>3. n \in 0..Len(l) /\ s[n] # r[n]
    OBVIOUS
  <2>4. n # 0
    BY <1>2, <1>3, <2>3
  <2>5. n \in 1..Len(l) /\ n - 1 \in 0..Len(l) /\ n \in 1..(Len(l) + 1) /\ ~(n <= n - 1)
    BY <1>1, <2>3, <2>4
  <2>6. s[n - 1] = r[n - 1]
    BY <2>2, <2>5
  <2>7. s[n] = r[n]
    BY <1>1, <1>2, <1>3, <2>5, <2>6
  <2> QED BY <2>3, <2>7
<1>5. \A n \in 0..Len(l) : s[n] = r[n]
  BY <1>4
<1>6. Len(l) \in 0..Len(l) /\ Len(l) + 1 \in 1..(Len(l) + 1) /\ (Len(l) + 1) - 1 = Len(l)
  BY <1>1
<1>7. s[Len(l) + 1] = Replayed(s[Len(l)], e, Len(l) + 1)
  BY <1>1, <1>3, <1>6
<1> QED BY <1>5, <1>6, <1>7 DEF Grows

\* A step that leaves the ledger alone leaves its replay alone.
LEMMA ReplayFrame ==
  ASSUME UNCHANGED ledger
  PROVE  Replay' = Replay
BY Zenon DEF Replay

\* A step that appends e adds one value to the replay.
LEMMA ReplayAppended ==
  ASSUME Typed, NEW e \in Entries, ledger' = Append(ledger, e)
  PROVE  /\ \A n \in 0..Len(ledger) : Replay'[n] = Replay[n]
         /\ Replay'[Len(ledger) + 1] = Replayed(Replay[Len(ledger)], e, Len(ledger) + 1)
<1>1. ledger \in Seq(Entries) /\ ledger' \in Seq(Entries)
  BY DEF Typed, TypeOK
<1>2. IsReplay(ledger, Replay) /\ IsReplay(ledger', Replay')
  BY <1>1, ReplayNow, ReplayNext
<1>3. Grows(ledger, e, Replay, Replay')
  BY <1>1, <1>2, ReplayGrows, Zenon
<1> QED BY <1>3 DEF Grows

\* What the replay property needs to be inductive: a controller that replays,
\* or is about to save, holds the replay of the entries it has met, but for
\* the head it will write.
Replays ==
  /\ saved # Nothing => saved = Replay[saved.head]
  /\ pc = "created" => mem = FreshState
  /\ pc = "replaying" => mem = Replay[mem.head]
  /\ pc = "saving" => [mem EXCEPT !.head = Len(ledger)] = Replay[Len(ledger)]
  /\ pc \in Working => mem = Replay[Len(ledger)]
  /\ BudgetDecidesTheEnd

\* Budgets are spent by the amounts, whatever head the state carries.
LEMMA SpentAnyHead ==
  ASSUME NEW m \in States, NEW h
  PROVE  BudgetExhausted([m EXCEPT !.head = h]) <=> BudgetExhausted(m)
BY DEF BudgetExhausted, States

\* An entry appended to the ledger was decided on the replay of the others.
LEMMA AppendDecided ==
  ASSUME Typed, Consistent, Replays, NEW e \in NextEntries, ledger' = Append(ledger, e)
  PROVE  BudgetDecidesTheEnd'
<1>1. e \in Entries /\ pc \in Working
  BY NextEntriesTyped
<1>2. mem = Replay[Len(ledger)] /\ mem = saved
  BY <1>1, WorkingAgrees DEF Replays
<1>3. /\ \A n \in 0..Len(ledger) : Replay'[n] = Replay[n]
      /\ DOMAIN ledger = 1..Len(ledger) /\ DOMAIN ledger' = 1..(Len(ledger) + 1)
      /\ ledger'[Len(ledger) + 1] = e /\ Len(ledger) \in Nat
      /\ \A i \in 1..Len(ledger) : ledger'[i] = ledger[i]
  BY <1>1, ReplayAppended, Appended
<1>4. e.event = "action_proposed" => ~BudgetExhausted(mem)
  <2> SUFFICES ASSUME e.event = "action_proposed" PROVE ~BudgetExhausted(mem)
    OBVIOUS
  <2>1. e \in ProposalEntries
    BY DEF NextEntries, RealizedEntries, AppendedEntries, UpdatedEntries, CompletedEntries, Entry
  <2> QED BY <2>1 DEF ProposalEntries, Proposing
<1>5. e.event = "mission_completed" => BudgetExhausted(mem)
  <2> SUFFICES ASSUME e.event = "mission_completed" PROVE BudgetExhausted(mem)
    OBVIOUS
  <2>1. Ends(e)
    BY NextEntryCases DEF Proposes, Realizes, RecordsAppend, Updates
  <2>2. ~(ledger # <<>> /\ LastEntry.event = "mission_completed")
    BY <2>1 DEF Ends, Between
  <2> QED BY <1>2, <2>1, <2>2 DEF Ends, Consistent, PublishedAtEnd
<1>6. ASSUME NEW i \in DOMAIN ledger'
      PROVE  /\ ledger'[i].event = "action_proposed" => ~BudgetExhausted(Replay'[i - 1])
             /\ ledger'[i].event = "mission_completed" => BudgetExhausted(Replay'[i - 1])
  <2>1. CASE i = Len(ledger) + 1
    <3>1. i - 1 = Len(ledger) /\ Len(ledger) \in 0..Len(ledger)
      BY <1>3, <2>1
    <3>2. Replay'[i - 1] = mem /\ ledger'[i] = e
      BY <1>2, <1>3, <2>1, <3>1
    <3> QED BY <1>4, <1>5, <3>2
  <2>2. CASE i # Len(ledger) + 1
    <3>1. i \in DOMAIN ledger /\ i \in 1..Len(ledger) /\ i - 1 \in 0..Len(ledger)
      BY <1>3, <2>2
    <3>2. Replay'[i - 1] = Replay[i - 1] /\ ledger'[i] = ledger[i]
      BY <1>3, <3>1
    <3> QED BY <3>1, <3>2 DEF Replays, BudgetDecidesTheEnd
  <2> QED BY <2>1, <2>2
<1> QED BY <1>6 DEF BudgetDecidesTheEnd, BudgetExhausted

\* What an append leaves in the state file and in memory.
LEMMA AppendReplays ==
  ASSUME Typed, Consistent, Replays, NEW e \in NextEntries, ledger' = Append(ledger, e),
         UNCHANGED saved
  PROVE  /\ saved' # Nothing /\ saved' = Replay'[saved'.head]
         /\ [AfterEntry(mem, e) EXCEPT !.head = Len(ledger')] = Replay'[Len(ledger')]
<1>1. e \in Entries /\ pc \in Working
  BY NextEntriesTyped
<1>2. mem = Replay[Len(ledger)] /\ mem = saved /\ mem.head = Len(ledger) /\ saved # Nothing
  BY <1>1, WorkingAgrees DEF Replays
<1>3. /\ \A n \in 0..Len(ledger) : Replay'[n] = Replay[n]
      /\ Replay'[Len(ledger) + 1] = Replayed(Replay[Len(ledger)], e, Len(ledger) + 1)
      /\ Len(ledger') = Len(ledger) + 1 /\ Len(ledger) \in Nat
  BY <1>1, ReplayAppended, Appended
<1>4. Len(ledger) \in 0..Len(ledger)
  BY <1>3
<1> QED BY <1>2, <1>3, <1>4 DEF Replayed

\* A step that leaves the ledger and the state file alone, and the memory of a
\* controller that works, or leaves it without one.
LEMMA ReplaysFrame ==
  ASSUME Replays, UNCHANGED <<ledger, saved>>,
         \/ pc' \in {"down", "done"}
         \/ pc \in Working /\ pc' \in Working /\ mem' = mem
         \/ pc' = pc /\ mem' = mem
  PROVE  Replays'
<1>1. Replay' = Replay
  BY ReplayFrame
<1>2. BudgetDecidesTheEnd'
  BY <1>1 DEF Replays, BudgetDecidesTheEnd, BudgetExhausted
<1> QED BY <1>1, <1>2 DEF Replays, Working

\* Every step keeps it.
LEMMA ReplaysStep == Typed /\ Consistent /\ Replays /\ [Next]_vars => Replays'
<1> SUFFICES ASSUME Typed, Consistent, Replays, [Next]_vars PROVE Replays'
  OBVIOUS
<1> USE DEF durable, runtime
<1>0. /\ ledger \in Seq(Entries) /\ Len(ledger) \in Nat /\ mem \in States
      /\ saved \in States \union {Nothing}
  BY DEF Typed, TypeOK
<1>1. CASE Restart
  <2>1. UNCHANGED <<ledger, saved>> /\ Replay' = Replay /\ BudgetDecidesTheEnd'
    <3>1. UNCHANGED <<ledger, saved>> /\ Replay' = Replay
      BY <1>1, ReplayFrame DEF Restart
    <3> QED BY <3>1 DEF Replays, BudgetDecidesTheEnd, BudgetExhausted
  <2>2. CASE saved = Nothing
    <3>1. ledger = <<>> /\ pc' = "created" /\ mem' = [FreshState EXCEPT !.head = 0]
      BY <1>1, <2>2 DEF Restart, Consistent, StateAgrees
    <3>2. mem' = FreshState
      BY <3>1 DEF FreshState
    <3> QED BY <2>1, <2>2, <3>1, <3>2 DEF Replays, Working
  <2>3. CASE saved # Nothing
    <3>1. mem' = saved /\ pc' = IF saved.head = Len(ledger) THEN "loop" ELSE "replaying"
      BY <1>1, <2>3 DEF Restart
    <3> QED BY <2>1, <2>3, <3>1 DEF Replays, Working
  <2> QED BY <2>2, <2>3
<1>2. CASE ReplayEntry
  <2> DEFINE e == ledger[mem.head + 1]
             n == mem.head + 1
  <2>1. /\ pc = "replaying" /\ pc' = "replaying" /\ mem.head < Len(ledger)
        /\ mem' = Replayed(mem, e, n)
        /\ UNCHANGED <<ledger, saved>>
    BY <1>2 DEF ReplayEntry, Replayed
  <2>2. mem.head \in Nat /\ n \in 1..Len(ledger) /\ n - 1 = mem.head
    BY <1>0, <2>1, PhaseCarries
  <2>3. Accepts(mem, e) /\ e \in Entries
    BY <1>0, <1>2, <2>2 DEF ReplayEntry
  <2>4. AfterEntry(mem, e) \in States
    BY <1>0, <2>3, AfterEntryType, PhaseCarries DEF Accepts
  <2>5. mem'.head = n
    BY <2>1, <2>4 DEF Replayed, States
  <2>6. Replay[n] = Replayed(Replay[n - 1], ledger[n], n)
    BY <1>0, <2>2, ReplayNow, ReplayValues
  <2>7. mem' = Replay[mem'.head]
    BY <2>1, <2>2, <2>5, <2>6 DEF Replays
  <2>8. Replay' = Replay
    BY <2>1, ReplayFrame
  <2>9. BudgetDecidesTheEnd'
    BY <2>1, <2>8 DEF Replays, BudgetDecidesTheEnd, BudgetExhausted
  <2> QED BY <2>1, <2>7, <2>8, <2>9 DEF Replays, Working
<1>3. CASE SaveState
  <2>1. /\ UNCHANGED ledger /\ saved' = [mem EXCEPT !.head = Len(ledger)] /\ mem' = saved'
        /\ pc' = "loop"
        /\ pc \in {"created", "saving"} \/ (pc = "replaying" /\ mem.head = Len(ledger))
    BY <1>3 DEF SaveState
  <2>2. Replay' = Replay
    BY <2>1, ReplayFrame
  <2>3. saved' = Replay[Len(ledger)]
    <3>1. CASE pc = "created"
      <4>1. ledger = <<>> /\ mem = FreshState
        BY <3>1 DEF Replays, Consistent, StateAgrees
      <4>2. Len(ledger) = 0 /\ [FreshState EXCEPT !.head = 0] = FreshState
        BY <4>1 DEF FreshState
      <4>3. Replay[0] = FreshState
        BY <1>0, ReplayNow, ReplayValues
      <4> QED BY <2>1, <4>1, <4>2, <4>3
    <3>2. CASE pc = "saving"
      BY <2>1, <3>2 DEF Replays
    <3>3. CASE pc = "replaying" /\ mem.head = Len(ledger)
      <4>1. [mem EXCEPT !.head = mem.head] = mem
        BY <1>0 DEF States
      <4> QED BY <2>1, <3>3, <4>1 DEF Replays
    <3> QED BY <2>1, <3>1, <3>2, <3>3
  <2>4. saved'.head = Len(ledger)
    BY <1>0, <2>1 DEF States
  <2>5. BudgetDecidesTheEnd'
    BY <2>1, <2>2 DEF Replays, BudgetDecidesTheEnd, BudgetExhausted
  <2> QED BY <2>1, <2>2, <2>3, <2>4, <2>5 DEF Replays, Working
<1>4. ASSUME NEW e \in NextEntries, WriteEntry(e) PROVE Replays'
  <2>1. /\ ledger' = Append(ledger, e) /\ UNCHANGED saved
        /\ mem' = AfterEntry(mem, e) /\ pc' = "saving"
    BY <1>4 DEF WriteEntry
  <2> QED BY <2>1, AppendDecided, AppendReplays DEF Replays, Working
<1>5. CASE Propose \/ Realize \/ RecordAppend \/ UpdateEstimators \/ Complete
  BY <1>4, <1>5 DEF Propose, Realize, RecordAppend, UpdateEstimators, Complete, NextEntries
<1>6. CASE TornAppend
  <2>1. PICK e \in NextEntries : ledger' = ledger \/ ledger' = Append(ledger, e)
    BY <1>6 DEF TornAppend
  <2>2. UNCHANGED saved /\ pc' = "down"
    BY <1>6 DEF TornAppend
  <2>3. CASE ledger' = ledger
    BY <2>2, <2>3, ReplaysFrame
  <2>4. CASE ledger' = Append(ledger, e)
    BY <2>2, <2>4, AppendDecided, AppendReplays DEF Replays, Working
  <2> QED BY <2>1, <2>3, <2>4
<1>7. CASE LedgerRefuses \/ PlannerRefuses \/ UpdaterRefuses \/ EstimatorsFail \/ FinalFitFails
           \/ Finish \/ Rerun \/ Crash \/ LoseAnswer
  <2>1. UNCHANGED <<ledger, saved>> /\ (pc' \in {"down", "done"} \/ (pc' = pc /\ mem' = mem))
    BY <1>7 DEF LedgerRefuses, PlannerRefuses, UpdaterRefuses, EstimatorsFail, FinalFitFails,
       Finish, Rerun, Crash, LoseAnswer
  <2> QED BY <2>1, ReplaysFrame
<1>8. CASE BeginPlan \/ WritePlan \/ SendDecision \/ Assimilate \/ Finalize
  <2>1. UNCHANGED <<ledger, saved>> /\ pc \in Working /\ pc' \in Working /\ mem' = mem
    BY <1>8 DEF BeginPlan, NeedsPlan, Proposing, WritePlan, SendDecision, Assimilate, Finalize,
                Working
  <2> QED BY <2>1, ReplaysFrame
<1>9. CASE Runtime
  <2>1. UNCHANGED <<ledger, saved, pc, mem>>
    BY <1>9 DEF Runtime, RuntimeExecutes
  <2> QED BY <2>1, ReplaysFrame
<1>10. CASE UNCHANGED vars
  <2>1. UNCHANGED <<ledger, saved, pc, mem>>
    BY <1>10 DEF vars
  <2> QED BY <2>1, ReplaysFrame
<1> QED BY <1>1, <1>2, <1>3, <1>5, <1>6, <1>7, <1>8, <1>9, <1>10 DEF Next, Controller, Fault

\* A new mission holds the replay of an empty ledger.
LEMMA ReplaysInit == Init => Replays
BY DEF Init, Replays, Working, BudgetDecidesTheEnd

\* Every reachable state file, and the memory of every controller, is a
\* replay.
THEOREM AlwaysReplays == Spec => []Replays
BY TypedInit, TypedStep, ConsistentInit, ConsistentStep, ReplaysInit, ReplaysStep, PTL DEF Spec

\* The state file is exactly what a replay of the entries it names gives, at
\* most one entry behind the ledger, and a controller past its recovery works
\* on the replay of the whole ledger.
THEOREM StateIsTheReplay == Spec => []StateReplaysLedger
<1>1. Consistent /\ Replays => StateReplaysLedger
  BY DEF Consistent, StateAgrees, Replays, StateReplaysLedger, Working
<1> QED BY <1>1, AlwaysConsistent, AlwaysReplays, PTL

\* By the ledger alone, an action was proposed only while every budget was
\* unspent and the mission completed only when one was spent.
THEOREM BudgetsDecide == Spec => []BudgetDecidesTheEnd
<1>1. Replays => BudgetDecidesTheEnd
  BY DEF Replays
<1> QED BY <1>1, AlwaysReplays, PTL

-----------------------------------------------------------------------------
(* HybridMission implements MissionPromise.  The stage of the promise is     *)
(* read off the last ledger entry, the receipts and the estimators, so only  *)
(* five kinds of step are visible: an appended entry, a first execution, an  *)
(* assimilation and the publication of the log.  Restarts, replays, saves,   *)
(* lost answers, crashes and torn lines change nothing.                      *)

\* A step that none of the mapped variables can see.
LEMMA Invisible ==
  ASSUME UNCHANGED <<ledger, receipts, estimated, published>>
  PROVE  UNCHANGED Promise!vars
BY LedgerFrame
   DEF Promise!vars, PromiseStage, PromiseAction, PromiseExecuted, PromiseAssimilated, Receipt,
       LastEntry

\* The stage and the action of the promise, by the last entry.
StageTable ==
  /\ published => PromiseStage = "closed"
  /\ ~published /\ Between => PromiseStage = "idle"
  /\ ~published /\ ledger # <<>> /\ LastEntry.event = "action_proposed" =>
       PromiseStage = IF Receipt(LastEntry.body) = {} THEN "decided" ELSE "executed"
  /\ ~published /\ ledger # <<>>
      /\ LastEntry.event \in {"action_realized", "observation_appended"} =>
       PromiseStage = IF estimated < LastStep(LastEntry.body) THEN "executed" ELSE "assimilated"
  /\ ledger # <<>> /\ LastEntry.event = "action_proposed" => PromiseAction = LastEntry.body
  /\ ledger # <<>> /\ LastEntry.event \in {"action_realized", "observation_appended",
                                          "estimators_updated"} =>
       PromiseAction = LastEntry.body.decision
  /\ ledger = <<>> => PromiseAction = Nothing

\* The stage of the promise in a state, by the last entry.
LEMMA StageNow == StageTable
BY DEF StageTable, PromiseStage, PromiseAction, Between

\* The same of the state after a step.
LEMMA StageNext == StageTable'
BY DEF StageTable, PromiseStage, PromiseAction, Between

\* A published mission appends nothing but its end.
LEMMA OpenCycle ==
  ASSUME Typed, Consistent, ledger # <<>>,
         LastEntry.event \in {"action_proposed", "action_realized", "observation_appended"}
  PROVE  ~published
BY DEF Consistent, PublishedAtEnd, Between

\* An appended entry is a step of the promise, or none.
LEMMA AppendSimulates ==
  ASSUME Typed, Consistent, NEW e \in NextEntries, ledger' = Append(ledger, e),
         UNCHANGED <<receipts, estimated, published>>
  PROVE  [Promise!Next]_Promise!vars
<1> USE DEF StageTable
<1>1. /\ LastEntry' = e /\ ledger' # <<>> /\ Len(ledger) \in Nat
      /\ Len(ledger') = Len(ledger) + 1
      /\ \A i \in 1..Len(ledger) : ledger'[i] = ledger[i]
  BY Appended
<1>2. UNCHANGED <<PromiseExecuted, PromiseAssimilated>>
  BY DEF PromiseExecuted, PromiseAssimilated
<1>3. (Receipt(LastEntry.body))' = Receipt(e.body)
  BY <1>1 DEF Receipt
<1>4. ASSUME UNCHANGED <<PromiseStage, PromiseAction>> PROVE [Promise!Next]_Promise!vars
  BY <1>2, <1>4 DEF Promise!vars
<1>5. CASE Proposes(e)
  <2>1. PromiseStage = "idle"
    BY <1>5, StageNow DEF Proposes
  <2>2. e.body \notin PromiseExecuted
    BY <1>5 DEF Proposes, PromiseExecuted, Consistent, RuntimeAgrees
  <2>3. Receipt(e.body) = {}
    BY <2>2 DEF PromiseExecuted, Receipt
  <2>4. PromiseStage' = "decided" /\ PromiseAction' = e.body
    BY <1>1, <1>3, <1>5, <2>3, StageNext DEF Proposes
  <2> QED BY <1>2, <1>5, <2>1, <2>2, <2>4 DEF Proposes, Promise!Next, Promise!Decide
<1>6. CASE Realizes(e)
  <2>1. ledger # <<>> /\ LastEntry.event = "action_proposed" /\ LastEntry.body = e.body.decision
        /\ e.body \in receipts /\ e.event = "action_realized"
    BY <1>6 DEF Realizes, Entry
  <2>2. Receipt(LastEntry.body) # {}
    BY <2>1 DEF Receipt
  <2>3. PromiseStage = "executed" /\ PromiseAction = e.body.decision /\ ~published
    BY <2>1, <2>2, OpenCycle, StageNow
  <2>4. estimated < LastStep(e.body)
    <3>1. estimated = SettledStep /\ SettledStep = e.body.decision.cutoff
      BY <2>1 DEF Consistent, EstimatorsFollowLedger, SettledStep
    <3>2. e.body.first = e.body.decision.cutoff + 1 /\ e.body \in Receipts
      BY <2>1 DEF Consistent, RuntimeAgrees, Typed, TypeOK
    <3> QED BY <3>1, <3>2, LastStepType, SettledTypes
  <2>5. PromiseStage' = "executed" /\ PromiseAction' = e.body.decision
    BY <1>1, <2>1, <2>3, <2>4, StageNext
  <2> QED BY <1>4, <2>3, <2>5
<1>7. CASE RecordsAppend(e)
  <2>1. ledger # <<>> /\ LastEntry.event = "action_realized" /\ LastEntry.body = e.body
        /\ e.event = "observation_appended"
    BY <1>7 DEF RecordsAppend, Entry
  <2>2. ~published
    BY <2>1, OpenCycle
  <2>3. PromiseStage' = PromiseStage /\ PromiseAction' = PromiseAction
    BY <1>1, <2>1, <2>2, StageNow, StageNext DEF LastStep
  <2> QED BY <1>4, <2>3
<1>8. CASE Updates(e)
  <2>1. ledger # <<>> /\ LastEntry.event = "observation_appended" /\ LastEntry.body = e.body
        /\ e.event = "estimators_updated" /\ estimated = LastStep(e.body) /\ e.body \in Receipts
    BY <1>8 DEF Updates, Entry
  <2>2. ~published /\ ~(estimated < LastStep(e.body))
    BY <2>1, OpenCycle, LastStepType
  <2>3. PromiseStage = "assimilated" /\ PromiseAction = e.body.decision
    BY <2>1, <2>2, StageNow
  <2>4. PromiseStage' = "idle" /\ PromiseAction' = e.body.decision
    BY <1>1, <2>1, <2>2, StageNext DEF Between
  <2> QED BY <1>2, <2>3, <2>4 DEF Promise!Next, Promise!Conclude
<1>9. CASE Ends(e)
  <2>1. PromiseStage = "closed" /\ PromiseStage' = "closed"
    BY <1>9, StageNow, StageNext DEF Ends
  <2>2. e.event = "mission_completed" /\ Between
    BY <1>9 DEF Ends
  <2>3. PromiseAction' = IF Len(ledger') = 1 THEN Nothing
                         ELSE ledger'[Len(ledger') - 1].body.decision
    BY <1>1, <2>2 DEF PromiseAction
  <2>4. PromiseAction' = PromiseAction
    <3>1. CASE ledger = <<>>
      BY <1>1, <2>3, <3>1, StageNow
    <3>2. CASE ledger # <<>>
      <4>1. ledger'[Len(ledger') - 1] = LastEntry /\ Len(ledger') # 1
        <5>1. Len(ledger) \in 1..Len(ledger) /\ Len(ledger') - 1 = Len(ledger)
          BY <1>1, <3>2 DEF Typed, TypeOK
        <5> QED BY <1>1, <5>1 DEF LastEntry
      <4> QED BY <2>2, <2>3, <3>2, <4>1, StageNow DEF Between
    <3> QED BY <3>1, <3>2
  <2> QED BY <1>4, <2>1, <2>4
<1> QED BY <1>5, <1>6, <1>7, <1>8, <1>9, NextEntryCases

\* A decision is carried out for the first time: Execute.  Any other answer
\* of the runtime is invisible.
LEMMA RuntimeSimulates ==
  ASSUME Typed, Consistent, NEW d \in inflight, RuntimeExecutes(d)
  PROVE  [Promise!Next]_Promise!vars
<1> USE DEF StageTable
<1>1. UNCHANGED <<ledger, estimated, published>>
  BY DEF RuntimeExecutes, durable
<1>2. CASE Receipt(d) # {}
  BY <1>1, <1>2, Invisible DEF RuntimeExecutes
<1>3. CASE Receipt(d) = {}
  <2>1. PICK c \in Costs :
          receipts' = receipts \union {[decision |-> d, first |-> recorded, cost |-> c]}
    BY <1>3 DEF RuntimeExecutes
  <2>2. PICK new : new = [decision |-> d, first |-> recorded, cost |-> c]
    OBVIOUS
  <2>11. receipts' = receipts \union {new} /\ new.decision = d
    BY <2>1, <2>2
  <2>3. /\ ledger # <<>> /\ LastEntry = Entry("action_proposed", d)
        /\ recorded = d.cutoff + 1 /\ SettledStep = d.cutoff
    BY <1>3, FreshExecution
  <2>4. LastEntry.event = "action_proposed" /\ LastEntry.body = d /\ ~published
    BY <2>3, OpenCycle DEF Entry
  <2>5. PromiseStage = "decided" /\ PromiseAction = d
    BY <1>3, <2>3, <2>4, StageNow
  <2>6. LastEntry' = LastEntry /\ ledger' # <<>>
    BY <1>1, <2>3, LedgerFrame
  <2>7. (Receipt(LastEntry.body))' # {}
    <3>1. LastEntry'.body = d
      BY <2>4, <2>6
    <3>2. new \in {r \in receipts' : r.decision = LastEntry'.body}
      BY <2>11, <3>1
    <3> QED BY <3>2 DEF Receipt
  <2>8. PromiseStage' = "executed" /\ PromiseAction' = d
    BY <1>1, <2>4, <2>6, <2>7, StageNext
  <2>9. PromiseExecuted' = PromiseExecuted \union {d}
    <3>1. {r.decision : r \in receipts'} = {r.decision : r \in receipts} \union {d}
      BY <2>11
    <3> QED BY <3>1 DEF PromiseExecuted
  <2>10. PromiseAssimilated' = PromiseAssimilated
    <3>1. new \in Receipts /\ new.first = recorded
      BY <2>1, <2>2 DEF Receipts, Typed, TypeOK
    <3>2. estimated = d.cutoff
      BY <2>3, <2>4 DEF Consistent, EstimatorsFollowLedger
    <3>3. LastStep(new) \in Nat /\ LastStep(new) >= d.cutoff + 1 /\ d.cutoff \in Int
      BY <2>3, <3>1, LastStepType, SettledTypes
    <3>4. ~(LastStep(new) <= estimated)
      BY <3>2, <3>3
    <3>5. receipts' = receipts \union {new}
      BY <2>1, <2>2
    <3>6. {x \in receipts' : LastStep(x) <= estimated'} = {x \in receipts : LastStep(x) <= estimated}
      BY <1>1, <3>4, <3>5
    <3> QED BY <1>1, <3>6 DEF PromiseAssimilated
  <2> QED BY <2>5, <2>8, <2>9, <2>10 DEF Promise!Next, Promise!Execute
<1> QED BY <1>2, <1>3

\* The updater's save is the moment the estimators have used the records.
LEMMA AssimilateSimulates ==
  ASSUME Typed, Consistent, Assimilate
  PROVE  [Promise!Next]_Promise!vars
<1> USE DEF StageTable
<1>1. /\ pc \in Working /\ mem.phase = "observation_appended"
      /\ mem.realized.first = estimated + 1 /\ estimated' = LastStep(mem.realized)
      /\ UNCHANGED <<ledger, receipts, published>>
  BY DEF Assimilate, Working, runtime, CausalNext
<1>2. PICK r : r = mem.realized
  OBVIOUS
<1>3. ledger # <<>> /\ LastEntry.event = "observation_appended" /\ LastEntry.body = r
  BY <1>1, <1>2, LoopTells DEF Entry
<1>4. r \in receipts /\ r \in Receipts /\ r.first = SettledStep + 1 /\ LastStep(r) \in Nat
      /\ LastStep(r) > SettledStep /\ SettledStep \in Int /\ ~published
  BY <1>3, CurrentReceipt, OpenCycle, LastStepType, SettledTypes
<1>5. estimated = SettledStep /\ estimated < LastStep(r)
  <2>1. estimated \in Int
    BY DEF Typed, TypeOK
  <2> QED BY <1>1, <1>2, <1>4, <2>1
<1>6. PromiseStage = "executed" /\ PromiseAction = r.decision
  BY <1>3, <1>4, <1>5, StageNow
<1>7. LastEntry' = LastEntry /\ ledger' # <<>>
  BY <1>1, <1>3, LedgerFrame
<1>8. (LastStep(LastEntry.body))' = LastStep(r)
  BY <1>3, <1>7 DEF LastStep
<1>9. ~(estimated' < LastStep(r))
  BY <1>1, <1>2, <1>4
<1>10. PromiseStage' = "assimilated" /\ PromiseAction' = r.decision
  BY <1>1, <1>3, <1>4, <1>7, <1>8, <1>9, StageNext
<1>11. PromiseExecuted' = PromiseExecuted
  BY <1>1 DEF PromiseExecuted
<1>12. \A x \in receipts : LastStep(x) <= LastStep(r) <=> (LastStep(x) <= estimated \/ x = r)
  <2> SUFFICES ASSUME NEW x \in receipts
               PROVE  LastStep(x) <= LastStep(r) <=> (LastStep(x) <= estimated \/ x = r)
    OBVIOUS
  <2>1. LastStep(x) <= SettledStep \/ x = r
    BY <1>3 DEF Consistent, RuntimeAgrees, Entry
  <2>2. LastStep(x) \in Nat
    BY LastStepType DEF Typed, TypeOK
  <2> QED BY <1>4, <1>5, <2>1, <2>2
<1>13. {x \in receipts : LastStep(x) <= LastStep(r)} =
         {x \in receipts : LastStep(x) <= estimated} \union {r}
  BY <1>4, <1>12
<1>14. PromiseAssimilated' = PromiseAssimilated \union {r.decision}
  <2>1. {x \in receipts' : LastStep(x) <= estimated'} = {x \in receipts : LastStep(x) <= LastStep(r)}
    BY <1>1, <1>2
  <2> QED BY <1>13, <2>1 DEF PromiseAssimilated
<1> QED BY <1>6, <1>10, <1>11, <1>14 DEF Promise!Next, Promise!Assimilate

\* The publication of the log closes the mission.
LEMMA FinalizeSimulates ==
  ASSUME Typed, Consistent, Finalize
  PROVE  [Promise!Next]_Promise!vars
<1> USE DEF StageTable
<1>1. /\ pc \in Working /\ mem.phase \in BetweenActions /\ published' = TRUE
      /\ UNCHANGED <<ledger, receipts, estimated>>
  BY DEF Finalize, Working, durable
<1>2. CASE published
  BY <1>1, <1>2, Invisible DEF Typed, TypeOK
<1>3. CASE ~published
  <2>1. PromiseStage = "idle"
    BY <1>1, <1>3, LoopTells, StageNow
  <2>2. PromiseStage' = "closed"
    BY <1>1, StageNext
  <2>3. UNCHANGED <<PromiseAction, PromiseExecuted, PromiseAssimilated>>
    BY <1>1, LedgerFrame DEF PromiseAction, PromiseExecuted, PromiseAssimilated
  <2> QED BY <2>1, <2>2, <2>3 DEF Promise!Next, Promise!Close
<1> QED BY <1>2, <1>3

\* Every step of the mission is a step of the promise, or none.
LEMMA StepSimulates == Typed /\ Consistent /\ [Next]_vars => [Promise!Next]_Promise!vars
<1> SUFFICES ASSUME Typed, Consistent, [Next]_vars PROVE [Promise!Next]_Promise!vars
  OBVIOUS
<1>1. ASSUME UNCHANGED <<ledger, receipts, estimated, published>>
      PROVE  [Promise!Next]_Promise!vars
  BY <1>1, Invisible
<1>2. CASE Restart \/ LedgerRefuses \/ ReplayEntry \/ PlannerRefuses \/ UpdaterRefuses \/ Finish
           \/ Rerun \/ Crash
  BY <1>1, <1>2 DEF Restart, LedgerRefuses, ReplayEntry, PlannerRefuses, UpdaterRefuses, Finish,
     Rerun, Crash, durable, runtime
<1>3. CASE SaveState \/ BeginPlan \/ WritePlan \/ SendDecision \/ LoseAnswer
           \/ EstimatorsFail \/ FinalFitFails
  BY <1>1, <1>3 DEF SaveState, BeginPlan, WritePlan, SendDecision, LoseAnswer, EstimatorsFail,
     FinalFitFails, durable, runtime
<1>4. CASE Propose \/ Realize \/ RecordAppend \/ UpdateEstimators \/ Complete
  <2>1. PICK e \in NextEntries : WriteEntry(e)
    BY <1>4 DEF Propose, Realize, RecordAppend, UpdateEstimators, Complete, NextEntries
  <2> QED BY <2>1, AppendSimulates DEF WriteEntry, runtime
<1>5. CASE Assimilate
  BY <1>5, AssimilateSimulates
<1>6. CASE Finalize
  BY <1>6, FinalizeSimulates
<1>7. CASE Runtime
  BY <1>7, RuntimeSimulates DEF Runtime
<1>8. CASE TornAppend
  <2>1. UNCHANGED <<receipts, estimated, published>>
    BY <1>8 DEF TornAppend, runtime
  <2>2. PICK e \in NextEntries : ledger' = ledger \/ ledger' = Append(ledger, e)
    BY <1>8 DEF TornAppend
  <2> QED BY <1>1, <2>1, <2>2, AppendSimulates
<1>9. CASE UNCHANGED vars
  BY <1>1, <1>9 DEF vars, durable, runtime
<1> QED BY <1>2, <1>3, <1>4, <1>5, <1>6, <1>7, <1>8, <1>9 DEF Next, Controller, Fault

\* A new mission is a new promise.
LEMMA InitSimulates == Init => Promise!Init
BY DEF Init, Promise!Init, PromiseStage, PromiseExecuted, PromiseAssimilated

\* The live mission, with every crash, restart, lost answer and torn write,
\* implements the promise: each action is decided before it happens, happens
\* once, is assimilated before the next decision, and nothing follows the end.
THEOREM ImplementsPromise == Spec => KeepsPromise
BY InitSimulates, StepSimulates, AlwaysTyped, AlwaysConsistent, PTL
   DEF Spec, KeepsPromise, Promise!Spec

-----------------------------------------------------------------------------
(* What is durable stays *)

\* What one step leaves of the durable state.
Kept ==
  /\ Len(ledger') >= Len(ledger)
  /\ SubSeq(ledger', 1, Len(ledger)) = ledger
  /\ estimated' >= estimated
  /\ receipts \subseteq receipts'
  /\ published => published' /\ receipts' = receipts
  /\ plans \subseteq plans'

\* The first entries of a ledger that is the same or one longer.
LEMMA PrefixStays ==
  ASSUME ledger \in Seq(Entries), NEW e \in Entries,
         ledger' = ledger \/ ledger' = Append(ledger, e)
  PROVE  Len(ledger') >= Len(ledger) /\ SubSeq(ledger', 1, Len(ledger)) = ledger
<1>1. Len(ledger) \in Nat /\ SubSeq(ledger, 1, Len(ledger)) = ledger
  OBVIOUS
<1>2. CASE ledger' = ledger
  BY <1>1, <1>2
<1>3. CASE ledger' = Append(ledger, e)
  <2>1. /\ ledger' \in Seq(Entries) /\ Len(ledger') = Len(ledger) + 1
        /\ \A i \in 1..Len(ledger) : ledger'[i] = ledger[i]
    BY <1>3
  <2>2. SubSeq(ledger', 1, Len(ledger)) = [i \in 1..Len(ledger) |-> ledger[i]]
    BY <1>1, <2>1
  <2> QED BY <1>1, <2>1, <2>2
<1> QED BY <1>2, <1>3

\* No step takes anything durable back.
LEMMA StepKeeps == Typed /\ Consistent /\ [Next]_vars => Kept
<1> SUFFICES ASSUME Typed, Consistent, [Next]_vars PROVE Kept
  OBVIOUS
<1>1. /\ ledger \in Seq(Entries) /\ estimated \in Int /\ estimated >= estimated
      /\ Entry("mission_completed", Nothing) \in Entries
  BY DEF Typed, TypeOK, Entries, Entry
<1>2. ASSUME UNCHANGED <<receipts, estimated, published, plans>>,
             NEW e \in Entries, ledger' = ledger \/ ledger' = Append(ledger, e)
      PROVE  Kept
  BY <1>1, <1>2, PrefixStays DEF Kept
<1>3. ASSUME UNCHANGED ledger
      PROVE  Len(ledger') >= Len(ledger) /\ SubSeq(ledger', 1, Len(ledger)) = ledger
  BY <1>1, <1>3, PrefixStays
<1>4. ASSUME UNCHANGED <<ledger, receipts, estimated, published, plans>> PROVE Kept
  BY <1>1, <1>2, <1>4
<1>5. CASE Restart \/ LedgerRefuses \/ ReplayEntry \/ PlannerRefuses \/ UpdaterRefuses \/ Finish
           \/ Rerun \/ Crash
  BY <1>4, <1>5 DEF Restart, LedgerRefuses, ReplayEntry, PlannerRefuses, UpdaterRefuses, Finish,
     Rerun, Crash, durable, runtime
<1>6. CASE SaveState \/ BeginPlan \/ SendDecision \/ LoseAnswer \/ EstimatorsFail \/ FinalFitFails
  BY <1>4, <1>6 DEF SaveState, BeginPlan, SendDecision, LoseAnswer, EstimatorsFail, FinalFitFails,
     durable, runtime
<1>7. CASE WritePlan
  BY <1>1, <1>3, <1>7 DEF WritePlan, Kept, runtime
<1>8. CASE Propose \/ Realize \/ RecordAppend \/ UpdateEstimators \/ Complete
  <2>1. PICK e \in NextEntries : WriteEntry(e)
    BY <1>8 DEF Propose, Realize, RecordAppend, UpdateEstimators, Complete, NextEntries
  <2>2. e \in Entries
    BY <2>1, NextEntriesTyped DEF Typed
  <2> QED BY <1>2, <2>1, <2>2 DEF WriteEntry, runtime
<1>9. CASE Assimilate
  <2>1. /\ pc \in Working /\ mem.phase = "observation_appended"
        /\ mem.realized.first = estimated + 1 /\ estimated' = LastStep(mem.realized)
        /\ UNCHANGED <<ledger, receipts, published, plans>>
    BY <1>9 DEF Assimilate, Working, runtime, CausalNext
  <2>2. mem.realized \in Receipts
    BY <2>1, LoopTells, CurrentReceipt DEF Entry
  <2>3. estimated' >= estimated
    BY <1>1, <2>1, <2>2, LastStepType
  <2> QED BY <1>3, <2>1, <2>3 DEF Kept
<1>10. CASE Finalize
  BY <1>1, <1>3, <1>10 DEF Finalize, Kept, durable
<1>11. CASE Runtime
  <2>1. PICK d \in inflight : RuntimeExecutes(d)
    BY <1>11 DEF Runtime
  <2>2. UNCHANGED <<ledger, estimated, published, plans>> /\ receipts \subseteq receipts'
    BY <2>1 DEF RuntimeExecutes, durable
  <2>3. published => receipts' = receipts
    <3>1. CASE Receipt(d) # {}
      BY <2>1, <3>1 DEF RuntimeExecutes
    <3>2. CASE Receipt(d) = {}
      <4>1. ledger # <<>> /\ LastEntry.event = "action_proposed"
        BY <3>2, FreshExecution DEF Entry
      <4> QED BY <4>1, OpenCycle
    <3> QED BY <3>1, <3>2
  <2> QED BY <1>1, <1>3, <2>2, <2>3 DEF Kept
<1>12. CASE TornAppend
  <2>1. UNCHANGED <<receipts, estimated, published, plans>>
    BY <1>12 DEF TornAppend, runtime
  <2>2. PICK e \in NextEntries : ledger' = ledger \/ ledger' = Append(ledger, e)
    BY <1>12 DEF TornAppend
  <2>3. e \in Entries
    BY <2>2, NextEntriesTyped DEF Typed
  <2> QED BY <1>2, <2>1, <2>2, <2>3
<1>13. CASE UNCHANGED vars
  BY <1>4, <1>13 DEF vars, durable, runtime
<1> QED BY <1>5, <1>6, <1>7, <1>8, <1>9, <1>10, <1>11, <1>12, <1>13 DEF Next, Controller, Fault

\* No crash, restart, replay or torn write of the mission takes back a ledger
\* entry, a plan, a receipt or the published log, and nothing happens after it
\* was published.
THEOREM NothingIsTakenBack == Spec => NothingTakenBack
<1>1. Typed /\ Consistent /\ [Next]_vars => [Kept]_vars
  BY StepKeeps
<1> QED BY <1>1, AlwaysTyped, AlwaysConsistent, PTL DEF Spec, NothingTakenBack, Kept

=============================================================================
