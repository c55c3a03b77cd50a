------------------------- MODULE SpectralScheduler -------------------------
(***************************************************************************)
(* The spectral scheduler alone, under any policy, with the caller of      *)
(* live_updater.py: it saves the scheduler after a complete station and    *)
(* loses what it has not saved when it restarts.                           *)
(***************************************************************************)
EXTENDS Scheduling, Sequences, SequencesExt

CONSTANTS
  Policies,        \* the policies to run under
  Deviances,       \* deviances one record can have
  MaxRecords,      \* bound on the records of a station
  MaxStations      \* bound on the stations of a run

ASSUME PoliciesAssumption == Policies \subseteq PolicyRecords
ASSUME DeviancesAssumption == Deviances \subseteq Nat
ASSUME BoundsAssumption == MaxRecords \in Nat \ {0} /\ MaxStations \in Nat

VARIABLES
  policy,          \* SpectralHybridScheduler.policy
  sched,           \* the scheduler in memory
  saved,           \* its to_state() in the caller's state file
  seen,            \* the records so far, per station: sequences of deviances
  fired            \* ordinals of the complete stations that triggered a fit

vars == <<policy, sched, saved, seen, fired>>

-----------------------------------------------------------------------------
Init ==
  /\ policy \in Policies
  /\ sched = FreshScheduler
  /\ saved = FreshScheduler
  /\ seen = <<>>
  /\ fired = {}

\* The stations before the one that is open, and the records of that one.
Closed == SubSeq(seen, 1, sched.completed)
Open == IF Len(seen) = sched.completed THEN <<>> ELSE Last(seen)

Signal(d, complete) ==
  [step |-> sched.lastStep + 1, station |-> sched.completed, complete |-> complete,
   deviance |-> d, bins |-> 1]

Consider(d, complete) ==
  LET g == Signal(d, complete)
  IN  /\ Len(Closed) < MaxStations
      /\ Open # <<>> \/ sched = saved
      /\ Len(Open) + 1 < MaxRecords \/ complete
      /\ ~OutOfOrder(sched, g)
      /\ sched' = Considered(policy, sched, g)
      /\ seen' = Append(Closed, Append(Open, d))
      /\ fired' = IF Triggers(policy, sched, g) THEN fired \union {sched.completed + 1}
                  ELSE fired
      /\ UNCHANGED <<policy, saved>>

\* The end of the update that fed a complete station.
Save ==
  /\ Open = <<>>
  /\ sched # saved
  /\ saved' = sched
  /\ UNCHANGED <<policy, sched, seen, fired>>

\* from_state(to_state()): the records since the last save come again.
Restart ==
  /\ sched # saved
  /\ sched' = saved
  /\ seen' = SubSeq(seen, 1, saved.completed)
  /\ fired' = fired \intersect (1..saved.completed)
  /\ UNCHANGED <<policy, saved>>

Next ==
  \/ \E d \in Deviances, complete \in BOOLEAN : Consider(d, complete)
  \/ Save
  \/ Restart

Spec == Init /\ [][Next]_vars

-----------------------------------------------------------------------------
(* Properties *)

\* The values of the state.
TypeOK ==
  /\ policy \in Policies
  /\ sched \in SchedulerStates
  /\ saved \in SchedulerStates
  /\ seen \in Seq(Seq(Deviances))
  /\ fired \subseteq Nat

\* What the policy says of the k-th complete station, from the records alone.
Mismatched(k) ==
  /\ policy.threshold # None
  /\ FoldLeft(LAMBDA sum, d : sum + d, 0, seen[k]) >= policy.threshold * Len(seen[k])

PolicyFires ==
  LET f[k \in 0..sched.completed] ==
        /\ k >= policy.minimum
        /\ \A j \in 1..(k - 1) : k - j <= policy.cooldown => ~f[j]
        /\ \/ k % policy.interval = 0
           \/ /\ k >= policy.streak
              /\ \A j \in (k - policy.streak + 1)..k : Mismatched(j)
  IN  f

\* Counters and flags that survive restarts in the middle of a station fire
\* exactly where the policy fires by the raw records of the whole run: a
\* restart neither repeats nor loses a mismatch, and a trigger swallowed by the
\* cooldown is not made up for.
FiresByPolicy == fired = {k \in 1..sched.completed : PolicyFires[k]}

\* A fit is never more than a cooldown and an interval away: among that many
\* complete stations in a row, past the minimum, one has triggered.
NeverSilentTooLong ==
  \A k \in 1..sched.completed :
    /\ k >= policy.minimum
    /\ k + policy.cooldown + policy.interval - 1 <= sched.completed
    => \E j \in k..(k + policy.cooldown + policy.interval - 1) : j \in fired

\* The steps that triggered are the last steps of the stations that triggered:
\* no prefix is fitted that ends inside a station, and none twice.
CutoffsEndStations ==
  LET EndOf(k) == FoldLeft(LAMBDA n, s : n + Len(s), 0, SubSeq(seen, 1, k)) - 1
  IN  sched.cutoffs = {EndOf(k) : k \in fired}

=============================================================================
