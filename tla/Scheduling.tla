----------------------------- MODULE Scheduling -----------------------------
(***************************************************************************)
(* The operations of SpectralHybridScheduler (hybrid_v2/predictive.py),    *)
(* which decides when a prefix MLE starts.  The scheduler s is a value its *)
(* callers feed one signal g at a time and keep with their own state; p is *)
(* its policy.                                                             *)
(*                                                                         *)
(* Deviances are integers and bins are counted, so that the deviance of a  *)
(* station normalized by its bins reaches the threshold when it reaches    *)
(* threshold * bins.                                                       *)
(***************************************************************************)
EXTENDS Integers

CONSTANT None      \* Python's None

ASSUME NoneAssumption == None \notin Int

PolicyRecords == [interval : Nat \ {0}, minimum : Nat \ {0}, cooldown : Nat,
                  threshold : Nat \union {None}, streak : Nat \ {0}]

SchedulerStates ==
  [lastStep : Nat \union {-1}, open : Nat \union {None}, deviance : Nat, bins : Nat,
   completed : Nat, lastTrigger : Nat \union {None}, streak : Nat, cutoffs : SUBSET Nat]

FreshScheduler == [lastStep |-> -1, open |-> None, deviance |-> 0, bins |-> 0,
                   completed |-> 0, lastTrigger |-> None, streak |-> 0, cutoffs |-> {}]

\* The two DataReuseErrors at the head of consider().
OutOfOrder(s, g) ==
  \/ g.step <= s.lastStep
  \/ s.open # None /\ s.open # g.station

Mismatch(p, s, g) ==
  /\ p.threshold # None
  /\ s.deviance + g.deviance >= p.threshold * (s.bins + g.bins)

\* Mutant: the cooldown ends one station early.
CoolingDown_OffByOne(p, s) ==
  s.lastTrigger # None /\ (s.completed + 1) - s.lastTrigger < p.cooldown

\* The station that g completes still lies in the cooldown of the last trigger.
CoolingDown(p, s) ==
  s.lastTrigger # None /\ (s.completed + 1) - s.lastTrigger <= p.cooldown

\* Mutant: a station without a mismatch takes one off the streak.
StreakAfter_Decays(p, s, g) == IF Mismatch(p, s, g) THEN s.streak + 1 ELSE s.streak - 1

StreakAfter(p, s, g) == IF Mismatch(p, s, g) THEN s.streak + 1 ELSE 0

\* Mutant: both reasons are needed.
Triggers_BothReasons(p, s, g) ==
  /\ g.complete
  /\ s.completed + 1 >= p.minimum
  /\ ~CoolingDown(p, s)
  /\ (s.completed + 1) % p.interval = 0
  /\ p.threshold # None => Mismatch(p, s, g) /\ StreakAfter(p, s, g) >= p.streak

\* Whether the signal g makes consider() return a trigger.
Triggers(p, s, g) ==
  /\ g.complete
  /\ s.completed + 1 >= p.minimum
  /\ ~CoolingDown(p, s)
  /\ \/ (s.completed + 1) % p.interval = 0
     \/ Mismatch(p, s, g) /\ StreakAfter(p, s, g) >= p.streak

\* Mutant: the cutoff is the step before the signal.
Considered_StaleCutoff(p, s, g) ==
  IF g.complete
    THEN [lastStep |-> g.step, open |-> None, deviance |-> 0, bins |-> 0,
          completed |-> s.completed + 1,
          lastTrigger |-> IF Triggers(p, s, g) THEN s.completed + 1 ELSE s.lastTrigger,
          streak |-> StreakAfter(p, s, g),
          cutoffs |-> IF Triggers(p, s, g) THEN s.cutoffs \union {s.lastStep} ELSE s.cutoffs]
    ELSE [s EXCEPT !.lastStep = g.step, !.open = g.station,
                   !.deviance = @ + g.deviance, !.bins = @ + g.bins]

\* The scheduler after consider(g).
Considered(p, s, g) ==
  IF g.complete
    THEN [lastStep |-> g.step, open |-> None, deviance |-> 0, bins |-> 0,
          completed |-> s.completed + 1,
          lastTrigger |-> IF Triggers(p, s, g) THEN s.completed + 1 ELSE s.lastTrigger,
          streak |-> StreakAfter(p, s, g),
          cutoffs |-> IF Triggers(p, s, g) THEN s.cutoffs \union {g.step} ELSE s.cutoffs]
    ELSE [s EXCEPT !.lastStep = g.step, !.open = g.station,
                   !.deviance = @ + g.deviance, !.bins = @ + g.bins]

=============================================================================
