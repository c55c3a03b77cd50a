---------------------------- MODULE EstimatorState ----------------------------
(***************************************************************************)
(* What the live estimators keep between two stations: the content of      *)
(* live_estimator_state.json (hybrid_v2/live_updater.py) with the queue,   *)
(* the snapshots and the particle filter's checkpoint that it refers to.   *)
(*                                                                         *)
(* A live station is one block: the planner's decision is one pose and one *)
(* shield program.                                                         *)
(***************************************************************************)
EXTENDS StationLog

CONSTANTS
  Moves,           \* what a reversible jump can return
  Rank             \* the place of a candidate among all, sorted by their hashes

ASSUME OneBlockAssumption == \A k \in DOMAIN Log : Len(Log[k]) = 1
ASSUME RankAssumption ==
  Rank \in [Ids -> Nat] /\ \A c, d \in Ids : Rank[c] = Rank[d] => c = d

\* queue.candidates is sorted by snapshot_id and candidate_id, which are hashes:
\* a later snapshot may come first.
Sooner(c, d) == Rank[c] < Rank[d]

\* The candidates of S in that order.
InOrder(S) ==
  {s \in [1..Cardinality(S) -> S] : \A i, j \in DOMAIN s : i < j => Sooner(s[i], s[j])}

\* What the checkpoint's steps are made of, and which of these are steps that
\* the particle filter goes through.
Outs == Moves \union UNION {[Steps(k) -> Deviances] : k \in DOMAIN Log}
FilterSteps == [op : {"pf", "rj"}, at : DOMAIN Log, of : Ids \union {None}, out : Outs]
IsStep(e) ==
  e \in IF e.op = "pf"
          THEN [op : {"pf"}, at : DOMAIN Log, of : {None}, out : [Steps(e.at) -> Deviances]]
          ELSE [op : {"rj"}, at : DOMAIN Log, of : Ids, out : Moves]

\* The values of such a state.
IsState(s) ==
  /\ DOMAIN s.queue \subseteq Ids /\ DOMAIN s.scored \subseteq DOMAIN Log
  /\ DOMAIN s.checkpoint = 1..Len(s.checkpoint)
  /\ \A i \in DOMAIN s.checkpoint : IsStep(s.checkpoint[i])
  /\ s \in [last : 0..Len(Log), sched : SchedulerStates,
            queue : [DOMAIN s.queue -> Candidates],
            snapshots : Seq(DOMAIN Log),
            scored : [DOMAIN s.scored -> SUBSET DOMAIN Log],
            applied : SUBSET Ids,
            checkpoint : {s.checkpoint}]

FreshState ==
  [last |-> 0, sched |-> FreshScheduler, queue |-> <<>>, snapshots |-> <<>>,
   scored |-> <<>>, applied |-> {}, checkpoint |-> <<>>]

=============================================================================
