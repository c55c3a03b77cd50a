--------------------------- MODULE MissionPromise ---------------------------
(***************************************************************************)
(* What a hybrid mission promises, with no files, no messages and no       *)
(* crashes: every action is decided before it is carried out, carried out  *)
(* once, assimilated by the estimators before the next decision, and the   *)
(* mission is closed only between actions.  HybridMission is shown to      *)
(* implement this module: every restart, lost answer and half-finished     *)
(* write of the real controller is a step that changes nothing here.       *)
(***************************************************************************)
CONSTANT Action      \* the actions a planner can decide on

VARIABLES
  stage,             \* how far the current action has come
  action,            \* the action decided last
  executed,          \* the actions that physically happened
  assimilated        \* the actions whose records the estimators have used

vars == <<stage, action, executed, assimilated>>

Stages == {"idle", "decided", "executed", "assimilated", "closed"}

TypeOK ==
  /\ stage \in Stages
  /\ executed \subseteq Action
  /\ assimilated \subseteq Action
  /\ stage \in {"decided", "executed", "assimilated"} => action \in Action

Init ==
  /\ stage = "idle"
  /\ executed = {}
  /\ assimilated = {}

\* A new action is chosen only after the one before it has been assimilated,
\* and it is never an action that already happened.
Decide ==
  /\ stage = "idle"
  /\ stage' = "decided"
  /\ action' \in Action
  /\ action' \notin executed
  /\ UNCHANGED <<executed, assimilated>>

Execute ==
  /\ stage = "decided"
  /\ stage' = "executed"
  /\ executed' = executed \union {action}
  /\ UNCHANGED <<action, assimilated>>

Assimilate ==
  /\ stage = "executed"
  /\ stage' = "assimilated"
  /\ assimilated' = assimilated \union {action}
  /\ UNCHANGED <<action, executed>>

Conclude ==
  /\ stage = "assimilated"
  /\ stage' = "idle"
  /\ UNCHANGED <<action, executed, assimilated>>

Close ==
  /\ stage = "idle"
  /\ stage' = "closed"
  /\ UNCHANGED <<action, executed, assimilated>>

Next ==
  \/ Decide
  \/ Execute
  \/ Assimilate
  \/ Conclude
  \/ Close

Spec == Init /\ [][Next]_vars

=============================================================================
