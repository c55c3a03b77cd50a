-------------------------- MODULE MCHybridMission --------------------------
(* Small missions for TLC: see the .cfg files that extend these values. *)
EXTENDS HybridMission

MCCosts == {[live |-> 2, travel |-> 1, shield |-> 0],
            [live |-> 1, travel |-> 0, shield |-> 1]}

\* Three actions at most; the total can be spent after two.
MCBudget == [actions |-> 3, total |-> 6, live |-> 9, travel |-> 9, shield |-> 2]

=============================================================================
