--------------------------- MODULE MCOfflineReplay ---------------------------
(* Logs, thresholds and ratios for TLC. *)
EXTENDS OfflineReplay

Block(k, h, steps) == [station |-> k, height |-> h, program |-> "p", steps |-> steps]

\* Three stations, the last measured at two heights.
MCLog == <<<<Block(1, "low", {0})>>,
           <<Block(2, "low", {1, 2})>>,
           <<Block(3, "high", {3}), Block(3, "low", {4})>>>>

MCPolicy == [interval |-> 2, minimum |-> 1, cooldown |-> 0, threshold |-> 1, streak |-> 1]

MCReject == -2
MCRatios == {-2, 2}

=============================================================================
