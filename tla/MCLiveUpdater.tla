---------------------------- MODULE MCLiveUpdater ----------------------------
(* Small live missions for TLC. *)
EXTENDS LiveUpdater

MCLog == [k \in 1..3 |-> <<[station |-> k, height |-> "h", program |-> "p", steps |-> {k - 1}]>>]

\* A fit at every other station and wherever the prediction was bad.
MCPolicy == [interval |-> 2, minimum |-> 1, cooldown |-> 0, threshold |-> 1, streak |-> 1]

MCReject == -2
MCRatios == {-2, 2}

\* Candidates of later snapshots come first.
MCRank == [c \in Ids |-> 10 * (Len(Log) - c.snapshot) + c.name]

\* Ratios of which one leaves a candidate pending.
MCThreeRatios == {-2, 1, 2}

=============================================================================
