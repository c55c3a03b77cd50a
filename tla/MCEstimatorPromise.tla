-------------------------- MODULE MCEstimatorPromise --------------------------
(* Missions of four stations for TLC. *)
EXTENDS EstimatorPromise

\* The last two stations share a shield program, so that two blocks can miss
\* the minimum of two programs.
MCProgram(k) == IF k = 2 THEN "p" ELSE "q"
MCLog == [k \in 1..4 |->
            <<[station |-> k, height |-> "h", program |-> MCProgram(k), steps |-> {k - 1}]>>]

MCPolicy == [interval |-> 2, minimum |-> 1, cooldown |-> 0, threshold |-> 1, streak |-> 1]

MCReject == -1
MCRatios == {-1, 0, 1}

\* Candidates of later snapshots come first.
MCRank == [c \in Ids |-> 10 * (Len(Log) - c.snapshot) + c.name]

=============================================================================
