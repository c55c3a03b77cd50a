--------------------------- MODULE MCCausalReplay ---------------------------
(* Logs, declarations, thresholds and outcomes for TLC. *)
EXTENDS CausalReplay

Row(k, n) == [station |-> k, step |-> n]
Declared(ends) == [k \in DOMAIN ends |-> [station |-> ends[k][1], step |-> ends[k][2]]]

Model == [f \in {"environment.json", "forward_model_manifest.json", "runtime_config.resolved.json",
                 "mesh", "repository_commit.txt"} |->
            IF f = "environment.json" THEN {"mesh"} ELSE {}]

\* Four stations, the first with two rows; steps have a gap.
Long == <<Row(1, 0), Row(1, 1), Row(2, 2), Row(3, 3), Row(4, 5)>>

\* The same up to the second station, then another third; a file more.
Short == <<Row(1, 0), Row(1, 1), Row(2, 2), Row(3, 4)>>

In(rows, schedule, files, planned) ==
  [rows |-> rows, schedule |-> schedule, files |-> files, plans |-> planned]

MCInputs ==
  {In(Long, Declared(<<<<1, 1>>, <<2, 2>>, <<3, 3>>, <<4, 5>>>>), Model, {3}),
   In(Short, Declared(<<<<1, 1>>, <<2, 2>>, <<3, 4>>>>), Model @@ ("truth_free_notes" :> {}), {}),
   In(Long, Declared(<<<<1, 0>>, <<2, 2>>, <<3, 3>>, <<4, 5>>>>), Model, {}),
   In(Long, Declared(<<<<1, 1>>, <<2, 2>>, <<4, 5>>>>), Model, {2})}

MCPolicy == [interval |-> 2, minimum |-> 1, cooldown |-> 1, threshold |-> 1, streak |-> 1]

MCReject == -1
MCRatios == {-1, 1}

\* A particle that moved, and an outcome whose label and counts disagree.
Moved == [label |-> "mh_accepted", attempts |-> 1, accepted |-> 1, rejected |-> 0,
          notSampled |-> 1, eligible |-> 2, scalars |-> TRUE]
Mislabelled == [Moved EXCEPT !.label = "mh_rejected"]
MCOutcomes == {Moved, Mislabelled}

=============================================================================
