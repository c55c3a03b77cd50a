------------------------ MODULE MCSpectralScheduler ------------------------
(* The policies that TLC runs the scheduler with. *)
EXTENDS SpectralScheduler

MCPolicies ==
  {p \in [interval : {2, 3}, minimum : {1, 2}, cooldown : {0, 1, 2},
          threshold : {1, None}, streak : {1, 2}] :
     p.threshold = None => p.streak = 1}

=============================================================================
