-------------------------- MODULE MCParticleFilter --------------------------
(* Three particles with two slots per isotope, for TLC. *)
EXTENDS ParticleFilter, TLC

RegionOf(id, i, w, one, two) ==
  [candidate |-> id, isotope |-> i, weight |-> w,
   charts |-> (1 :> one @@ 2 :> two), strengths |-> (1 :> 1)]

\* Overlapping regions of one isotope beside one of the other, and a region
\* that reaches a single chart, so that its sources may fill every particle.
MCRegionSets ==
  {{RegionOf(1, "cs", 2, 2, 0), RegionOf(2, "cs", 1, 1, 1), RegionOf(3, "co", 1, 0, 2)},
   {RegionOf(4, "cs", 1, 2, 0)}}

=============================================================================
