--------------------------- MODULE ParticleFilter ---------------------------
(***************************************************************************)
(* The particle filter (estimators/pf.py) between checkpoints: it takes in *)
(* the stations of the log one by one, resampling its particles when their *)
(* weights have become too uneven, and between two stations an exact-jump  *)
(* directive may add or remove a single source (estimators/rj.py).         *)
(*                                                                         *)
(* Likelihoods are small integers, so weights are relative; predictions,   *)
(* traces and the random generator's state are left out, and every draw is *)
(* a choice.  A directive and a checkpoint name each other by hashes of    *)
(* their contents; here a directive holds the checkpoint itself.           *)
(***************************************************************************)
EXTENDS ReversibleJump

LOCAL INSTANCE FiniteSetsExt

CONSTANTS
  Stations,            \* stations the log grows to
  Likelihoods,         \* what a station's spectra may say of a particle
  EssNum, EssDen,      \* resample_ess_fraction
  RegionSets,          \* verified regions a directive may carry
  MaxDirectives,       \* bound: directives issued
  None

ASSUME LogAssumption == Stations \in Nat /\ MaxDirectives \in Nat
ASSUME LikelihoodsAssumption == Likelihoods \subseteq Nat
ASSUME RegionSetsAssumption == RegionSets \subseteq SUBSET Region
ASSUME NoneAssumption == None \notin [particle : Particles]

VARIABLES
  ensemble,            \* chart_ids and strengths_cps_1m
  weight,              \* log_weights
  processed,           \* processed_record_count, in stations
  applied,             \* applied_directive_ids
  issued,              \* directives written so far
  directive,           \* the last one
  receipt              \* pf_rj_receipt.json of that directive

vars == <<ensemble, weight, processed, applied, issued, directive, receipt>>

Checkpoint == [ensemble |-> ensemble, weight |-> weight,
               processed |-> processed, applied |-> applied]

\* _initial_state: any number of sources, but the first particles cover every
\* number once.
Init ==
  \E full \in [Particles -> [Isotopes -> [1..Slots -> Source]]],
     cardinality \in [Particles -> [Isotopes -> 0..Slots]] :
    /\ \A p \in 1..(Slots + 1), i \in Isotopes : cardinality[p][i] = p - 1
    /\ ensemble = [p \in Particles |-> [i \in Isotopes |-> [s \in 1..Slots |->
                     IF s <= cardinality[p][i] THEN full[p][i][s] ELSE NoSource]]]
    /\ weight = [p \in Particles |-> 1]
    /\ processed = 0 /\ applied = {}
    /\ issued = 0 /\ directive = None /\ receipt = None

Sum(w) == MapThenSumSet(LAMBDA p : w[p], Particles)
SumOfSquares(w) == MapThenSumSet(LAMBDA p : w[p] * w[p], Particles)
Cumulative(w, p) == MapThenSumSet(LAMBDA q : w[q], 1..p)

\* ess < resample_ess_fraction * num_particles.
Uneven(w) == EssDen * Sum(w) * Sum(w) < EssNum * N * SumOfSquares(w)

\* _systematic_resample with the offset u = t / Sum(w): the positions
\* (u + p - 1) / N among the cumulative weights, from the right.  The integers
\* t stand for all offsets, since only the integer part of u * Sum(w) matters.
Systematic(pick, w, t) ==
  \A p \in Particles :
    LET at == t + (p - 1) * Sum(w)
    IN  N * Cumulative(w, pick[p] - 1) <= at /\ at < N * Cumulative(w, pick[p])

\* advance() over one station and the checkpoint written after it.
Advance ==
  /\ processed < Stations
  /\ \E likelihood \in [Particles -> Likelihoods] :
       LET w == [p \in Particles |-> weight[p] * likelihood[p]]
       IN  /\ Sum(w) > 0
           /\ IF Uneven(w)
                THEN /\ \E t \in 0..(Sum(w) - 1), pick \in [Particles -> Particles] :
                          /\ Systematic(pick, w, t)
                          /\ ensemble' = [p \in Particles |-> ensemble[pick[p]]]
                     /\ weight' = [p \in Particles |-> 1]
                ELSE weight' = w /\ UNCHANGED ensemble
  /\ processed' = processed + 1
  /\ UNCHANGED <<applied, issued, directive, receipt>>

\* build_pf_rj_directive_v1 for the current checkpoint.
Direct ==
  /\ processed > 0 /\ issued < MaxDirectives
  /\ issued' = issued + 1
  /\ \E regions \in RegionSets :
       directive' = [id |-> issued', regions |-> regions, checkpoint |-> Checkpoint]
  /\ receipt' = None
  /\ UNCHANGED <<ensemble, weight, processed, applied>>

\* apply_exact_rj, where a birth or a death is possible (it raises where none
\* is).  Its draws are seeded by the directive, so that applying a rejected
\* directive again repeats the same receipt.
Jump ==
  /\ directive # None /\ receipt = None
  /\ directive.checkpoint = Checkpoint
  /\ directive.id \notin applied
  /\ \E m \in Moves(ensemble, directive.regions), accepted \in BOOLEAN :
       /\ IF accepted
            THEN ensemble' = After(ensemble, m) /\ applied' = applied \union {directive.id}
            ELSE UNCHANGED <<ensemble, applied>>
       /\ receipt' = [move |-> m, accepted |-> accepted,
                      forward |-> ForwardDensity(ensemble, directive.regions, m),
                      reverse |-> ReverseDensity(ensemble, directive.regions, m)]
  /\ UNCHANGED <<weight, processed, issued, directive>>

Next == Advance \/ Direct \/ Jump

Spec == Init /\ [][Next]_vars

-----------------------------------------------------------------------------
(* Properties *)

\* What _validate_state demands of a checkpoint that is loaded again holds of
\* every checkpoint the filter and its jumps write: known charts, strengths
\* only with a source, and no hole between the sources of a particle, whatever
\* order births, deaths and resampling come in.
StateValid ==
  /\ ensemble \in Ensemble
  /\ \A p \in Particles, i \in Isotopes : Contiguous(ensemble[p][i])
  /\ weight \in [Particles -> Nat]
  /\ processed \in 0..Stations
  /\ applied \subseteq 1..issued

\* Every way of drawing a birth in e, and the chance of drawing just that.
BirthDraws(e, regions) ==
  {d \in [region : Available(e, regions), move : Births(e, regions)] :
     d.move.isotope = d.region.isotope /\ Offers(d.region, d.move.isotope, d.move.source)}

Chance(e, regions, d) ==
  Fraction(d.region.weight * d.region.charts[d.move.source.chart]
             * d.region.strengths[d.move.source.strength],
           Weight(Available(e, regions)) * Cardinality(Eligible(e, d.region.isotope))
             * ChartTotal * StrengthTotal)

\* The probability that the kernel takes e to f, from all its draws.
Kernel(e, f, regions) ==
  LET born == {d \in BirthDraws(e, regions) : After(e, d.move) = f}
      deaths == Deaths(e, regions)
      dead == {m \in deaths : After(e, m) = f}
  IN  Plus(Times(MoveProbability(e, regions, "birth"),
                 FoldSet(LAMBDA d, sum : Plus(Chance(e, regions, d), sum), Fraction(0, 1), born)),
           Times(MoveProbability(e, regions, "death"),
                 Fraction(Cardinality(dead), IF dead = {} THEN 1 ELSE Cardinality(deaths))))

\* The two densities of a receipt are the probabilities with which the kernel
\* proposes the new ensemble from the old one and the old one from the new
\* one, and neither is zero: the acceptance ratio is the one that leaves the
\* filter's target invariant.
RatioIsTheKernel ==
  receipt # None =>
    LET e == directive.checkpoint.ensemble
        f == After(e, receipt.move)
    IN  /\ receipt.forward.num > 0 /\ receipt.reverse.num > 0
        /\ Same(receipt.forward, Kernel(e, f, directive.regions))
        /\ Same(receipt.reverse, Kernel(f, e, directive.regions))

=============================================================================
