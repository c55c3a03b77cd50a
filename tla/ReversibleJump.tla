--------------------------- MODULE ReversibleJump ---------------------------
(***************************************************************************)
(* The birth/death kernel of estimators/rj.py: which single source one     *)
(* directive may add to, or take from, one particle of the filter, and the *)
(* proposal densities that the Metropolis-Hastings ratio is made of.       *)
(*                                                                         *)
(* A source is a surface chart and a strength; a slot without one holds    *)
(* chart -1 and strength 0, as the arrays do.  The Gaussian over charts    *)
(* and the truncated lognormal over strengths of a birth region become     *)
(* integer weights of total ChartTotal and StrengthTotal, so that every    *)
(* density is an exact fraction: what is kept of floating point is which   *)
(* densities are zero.                                                     *)
(***************************************************************************)
EXTENDS Integers, FiniteSets, Sequences

LOCAL INSTANCE FiniteSetsExt

CONSTANTS
  N,               \* num_particles
  Slots,           \* max_sources_per_isotope
  Isotopes,
  Charts,          \* charts of the runtime's surfaces
  Strengths,       \* strengths between the configured bounds
  ChartTotal, StrengthTotal

ASSUME SlotsAssumption == Slots \in Nat \ {0}
ASSUME ParticlesAssumption == N \in Nat /\ N > Slots
ASSUME ChartsAssumption == Charts \subseteq Nat
ASSUME StrengthsAssumption == Strengths \subseteq Nat \ {0}

Particles == 1..N
Source == [chart : Charts, strength : Strengths]
NoSource == [chart |-> -1, strength |-> 0]
Row == [1..Slots -> Source \union {NoSource}]
Ensemble == [Particles -> [Isotopes -> Row]]

Region == [candidate : Nat, isotope : Isotopes, weight : Nat \ {0},
           charts : [Charts -> Nat], strengths : [Strengths -> Nat]]

\* _validate_state: the sources of a particle fill its first slots.
Contiguous(row) == \A s \in 1..(Slots - 1) : row[s] = NoSource => row[s + 1] = NoSource

HasRoom(row) == \E s \in 1..Slots : row[s] = NoSource
FirstFree(row, s) == row[s] = NoSource /\ \A t \in 1..(s - 1) : row[t] # NoSource
LastActive(row, s) == row[s] # NoSource /\ \A t \in (s + 1)..Slots : row[t] = NoSource

Eligible(e, i) == {p \in Particles : HasRoom(e[p][i])}
Available(e, regions) == {r \in regions : Eligible(e, r.isotope) # {}}

\* One source more or less: the slot that changes and what it then holds.
MoveOf(kind) == [kind : {kind}, particle : Particles, isotope : Isotopes,
                 slot : 1..Slots, source : Source]

Put(e, p, i, s, x) == [e EXCEPT ![p][i][s] = x]
After(e, m) ==
  Put(e, m.particle, m.isotope, m.slot, IF m.kind = "birth" THEN m.source ELSE NoSource)

Offers(r, i, x) == r.isotope = i /\ r.charts[x.chart] > 0 /\ r.strengths[x.strength] > 0

\* _birth_transition_density(...) > 0: some region offers the source, and is
\* available because this particle has room.
CanBeBorn(e, regions, p, i, x) ==
  /\ HasRoom(e[p][i])
  /\ \E r \in regions : Offers(r, i, x)

\* Mutant: a birth takes the last slot.
Births_LastSlot(e, regions) ==
  {m \in MoveOf("birth") :
     /\ m.slot = Slots /\ e[m.particle][m.isotope][m.slot] = NoSource
     /\ CanBeBorn(e, regions, m.particle, m.isotope, m.source)}

Births(e, regions) ==
  {m \in MoveOf("birth") :
     /\ FirstFree(e[m.particle][m.isotope], m.slot)
     /\ CanBeBorn(e, regions, m.particle, m.isotope, m.source)}

\* _death_choices: the last source of a row, if it could be born again.
Deaths(e, regions) ==
  {m \in MoveOf("death") :
     /\ e[m.particle][m.isotope][m.slot] = m.source
     /\ LastActive(e[m.particle][m.isotope], m.slot)
     /\ CanBeBorn(After(e, m), regions, m.particle, m.isotope, m.source)}

Moves(e, regions) == Births(e, regions) \union Deaths(e, regions)

-----------------------------------------------------------------------------
(* Densities, as fractions *)

Fraction(n, d) == [num |-> n, den |-> d]
Times(a, b) == Fraction(a.num * b.num, a.den * b.den)
Plus(a, b) == Fraction(a.num * b.den + b.num * a.den, a.den * b.den)
Same(a, b) == a.num * b.den = b.num * a.den

\* _move_probabilities, where at least one of the two is possible.
MoveProbability(e, regions, kind) ==
  LET possible == {k \in {"birth", "death"} :
                     IF k = "birth" THEN Available(e, regions) # {} ELSE Deaths(e, regions) # {}}
  IN  Fraction(Cardinality(possible \intersect {kind}), Cardinality(possible))

Weight(regions) == MapThenSumSet(LAMBDA r : r.weight, regions)

\* _birth_transition_density: whichever region the source is drawn from.
BirthDensity(e, regions, m) ==
  LET offers == {r \in Available(e, regions) : Offers(r, m.isotope, m.source)}
      mass(r) == r.weight * r.charts[m.source.chart] * r.strengths[m.source.strength]
  IN  Fraction(MapThenSumSet(mass, offers),
               Weight(Available(e, regions)) * Cardinality(Eligible(e, m.isotope))
                 * ChartTotal * StrengthTotal)

\* What the kernel says of proposing m in e ...
ForwardDensity(e, regions, m) ==
  Times(MoveProbability(e, regions, m.kind),
        IF m.kind = "birth" THEN BirthDensity(e, regions, m)
                            ELSE Fraction(1, Cardinality(Deaths(e, regions))))

\* Mutant: the reverse of a death is judged before the source is gone.
ReverseDensity_Before(e, regions, m) ==
  LET back == IF m.kind = "birth" THEN "death" ELSE "birth"
      at == IF m.kind = "birth" THEN After(e, m) ELSE e
  IN  Times(MoveProbability(at, regions, back),
            IF back = "birth" THEN BirthDensity(After(e, m), regions, m)
                              ELSE Fraction(1, Cardinality(Deaths(at, regions))))

\* ... and of taking it back: the density of the other kind in the new ensemble.
ReverseDensity(e, regions, m) ==
  LET back == IF m.kind = "birth" THEN "death" ELSE "birth"
      f == After(e, m)
  IN  Times(MoveProbability(f, regions, back),
            IF back = "birth" THEN BirthDensity(f, regions, m)
                              ELSE Fraction(1, Cardinality(Deaths(f, regions))))

=============================================================================
