----------------------------- MODULE MCBenchmark -----------------------------
(* For TLC: two runs in each schema; schema 1 without its optional count fit. *)
EXTENDS Benchmark, TLC

LOCAL INSTANCE FiniteSetsExt

MCOrder == <<<<"pf_strict", "mle_spectral">>, <<"pf_strict", "mle_spectral">>>>

At(isotope, metres) == [isotope |-> isotope, at |-> metres]

\* Two sources, and three of which one is of another isotope.
MCResults ==
  {<<At("cs", 2), At("cs", 0)>>, <<At("cs", -1), At("cs", 0), At("co", 1)>>}

\* Chains in which the nearest pair is not in the best pairing.
MCTruths ==
  {[sources |-> <<At("cs", 0), At("cs", -2)>>, radius |-> 2],
   [sources |-> <<At("cs", 1), At("cs", 0), At("co", 0)>>, radius |-> 1],
   [sources |-> <<At("cs", -2), At("cs", 1), At("cs", 0)>>, radius |-> 2],
   [sources |-> <<At("co", 2), At("cs", 1), At("cs", -1)>>, radius |-> 3],
   [sources |-> <<At("cs", 3), At("cs", 1), At("cs", -1)>>, radius |-> 1],
   [sources |-> <<>>, radius |-> 1]}

\* From a radius of two metres on, three pairs can be given up for two nearer
\* ones: the docstring's maximum cardinality ends there.
ASSUME NearestBeatsMost ==
  LET true == <<At("cs", 0), At("cs", 3), At("cs", 6)>>
      estimates == <<At("cs", 3), At("cs", 6), At("cs", 9)>>
  IN  /\ {<<i, i>> : i \in 1..3} \in Pairings(true, estimates, 3)
      /\ MatchSources(true, estimates, 3) = {<<2, 1>>, <<3, 2>>}

\* _hungarian finds the least cost of every small matrix.
ASSUME HungarianIsMinimal ==
  \A cost \in [1..3 -> [1..3 -> 0..1]] \union [1..2 -> [1..2 -> 0..3]] :
    LET orders == Permutations(DOMAIN cost)
        total(f) == MapThenSumSet(LAMBDA row : cost[row][f[row]], DOMAIN cost)
    IN  /\ Hungarian(cost) \in orders
        /\ \A f \in orders : total(Hungarian(cost)) <= total(f)

=============================================================================
