---------------------------- MODULE Verification ----------------------------
(***************************************************************************)
(* BlockVerificationQueue (hybrid_v2/verification.py) and what scoring.py  *)
(* does with it: frozen MLE candidates collect log-likelihood ratios of    *)
(* blocks observed after their snapshot's cutoff until the policy resolves *)
(* them.  A block is a record of its station, height, shield program and   *)
(* steps; its identity is that record, whose hash the block_id is.         *)
(*                                                                         *)
(* Log-likelihood ratios are integers: the model keeps which sums reach    *)
(* the two thresholds, not floating-point rounding.                        *)
(***************************************************************************)
EXTENDS Integers, FiniteSets, Sequences, SequencesExt

CONSTANTS
  Support, Reject,                  \* thresholds of VerificationPolicy
  MinBlocks, MinStations, MinHeights, MinPrograms

ASSUME ThresholdsAssumption == Support \in Int /\ Reject \in Int /\ Reject < Support
ASSUME MinimaAssumption ==
  {MinBlocks, MinStations, MinHeights, MinPrograms} \subseteq Nat \ {0}

Blocks == [station : Nat, height : STRING, program : STRING, steps : SUBSET Nat]
Evidence == [block : Blocks, llr : Int]
Candidates == [cutoff : Nat, state : {"pending", "verified", "quarantined"},
               evidence : Seq(Evidence), sum : Int]

NewCandidate(cutoff) ==
  [cutoff |-> cutoff, state |-> "pending", evidence |-> <<>>, sum |-> 0]

\* The three DataReuseErrors of corroborate(): resolved, not future, not new.
Reuses(c, e) ==
  \/ c.state # "pending"
  \/ \E n \in e.block.steps : n <= c.cutoff
  \/ \E i \in DOMAIN c.evidence :
       \/ c.evidence[i].block = e.block
       \/ c.evidence[i].block.steps \intersect e.block.steps # {}

Distinct(evidence, field) == Cardinality({evidence[i].block[field] : i \in DOMAIN evidence})

\* Mutant: blocks are counted where stations should be.
Observable_CountsBlocks(evidence) ==
  /\ Len(evidence) >= MinBlocks
  /\ Len(evidence) >= MinStations
  /\ Distinct(evidence, "height") >= MinHeights
  /\ Distinct(evidence, "program") >= MinPrograms

Observable(evidence) ==
  /\ Len(evidence) >= MinBlocks
  /\ Distinct(evidence, "station") >= MinStations
  /\ Distinct(evidence, "height") >= MinHeights
  /\ Distinct(evidence, "program") >= MinPrograms

\* Mutant: a sum that just reaches the threshold is not enough.
StateFor_Strict(evidence, sum) ==
  CASE Observable(evidence) /\ sum > Support -> "verified"
    [] Observable(evidence) /\ sum <= Reject -> "quarantined"
    [] OTHER -> "pending"

StateFor(evidence, sum) ==
  CASE Observable(evidence) /\ sum >= Support -> "verified"
    [] Observable(evidence) /\ sum <= Reject -> "quarantined"
    [] OTHER -> "pending"

Corroborated(c, e) ==
  LET evidence == Append(c.evidence, e)
      sum == c.sum + e.llr
  IN  [c EXCEPT !.evidence = evidence, !.sum = sum, !.state = StateFor(evidence, sum)]

\* What apply_future_spectral_scores makes of one candidate and its scores of
\* the blocks of one artifact, in their order; a candidate that was resolved
\* before is passed over.
Scored(c, scores) ==
  IF c.state # "pending" THEN c ELSE FoldLeft(Corroborated, c, scores)

\* Whether one of the scores is rejected on the way.
Rejects(c, scores) ==
  /\ c.state = "pending"
  /\ \E i \in DOMAIN scores :
       Reuses(FoldLeft(Corroborated, c, SubSeq(scores, 1, i - 1)), scores[i])

-----------------------------------------------------------------------------
(* What a verdict means *)

SumOf(evidence) == FoldLeft(LAMBDA n, e : n + e.llr, 0, evidence)

\* The verdict the policy gives to evidence that is looked at all at once.
Enough(evidence) ==
  /\ Len(evidence) >= MinBlocks
  /\ Cardinality({evidence[i].block.station : i \in DOMAIN evidence}) >= MinStations
  /\ Cardinality({evidence[i].block.height : i \in DOMAIN evidence}) >= MinHeights
  /\ Cardinality({evidence[i].block.program : i \in DOMAIN evidence}) >= MinPrograms

\* A candidate is resolved by the first part of its evidence that is enough
\* and decisive, and by nothing after it.
Justified(c) ==
  /\ (c.state = "verified") <=> (Enough(c.evidence) /\ SumOf(c.evidence) >= Support)
  /\ (c.state = "quarantined") <=> (Enough(c.evidence) /\ SumOf(c.evidence) <= Reject)
  /\ \A i \in 0..(Len(c.evidence) - 1) :
       LET before == SubSeq(c.evidence, 1, i)
       IN  Enough(before) => SumOf(before) \in (Reject + 1)..(Support - 1)

=============================================================================
