------------------------------ MODULE StationLog ------------------------------
(***************************************************************************)
(* A measurement log as the estimators see it: stations one after another, *)
(* each the sequence of its verification blocks in the scorer's order, and *)
(* the signals its records give the scheduler; and the candidates that     *)
(* fits to its prefixes find.                                              *)
(***************************************************************************)
EXTENDS Scheduling, Verification

CONSTANTS
  Log,             \* the stations of the complete log
  Policy,          \* SpectralSchedulerPolicy
  Deviances,       \* predictive deviances a record can have
  Mode,            \* "verification_only" or "exact_rj"
  Names,           \* clusters a fit can find, in the order of their ids
  Ratios           \* log-likelihood ratios a block can have

ASSUME LogAssumption == Log \in Seq(Seq(Blocks)) /\ Len(Log) > 0
ASSUME PolicyAssumption == Policy \in PolicyRecords
ASSUME DeviancesAssumption == Deviances \subseteq Nat
ASSUME ModeAssumption == Mode \in {"verification_only", "exact_rj"}
ASSUME NamesAssumption == Names \subseteq Nat \ {0} /\ IsFiniteSet(Names)
ASSUME RatiosAssumption == Ratios \subseteq Int

Steps(k) == UNION {Log[k][i].steps : i \in DOMAIN Log[k]}
EndStep(k) == CHOOSE n \in Steps(k) : \A m \in Steps(k) : m <= n

\* A valid log numbers its rows in order; a station is a run of rows and comes
\* after the stations before it (contracts/validators.py), and a block is a part
\* of its station's rows that no other block shares.
ASSUME RowsAssumption ==
  \A k \in DOMAIN Log :
    /\ \E n \in Steps(k) : \A m \in Steps(k) : m <= n
    /\ \A m, n \in Steps(k) : m..n \subseteq Steps(k)
    /\ \A l \in DOMAIN Log : k < l => \A m \in Steps(k), n \in Steps(l) : m < n
ASSUME BlocksAssumption ==
  \A k \in DOMAIN Log : \A i, j \in DOMAIN Log[k] :
    /\ Log[k][i].station = k /\ Log[k][i].steps # {}
    /\ i # j => Log[k][i].steps \intersect Log[k][j].steps = {}

\* Mutant: the first station after the k-th is left out.
BlocksAfter_SkipsOne(k) == FlattenSeq(SubSeq(Log, k + 2, Len(Log)))

\* The blocks of the rows after the k-th station.
BlocksAfter(k) == FlattenSeq(SubSeq(Log, k + 1, Len(Log)))

\* Candidate ids: the station of the snapshot and the cluster in it.
Ids == [snapshot : DOMAIN Log, name : Names]

\* Snapshots in the order they were taken, and queue.candidates of a snapshot,
\* which is sorted by id.
Before(c, d) == c.snapshot < d.snapshot \/ (c.snapshot = d.snapshot /\ c.name < d.name)

\* The monitor's signals for the records of station k with deviances dev.
SignalsOf(k, dev) ==
  LET first == EndStep(k) - Cardinality(Steps(k)) + 1
  IN  [i \in 1..Cardinality(Steps(k)) |->
         [step |-> first + i - 1, station |-> k, complete |-> i = Cardinality(Steps(k)),
          deviance |-> dev[first + i - 1], bins |-> 1]]

\* The scheduler before the last record of station k.
BeforeLast(s, k, dev) ==
  FoldLeft(LAMBDA t, g : Considered(Policy, t, g), s, Front(SignalsOf(k, dev)))

\* The scheduler after station k, and whether the station triggers a fit.
AfterStation(s, k, dev) == Considered(Policy, BeforeLast(s, k, dev), Last(SignalsOf(k, dev)))
StationTriggers(s, k, dev) == Triggers(Policy, BeforeLast(s, k, dev), Last(SignalsOf(k, dev)))

=============================================================================
