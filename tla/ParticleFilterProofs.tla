------------------------ MODULE ParticleFilterProofs ------------------------
(***************************************************************************)
(* For any number of particles, slots, isotopes, charts and regions: every *)
(* checkpoint of the filter is one it would load again, and every move     *)
(* that the jump can propose it can also propose to take back.             *)
(***************************************************************************)
EXTENDS ParticleFilter, WellFoundedInduction, TLAPS

Valid(e) ==
  /\ e \in Ensemble
  /\ \A p \in Particles, i \in Isotopes : Contiguous(e[p][i])

Inverse(m) == [m EXCEPT !.kind = IF m.kind = "birth" THEN "death" ELSE "birth"]

\* A nonempty set of natural numbers has a least one: what stands in for an
\* induction over the slots.
LEMMA Least ==
  ASSUME NEW T, T \subseteq Nat, T # {}
  PROVE  \E x \in T : \A y \in T : x <= y
<1>1. IsWellFoundedOn(OpToRel(<, Nat), Nat)
  BY NatLessThanWellFounded
<1>2. PICK x \in T : \A y \in T : ~(<<y, x>> \in OpToRel(<, Nat))
  BY <1>1, WFMin
<1>3. \A y \in T : <<y, x>> \in OpToRel(<, Nat) <=> y < x
  BY DEF OpToRel
<1>4. \A y \in T : ~(y < x)
  BY <1>2, <1>3, Zenon
<1>5. \A y \in T : x <= y
  BY <1>4
<1> QED BY <1>5

\* Contiguity reaches further than the next slot: beyond an empty slot all
\* slots are empty.
LEMMA EmptyBeyond ==
  ASSUME NEW row \in Row, Contiguous(row),
         NEW s \in 1..Slots, row[s] = NoSource
  PROVE  \A t \in s..Slots : row[t] = NoSource
<1> DEFINE Bad == {t \in s..Slots : row[t] # NoSource}
<1>1. SUFFICES ASSUME Bad # {} PROVE FALSE
  OBVIOUS
<1>2. Bad \subseteq Nat
  BY SlotsAssumption
<1>3. PICK t \in Bad : \A u \in Bad : t <= u
  BY <1>1, <1>2, Least
<1>4. t - 1 \in s..Slots /\ t - 1 \notin Bad
  BY <1>3, SlotsAssumption
<1>5. t - 1 \in 1..(Slots - 1) /\ row[t - 1] = NoSource /\ (t - 1) + 1 = t
  BY <1>4, SlotsAssumption
<1> QED BY <1>3, <1>5 DEF Contiguous

\* A slot holds a source or none, and never both.
LEMMA NoSourceIsNone ==
  NoSource \notin Source
BY ChartsAssumption DEF NoSource, Source

\* A birth in the first free slot makes it the last taken one.
LEMMA BirthInRow ==
  ASSUME NEW row \in Row, Contiguous(row), NEW x \in Source,
         NEW s \in 1..Slots, FirstFree(row, s),
         NEW grown, grown = [row EXCEPT ![s] = x]
  PROVE  /\ grown \in Row /\ Contiguous(grown) /\ grown[s] = x
         /\ LastActive(grown, s)
         /\ [grown EXCEPT ![s] = NoSource] = row
<1>1. grown \in Row /\ grown[s] = x
  BY DEF Row
<1>2. \A t \in 1..Slots : t # s => grown[t] = row[t]
  BY DEF Row
<1>3. \A t \in (s + 1)..Slots : row[t] = NoSource
  BY EmptyBeyond, SlotsAssumption DEF FirstFree
<1>4. LastActive(grown, s)
  BY <1>1, <1>2, <1>3, NoSourceIsNone, SlotsAssumption DEF LastActive
<1>5. Contiguous(grown)
  <2> SUFFICES ASSUME NEW t \in 1..(Slots - 1), grown[t] = NoSource
               PROVE  grown[t + 1] = NoSource
    BY DEF Contiguous
  <2>1. t \in 1..Slots /\ t + 1 \in 1..Slots
    BY SlotsAssumption
  <2>2. t # s /\ row[t] = NoSource
    BY <1>1, <1>2, <2>1, NoSourceIsNone
  <2>3. t > s
    BY <2>1, <2>2, SlotsAssumption DEF FirstFree
  <2> QED BY <1>2, <1>3, <2>1, <2>3, SlotsAssumption
<1>6. [grown EXCEPT ![s] = NoSource] = row
  BY <1>1, <1>2 DEF Row, FirstFree
<1> QED BY <1>1, <1>4, <1>5, <1>6

\* A death in the last taken slot makes it the first free one.
LEMMA DeathInRow ==
  ASSUME NEW row \in Row, Contiguous(row), NEW s \in 1..Slots, LastActive(row, s),
         NEW cut, cut = [row EXCEPT ![s] = NoSource]
  PROVE  /\ cut \in Row /\ Contiguous(cut) /\ cut[s] = NoSource
         /\ FirstFree(cut, s) /\ HasRoom(cut)
         /\ [cut EXCEPT ![s] = row[s]] = row
<1>1. cut \in Row /\ cut[s] = NoSource
  BY DEF Row
<1>2. \A t \in 1..Slots : t # s => cut[t] = row[t]
  BY DEF Row
<1>3. \A t \in 1..(s - 1) : row[t] # NoSource
  <2> SUFFICES ASSUME NEW t \in 1..(s - 1), row[t] = NoSource PROVE FALSE
    OBVIOUS
  <2>1. t \in 1..Slots /\ s \in t..Slots
    BY SlotsAssumption
  <2> QED BY <2>1, EmptyBeyond DEF LastActive
<1>4. FirstFree(cut, s) /\ HasRoom(cut)
  BY <1>1, <1>2, <1>3, SlotsAssumption DEF FirstFree, HasRoom
<1>5. Contiguous(cut)
  <2> SUFFICES ASSUME NEW t \in 1..(Slots - 1), cut[t] = NoSource
               PROVE  cut[t + 1] = NoSource
    BY DEF Contiguous
  <2>1. t \in 1..Slots /\ t + 1 \in 1..Slots
    BY SlotsAssumption
  <2>2. t >= s
    BY <1>2, <1>3, <2>1, SlotsAssumption
  <2>3. t + 1 \in (s + 1)..Slots /\ t + 1 # s
    BY <2>1, <2>2, SlotsAssumption
  <2> QED BY <1>2, <2>1, <2>3 DEF LastActive
<1>6. [cut EXCEPT ![s] = row[s]] = row
  BY <1>1, <1>2 DEF Row
<1> QED BY <1>1, <1>4, <1>5, <1>6

\* A move changes one slot of one row.
LEMMA PutInEnsemble ==
  ASSUME NEW e \in Ensemble, NEW p \in Particles, NEW i \in Isotopes, NEW s \in 1..Slots,
         NEW v \in Source \union {NoSource},
         NEW f, f = Put(e, p, i, s, v)
  PROVE  /\ f \in Ensemble
         /\ f[p][i] = [e[p][i] EXCEPT ![s] = v]
         /\ \A q \in Particles, j \in Isotopes : (q # p \/ j # i) => f[q][j] = e[q][j]
<1>1. e[p] \in [Isotopes -> Row] /\ e[p][i] \in Row
  BY DEF Ensemble
<1>2. [e[p][i] EXCEPT ![s] = v] \in Row
  BY <1>1 DEF Row
<1>3. [e[p] EXCEPT ![i][s] = v] \in [Isotopes -> Row]
  BY <1>1, <1>2
<1>4. f = [e EXCEPT ![p] = [e[p] EXCEPT ![i] = [e[p][i] EXCEPT ![s] = v]]]
  BY <1>1 DEF Ensemble, Put
<1> HIDE DEF Row
<1>5. f \in Ensemble
  BY <1>3, <1>4 DEF Ensemble
<1>6. f[p] = [e[p] EXCEPT ![i] = [e[p][i] EXCEPT ![s] = v]]
  BY <1>4 DEF Ensemble
<1>7. f[p][i] = [e[p][i] EXCEPT ![s] = v]
  BY <1>1, <1>6
<1>8. \A q \in Particles, j \in Isotopes : (q # p \/ j # i) => f[q][j] = e[q][j]
  BY <1>1, <1>4, <1>6 DEF Ensemble
<1> QED BY <1>5, <1>7, <1>8

\* Two ensembles with the same rows are the same.
LEMMA SameRows ==
  ASSUME NEW e \in Ensemble, NEW f \in Ensemble,
         \A p \in Particles, i \in Isotopes : f[p][i] = e[p][i]
  PROVE  f = e
<1>1. \A p \in Particles : e[p] \in [Isotopes -> Row] /\ f[p] \in [Isotopes -> Row]
  BY DEF Ensemble
<1>2. \A p \in Particles : f[p] = e[p]
  BY <1>1
<1> QED BY <1>2 DEF Ensemble

\* A birth is undone by the death of the source it added.
LEMMA BirthTakenBack ==
  ASSUME NEW e, Valid(e), NEW regions, NEW m \in Births(e, regions)
  PROVE  /\ Valid(After(e, m))
         /\ Inverse(m) \in Deaths(After(e, m), regions)
         /\ After(After(e, m), Inverse(m)) = e
<1> DEFINE p == m.particle  i == m.isotope  s == m.slot  x == m.source
           f == After(e, m)  b == Inverse(m)  g == After(f, b)
<1>1. /\ m.kind = "birth" /\ p \in Particles /\ i \in Isotopes /\ s \in 1..Slots /\ x \in Source
      /\ FirstFree(e[p][i], s) /\ CanBeBorn(e, regions, p, i, x)
  BY DEF Births, MoveOf
<1>2. e \in Ensemble /\ e[p][i] \in Row /\ Contiguous(e[p][i])
  BY <1>1 DEF Valid, Ensemble
<1>3. f = Put(e, p, i, s, x)
  BY <1>1 DEF After
<1>4. /\ b \in MoveOf("death") /\ b.kind = "death" /\ b.particle = p /\ b.isotope = i
      /\ b.slot = s /\ b.source = x
  BY <1>1 DEF Inverse, Births, MoveOf
<1>5. g = Put(f, p, i, s, NoSource)
  BY <1>4 DEF After
<1> HIDE DEF p, i, s, x, f, b, g
<1>6. /\ f \in Ensemble /\ f[p][i] = [e[p][i] EXCEPT ![s] = x]
      /\ \A q \in Particles, j \in Isotopes : (q # p \/ j # i) => f[q][j] = e[q][j]
  BY <1>1, <1>2, <1>3, PutInEnsemble
<1>7. /\ f[p][i] \in Row /\ Contiguous(f[p][i]) /\ f[p][i][s] = x /\ LastActive(f[p][i], s)
      /\ [f[p][i] EXCEPT ![s] = NoSource] = e[p][i]
  BY <1>1, <1>2, <1>6, BirthInRow
<1>8. Valid(f)
  BY <1>2, <1>6, <1>7 DEF Valid
<1>9. /\ g \in Ensemble /\ g[p][i] = e[p][i]
      /\ \A q \in Particles, j \in Isotopes : (q # p \/ j # i) => g[q][j] = f[q][j]
  BY <1>1, <1>5, <1>6, <1>7, PutInEnsemble
<1>10. g = e
  <2>1. \A q \in Particles, j \in Isotopes : g[q][j] = e[q][j]
    BY <1>6, <1>9
  <2> QED BY <1>2, <1>9, <2>1, SameRows
<1>11. CanBeBorn(g, regions, b.particle, b.isotope, b.source)
  BY <1>1, <1>4, <1>10
<1>12. b \in Deaths(f, regions)
  BY <1>4, <1>7, <1>11 DEF Deaths, g
<1> QED BY <1>8, <1>10, <1>12 DEF f, b, g

\* A death is undone by the birth of the source it took.
LEMMA DeathTakenBack ==
  ASSUME NEW e, Valid(e), NEW regions, NEW m \in Deaths(e, regions)
  PROVE  /\ Valid(After(e, m))
         /\ Inverse(m) \in Births(After(e, m), regions)
         /\ After(After(e, m), Inverse(m)) = e
<1> DEFINE p == m.particle  i == m.isotope  s == m.slot  x == m.source
           f == After(e, m)  b == Inverse(m)  g == After(f, b)
<1>1. /\ m.kind = "death" /\ p \in Particles /\ i \in Isotopes /\ s \in 1..Slots /\ x \in Source
      /\ e[p][i][s] = x /\ LastActive(e[p][i], s) /\ CanBeBorn(f, regions, p, i, x)
  BY DEF Deaths, MoveOf
<1>2. e \in Ensemble /\ e[p][i] \in Row /\ Contiguous(e[p][i])
  BY <1>1 DEF Valid, Ensemble
<1>3. f = Put(e, p, i, s, NoSource)
  BY <1>1 DEF After
<1>4. /\ b \in MoveOf("birth") /\ b.kind = "birth" /\ b.particle = p /\ b.isotope = i
      /\ b.slot = s /\ b.source = x
  BY <1>1 DEF Inverse, Deaths, MoveOf
<1>5. g = Put(f, p, i, s, x)
  BY <1>4 DEF After
<1> HIDE DEF p, i, s, x, f, b, g
<1>6. /\ f \in Ensemble /\ f[p][i] = [e[p][i] EXCEPT ![s] = NoSource]
      /\ \A q \in Particles, j \in Isotopes : (q # p \/ j # i) => f[q][j] = e[q][j]
  <2> DEFINE v == NoSource
  <2>1. v \in Source \union {NoSource} /\ f = Put(e, p, i, s, v)
    BY <1>3
  <2> HIDE DEF v
  <2>2. /\ f \in Ensemble /\ f[p][i] = [e[p][i] EXCEPT ![s] = v]
        /\ \A q \in Particles, j \in Isotopes : (q # p \/ j # i) => f[q][j] = e[q][j]
    BY <1>1, <1>2, <2>1, PutInEnsemble
  <2> QED BY <2>2 DEF v
<1>7. /\ f[p][i] \in Row /\ Contiguous(f[p][i]) /\ FirstFree(f[p][i], s)
      /\ [f[p][i] EXCEPT ![s] = x] = e[p][i]
  BY <1>1, <1>2, <1>6, DeathInRow
<1>8. Valid(f)
  BY <1>2, <1>6, <1>7 DEF Valid
<1>9. /\ g \in Ensemble /\ g[p][i] = e[p][i]
      /\ \A q \in Particles, j \in Isotopes : (q # p \/ j # i) => g[q][j] = f[q][j]
  BY <1>1, <1>5, <1>6, <1>7, PutInEnsemble
<1>10. g = e
  <2>1. \A q \in Particles, j \in Isotopes : g[q][j] = e[q][j]
    BY <1>6, <1>9
  <2> QED BY <1>2, <1>9, <2>1, SameRows
<1>11. b \in Births(f, regions)
  BY <1>1, <1>4, <1>7 DEF Births
<1> QED BY <1>8, <1>10, <1>11 DEF f, b, g

\* For every ensemble without holes and every directive: whatever the kernel
\* can propose leaves no hole, and the kernel can propose to take it back, as
\* the paired birth and death of apply_exact_rj must.
THEOREM EveryMoveCanBeTakenBack ==
  ASSUME NEW e, Valid(e), NEW regions, NEW m \in Moves(e, regions)
  PROVE  /\ Valid(After(e, m))
         /\ Inverse(m) \in Moves(After(e, m), regions)
         /\ After(After(e, m), Inverse(m)) = e
<1>1. CASE m \in Births(e, regions)
  BY <1>1, BirthTakenBack DEF Moves
<1>2. CASE m \in Deaths(e, regions)
  BY <1>2, DeathTakenBack DEF Moves
<1> QED BY <1>1, <1>2 DEF Moves

-----------------------------------------------------------------------------

\* What the invariant also needs: directives are numbered up to issued.
IInv ==
  /\ StateValid
  /\ issued \in Nat
  /\ directive # None => directive.id \in 1..issued

\* The initial ensembles have no holes.
LEMMA InitIInv == Init => IInv
<1> SUFFICES ASSUME Init PROVE IInv
  OBVIOUS
<1>1. PICK full \in [Particles -> [Isotopes -> [1..Slots -> Source]]],
           cardinality \in [Particles -> [Isotopes -> 0..Slots]] :
        ensemble = [p \in Particles |-> [i \in Isotopes |-> [s \in 1..Slots |->
                      IF s <= cardinality[p][i] THEN full[p][i][s] ELSE NoSource]]]
  BY Zenon DEF Init
<1>2. ASSUME NEW p \in Particles, NEW i \in Isotopes
      PROVE  ensemble[p][i] \in Row /\ Contiguous(ensemble[p][i])
  <2> DEFINE row == [s \in 1..Slots |->
                       IF s <= cardinality[p][i] THEN full[p][i][s] ELSE NoSource]
  <2>1. ensemble[p][i] = row
    BY <1>1
  <2>2. cardinality[p][i] \in Nat /\ \A s \in 1..Slots : full[p][i][s] \in Source
    BY SlotsAssumption
  <2>3. row \in Row
    BY <2>2 DEF Row
  <2>4. Contiguous(row)
    <3> SUFFICES ASSUME NEW s \in 1..(Slots - 1), row[s] = NoSource
                 PROVE  row[s + 1] = NoSource
      BY DEF Contiguous
    <3>1. s \in 1..Slots /\ s + 1 \in 1..Slots
      BY SlotsAssumption
    <3>2. ~(s <= cardinality[p][i])
      BY <2>2, <3>1, NoSourceIsNone
    <3> QED BY <2>2, <3>1, <3>2
  <2> QED BY <2>1, <2>3, <2>4
<1>3. ensemble \in Ensemble
  <2>1. ensemble = [p \in Particles |-> [i \in Isotopes |-> ensemble[p][i]]]
    BY <1>1
  <2> HIDE DEF Row
  <2> QED BY <1>2, <2>1 DEF Ensemble
<1>4. weight \in [Particles -> Nat] /\ processed \in 0..Stations /\ applied \subseteq 1..issued
      /\ issued \in Nat /\ directive = None
  BY LogAssumption DEF Init
<1> QED BY <1>2, <1>3, <1>4 DEF IInv, StateValid

\* Copies of valid particles are valid.
LEMMA Resampled ==
  ASSUME NEW e, Valid(e), NEW pick \in [Particles -> Particles]
  PROVE  Valid([p \in Particles |-> e[pick[p]]])
<1>1. \A p \in Particles : pick[p] \in Particles /\ e[p] \in [Isotopes -> Row]
  BY DEF Valid, Ensemble
<1> QED BY <1>1 DEF Valid, Ensemble

\* Resampling copies valid rows, and a jump makes a move of the kernel.
LEMMA NextIInv == IInv /\ [Next]_vars => IInv'
<1> SUFFICES ASSUME IInv, [Next]_vars PROVE IInv'
  OBVIOUS
<1>1. Valid(ensemble) /\ weight \in [Particles -> Nat] /\ processed \in 0..Stations
      /\ applied \subseteq 1..issued /\ issued \in Nat
      /\ (directive # None => directive.id \in 1..issued)
  BY DEF IInv, StateValid, Valid
<1>2. SUFFICES /\ Valid(ensemble') /\ weight' \in [Particles -> Nat] /\ processed' \in 0..Stations
               /\ applied' \subseteq 1..issued' /\ issued' \in Nat
               /\ (directive' # None => directive'.id \in 1..issued')
  BY DEF IInv, StateValid, Valid
<1>3. CASE Advance
  <2>1. PICK likelihood \in [Particles -> Likelihoods] :
          LET w == [p \in Particles |-> weight[p] * likelihood[p]]
          IN  IF Uneven(w)
                THEN /\ \E t \in 0..(Sum(w) - 1), pick \in [Particles -> Particles] :
                          /\ Systematic(pick, w, t)
                          /\ ensemble' = [p \in Particles |-> ensemble[pick[p]]]
                     /\ weight' = [p \in Particles |-> 1]
                ELSE weight' = w /\ UNCHANGED ensemble
    BY <1>3, Zenon DEF Advance
  <2> DEFINE w == [p \in Particles |-> weight[p] * likelihood[p]]
  <2>2. w \in [Particles -> Nat]
    <3>1. \A p \in Particles : weight[p] \in Nat /\ likelihood[p] \in Nat
      BY <1>1, LikelihoodsAssumption
    <3>2. \A a, b \in Nat : a * b \in Nat
      OBVIOUS
    <3> QED BY <3>1, <3>2
  <2>3. \/ \E pick \in [Particles -> Particles] :
               ensemble' = [p \in Particles |-> ensemble[pick[p]]]
        \/ ensemble' = ensemble
    BY <2>1, Zenon
  <2>4. Valid(ensemble')
    BY <1>1, <2>3, Resampled
  <2>5. weight' = w \/ weight' = [p \in Particles |-> 1]
    BY <2>1, Zenon
  <2>6. weight' \in [Particles -> Nat]
    BY <2>2, <2>5
  <2> QED BY <1>1, <1>3, <2>4, <2>6, LogAssumption DEF Advance
<1>4. CASE Direct
  <2>1. /\ ensemble' = ensemble /\ weight' = weight /\ processed' = processed
        /\ applied' = applied /\ issued' = issued + 1
    BY <1>4 DEF Direct
  <2>2. directive'.id = issued'
    BY <1>4 DEF Direct
  <2> QED BY <1>1, <2>1, <2>2
<1>5. CASE Jump
  <2>1. PICK m \in Moves(ensemble, directive.regions), accepted \in BOOLEAN :
          IF accepted
            THEN ensemble' = After(ensemble, m) /\ applied' = applied \union {directive.id}
            ELSE UNCHANGED <<ensemble, applied>>
    BY <1>5, Zenon DEF Jump
  <2>2. Valid(ensemble') /\ applied' \subseteq 1..issued
    <3>1. CASE accepted
      BY <1>1, <1>5, <2>1, <3>1, EveryMoveCanBeTakenBack DEF Jump
    <3>2. CASE ~accepted
      BY <1>1, <2>1, <3>2
    <3> QED BY <3>1, <3>2
  <2>3. /\ weight' = weight /\ processed' = processed /\ issued' = issued
        /\ directive' = directive
    BY <1>5 DEF Jump
  <2> QED BY <1>1, <2>2, <2>3
<1>6. CASE UNCHANGED vars
  BY <1>1, <1>6 DEF vars
<1> QED BY <1>3, <1>4, <1>5, <1>6 DEF Next

\* Every checkpoint that the filter and its jumps write can be loaded again.
THEOREM StateIsValid == Spec => []StateValid
<1>1. IInv => StateValid
  BY DEF IInv
<1> QED BY InitIInv, NextIInv, <1>1, PTL DEF Spec

=============================================================================
