--------------------------- MODULE SourceMatching ---------------------------
(***************************************************************************)
(* How evaluation.py pairs the sources of an estimate with the true ones:  *)
(* match_sources turns gating and isotopes into costs of a square matrix,  *)
(* and _hungarian finds an assignment of minimum cost with row and column  *)
(* potentials, adding one row at a time along a shortest augmenting path.  *)
(*                                                                         *)
(* Positions lie on a line and are whole metres, so distances are exact;   *)
(* column 0 is the algorithm's own, as in the code.                        *)
(***************************************************************************)
EXTENDS Integers, FiniteSets, Sequences

LOCAL INSTANCE SequencesExt

CONSTANT Infinity

Distance(a, b) == IF a.at < b.at THEN b.at - a.at ELSE a.at - b.at

Near(truth, estimates, radius, t, e) ==
  truth[t].isotope = estimates[e].isotope /\ Distance(truth[t], estimates[e]) <= radius

UnmatchedCost(radius) == radius + 1

\* Mutant: a pair out of reach costs no more than one source unmatched.
InvalidCost_Same(radius) == UnmatchedCost(radius)

InvalidCost(radius) == 3 * UnmatchedCost(radius)

\* One row per true source and per estimate, to leave either unmatched.
Costs(truth, estimates, radius) ==
  LET size == 1..(Len(truth) + Len(estimates))
  IN  [t \in size |-> [e \in size |->
         IF t \in DOMAIN truth /\ e \in DOMAIN estimates
           THEN IF Near(truth, estimates, radius, t, e)
                  THEN Distance(truth[t], estimates[e]) ELSE InvalidCost(radius)
           ELSE IF t \in DOMAIN truth \/ e \in DOMAIN estimates
                  THEN UnmatchedCost(radius) ELSE 0]]

\* The inner loop: from column h.column0 to the next column of the path.
NextColumn(cost, h) ==
  LET row0 == h.p[h.column0]
      used == h.used \union {h.column0}
      free == DOMAIN cost \ used
      current(c) == cost[row0][c] - h.u[row0] - h.v[c]
      better == {c \in free : current(c) < h.min_value[c]}
      reach(c) == IF c \in better THEN current(c) ELSE h.min_value[c]
      delta == Min({reach(c) : c \in free})
      rows == {h.p[c] : c \in used}
  IN  [h EXCEPT !.used = used,
                !.way = [c \in DOMAIN h.way |-> IF c \in better THEN h.column0 ELSE h.way[c]],
                !.u = [r \in DOMAIN h.u |-> IF r \in rows THEN h.u[r] + delta ELSE h.u[r]],
                !.v = [c \in DOMAIN h.v |-> IF c \in used THEN h.v[c] - delta ELSE h.v[c]],
                !.min_value = [c \in DOMAIN h.v |->
                                 IF c \in used THEN h.min_value[c] ELSE reach(c) - delta],
                !.column0 = Min({c \in free : reach(c) = delta})]

\* A path has at most as many columns as the matrix.
Lines(cost) == [k \in 1..Len(cost) |-> k]

FindPath(cost, h) ==
  FoldLeft(LAMBDA g, k : IF g.p[g.column0] = 0 THEN g ELSE NextColumn(cost, g), h, Lines(cost))

\* Shift the rows along the path, back to column 0.
Augmented(cost, h) ==
  FoldLeft(LAMBDA g, k : IF g.column0 = 0 THEN g
                         ELSE [g EXCEPT !.p[g.column0] = g.p[g.way[g.column0]],
                                        !.column0 = g.way[g.column0]],
           h, Lines(cost))

AddRow(cost, h, row) ==
  Augmented(cost, FindPath(cost,
    [h EXCEPT !.p[0] = row, !.used = {}, !.column0 = 0,
              !.min_value = [c \in 0..Len(cost) |-> Infinity]]))

\* _hungarian: the column assigned to each row.
Hungarian(cost) ==
  LET zero == [c \in 0..Len(cost) |-> 0]
      h == FoldLeft(LAMBDA g, row : AddRow(cost, g, row),
                    [u |-> zero, v |-> zero, p |-> zero, way |-> zero,
                     min_value |-> zero, used |-> {}, column0 |-> 0], Lines(cost))
  IN  [row \in DOMAIN cost |-> CHOOSE c \in DOMAIN cost : h.p[c] = row]

\* match_sources: the pairs <<true source, estimate>> within reach.
MatchSources(truth, estimates, radius) ==
  IF truth = <<>> \/ estimates = <<>> THEN {}
  ELSE LET assignment == Hungarian(Costs(truth, estimates, radius))
       IN  {<<t, assignment[t]>> : t \in {x \in DOMAIN truth :
              /\ assignment[x] \in DOMAIN estimates
              /\ Costs(truth, estimates, radius)[x][assignment[x]] <= radius}}

=============================================================================
