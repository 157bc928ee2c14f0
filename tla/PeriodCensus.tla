---------------------------- MODULE PeriodCensus ----------------------------
(***************************************************************************)
(* The period measurements of attacks/period_census.py on the orbits of    *)
(* the engine: Brent's search from one start, the census of the whole      *)
(* functional graph, and the counts reported from both.  They are run      *)
(* beside the engine, from every state it reaches.                         *)
(***************************************************************************)
EXTENDS PwlcmEngine, FiniteSets, FiniteSetsExt, SequencesExt

CONSTANTS
  Budgets,   (* values of the budget argument                               *)
  None

ASSUME BudgetAssumption == Budgets \subseteq Nat

Grid == 0 .. M - 1

-----------------------------------------------------------------------------
(***************************************************************************)
(* brent_lambda and brent_lambda_at.  The tortoise t waits while the hare  *)
(* h runs; whenever lam has reached power, it is set down where h is.      *)
(***************************************************************************)
Teleport_Fault_KeepsLam(b) ==
  IF b.power = b.lam THEN [b EXCEPT !.t = b.h, !.power = 2 * @] ELSE b

Teleport(b) ==
  IF b.power = b.lam THEN [b EXCEPT !.t = b.h, !.power = 2 * @, !.lam = 0] ELSE b

RunHare(b, q) ==
  [b EXCEPT !.h = CensusStep(b.h, q), !.lam = @ + 1, !.steps = @ + 1]

RECURSIVE Search(_, _, _)
Search(b, q, budget) ==
  IF b.t = b.h THEN b.lam
  ELSE LET c == RunHare(Teleport(b), q)
       IN  IF c.steps > budget THEN None ELSE Search(c, q, budget)

BrentLambda(x0, q, budget) ==
  Search([t |-> x0, h |-> CensusStep(x0, q), power |-> 1, lam |-> 1, steps |-> 0],
         q, budget)

-----------------------------------------------------------------------------
(***************************************************************************)
(* full_census.  The graph first: a branch that leaves the grid is sent to *)
(* the escape value at once, where the engine takes one step more.         *)
(***************************************************************************)
Successor(q) ==
  [s \in Grid |-> LET y == CensusStep(s, q) IN IF y \in Grid THEN y ELSE DEAD_STATE_FIX]

(* From Last(path) to the first state that is stopped at or already passed. *)
RECURSIVE Walk(_, _, _)
Walk(succ, stop, path) ==
  LET y == succ[Last(path)]
  IN  IF y \in stop \/ y \in Range(path) THEN path ELSE Walk(succ, stop, Append(path, y))

(* The coloured walk from s: a walk that ends on itself closes a new cycle. *)
Colour(succ, c, s) ==
  IF s \in c.black THEN c
  ELSE LET path == Walk(succ, c.black, <<s>>)
           y    == succ[Last(path)]
           cyc  == IF y \in c.black THEN {}
                   ELSE LET i == CHOOSE j \in DOMAIN path : path[j] = y
                        IN  Range(SubSeq(path, i, Len(path)))
           id   == Len(c.lens) + 1
       IN  [black |-> c.black \cup Range(path),
            lens  |-> IF cyc = {} THEN c.lens ELSE Append(c.lens, Cardinality(cyc)),
            cid   |-> [n \in cyc |-> id] @@ c.cid]

States == [i \in 1 .. M |-> i - 1]

Coloured(succ) ==
  LET fresh == [black |-> {}, lens |-> <<>>, cid |-> <<>>]
  IN  FoldLeft(LAMBDA c, s : Colour(succ, c, s), fresh, States)

(* Every tail gets the cycle it runs into.                                  *)
Propagate(succ, cid, s) ==
  IF s \in DOMAIN cid THEN cid
  ELSE LET chain == Walk(succ, DOMAIN cid, <<s>>)
       IN  [n \in Range(chain) |-> cid[succ[Last(chain)]]] @@ cid

Tiny == 16

FullCensus(q) ==
  LET succ   == Successor(q)
      walked == Coloured(succ)
      cid    == FoldLeft(LAMBDA c, s : Propagate(succ, c, s), walked.cid, States)
      lens   == walked.lens
      ids    == DOMAIN lens
      basin  == [i \in ids |-> Cardinality({n \in Grid : cid[n] = i})]
      BasinOf(S) == MapThenSumSet(LAMBDA i : basin[i], S)
      big    == CHOOSE i \in ids : \A j \in ids : lens[j] < lens[i] \/ (lens[j] = lens[i] /\ i <= j)
      least  == Min({lens[i] : i \in ids})
  IN  [n_cycles           |-> Len(lens),
       n_fixed_points     |-> Cardinality({i \in ids : lens[i] = 1}),
       max_cycle          |-> lens[big],
       max_cycle_basin    |-> basin[big],
       tiny_states        |-> BasinOf({i \in ids : lens[i] <= Tiny}),
       smallest_cycle     |-> least,
       states_to_smallest |-> BasinOf({i \in ids : lens[i] = least})]

-----------------------------------------------------------------------------
(* run_hunt: which keys of many fall into a cycle within the budget.        *)
Hunt(starts, q, budget) ==
  LET lam   == [s \in starts |-> BrentLambda(s, q, budget)]
      traps == {s \in starts : lam[s] # None}
  IN  [traps    |-> traps,
       shortest |-> IF traps = {} THEN None ELSE Min({lam[s] : s \in traps})]

(* run_edges: one hand-picked key, at the state its engine is in.           *)
Edge(budget) == [in_band |-> InBand(p), lam |-> BrentLambda(x, p, budget)]

-----------------------------------------------------------------------------
(* The orbits of the engine itself.                                         *)

RECURSIVE Reach(_, _, _)
Reach(s, seen, q) == IF s \in seen THEN seen ELSE Reach(NextState(s, q), seen \cup {s}, q)

RECURSIVE Entry(_, _, _)
Entry(s, seen, q) == IF s \in seen THEN s ELSE Entry(NextState(s, q), seen \cup {s}, q)

Cycle(s, q)  == Reach(Entry(s, {}, q), {}, q)
Period(s, q) == Cardinality(Cycle(s, q))
TailLen(s, q) == Cardinality(Reach(s, {}, q)) - Period(s, q)

(* The steps Brent's search takes: the tortoise sits at position n - 1, n a *)
(* power of two, on the cycle, and a lap is no longer than n.               *)
RECURSIVE PowerOfTwo(_, _)
PowerOfTwo(n, least) == IF n >= least THEN n ELSE PowerOfTwo(2 * n, least)

Needed(s, q) ==
  PowerOfTwo(1, Max({TailLen(s, q) + 1, Period(s, q)})) - 2 + Period(s, q)

(***************************************************************************)
(* brent_lambda returns the period of the engine's orbit, and None exactly *)
(* where the search needs more steps than the budget: that is more than    *)
(* the period, so None does not say that the period exceeds the budget.    *)
(***************************************************************************)
BrentExact ==
  \A budget \in Budgets :
    BrentLambda(x, p, budget) =
      IF Needed(x, p) > budget THEN None ELSE Period(x, p)

(***************************************************************************)
(* The census reports the cycles and basins of the engine, whatever order  *)
(* its walks ran in.  Its lengths leave out the states off the grid, which *)
(* a cycle through a corner of the map visits.                             *)
(***************************************************************************)
CensusExact ==
  LET cycles   == [s \in Grid |-> Cycle(s, p)]
      Length(c) == Cardinality(c \cap Grid)
      lengths  == [s \in Grid |-> Length(cycles[s])]
      all      == {cycles[s] : s \in Grid}
      r        == FullCensus(p)
  IN  /\ r.n_cycles = Cardinality(all)
      /\ r.n_fixed_points = Cardinality({c \in all : Length(c) = 1})
      /\ r.max_cycle = Max({Length(c) : c \in all})
      /\ \E c \in all :
           /\ Length(c) = r.max_cycle
           /\ r.max_cycle_basin = Cardinality({s \in Grid : cycles[s] = c})
      /\ r.tiny_states = Cardinality({s \in Grid : lengths[s] <= Tiny})
      /\ r.smallest_cycle = Min({Length(c) : c \in all})
      /\ r.states_to_smallest = Cardinality({s \in Grid : lengths[s] = r.smallest_cycle})

(* A hunt over every start misses none its budget reaches.                  *)
HuntExact ==
  \A budget \in Budgets :
    LET h == Hunt(Grid \ {0}, p, budget)
    IN  /\ h.traps = {s \in Grid \ {0} : Needed(s, p) <= budget}
        /\ h.shortest # None => h.shortest = Min({Period(s, p) : s \in h.traps})

(***************************************************************************)
(* The measurements are those of the engine's own orbits: the search from  *)
(* every state an engine reaches, with its break-point in the accepted     *)
(* band, and, once for every break-point, the census and a hunt.           *)
(***************************************************************************)
PeriodsExact ==
  /\ BrentExact
  /\ \A budget \in Budgets : Edge(budget).in_band
  /\ x = DEAD_STATE_FIX => CensusExact /\ HuntExact
=============================================================================
