-------------------------- MODULE MCStructuralQueries --------------------------
(* Every call graph of four symbols for impact; pairs of graphs of three for  *)
(* changes; pairs of snapshots with shared names for diff.                    *)
EXTENDS StructuralQueriesProps

CONSTANTS f, g, h1, h2

\* Symbols that all have one name; a pair (caller, callee) is a call.
Graph(syms, pairs, complete) ==
  [syms |-> syms, identity |-> [x \in syms |-> f], hash |-> [x \in syms |-> h1],
   calls |-> {[line |-> 4 * p[1] + p[2], caller |-> p[1], callee |-> p[2]] : p \in pairs},
   complete |-> complete]

\* Calls at two lines of one caller, at top level, and of itself.
Odd == [Graph(1 .. 3, {<<1, 1>>, <<2, 1>>, <<3, 2>>}, TRUE) EXCEPT !.calls = @ \cup
          {[line |-> 0, caller |-> 2, callee |-> 1], [line |-> 1, caller |-> None, callee |-> 1]}]

Pairs(n) == {p \in (1 .. n) \X (1 .. n) : p[1] # p[2]}

ImpactAsk(s, depth) ==
  [action |-> "impact", current |-> s, baseline |-> None, depth |-> depth, seed |-> 1]
ImpactAsks ==
  {ImpactAsk(Graph(1 .. 4, pairs, TRUE), depth) : pairs \in SUBSET Pairs(4), depth \in 2 .. 3}
  \cup {ImpactAsk(Odd, 2)}

Baselines ==
  {None, Odd, Graph(1 .. 3, {<<1, 2>>}, FALSE), Graph({1}, {}, TRUE),
   Graph(1 .. 3, {<<1, 2>>, <<2, 3>>, <<3, 1>>}, TRUE), Graph(1 .. 2, (1 .. 2) \X (1 .. 2), TRUE)}
Ranges ==
  {{[current |-> {1}, baseline |-> {1}]},
   {[current |-> {}, baseline |-> {1}]},
   {[current |-> {1, 2}, baseline |-> {}], [current |-> {2}, baseline |-> {1}]},
   {[current |-> {1, 2}, baseline |-> {1}], [current |-> {3}, baseline |-> {1}]}}
ChangesAsks ==
  {[action |-> "changes", current |-> Graph(1 .. 3, pairs, TRUE), baseline |-> b,
    depth |-> depth, changes |-> changes] :
     pairs \in SUBSET Pairs(3), b \in Baselines, depth \in 1 .. 3, changes \in Ranges}

\* Symbol 3, if there, shares the name of 1 or of 2; two lines may hold calls.
Sides(syms) ==
  {p \in {<<1, 2>>, <<3, 2>>, <<1, 3>>, <<None, 2>>} : p[1] \in syms \cup {None} /\ p[2] \in syms}
Snapshots ==
  UNION {{[syms |-> syms, identity |-> [x \in syms |-> IF x = 1 \/ (x = 3 /\ shared = 1) THEN f ELSE g],
           hash |-> [x \in syms |-> IF x = 1 THEN hash ELSE h1], complete |-> TRUE,
           calls |-> {[line |-> i, caller |-> calls[i][1], callee |-> calls[i][2]] : i \in 1 .. n}] :
            shared \in 1 .. 2, hash \in {h1, h2}, calls \in [1 .. n -> Sides(syms)]} :
         syms \in {{1, 2}, {2, 3}, {1, 2, 3}}, n \in 0 .. 2}
DiffAsks ==
  {[action |-> "diff", current |-> new, baseline |-> old, depth |-> 1] :
     old \in Snapshots, new \in Snapshots}
  \cup {[action |-> "diff", current |-> Odd, baseline |-> b, depth |-> 1] :
          b \in {None, Graph(1 .. 3, {}, FALSE)}}

MCAsks == ImpactAsks \cup ChangesAsks \cup DiffAsks
=============================================================================
