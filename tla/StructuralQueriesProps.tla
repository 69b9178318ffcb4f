-------------------------- MODULE StructuralQueriesProps --------------------------
(* What the answers of impact, changes and diff mean. *)
EXTENDS StructuralQueries

Status == {"start", "walking", "done", "refused"}
Origin == {"current", "baseline"}
Entry == [origin : Origin, depth : Nat, id : Id]
Row == [identity : Identity \cup (Identity \X Identity),
        change : {"added", "removed", "changed", "ambiguous_identity", "relationship_added",
                  "relationship_removed", "relationship_count_changed"}]

\* The types; the queue and the results never hold more than the budgets allow.
TypeOK ==
  /\ walk \in [status : Status, origin : Origin, queue : Seq(Entry), all : Seq(Entry),
               seen : SUBSET Id, left : 0 .. MaxWork, rows : SUBSET Row]
  /\ ask.action = "changes" => Len(walk.all) <= MaxResults

-----------------------------------------------------------------------------
(* Reference: what callers of seeds are within a number of hops *)

Ball(s, seeds) ==
  LET B[n \in Nat] == IF n = 0 THEN seeds ELSE B[n - 1] \cup UNION {Callers(s, x) : x \in B[n - 1]}
  IN  B

Layers(s, seeds, origin) ==
  UNION {{[origin |-> origin, depth |-> d, id |-> x] :
            x \in IF d = 0 THEN seeds ELSE Ball(s, seeds)[d] \ Ball(s, seeds)[d - 1]} :
         d \in 0 .. ask.depth}

\* What a walk reads that visits some symbols: each pair of caller and callee once.
Reads(origin, visited) ==
  {<<origin, c.caller, c.callee>> :
     c \in {d \in Source(origin).calls : d.callee \in visited /\ d.caller # None}}

Origins == IF ask.action = "impact" \/ ask.baseline = None THEN {"current"} ELSE {"current", "baseline"}

SeedsOf(origin) == IF ask.action = "impact" THEN {ask.seed} ELSE Touched(origin)

\* All walks of a query share one budget.
Work == UNION {Reads(o, Ball(Source(o), SeedsOf(o))[ask.depth - 1]) : o \in Origins}

Answer ==
  LET all == UNION {Layers(Source(o), SeedsOf(o), o) : o \in Origins}
  IN  IF ask.action = "impact" THEN {e \in all : e.depth > 0} ELSE all

WithinBudgets ==
  /\ ask.action = "changes" =>
       /\ ask.baseline # None => ask.baseline.complete
       /\ \A o \in Origins : Cardinality(Touched(o)) <= MaxSeeds
       /\ Cardinality(Answer) <= MaxResults
  /\ Cardinality(Work) <= MaxWork

\* architecture.md:139: impact "deduplicates cycles, excludes the seed", decisions.md:105
\* "minimum distances": an answer holds exactly the symbols within the asked depth, once, with
\* their least distance, of the index and of the baseline, whatever cycles the calls form.
CallersAreExact ==
  walk.status = "done" /\ ask.action # "diff" =>
    ToSet(walk.all) = Answer /\ Len(walk.all) = Cardinality(Answer)

\* A walk gives up exactly when what it was asked for exceeds a budget; this does not
\* depend on the order in which symbols are visited, and both walks of changes share one budget.
RefusedOnlyOverBudget ==
  ask.action # "diff" =>
    /\ walk.status = "done" => WithinBudgets
    /\ walk.status = "refused" => ~WithinBudgets

-----------------------------------------------------------------------------
Count(s, i) == Cardinality(Named(s, i))
Calls(s, p) ==
  Cardinality({c \in s.calls : c.caller # None /\ s.identity[c.caller] = p[1] /\ s.identity[c.callee] = p[2]})

\* Named at most once in both.
Matched(i) == Count(ask.baseline, i) <= 1 /\ Count(ask.current, i) <= 1

SymbolChange(i) ==
  LET old == Count(ask.baseline, i)
      new == Count(ask.current, i)
  IN  IF old > 1 \/ new > 1 THEN {"ambiguous_identity"}
      ELSE IF old = 0 /\ new = 1 THEN {"added"}
      ELSE IF old = 1 /\ new = 0 THEN {"removed"}
      ELSE IF {ask.baseline.hash[x] : x \in Named(ask.baseline, i)}
                # {ask.current.hash[x] : x \in Named(ask.current, i)} THEN {"changed"}
      ELSE {}

RelationshipChange(p) ==
  LET old == Calls(ask.baseline, p)
      new == Calls(ask.current, p)
  IN  IF old = new THEN {}
      ELSE IF old = 0 THEN {"relationship_added"}
      ELSE IF new = 0 THEN {"relationship_removed"}
      ELSE {"relationship_count_changed"}

Reported(x) == {row.change : row \in {r \in walk.rows : r.identity = x}}

\* README.md:241-242: diff "reports unique symbol/content and call relationship changes, and
\* flags duplicate comparison identities": every identity is reported as its symbols of the two
\* snapshots require, and every relationship between names that are unique in both.
DiffIsExact ==
  walk.status = "done" /\ ask.action = "diff" =>
    /\ \A i \in Identity : Reported(i) = SymbolChange(i)
    /\ \A p \in Identity \X Identity :
         Matched(p[1]) /\ Matched(p[2]) => Reported(p) = RelationshipChange(p)
=============================================================================
