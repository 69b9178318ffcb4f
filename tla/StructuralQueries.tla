---------------------------- MODULE StructuralQueries ----------------------------
(***************************************************************************)
(* The queries that compute more than a selection: impact_ids of store.rs, *)
(* changed_impact and snapshot_diff of store/history.rs.                   *)
(*                                                                         *)
(* One query in one read transaction: ask is what it finds there and does  *)
(* not change.  The two walks visit one symbol per step.                   *)
(***************************************************************************)
EXTENDS Integers, Sequences, FiniteSets, SequencesExt

CONSTANTS Id,       \* symbol ids, unique in one index or snapshot
          Identity, \* file, kind and qualified name: may be shared
          Hash,     \* contents of symbols
          None,
          Asks,     \* the queries to ask, with what they find
          MaxSeeds, MaxResults, MaxWork

VARIABLES ask, \* the query, the index and the baseline snapshot
          walk \* how far the query is

vars == <<ask, walk>>

\* An index or a snapshot.  A call has a line of its own; None calls at top level.
IsIndex(s) ==
  /\ DOMAIN s = {"syms", "identity", "hash", "calls", "complete"}
  /\ s.syms \subseteq Id /\ IsFiniteSet(s.syms) /\ IsFiniteSet(s.calls)
  /\ s.identity \in [s.syms -> Identity] /\ s.hash \in [s.syms -> Hash]
  /\ s.calls \subseteq [line : Nat, caller : s.syms \cup {None}, callee : s.syms]
  /\ s.complete \in BOOLEAN

ASSUME ConstantsAssumption ==
  /\ Id \subseteq Nat /\ None \notin Id
  /\ Identity \cap (Identity \X Identity) = {}
  /\ MaxSeeds \in Nat /\ MaxResults \in Nat /\ MaxWork \in Nat
  /\ \A a \in Asks :
       /\ a.action \in {"impact", "changes", "diff"}
       /\ IsIndex(a.current)
       /\ a.baseline = None \/ IsIndex(a.baseline)
       /\ a.depth \in 1 .. 10
       /\ a.action = "impact" => a.seed \in a.current.syms
       /\ a.action = "changes" =>
            \A change \in a.changes :
              /\ change.current \subseteq a.current.syms
              /\ a.baseline # None => change.baseline \subseteq a.baseline.syms

Idle == [status |-> "start", origin |-> "current", queue |-> <<>>, seen |-> {}, all |-> <<>>,
         left |-> MaxWork, rows |-> {}]
Refused == [walk EXCEPT !.status = "refused"]
-----------------------------------------------------------------------------
\* ORDER BY id: the i-th is the one with i up to itself.
Ascending(ids) ==
  [i \in 1 .. Cardinality(ids) |-> CHOOSE x \in ids : Cardinality({y \in ids : y <= x}) = i]

\* SELECT DISTINCT caller ... WHERE callee = id AND caller IS NOT NULL
Callers(s, id) == {c.caller : c \in {d \in s.calls : d.callee = id}} \ {None}

Source(origin) == IF origin = "current" THEN ask.current ELSE ask.baseline

\* Mutant: one level too many.
BeyondDepth(depth) == depth > ask.depth

AtDepth(depth) == depth >= ask.depth

\* The callers of the head of the queue that no visit met, one level further.
Found(callers) ==
  LET depth == Head(walk.queue).depth + 1
      ids == Ascending(callers \ walk.seen)
  IN  [i \in DOMAIN ids |-> [origin |-> walk.origin, depth |-> depth, id |-> ids[i]]]

\* Mutant: only what was visited is remembered.
SeenOnVisit(callers) == walk.seen \cup {Head(walk.queue).id}

SeenWith(callers) == walk.seen \cup callers

\* One symbol is taken from the queue; results are what is found on the way.
Visit(results) ==
  LET head == Head(walk.queue)
      callers == IF AtDepth(head.depth) THEN {} ELSE Callers(Source(walk.origin), head.id)
  IN  walk' = IF Cardinality(callers) > walk.left
              THEN Refused
              ELSE [walk EXCEPT !.queue = Tail(@) \o Found(callers),
                                !.seen = SeenWith(callers),
                                !.left = @ - Cardinality(callers),
                                !.all = @ \o (IF results = "found" THEN Found(callers) ELSE <<head>>)]
-----------------------------------------------------------------------------
(* impact: the callers of one symbol, without itself *)

BeginImpact ==
  /\ ask.action = "impact" /\ walk.status = "start"
  /\ walk' = [walk EXCEPT !.status = "walking", !.seen = {ask.seed},
                          !.queue = <<[origin |-> "current", depth |-> 0, id |-> ask.seed]>>]
  /\ UNCHANGED ask

VisitForImpact ==
  /\ ask.action = "impact" /\ walk.status = "walking" /\ walk.queue # <<>>
  /\ Visit("found")
  /\ UNCHANGED ask

EndImpact ==
  /\ ask.action = "impact" /\ walk.status = "walking" /\ walk.queue = <<>>
  /\ walk' = [walk EXCEPT !.status = "done"]
  /\ UNCHANGED ask

-----------------------------------------------------------------------------
(* changes: the symbols in changed lines and their callers, in the index and
   in the baseline.  ask.changes says what each range touches in either. *)

Touched(origin) == UNION {change[origin] : change \in ask.changes}

\* Mutant: every walk has the whole budget.
WholeBudget(origin) == MaxWork

\* The walk over the baseline goes on with what is left.
Budget(origin) == walk.left

BeginChanges ==
  /\ ask.action = "changes" /\ walk.status = "start"
  /\ walk' =
       IF (ask.baseline # None /\ ~ask.baseline.complete) \/ Cardinality(Touched(walk.origin)) > MaxSeeds
       THEN Refused
       ELSE LET ids == Ascending(Touched(walk.origin))
            IN  [walk EXCEPT !.status = "walking", !.seen = Touched(walk.origin),
                             !.left = Budget(walk.origin),
                             !.queue = [i \in DOMAIN ids |->
                                          [origin |-> walk.origin, depth |-> 0, id |-> ids[i]]]]
  /\ UNCHANGED ask

\* Mutant: compared before the row is counted.
FullWithoutRow == Len(walk.all) > MaxResults

\* One more row is more than the limit.
Full == Len(walk.all) + 1 > MaxResults

VisitForChanges ==
  /\ ask.action = "changes" /\ walk.status = "walking" /\ walk.queue # <<>>
  /\ IF Full THEN walk' = Refused ELSE Visit("visited")
  /\ UNCHANGED ask

EndOrigin ==
  /\ ask.action = "changes" /\ walk.status = "walking" /\ walk.queue = <<>>
  /\ walk' = IF walk.origin = "current" /\ ask.baseline # None
             THEN [walk EXCEPT !.status = "start", !.origin = "baseline"]
             ELSE [walk EXCEPT !.status = "done"]
  /\ UNCHANGED ask

-----------------------------------------------------------------------------
(* diff: the newest snapshot, which is the index, against the baseline *)

Named(s, i) == {x \in s.syms : s.identity[x] = i}

\* A side of FULL OUTER JOIN ... ON identity: the symbols, or NULL.
Side(s, i) == IF Named(s, i) = {} THEN {None} ELSE Named(s, i)

\* Mutant: the unique symbols only.
DifferUnique(old, new, i, o, n) ==
  \/ o = None \/ n = None
  \/ old.hash[o] # new.hash[n]

Differ(old, new, i, o, n) ==
  \/ o = None \/ n = None
  \/ old.hash[o] # new.hash[n]
  \/ Cardinality(Named(old, i)) > 1 \/ Cardinality(Named(new, i)) > 1

Change(old, new, i, o, n) ==
  IF Cardinality(Named(old, i)) > 1 \/ Cardinality(Named(new, i)) > 1 THEN "ambiguous_identity"
  ELSE IF o = None THEN "added" ELSE IF n = None THEN "removed" ELSE "changed"

SymbolChanges(old, new) ==
  UNION {{[identity |-> i, change |-> Change(old, new, i, on[1], on[2])] :
            on \in {p \in Side(old, i) \X Side(new, i) : Differ(old, new, i, p[1], p[2])}} :
         i \in {j \in Identity : Named(old, j) \cup Named(new, j) # {}}}

\* Calls from i to j where each is the name of one symbol of this snapshot.
Unique(s, i) == Cardinality(Named(s, i)) = 1

Edges(s, i, j) ==
  IF Unique(s, i) /\ Unique(s, j)
  THEN Cardinality({c \in s.calls : c.caller \in Named(s, i) /\ c.callee \in Named(s, j)})
  ELSE 0

RelationshipChanges(old, new) ==
  {[identity |-> p,
    change |-> IF Edges(old, p[1], p[2]) = 0 THEN "relationship_added"
               ELSE IF Edges(new, p[1], p[2]) = 0 THEN "relationship_removed"
               ELSE "relationship_count_changed"] :
     p \in {q \in Identity \X Identity : Edges(old, q[1], q[2]) # Edges(new, q[1], q[2])}}

Comparable == ask.baseline # None /\ ask.baseline.complete /\ ask.current.complete

Diff ==
  /\ ask.action = "diff" /\ walk.status = "start"
  /\ walk' = IF Comparable
             THEN [walk EXCEPT !.status = "done",
                               !.rows = SymbolChanges(ask.baseline, ask.current)
                                          \cup RelationshipChanges(ask.baseline, ask.current)]
             ELSE Refused
  /\ UNCHANGED ask
-----------------------------------------------------------------------------
Init == ask \in Asks /\ walk = Idle

Next == BeginImpact \/ VisitForImpact \/ EndImpact
        \/ BeginChanges \/ VisitForChanges \/ EndOrigin \/ Diff

Spec == Init /\ [][Next]_vars
=============================================================================
