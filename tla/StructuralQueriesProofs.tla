---------------------- MODULE StructuralQueriesProofs ----------------------
(***************************************************************************)
(* What impact, changes and diff answer, for any index and baseline, any   *)
(* calls between their symbols, any question and any budgets.              *)
(***************************************************************************)
EXTENDS StructuralQueriesProps, FiniteSetTheorems, SequenceTheorems,
        WellFoundedInduction, TLAPS

\* No element is there twice.
Distinct(s) == Cardinality(ToSet(s)) = Len(s)

(***************************************************************************)
(* The inductive invariant.  An entry of the queue or of the answer is at  *)
(* its least distance; the queue is ordered by distance; whoever calls a   *)
(* visited symbol was seen; the budget left is what the visits did not     *)
(* read.                                                                   *)
(***************************************************************************)
LayersOf(o) == Layers(Source(o), SeedsOf(o), o)
BallOf(o) == Ball(Source(o), SeedsOf(o))
ReadsOf(o) == Reads(o, BallOf(o)[ask.depth - 1])

Seeded == {[origin |-> walk.origin, depth |-> 0, id |-> x] : x \in SeedsOf(walk.origin)}

\* What the walk over one source has found, and what it has visited of that.
Reached ==
  IF ask.action = "impact" THEN Seeded \cup ToSet(walk.all)
  ELSE {e \in ToSet(walk.all) : e.origin = walk.origin} \cup ToSet(walk.queue)

Visited == Reached \ ToSet(walk.queue)

\* The symbols whose callers it has read.
Expanded == {e.id : e \in {v \in Visited : v.depth < ask.depth}}

ReadSoFar ==
  Reads(walk.origin, Expanded)
    \cup (IF walk.origin = "current" THEN {} ELSE ReadsOf("current"))

ByDepth ==
  /\ \A i, j \in DOMAIN walk.queue : i <= j => walk.queue[i].depth <= walk.queue[j].depth
  /\ \A e \in ToSet(walk.queue) : e.depth <= Head(walk.queue).depth + 1
  /\ \A e \in Visited, d \in ToSet(walk.queue) : e.depth <= d.depth

Explored ==
  /\ walk.seen = {e.id : e \in Reached}
  /\ SeedsOf(walk.origin) \subseteq walk.seen
  /\ ToSet(walk.queue) \subseteq Reached
  /\ Reached \subseteq LayersOf(walk.origin)
  /\ \A e \in Visited : e.depth < ask.depth => Callers(Source(walk.origin), e.id) \subseteq walk.seen
  /\ ByDepth

\* No entry is listed twice, and none that is not part of the answer.
Listed ==
  /\ Distinct(walk.all) /\ Distinct(walk.queue)
  /\ ask.action = "changes" => ToSet(walk.all) \cap ToSet(walk.queue) = {}
  /\ ask.action = "impact" => \A e \in ToSet(walk.all) : e.depth > 0
  /\ \A e \in ToSet(walk.all) : e.origin \in {"current", walk.origin} /\ e \in LayersOf(e.origin)

Counted == walk.left + Cardinality(ReadSoFar) = MaxWork

\* What BeginChanges has checked.
Admitted(o) ==
  ask.action = "changes" =>
    /\ ask.baseline # None => ask.baseline.complete
    /\ Cardinality(Touched(o)) <= MaxSeeds

CurrentIsDone ==
  /\ ask.action = "changes" /\ ask.baseline # None
  /\ Admitted("current")
  /\ {e \in ToSet(walk.all) : e.origin = "current"} = LayersOf("current")

StartInv ==
  \/ walk = Idle
  \/ /\ walk.origin = "baseline" /\ walk.queue = <<>>
     /\ CurrentIsDone /\ Listed /\ Counted
     /\ \A e \in ToSet(walk.all) : e.origin = "current"

WalkInv ==
  /\ ask.action \in {"impact", "changes"}
  /\ walk.origin = "baseline" => CurrentIsDone
  /\ Admitted(walk.origin)
  /\ Explored /\ Listed /\ Counted

IInv ==
  /\ ask \in Asks
  /\ TypeOK /\ CallersAreExact /\ RefusedOnlyOverBudget /\ DiffIsExact
  /\ walk.status = "start" => StartInv
  /\ walk.status = "walking" => WalkInv
-----------------------------------------------------------------------------
Less == OpToRel(<, Nat)

LEMMA LeastNatural ==
  ASSUME NEW T, T \subseteq Nat, T # {}
  PROVE  \E m \in T : \A n \in T : m <= n
<1>1. IsWellFoundedOn(Less, Nat)
  BY NatLessThanWellFounded DEF Less
<1>2. PICK m \in T : \A n \in T : ~(<<n, m>> \in Less)
  BY <1>1, WFMin
<1>3. \A k, n \in Nat : <<k, n>> \in Less <=> k < n
  BY DEF Less, OpToRel
<1>4. \A n \in T : ~(n < m)
  BY <1>2, <1>3
<1> QED
  BY <1>4
-----------------------------------------------------------------------------
(***************************************************************************)
(* Sequences and the sets of their elements.                               *)
(***************************************************************************)
LEMMA ElementsOfConcatenation ==
  ASSUME NEW T, NEW s \in Seq(T), NEW t \in Seq(T)
  PROVE  ToSet(s \o t) = ToSet(s) \cup ToSet(t)
<1>1. /\ DOMAIN (s \o t) = 1 .. Len(s) + Len(t) /\ DOMAIN s = 1 .. Len(s) /\ DOMAIN t = 1 .. Len(t)
      /\ Len(s) \in Nat /\ Len(t) \in Nat
      /\ \A i \in 1 .. Len(s) + Len(t) :
           (s \o t)[i] = IF i <= Len(s) THEN s[i] ELSE t[i - Len(s)]
  OBVIOUS
<1>2. \A x \in ToSet(s \o t) : x \in ToSet(s) \cup ToSet(t)
  <2> SUFFICES ASSUME NEW i \in DOMAIN (s \o t) PROVE (s \o t)[i] \in ToSet(s) \cup ToSet(t)
    BY DEF ToSet
  <2>1. CASE i <= Len(s)
    BY <1>1, <2>1 DEF ToSet
  <2>2. CASE ~(i <= Len(s))
    <3>1. i - Len(s) \in DOMAIN t
      BY <1>1, <2>2
    <3> QED
      BY <1>1, <2>2, <3>1 DEF ToSet
  <2> QED
    BY <2>1, <2>2
<1>3. \A x \in ToSet(s) : x \in ToSet(s \o t)
  BY <1>1 DEF ToSet
<1>4. \A x \in ToSet(t) : x \in ToSet(s \o t)
  <2> SUFFICES ASSUME NEW i \in DOMAIN t PROVE t[i] \in ToSet(s \o t)
    BY DEF ToSet
  <2>1. i + Len(s) \in DOMAIN (s \o t) /\ (s \o t)[i + Len(s)] = t[i]
    BY <1>1
  <2> QED
    BY <2>1 DEF ToSet
<1> QED
  BY <1>2, <1>3, <1>4

LEMMA ElementsOfTail ==
  ASSUME NEW T, NEW s \in Seq(T), s # <<>>
  PROVE  /\ ToSet(s) = {Head(s)} \cup ToSet(Tail(s))
         /\ Head(s) \in T /\ Tail(s) \in Seq(T) /\ Len(Tail(s)) = Len(s) - 1
<1>1. /\ Head(s) \in T /\ Tail(s) \in Seq(T) /\ Len(Tail(s)) = Len(s) - 1
      /\ Len(s) \in Nat /\ Len(s) >= 1 /\ Head(s) = s[1]
      /\ DOMAIN s = 1 .. Len(s) /\ DOMAIN Tail(s) = 1 .. Len(s) - 1
      /\ \A i \in 1 .. Len(s) - 1 : Tail(s)[i] = s[i + 1]
  OBVIOUS
<1>2. \A x \in ToSet(s) : x \in {Head(s)} \cup ToSet(Tail(s))
  <2> SUFFICES ASSUME NEW i \in DOMAIN s, i # 1 PROVE s[i] \in ToSet(Tail(s))
    BY <1>1 DEF ToSet
  <2>1. i - 1 \in DOMAIN Tail(s) /\ Tail(s)[i - 1] = s[i]
    BY <1>1
  <2> QED
    BY <2>1 DEF ToSet
<1>3. \A x \in ToSet(Tail(s)) : x \in ToSet(s)
  <2> SUFFICES ASSUME NEW i \in DOMAIN Tail(s) PROVE Tail(s)[i] \in ToSet(s)
    BY DEF ToSet
  <2>1. i + 1 \in DOMAIN s /\ Tail(s)[i] = s[i + 1]
    BY <1>1
  <2> QED
    BY <2>1 DEF ToSet
<1>4. Head(s) \in ToSet(s)
  BY <1>1 DEF ToSet
<1> QED
  BY <1>1, <1>2, <1>3, <1>4

LEMMA ElementsAreFinite ==
  ASSUME NEW T, NEW s \in Seq(T)
  PROVE  /\ IsFiniteSet(ToSet(s)) /\ Cardinality(ToSet(s)) \in Nat
         /\ Cardinality(ToSet(s)) <= Len(s)
<1>1. Len(s) \in Nat /\ DOMAIN s = 1 .. Len(s) /\ s \in [1 .. Len(s) -> ToSet(s)]
  BY DEF ToSet
<1>2. s \in Surjection(1 .. Len(s), ToSet(s))
  BY <1>1 DEF Surjection, ToSet
<1>3. IsFiniteSet(1 .. Len(s)) /\ Cardinality(1 .. Len(s)) = Len(s)
  BY <1>1, FS_Interval
<1> QED
  BY <1>2, <1>3, FS_Surjection, FS_CardinalityType

\* Fresh elements keep a listing free of repetitions.
LEMMA DistinctConcatenation ==
  ASSUME NEW T, NEW s \in Seq(T), NEW t \in Seq(T), Distinct(s), Distinct(t),
         ToSet(s) \cap ToSet(t) = {}
  PROVE  Distinct(s \o t)
<1>1. IsFiniteSet(ToSet(s)) /\ IsFiniteSet(ToSet(t))
  BY ElementsAreFinite
<1>2. Cardinality(ToSet(s) \cup ToSet(t)) = Cardinality(ToSet(s)) + Cardinality(ToSet(t))
  <2>1. Cardinality(ToSet(s) \cap ToSet(t)) = 0
    BY FS_EmptySet
  <2>2. Cardinality(ToSet(s)) \in Nat /\ Cardinality(ToSet(t)) \in Nat
    BY <1>1, FS_CardinalityType
  <2>3. Cardinality(ToSet(s) \cup ToSet(t))
          = Cardinality(ToSet(s)) + Cardinality(ToSet(t)) - Cardinality(ToSet(s) \cap ToSet(t))
    BY <1>1, FS_Union
  <2> QED
    BY <2>1, <2>2, <2>3
<1>3. Len(s \o t) = Len(s) + Len(t)
  OBVIOUS
<1>4. ToSet(s \o t) = ToSet(s) \cup ToSet(t)
  BY ElementsOfConcatenation
<1>5. Cardinality(ToSet(s)) = Len(s) /\ Cardinality(ToSet(t)) = Len(t)
  BY DEF Distinct
<1> QED
  BY <1>2, <1>3, <1>4, <1>5 DEF Distinct

LEMMA DistinctTail ==
  ASSUME NEW T, NEW s \in Seq(T), s # <<>>, Distinct(s)
  PROVE  Distinct(Tail(s)) /\ Head(s) \notin ToSet(Tail(s))
<1>1. /\ ToSet(s) = {Head(s)} \cup ToSet(Tail(s)) /\ Tail(s) \in Seq(T)
      /\ Len(Tail(s)) = Len(s) - 1 /\ Len(s) \in Nat
  BY ElementsOfTail
<1>2. /\ IsFiniteSet(ToSet(Tail(s))) /\ Cardinality(ToSet(Tail(s))) \in Nat
      /\ Cardinality(ToSet(Tail(s))) <= Len(s) - 1
  BY <1>1, ElementsAreFinite
<1>3. Cardinality(ToSet(s)) = IF Head(s) \in ToSet(Tail(s)) THEN Cardinality(ToSet(Tail(s)))
                              ELSE Cardinality(ToSet(Tail(s))) + 1
  <2>1. Cardinality(ToSet(Tail(s)) \cup {Head(s)})
          = IF Head(s) \in ToSet(Tail(s)) THEN Cardinality(ToSet(Tail(s)))
            ELSE Cardinality(ToSet(Tail(s))) + 1
    BY <1>2, FS_AddElement
  <2>2. ToSet(Tail(s)) \cup {Head(s)} = ToSet(s)
    BY <1>1
  <2> QED
    BY <2>1, <2>2
<1> QED
  BY <1>1, <1>2, <1>3 DEF Distinct

LEMMA OneElement ==
  ASSUME NEW T, NEW x \in T
  PROVE  \E s \in Seq(T) : s = <<x>> /\ ToSet(s) = {x} /\ Distinct(s)
<1>1. ToSet(<<x>>) = {x} /\ Len(<<x>>) = 1
  BY DEF ToSet
<1>2. Cardinality({x}) = 1
  BY FS_Singleton
<1>3. Distinct(<<x>>)
  BY <1>1, <1>2 DEF Distinct
<1>4. <<x>> \in Seq(T)
  OBVIOUS
<1> QED
  BY <1>1, <1>3, <1>4

LEMMA NoElement == ToSet(<<>>) = {} /\ Distinct(<<>>)
<1>1. ToSet(<<>>) = {} /\ Len(<<>>) = 0
  BY DEF ToSet
<1> QED
  BY <1>1, FS_EmptySet DEF Distinct
-----------------------------------------------------------------------------
(***************************************************************************)
(* ORDER BY id lists every id once.                                        *)
(***************************************************************************)
LEMMA AscendingListsIds ==
  ASSUME NEW ids, ids \subseteq Nat, IsFiniteSet(ids)
  PROVE  /\ Ascending(ids) \in Seq(ids) /\ Len(Ascending(ids)) = Cardinality(ids)
         /\ ToSet(Ascending(ids)) = ids
         /\ \A i, j \in 1 .. Cardinality(ids) : i # j => Ascending(ids)[i] # Ascending(ids)[j]
<1> DEFINE n == Cardinality(ids)
           upTo(x) == {y \in ids : y <= x}
           rank == [x \in ids |-> Cardinality(upTo(x))]
<1>1. n \in Nat
  BY FS_CardinalityType
<1>2. \A x \in ids : IsFiniteSet(upTo(x)) /\ rank[x] \in 1 .. n
  <2> SUFFICES ASSUME NEW x \in ids PROVE IsFiniteSet(upTo(x)) /\ Cardinality(upTo(x)) \in 1 .. n
    OBVIOUS
  <2>1. upTo(x) \in SUBSET ids /\ x \in upTo(x)
    OBVIOUS
  <2>2. IsFiniteSet(upTo(x)) /\ Cardinality(upTo(x)) <= n
    BY <2>1, FS_Subset
  <2>3. Cardinality(upTo(x)) \in Nat /\ Cardinality(upTo(x)) # 0
    BY <2>1, <2>2, FS_CardinalityType, FS_EmptySet
  <2> QED
    BY <1>1, <2>2, <2>3
<1>3. \A x, y \in ids : x < y => rank[x] < rank[y]
  <2> SUFFICES ASSUME NEW x \in ids, NEW y \in ids, x < y
               PROVE  Cardinality(upTo(x)) < Cardinality(upTo(y))
    OBVIOUS
  <2>1. upTo(x) \in SUBSET upTo(y) /\ y \in upTo(y) /\ y \notin upTo(x)
    <3>1. x \in Nat /\ y \in Nat /\ \A z \in ids : z \in Nat
      OBVIOUS
    <3>2. \A z \in upTo(x) : z \in upTo(y)
      BY <3>1
    <3>3. ~(y <= x) /\ y <= y
      BY <3>1
    <3>4. y \in upTo(y) /\ y \notin upTo(x)
      BY <3>3
    <3>5. upTo(x) \subseteq upTo(y)
      BY <3>2
    <3> QED
      BY <3>4, <3>5
  <2>2. Cardinality(upTo(x)) <= Cardinality(upTo(y)) /\ Cardinality(upTo(x)) # Cardinality(upTo(y))
    <3>1. IsFiniteSet(upTo(y))
      BY <1>2
    <3> HIDE DEF upTo
    <3> QED
      BY <2>1, <3>1, FS_Subset
  <2>3. Cardinality(upTo(x)) \in Nat /\ Cardinality(upTo(y)) \in Nat
    BY <1>2, FS_CardinalityType
  <2> QED
    BY <2>2, <2>3
<1>4. rank \in Injection(ids, 1 .. n)
  <2>1. rank \in [ids -> 1 .. n]
    BY <1>2
  <2>2. \A x, y \in ids : rank[x] = rank[y] => x = y
    <3> SUFFICES ASSUME NEW x \in ids, NEW y \in ids, x # y PROVE rank[x] # rank[y]
      OBVIOUS
    <3>1. x < y \/ y < x
      OBVIOUS
    <3>2. rank[x] \in Nat /\ rank[y] \in Nat
      BY <1>2
    <3> HIDE DEF rank
    <3> QED
      BY <1>3, <3>1, <3>2
  <2> QED
    BY <2>1, <2>2 DEF Injection, IsInjective
<1>5. rank \in Surjection(ids, 1 .. n)
  <2>1. IsFiniteSet(1 .. n) /\ Cardinality(1 .. n) = n
    BY <1>1, FS_Interval
  <2> HIDE DEF rank
  <2> QED
    BY <1>4, <2>1, FS_Injection
<1>6. \A i \in 1 .. n : \E x \in ids : Cardinality(upTo(x)) = i
  <2>1. \A i \in 1 .. n : \E x \in ids : rank[x] = i
    BY <1>5 DEF Surjection
  <2> QED
    BY <2>1
<1> DEFINE s == Ascending(ids)
<1>7. /\ DOMAIN s = 1 .. n
      /\ \A i \in 1 .. n : s[i] \in ids /\ rank[s[i]] = i
  <2>1. s = [i \in 1 .. n |-> CHOOSE x \in ids : Cardinality(upTo(x)) = i]
    BY DEF Ascending
  <2>2. \A i \in 1 .. n : s[i] \in ids /\ Cardinality(upTo(s[i])) = i
    BY <1>6, <2>1
  <2> QED
    BY <2>1, <2>2
<1>8. s \in [1 .. n -> ids]
  BY <1>7 DEF Ascending
<1>9. s \in Seq(ids) /\ Len(s) = n
  BY <1>1, <1>8
<1>10. ToSet(s) = ids
  <2>1. \A x \in ids : \E i \in 1 .. n : s[i] = x
    <3> SUFFICES ASSUME NEW x \in ids PROVE \E i \in 1 .. n : s[i] = x
      OBVIOUS
    <3>1. rank[x] \in 1 .. n /\ s[rank[x]] \in ids /\ rank[s[rank[x]]] = rank[x]
      BY <1>2, <1>7
    <3>2. s[rank[x]] = x
      BY <1>4, <3>1 DEF Injection, IsInjective
    <3> QED
      BY <3>1, <3>2
  <2> QED
    BY <1>7, <2>1 DEF ToSet
<1>11. \A i, j \in 1 .. n : i # j => s[i] # s[j]
  <2> SUFFICES ASSUME NEW i \in 1 .. n, NEW j \in 1 .. n, s[i] = s[j] PROVE i = j
    OBVIOUS
  <2>1. rank[s[i]] = i /\ rank[s[j]] = j
    BY <1>7
  <2> QED
    BY <2>1
<1> QED
  BY <1>9, <1>10, <1>11
-----------------------------------------------------------------------------
(***************************************************************************)
(* Balls.  A symbol is within n hops iff a path of at most n calls leads   *)
(* from it to a seed; the sets of such symbols are what the recursive      *)
(* definition chooses.                                                     *)
(***************************************************************************)
OneHop(s, X) == X \cup UNION {Callers(s, x) : x \in X}

LEMMA BallIsDefined ==
  ASSUME NEW s, NEW seeds
  PROVE  Ball(s, seeds) = [n \in Nat |-> IF n = 0 THEN seeds ELSE OneHop(s, Ball(s, seeds)[n - 1])]
<1> DEFINE ids == seeds \cup {c.caller : c \in s.calls}
           path(p, n) == /\ p[0] \in seeds
                         /\ \A i \in 0 .. n - 1 : p[i + 1] = p[i] \/ p[i + 1] \in Callers(s, p[i])
           within(n) == {x \in ids : \E p \in [0 .. n -> ids] : path(p, n) /\ p[n] = x}
           g == [n \in Nat |-> within(n)]
<1>1. \A x : Callers(s, x) \subseteq ids
  BY DEF Callers
<1>2. within(0) = seeds
  <2>1. \A x \in within(0) : x \in seeds
    OBVIOUS
  <2>2. \A x \in seeds : x \in within(0)
    <3> SUFFICES ASSUME NEW x \in seeds PROVE x \in within(0)
      OBVIOUS
    <3> DEFINE p == [i \in 0 .. 0 |-> x]
    <3>1. p \in [0 .. 0 -> ids] /\ path(p, 0) /\ p[0] = x
      OBVIOUS
    <3> QED
      BY <3>1
  <2> QED
    BY <2>1, <2>2
<1>3. ASSUME NEW n \in Nat, n # 0
      PROVE  within(n) = OneHop(s, within(n - 1))
  <2>0. 0 \in 0 .. n - 1 /\ n - 1 \in 0 .. n - 1 /\ n - 1 + 1 = n /\ 0 \in 0 .. n
    BY <1>3
  <2>1. ASSUME NEW x \in within(n) PROVE x \in OneHop(s, within(n - 1))
    <3>1. PICK p \in [0 .. n -> ids] : path(p, n) /\ p[n] = x
      OBVIOUS
    <3> DEFINE q == [i \in 0 .. n - 1 |-> p[i]]
    <3>2. q \in [0 .. n - 1 -> ids]
      BY <3>1
    <3>3. path(q, n - 1)
      <4>1. \A i \in 0 .. n - 1 - 1 : i \in 0 .. n - 1 /\ i + 1 \in 0 .. n - 1
        OBVIOUS
      <4> QED
        BY <2>0, <3>1, <4>1
    <3>5. q[n - 1] \in within(n - 1)
      BY <2>0, <3>2, <3>3
    <3>6. x = q[n - 1] \/ x \in Callers(s, q[n - 1])
      BY <2>0, <3>1
    <3> HIDE DEF q, within
    <3> QED
      BY <3>5, <3>6 DEF OneHop
  <2>2. ASSUME NEW x \in OneHop(s, within(n - 1)) PROVE x \in within(n)
    <3>1. PICK y \in within(n - 1) : x = y \/ x \in Callers(s, y)
      BY DEF OneHop
    <3>2. x \in ids
      BY <1>1, <3>1
    <3>3. PICK q \in [0 .. n - 1 -> ids] : path(q, n - 1) /\ q[n - 1] = y
      BY <3>1
    <3> DEFINE p == [i \in 0 .. n |-> IF i = n THEN x ELSE q[i]]
    <3>4. p \in [0 .. n -> ids]
      <4> SUFFICES ASSUME NEW i \in 0 .. n, i # n PROVE q[i] \in ids
        BY <3>2
      <4>1. i \in 0 .. n - 1
        OBVIOUS
      <4> QED
        BY <3>3, <4>1
    <3>5. path(p, n)
      <4>1. p[0] \in seeds
        BY <2>0, <3>3
      <4>2. ASSUME NEW i \in 0 .. n - 1 PROVE p[i + 1] = p[i] \/ p[i + 1] \in Callers(s, p[i])
        <5>1. CASE i = n - 1
          <6>1. p[i + 1] = x /\ p[i] = y
            BY <3>3, <5>1
          <6> QED
            BY <3>1, <6>1
        <5>2. CASE i # n - 1
          <6>1. i \in 0 .. n - 1 - 1 /\ i + 1 # n /\ i # n /\ i + 1 \in 0 .. n /\ i \in 0 .. n
            BY <5>2
          <6> QED
            BY <3>3, <6>1
        <5> QED
          BY <5>1, <5>2
      <4> QED
        BY <4>1, <4>2
    <3>6. p[n] = x
      OBVIOUS
    <3> QED
      BY <3>2, <3>4, <3>5, <3>6
  <2> QED
    BY <2>1, <2>2
<1> HIDE DEF within
<1>4. g = [n \in Nat |-> IF n = 0 THEN seeds ELSE OneHop(s, g[n - 1])]
  <2>1. \A n \in Nat : n # 0 => n - 1 \in Nat
    OBVIOUS
  <2> QED
    BY <1>2, <1>3, <2>1
<1> HIDE DEF g
<1> DEFINE isBall(b) == b = [n \in Nat |-> IF n = 0 THEN seeds ELSE OneHop(s, b[n - 1])]
<1>5. Ball(s, seeds) = CHOOSE b : isBall(b)
  BY DEF Ball, OneHop
<1>6. isBall(g)
  BY <1>4
<1> HIDE DEF isBall
<1>7. isBall(CHOOSE b : isBall(b))
  BY <1>6
<1> QED
  BY <1>5, <1>7 DEF isBall

LEMMA BallSteps ==
  ASSUME NEW s, NEW seeds
  PROVE  /\ Ball(s, seeds)[0] = seeds
         /\ \A n \in Nat : Ball(s, seeds)[n + 1] = OneHop(s, Ball(s, seeds)[n])
<1> DEFINE b == Ball(s, seeds)
<1>1. b = [n \in Nat |-> IF n = 0 THEN seeds ELSE OneHop(s, b[n - 1])]
  BY BallIsDefined
<1> HIDE DEF b
<1>2. b[0] = seeds
  BY <1>1
<1>3. ASSUME NEW n \in Nat PROVE b[n + 1] = OneHop(s, b[n])
  <2>1. n + 1 \in Nat /\ n + 1 # 0 /\ n + 1 - 1 = n
    OBVIOUS
  <2>2. b[n + 1] = OneHop(s, b[n + 1 - 1])
    BY <1>1, <2>1
  <2> QED
    BY <2>1, <2>2
<1> QED
  BY <1>2, <1>3 DEF b

LEMMA BallGrows ==
  ASSUME NEW s, NEW seeds, NEW m \in Nat, NEW n \in Nat, m <= n
  PROVE  Ball(s, seeds)[m] \subseteq Ball(s, seeds)[n]
<1> DEFINE b == Ball(s, seeds)
           bad == {k \in Nat : m <= k /\ ~(b[m] \subseteq b[k])}
<1>1. SUFFICES ASSUME bad # {} PROVE FALSE
  OBVIOUS
<1>2. bad \subseteq Nat
  OBVIOUS
<1> HIDE DEF bad
<1>3. PICK k \in bad : \A j \in bad : k <= j
  BY <1>1, <1>2, LeastNatural
<1>4. k \in Nat /\ m <= k /\ ~(b[m] \subseteq b[k])
  BY <1>3 DEF bad
<1>5. k # m
  BY <1>4
<1>6. k - 1 \in Nat /\ m <= k - 1 /\ k - 1 + 1 = k /\ ~(k <= k - 1)
  BY <1>4, <1>5
<1>7. b[m] \subseteq b[k - 1]
  BY <1>3, <1>6 DEF bad
<1>8. b[k - 1 + 1] = OneHop(s, b[k - 1])
  BY <1>6, BallSteps
<1> QED
  BY <1>4, <1>6, <1>7, <1>8 DEF OneHop

LEMMA ImageIsFinite ==
  ASSUME NEW S, IsFiniteSet(S), NEW f, f = [x \in S |-> f[x]], NEW T, T \subseteq {f[x] : x \in S}
  PROVE  IsFiniteSet(T) /\ Cardinality(T) <= Cardinality(S)
<1> DEFINE R == {f[x] : x \in S}
<1>1. f \in Surjection(S, R)
  <2>1. f \in [S -> R]
    OBVIOUS
  <2> QED
    BY <2>1 DEF Surjection
<1>2. IsFiniteSet(R) /\ Cardinality(R) <= Cardinality(S)
  BY <1>1, FS_Surjection
<1>3. T \in SUBSET R
  OBVIOUS
<1> HIDE DEF R
<1>4. IsFiniteSet(T) /\ Cardinality(T) <= Cardinality(R)
  BY <1>2, <1>3, FS_Subset
<1>5. Cardinality(T) \in Nat /\ Cardinality(R) \in Nat /\ Cardinality(S) \in Nat
  BY <1>2, <1>4, FS_CardinalityType
<1> QED
  BY <1>2, <1>4, <1>5
-----------------------------------------------------------------------------
(***************************************************************************)
(* One source and what a walk over it reads.                               *)
(***************************************************************************)
LEMMA CallersAreSymbols ==
  ASSUME NEW s, IsIndex(s), NEW x
  PROVE  Callers(s, x) \subseteq s.syms /\ Callers(s, x) \subseteq Nat /\ IsFiniteSet(Callers(s, x))
<1>1. Callers(s, x) \subseteq s.syms
  BY DEF Callers, IsIndex
<1>2. IsFiniteSet(s.syms) /\ s.syms \subseteq Nat
  BY ConstantsAssumption DEF IsIndex
<1>3. Callers(s, x) \in SUBSET s.syms
  BY <1>1
<1> QED
  BY <1>1, <1>2, <1>3, FS_Subset

LEMMA BallOfSymbols ==
  ASSUME NEW s, IsIndex(s), NEW seeds, seeds \subseteq s.syms, NEW n \in Nat
  PROVE  Ball(s, seeds)[n] \subseteq s.syms
<1> DEFINE b == Ball(s, seeds)
           bad == {k \in Nat : ~(b[k] \subseteq s.syms)}
<1>1. SUFFICES ASSUME bad # {} PROVE FALSE
  OBVIOUS
<1>2. bad \subseteq Nat
  OBVIOUS
<1> HIDE DEF bad
<1>3. PICK k \in bad : \A j \in bad : k <= j
  BY <1>1, <1>2, LeastNatural
<1>4. k \in Nat /\ ~(b[k] \subseteq s.syms)
  BY <1>3 DEF bad
<1>5. k # 0
  BY <1>4, BallSteps
<1>6. k - 1 \in Nat /\ k - 1 + 1 = k /\ ~(k <= k - 1)
  BY <1>4, <1>5
<1>7. b[k - 1] \subseteq s.syms
  BY <1>3, <1>6 DEF bad
<1>8. b[k - 1 + 1] = OneHop(s, b[k - 1])
  BY <1>6, BallSteps
<1>9. \A x : Callers(s, x) \subseteq s.syms
  BY CallersAreSymbols
<1> QED
  BY <1>4, <1>6, <1>7, <1>8, <1>9 DEF OneHop

\* An entry of a layer has the least distance of its symbol.
LEMMA LayerElements ==
  ASSUME NEW s, NEW seeds, NEW o, NEW e, ask.depth \in Nat
  PROVE  e \in Layers(s, seeds, o) <=>
           /\ e = [origin |-> o, depth |-> e.depth, id |-> e.id]
           /\ e.depth \in 0 .. ask.depth
           /\ e.id \in Ball(s, seeds)[e.depth]
           /\ \A n \in Nat : e.id \in Ball(s, seeds)[n] => e.depth <= n
<1> DEFINE b == Ball(s, seeds)
           layer(d) == IF d = 0 THEN seeds ELSE b[d] \ b[d - 1]
           entry(d, x) == [origin |-> o, depth |-> d, id |-> x]
<1>1. \A d \in Nat : \A x : x \in layer(d) <=> x \in b[d] /\ \A n \in Nat : x \in b[n] => d <= n
  <2> SUFFICES ASSUME NEW d \in Nat, NEW x
               PROVE  x \in layer(d) <=> x \in b[d] /\ \A n \in Nat : x \in b[n] => d <= n
    OBVIOUS
  <2>1. CASE d = 0
    BY <2>1, BallSteps
  <2>2. CASE d # 0
    <3>1. d - 1 \in Nat /\ ~(d <= d - 1)
      BY <2>2
    <3>2. \A n \in Nat : ~(d <= n) => b[n] \subseteq b[d - 1]
      <4> SUFFICES ASSUME NEW n \in Nat, ~(d <= n) PROVE b[n] \subseteq b[d - 1]
        OBVIOUS
      <4>1. n <= d - 1
        OBVIOUS
      <4> QED
        BY <3>1, <4>1, BallGrows
    <3> HIDE DEF b
    <3> QED
      BY <2>2, <3>1, <3>2
  <2> QED
    BY <2>1, <2>2
<1>2. e \in Layers(s, seeds, o) <=> \E d \in 0 .. ask.depth : \E x \in layer(d) : e = entry(d, x)
  BY DEF Layers
<1> HIDE DEF layer, b
<1>3. \A d, x : entry(d, x).depth = d /\ entry(d, x).id = x
  OBVIOUS
<1>4. ASSUME NEW d \in 0 .. ask.depth, NEW x \in layer(d), e = entry(d, x)
      PROVE  /\ e = [origin |-> o, depth |-> e.depth, id |-> e.id]
             /\ e.depth \in 0 .. ask.depth /\ e.id \in b[e.depth]
             /\ \A n \in Nat : e.id \in b[n] => e.depth <= n
  <2>1. e.depth = d /\ e.id = x /\ d \in Nat
    BY <1>3, <1>4
  <2>2. x \in b[d] /\ \A n \in Nat : x \in b[n] => d <= n
    BY <1>1, <2>1
  <2> QED
    BY <1>4, <2>1, <2>2
<1>5. ASSUME e = [origin |-> o, depth |-> e.depth, id |-> e.id], e.depth \in 0 .. ask.depth,
             e.id \in b[e.depth], \A n \in Nat : e.id \in b[n] => e.depth <= n
      PROVE  \E d \in 0 .. ask.depth : \E x \in layer(d) : e = entry(d, x)
  <2>1. e.id \in layer(e.depth)
    BY <1>1, <1>5
  <2> QED
    BY <1>5, <2>1
<1> QED
  BY <1>2, <1>4, <1>5 DEF b

LEMMA LayersAreFinite ==
  ASSUME NEW s, IsIndex(s), NEW seeds, seeds \subseteq s.syms, NEW o, ask.depth \in Nat
  PROVE  IsFiniteSet(Layers(s, seeds, o))
<1> DEFINE P == (0 .. ask.depth) \X s.syms
           f == [p \in P |-> [origin |-> o, depth |-> p[1], id |-> p[2]]]
<1>1. IsFiniteSet(P)
  <2>1. \A d \in Nat : IsFiniteSet(0 .. d)
    BY FS_Interval
  <2>2. IsFiniteSet(s.syms)
    BY DEF IsIndex
  <2> QED
    BY <2>1, <2>2, FS_Product
<1>2. ASSUME NEW e \in Layers(s, seeds, o) PROVE \E p \in P : f[p] = e
  <2>1. /\ e = [origin |-> o, depth |-> e.depth, id |-> e.id]
        /\ e.depth \in 0 .. ask.depth /\ e.id \in Ball(s, seeds)[e.depth]
    BY LayerElements
  <2>2. e.id \in s.syms
    BY <2>1, BallOfSymbols
  <2>3. <<e.depth, e.id>> \in P
    BY <2>1, <2>2
  <2>4. f[<<e.depth, e.id>>] = e
    BY <2>1, <2>3
  <2> QED
    BY <2>3, <2>4
<1>3. Layers(s, seeds, o) \subseteq {f[p] : p \in P}
  BY <1>2
<1>4. f = [p \in P |-> f[p]]
  OBVIOUS
<1> HIDE DEF f, P
<1> QED
  BY <1>1, <1>3, <1>4, ImageIsFinite

LEMMA ReadsElements ==
  ASSUME NEW o, NEW V, NEW r
  PROVE  r \in Reads(o, V) <=>
           \E x \in V : \E c \in Callers(Source(o), x) : r = <<o, c, x>>
<1>1. ASSUME r \in Reads(o, V) PROVE \E x \in V : \E c \in Callers(Source(o), x) : r = <<o, c, x>>
  <2>1. PICK c \in Source(o).calls : c.callee \in V /\ c.caller # None /\ r = <<o, c.caller, c.callee>>
    BY <1>1 DEF Reads
  <2>2. c.caller \in Callers(Source(o), c.callee)
    BY <2>1 DEF Callers
  <2> QED
    BY <2>1, <2>2
<1>2. ASSUME NEW x \in V, NEW c \in Callers(Source(o), x), r = <<o, c, x>> PROVE r \in Reads(o, V)
  <2>1. PICK d \in Source(o).calls : d.callee = x /\ c = d.caller /\ c # None
    BY DEF Callers
  <2> QED
    BY <1>2, <2>1 DEF Reads
<1> QED
  BY <1>1, <1>2

LEMMA ReadsAreFinite ==
  ASSUME NEW o, IsIndex(Source(o)), NEW V
  PROVE  IsFiniteSet(Reads(o, V))
<1> DEFINE C == Source(o).calls
           f == [c \in C |-> <<o, c.caller, c.callee>>]
<1>1. IsFiniteSet(C)
  BY DEF IsIndex
<1>2. Reads(o, V) \subseteq {f[c] : c \in C}
  BY DEF Reads
<1>3. f = [c \in C |-> f[c]]
  OBVIOUS
<1> HIDE DEF f, C
<1> QED
  BY <1>1, <1>2, <1>3, ImageIsFinite

\* A visit reads each caller of one symbol once.
LEMMA ReadsOfOne ==
  ASSUME NEW o, IsIndex(Source(o)), NEW x
  PROVE  Cardinality(Reads(o, {x})) = Cardinality(Callers(Source(o), x))
<1> DEFINE C == Callers(Source(o), x)
           f == [c \in C |-> <<o, c, x>>]
<1>1. IsFiniteSet(C)
  BY CallersAreSymbols
<1>2. \A r : r \in Reads(o, {x}) <=> \E c \in C : r = <<o, c, x>>
  BY ReadsElements
<1> HIDE DEF C
<1>3. f \in [C -> Reads(o, {x})]
  BY <1>2
<1>4. \A c, d \in C : f[c] = f[d] => c = d
  OBVIOUS
<1>5. \A r \in Reads(o, {x}) : \E c \in C : f[c] = r
  BY <1>2
<1>6. f \in Bijection(C, Reads(o, {x}))
  BY <1>3, <1>4, <1>5 DEF Bijection, Injection, Surjection, IsInjective
<1>7. ExistsBijection(C, Reads(o, {x}))
  BY <1>6 DEF ExistsBijection
<1> QED
  BY <1>1, <1>7, FS_Bijection DEF C

(***************************************************************************)
(* What a query finds.                                                     *)
(***************************************************************************)
LEMMA QueryTypes ==
  ASSUME ask \in Asks
  PROVE  /\ ask.action \in {"impact", "changes", "diff"} /\ ask.depth \in 1 .. 10
         /\ IsIndex(ask.current) /\ (ask.baseline # None => IsIndex(ask.baseline))
         /\ Origins \subseteq Origin /\ "current" \in Origins
         /\ "baseline" \in Origins <=> ask.action # "impact" /\ ask.baseline # None
<1>1. /\ ask.action \in {"impact", "changes", "diff"} /\ ask.depth \in 1 .. 10
      /\ IsIndex(ask.current) /\ (ask.baseline # None => IsIndex(ask.baseline))
  BY ConstantsAssumption
<1> QED
  BY <1>1 DEF Origins, Origin

LEMMA SourceTypes ==
  ASSUME ask \in Asks, ask.action # "diff", NEW o \in Origins
  PROVE  IsIndex(Source(o)) /\ SeedsOf(o) \subseteq Source(o).syms
<1>1. IsIndex(Source(o))
  BY QueryTypes DEF Source, Origin
<1>2. CASE ask.action = "impact"
  <2>1. o = "current"
    BY <1>2 DEF Origins
  <2>2. ask.seed \in ask.current.syms
    BY <1>2, ConstantsAssumption
  <2> QED
    BY <1>1, <1>2, <2>1, <2>2 DEF SeedsOf, Source
<1>3. CASE ask.action = "changes"
  <2>1. o = "current" \/ (o = "baseline" /\ ask.baseline # None)
    BY <1>3, QueryTypes DEF Origin
  <2>2. \A change \in ask.changes :
          /\ change.current \subseteq ask.current.syms
          /\ ask.baseline # None => change.baseline \subseteq ask.baseline.syms
    BY <1>3, ConstantsAssumption
  <2>3. \A change \in ask.changes : change[o] \subseteq Source(o).syms
    BY <2>1, <2>2 DEF Source
  <2>4. Touched(o) \subseteq Source(o).syms
    BY <2>3 DEF Touched
  <2> QED
    BY <1>1, <1>3, <2>4 DEF SeedsOf
<1> QED
  BY <1>2, <1>3, QueryTypes

\* A query does not change while it is answered.
LEMMA QueryIsFixed ==
  ASSUME ask' = ask
  PROVE  /\ \A o : Source(o)' = Source(o) /\ Touched(o)' = Touched(o) /\ SeedsOf(o)' = SeedsOf(o)
         /\ \A o : LayersOf(o)' = LayersOf(o) /\ BallOf(o)' = BallOf(o)
         /\ \A o : ReadsOf(o)' = ReadsOf(o) /\ Admitted(o)' = Admitted(o)
         /\ \A o, V : Reads(o, V)' = Reads(o, V)
         /\ Origins' = Origins /\ Answer' = Answer /\ Work' = Work
         /\ WithinBudgets' = WithinBudgets
<1>1. \A o : Source(o)' = Source(o) /\ Touched(o)' = Touched(o)
  BY DEF Source, Touched
<1>2. \A o : SeedsOf(o)' = SeedsOf(o)
  BY <1>1 DEF SeedsOf
<1>3. \A o : BallOf(o)' = BallOf(o)
  BY <1>1, <1>2 DEF BallOf
<1>4. \A o : LayersOf(o)' = LayersOf(o)
  BY <1>1, <1>2 DEF LayersOf, Layers
<1>5. \A o, V : Reads(o, V)' = Reads(o, V)
  BY <1>1 DEF Reads
<1>6. Origins' = Origins
  BY DEF Origins
<1>7. Answer' = Answer
  <2>1. Answer = LET all == UNION {LayersOf(o) : o \in Origins}
                 IN  IF ask.action = "impact" THEN {e \in all : e.depth > 0} ELSE all
    BY DEF Answer, LayersOf
  <2>2. Answer' = LET all == UNION {LayersOf(o)' : o \in Origins}
                  IN  IF ask.action = "impact" THEN {e \in all : e.depth > 0} ELSE all
    BY <1>6 DEF Answer, LayersOf
  <2> QED
    BY <1>4, <2>1, <2>2
<1>8. \A o : ReadsOf(o)' = ReadsOf(o)
  BY <1>1, <1>3 DEF ReadsOf, Reads
<1>11. Work' = Work
  <2>1. Work = UNION {ReadsOf(o) : o \in Origins}
    BY DEF Work, ReadsOf, BallOf
  <2>2. Work' = UNION {ReadsOf(o)' : o \in Origins}
    BY <1>6 DEF Work, ReadsOf, BallOf
  <2> QED
    BY <1>8, <2>1, <2>2
<1>9. WithinBudgets' = WithinBudgets
  BY <1>1, <1>6, <1>7, <1>11 DEF WithinBudgets
<1>10. \A o : Admitted(o)' = Admitted(o)
  BY <1>1 DEF Admitted
<1> QED
  BY <1>1, <1>2, <1>3, <1>4, <1>5, <1>6, <1>7, <1>8, <1>9, <1>10, <1>11

\* The entries of a layer are one for each symbol within reach, at its least distance.
LEMMA LayerFacts ==
  ASSUME ask \in Asks, ask.action # "diff", NEW o \in Origins
  PROVE  /\ IsFiniteSet(LayersOf(o))
         /\ \A e \in LayersOf(o) :
              /\ e = [origin |-> o, depth |-> e.depth, id |-> e.id] /\ e.origin = o
              /\ e.depth \in 0 .. ask.depth /\ e.depth \in Nat /\ e.id \in Id
              /\ e.id \in BallOf(o)[e.depth]
              /\ \A n \in Nat : e.id \in BallOf(o)[n] => e.depth <= n
         /\ \A d \in 0 .. ask.depth : \A x \in BallOf(o)[d] :
              (\A n \in Nat : x \in BallOf(o)[n] => d <= n)
                => [origin |-> o, depth |-> d, id |-> x] \in LayersOf(o)
<1>1. IsIndex(Source(o)) /\ SeedsOf(o) \subseteq Source(o).syms /\ ask.depth \in Nat
  BY SourceTypes, QueryTypes
<1>2. IsFiniteSet(LayersOf(o))
  BY <1>1, LayersAreFinite DEF LayersOf
<1>3. ASSUME NEW e
      PROVE  e \in LayersOf(o) <=>
               /\ e = [origin |-> o, depth |-> e.depth, id |-> e.id]
               /\ e.depth \in 0 .. ask.depth
               /\ e.id \in BallOf(o)[e.depth]
               /\ \A n \in Nat : e.id \in BallOf(o)[n] => e.depth <= n
  BY <1>1, LayerElements DEF LayersOf, BallOf
<1>4. \A n \in Nat : BallOf(o)[n] \subseteq Id
  <2>1. \A n \in Nat : BallOf(o)[n] \subseteq Source(o).syms
    BY <1>1, BallOfSymbols DEF BallOf
  <2> QED
    BY <1>1, <2>1 DEF IsIndex
<1>5. ASSUME NEW e \in LayersOf(o)
      PROVE  /\ e = [origin |-> o, depth |-> e.depth, id |-> e.id] /\ e.origin = o
             /\ e.depth \in 0 .. ask.depth /\ e.depth \in Nat /\ e.id \in Id
             /\ e.id \in BallOf(o)[e.depth]
             /\ \A n \in Nat : e.id \in BallOf(o)[n] => e.depth <= n
  <2>1. /\ e = [origin |-> o, depth |-> e.depth, id |-> e.id]
        /\ e.depth \in 0 .. ask.depth /\ e.id \in BallOf(o)[e.depth]
        /\ \A n \in Nat : e.id \in BallOf(o)[n] => e.depth <= n
    BY <1>3
  <2>2. e.origin = o
    BY <2>1
  <2>3. e.depth \in Nat
    BY <1>1, <2>1
  <2> QED
    BY <1>4, <2>1, <2>2, <2>3
<1>6. ASSUME NEW d \in 0 .. ask.depth, NEW x \in BallOf(o)[d],
             \A n \in Nat : x \in BallOf(o)[n] => d <= n
      PROVE  [origin |-> o, depth |-> d, id |-> x] \in LayersOf(o)
  <2>1. PICK e : e = [origin |-> o, depth |-> d, id |-> x]
    OBVIOUS
  <2>2. e.origin = o /\ e.depth = d /\ e.id = x
    BY <2>1
  <2> QED
    BY <1>3, <1>6, <2>1, <2>2
<1> QED
  BY <1>2, <1>5, <1>6

LEMMA OneEntryForASymbol ==
  ASSUME ask \in Asks, ask.action # "diff", NEW o \in Origins,
         NEW e \in LayersOf(o), NEW d \in LayersOf(o), e.id = d.id
  PROVE  e = d
<1>1. /\ e = [origin |-> o, depth |-> e.depth, id |-> e.id]
      /\ d = [origin |-> o, depth |-> d.depth, id |-> d.id]
      /\ e.depth \in Nat /\ d.depth \in Nat
      /\ e.id \in BallOf(o)[e.depth] /\ d.id \in BallOf(o)[d.depth]
      /\ \A n \in Nat : e.id \in BallOf(o)[n] => e.depth <= n
      /\ \A n \in Nat : d.id \in BallOf(o)[n] => d.depth <= n
  BY LayerFacts
<1>2. e.depth <= d.depth /\ d.depth <= e.depth
  BY <1>1
<1>3. e.depth = d.depth
  BY <1>1, <1>2
<1> QED
  BY <1>1, <1>3

LEMMA BallFacts ==
  ASSUME NEW o
  PROVE  /\ BallOf(o)[0] = SeedsOf(o)
         /\ \A n \in Nat : BallOf(o)[n + 1] = OneHop(Source(o), BallOf(o)[n])
         /\ \A m, n \in Nat : m <= n => BallOf(o)[m] \subseteq BallOf(o)[n]
  BY BallSteps, BallGrows DEF BallOf

(***************************************************************************)
(* Everything up to the distance of the queue was seen: breadth first.     *)
(***************************************************************************)
LEMMA NearerWasSeen ==
  ASSUME ask \in Asks, ask.action # "diff", walk.origin \in Origins, Explored,
         NEW n \in Nat, n <= ask.depth, \A e \in ToSet(walk.queue) : n <= e.depth
  PROVE  BallOf(walk.origin)[n] \subseteq walk.seen
<1>1. PICK o \in Origins : o = walk.origin
  OBVIOUS
<1> DEFINE bad == {k \in 0 .. n : ~(BallOf(o)[k] \subseteq walk.seen)}
<1>2. SUFFICES ASSUME bad # {} PROVE FALSE
  BY <1>1
<1>3. bad \subseteq Nat
  OBVIOUS
<1> HIDE DEF bad
<1>4. PICK k \in bad : \A j \in bad : k <= j
  BY <1>2, <1>3, LeastNatural
<1>5. k \in 0 .. n /\ ~(BallOf(o)[k] \subseteq walk.seen)
  BY <1>4 DEF bad
<1>6. k # 0
  BY <1>1, <1>5, BallFacts DEF Explored
<1>7. /\ k - 1 \in Nat /\ k - 1 \in 0 .. n /\ k - 1 + 1 = k /\ ~(k <= k - 1)
      /\ k - 1 < ask.depth /\ k - 1 < n
  <2>1. ask.depth \in Nat
    BY QueryTypes
  <2> QED
    BY <1>5, <1>6, <2>1
<1>8. BallOf(o)[k - 1] \subseteq walk.seen
  BY <1>4, <1>7 DEF bad
<1>9. PICK x \in BallOf(o)[k] : x \notin walk.seen
  BY <1>5
<1>10. BallOf(o)[k - 1 + 1] = OneHop(Source(o), BallOf(o)[k - 1])
  BY <1>7, BallFacts
<1>11. PICK y \in BallOf(o)[k - 1] : x \in Callers(Source(o), y)
  BY <1>7, <1>8, <1>9, <1>10 DEF OneHop
<1>12. PICK e \in Reached : e.id = y
  BY <1>8, <1>11 DEF Explored
<1>13. e \in LayersOf(o)
  BY <1>1 DEF Explored
<1>14. e.depth \in Nat /\ e.depth <= k - 1
  BY <1>7, <1>11, <1>12, <1>13, LayerFacts
<1>15. e \notin ToSet(walk.queue)
  <2>1. ~(n <= e.depth)
    BY <1>7, <1>14
  <2> QED
    BY <2>1
<1>16. e \in Visited /\ e.depth < ask.depth
  <2>1. ask.depth \in Nat
    BY QueryTypes
  <2> QED
    BY <1>7, <1>14, <1>15, <2>1 DEF Visited
<1> QED
  BY <1>1, <1>9, <1>11, <1>12, <1>16 DEF Explored

\* With an empty queue the walk over a source is complete.
LEMMA NothingLeft ==
  ASSUME ask \in Asks, ask.action # "diff", walk.origin \in Origins, Explored, walk.queue = <<>>
  PROVE  /\ Reached = LayersOf(walk.origin)
         /\ Reads(walk.origin, Expanded) = ReadsOf(walk.origin)
<1>1. PICK o \in Origins : o = walk.origin
  OBVIOUS
<1>2. ToSet(walk.queue) = {} /\ ask.depth \in 1 .. 10
  BY NoElement, QueryTypes
<1>3. \A n \in 0 .. ask.depth : BallOf(o)[n] \subseteq walk.seen
  <2> SUFFICES ASSUME NEW n \in 0 .. ask.depth PROVE BallOf(o)[n] \subseteq walk.seen
    OBVIOUS
  <2>1. n \in Nat /\ n <= ask.depth
    BY <1>2
  <2> QED
    BY <1>1, <1>2, <2>1, NearerWasSeen
<1>4. Reached \subseteq LayersOf(o) /\ walk.seen = {e.id : e \in Reached}
  BY <1>1 DEF Explored
<1>5. ASSUME NEW e \in LayersOf(o) PROVE e \in Reached
  <2>1. e.depth \in 0 .. ask.depth /\ e.id \in BallOf(o)[e.depth]
    BY LayerFacts
  <2>2. e.id \in walk.seen
    BY <1>3, <2>1
  <2>3. PICK d \in Reached : d.id = e.id
    BY <1>4, <2>2
  <2>4. d = e
    BY <1>4, <2>3, OneEntryForASymbol
  <2> QED
    BY <2>3, <2>4
<1>6. Reached = LayersOf(o)
  BY <1>4, <1>5
<1>7. Expanded = BallOf(o)[ask.depth - 1]
  <2>1. Visited = LayersOf(o)
    BY <1>2, <1>6 DEF Visited
  <2>2. ASSUME NEW x \in Expanded PROVE x \in BallOf(o)[ask.depth - 1]
    <3>1. PICK e \in LayersOf(o) : e.depth < ask.depth /\ x = e.id
      BY <2>1 DEF Expanded
    <3>2. e.depth \in Nat /\ x \in BallOf(o)[e.depth]
      BY <3>1, LayerFacts
    <3>3. ask.depth - 1 \in Nat /\ e.depth <= ask.depth - 1
      BY <1>2, <3>1, <3>2
    <3> QED
      BY <3>2, <3>3, BallFacts
  <2>3. ASSUME NEW x \in BallOf(o)[ask.depth - 1] PROVE x \in Expanded
    <3>1. ask.depth - 1 \in 0 .. ask.depth /\ ask.depth - 1 \in Nat
      BY <1>2
    <3>2. PICK e \in LayersOf(o) : e.id = x
      BY <1>3, <1>4, <1>6, <3>1
    <3>3. e.depth \in Nat /\ e.depth <= ask.depth - 1
      BY <3>1, <3>2, LayerFacts
    <3>4. e.depth < ask.depth
      BY <1>2, <3>3
    <3> QED
      BY <2>1, <3>2, <3>4 DEF Expanded
  <2> QED
    BY <2>2, <2>3
<1> QED
  BY <1>1, <1>6, <1>7 DEF ReadsOf

\* What was read belongs to what has to be read.
LEMMA ReadsBelongToWork ==
  ASSUME ask \in Asks, ask.action # "diff", NEW o \in Origins, NEW V,
         \A x \in V : \E e \in LayersOf(o) : e.id = x /\ e.depth < ask.depth
  PROVE  /\ Reads(o, V) \subseteq ReadsOf(o) /\ ReadsOf(o) \subseteq Work
         /\ IsFiniteSet(Work) /\ IsFiniteSet(ReadsOf(o)) /\ IsFiniteSet(Reads(o, V))
<1>1. V \subseteq BallOf(o)[ask.depth - 1]
  <2> SUFFICES ASSUME NEW x \in V PROVE x \in BallOf(o)[ask.depth - 1]
    OBVIOUS
  <2>1. PICK e \in LayersOf(o) : e.id = x /\ e.depth < ask.depth
    OBVIOUS
  <2>2. e.depth \in Nat /\ x \in BallOf(o)[e.depth]
    BY <2>1, LayerFacts
  <2>3. ask.depth - 1 \in Nat /\ e.depth <= ask.depth - 1
    BY <2>1, <2>2, QueryTypes
  <2> QED
    BY <2>2, <2>3, BallFacts
<1>2. Reads(o, V) \subseteq ReadsOf(o)
  BY <1>1, ReadsElements DEF ReadsOf
<1>3. Work = UNION {ReadsOf(u) : u \in Origins}
  BY DEF Work, ReadsOf, BallOf
<1>4. \A u \in Origins : IsFiniteSet(ReadsOf(u))
  BY SourceTypes, ReadsAreFinite DEF ReadsOf
<1>5. IsFiniteSet(Work)
  <2>1. IsFiniteSet(ReadsOf("current")) /\ ("baseline" \in Origins => IsFiniteSet(ReadsOf("baseline")))
    BY <1>4, QueryTypes
  <2>2. Work = IF "baseline" \in Origins THEN ReadsOf("current") \cup ReadsOf("baseline")
               ELSE ReadsOf("current")
    BY <1>3, QueryTypes DEF Origin
  <2> QED
    BY <2>1, <2>2, FS_Union
<1>6. IsFiniteSet(Reads(o, V))
  BY SourceTypes, ReadsAreFinite
<1> QED
  BY <1>2, <1>3, <1>4, <1>5, <1>6
-----------------------------------------------------------------------------
(***************************************************************************)
(* One visit.                                                              *)
(***************************************************************************)
First == Head(walk.queue)

\* The callers that the visit of the first symbol reads.
NextCallers ==
  IF AtDepth(First.depth) THEN {} ELSE Callers(Source(walk.origin), First.id)
NextReads ==
  IF AtDepth(First.depth) THEN {} ELSE Reads(walk.origin, {First.id})

LEMMA OriginIsAsked ==
  ASSUME ask \in Asks, TypeOK, WalkInv
  PROVE  walk.origin \in Origins /\ ask.action # "diff" /\ ask.depth \in 1 .. 10
<1>1. walk.origin \in Origin
  BY DEF TypeOK
<1> QED
  BY <1>1, QueryTypes DEF WalkInv, CurrentIsDone, Origin

LEMMA FirstFacts ==
  ASSUME ask \in Asks, TypeOK, WalkInv, walk.queue # <<>>
  PROVE  /\ First \in Reached /\ First \in LayersOf(walk.origin) /\ First \in Entry
         /\ First.depth \in 0 .. ask.depth
         /\ ToSet(walk.queue) = {First} \cup ToSet(Tail(walk.queue))
         /\ First \notin ToSet(Tail(walk.queue))
         /\ Tail(walk.queue) \in Seq(Entry) /\ Distinct(Tail(walk.queue))
         /\ First.id \notin Expanded
<1>1. /\ ToSet(walk.queue) = {First} \cup ToSet(Tail(walk.queue))
      /\ First \in Entry /\ Tail(walk.queue) \in Seq(Entry)
      /\ First \notin ToSet(Tail(walk.queue)) /\ Distinct(Tail(walk.queue))
  <2>1. walk.queue \in Seq(Entry)
    BY DEF TypeOK
  <2>2. Distinct(walk.queue)
    BY DEF WalkInv, Listed
  <2> QED
    BY <2>1, <2>2, ElementsOfTail, DistinctTail DEF First
<1>2. First \in Reached /\ First \in LayersOf(walk.origin)
  BY <1>1 DEF WalkInv, Explored
<1>3. First.depth \in 0 .. ask.depth
  BY <1>2, OriginIsAsked, LayerFacts
<1>4. ASSUME First.id \in Expanded PROVE FALSE
  <2>1. PICK e \in Visited : e.id = First.id
    BY <1>4 DEF Expanded
  <2>2. e \in LayersOf(walk.origin) /\ e \notin ToSet(walk.queue)
    BY <2>1 DEF Visited, WalkInv, Explored
  <2>3. e = First
    BY <1>2, <2>1, <2>2, OriginIsAsked, OneEntryForASymbol
  <2> QED
    BY <1>1, <2>2, <2>3
<1> QED
  BY <1>1, <1>2, <1>3, <1>4

\* The queue of entries for some symbols, in the order of their ids.
LEMMA EntriesOfIds ==
  ASSUME NEW S, S \subseteq Id, IsFiniteSet(S), NEW o \in Origin, NEW d \in Nat,
         NEW q, q = LET ids == Ascending(S)
                    IN  [i \in DOMAIN ids |-> [origin |-> o, depth |-> d, id |-> ids[i]]]
  PROVE  /\ q \in Seq(Entry) /\ Distinct(q)
         /\ ToSet(q) = {[origin |-> o, depth |-> d, id |-> x] : x \in S}
<1>1. Ascending(S) \in Seq(S) /\ Len(Ascending(S)) = Cardinality(S) /\ ToSet(Ascending(S)) = S
  BY ConstantsAssumption, AscendingListsIds
<1>2. PICK ids \in Seq(S) : ids = Ascending(S)
  BY <1>1
<1>3. q = [i \in DOMAIN ids |-> [origin |-> o, depth |-> d, id |-> ids[i]]]
  BY <1>2
<1>4. DOMAIN ids = 1 .. Len(ids) /\ Len(ids) \in Nat /\ \A i \in DOMAIN ids : ids[i] \in S
  OBVIOUS
<1>5. q \in Seq(Entry) /\ Len(q) = Len(ids)
  <2>1. \A i \in DOMAIN ids : [origin |-> o, depth |-> d, id |-> ids[i]] \in Entry
    BY <1>4 DEF Entry
  <2>2. q \in [1 .. Len(ids) -> Entry]
    BY <1>3, <1>4, <2>1
  <2> QED
    BY <1>4, <2>2
<1>6. ToSet(q) = {[origin |-> o, depth |-> d, id |-> x] : x \in S}
  <2>1. DOMAIN q = DOMAIN ids
    BY <1>3
  <2>2. ToSet(q) = {[origin |-> o, depth |-> d, id |-> ids[i]] : i \in DOMAIN ids}
    BY <1>3, <2>1 DEF ToSet
  <2>3. S = {ids[i] : i \in DOMAIN ids}
    BY <1>1, <1>2 DEF ToSet
  <2> QED
    BY <2>2, <2>3
<1>7. Distinct(q)
  <2> DEFINE f == [x \in S |-> [origin |-> o, depth |-> d, id |-> x]]
             R == ToSet(q)
  <2>1. Cardinality(S) = Len(ids)
    BY <1>1, <1>2
  <2>2. f \in [S -> R] /\ \A y \in R : \E x \in S : f[x] = y
    BY <1>6
  <2>3. \A x, y \in S : f[x] = f[y] => x = y
    <3> SUFFICES ASSUME NEW x \in S, NEW y \in S, f[x] = f[y] PROVE x = y
      OBVIOUS
    <3>1. f[x].id = x /\ f[y].id = y
      OBVIOUS
    <3> HIDE DEF f
    <3> QED
      BY <3>1
  <2> HIDE DEF f, R
  <2>4. f \in Bijection(S, R)
    BY <2>2, <2>3 DEF Bijection, Injection, Surjection, IsInjective
  <2>5. ExistsBijection(S, R)
    BY <2>4 DEF ExistsBijection
  <2>6. Cardinality(R) = Cardinality(S)
    BY <2>5, FS_Bijection
  <2> QED
    BY <1>5, <2>1, <2>6 DEF Distinct, R
<1> QED
  BY <1>5, <1>6, <1>7

\* A visit finds symbols that nobody met, each one level further than itself.
LEMMA FoundFacts ==
  ASSUME ask \in Asks, TypeOK, WalkInv, walk.queue # <<>>
  PROVE  /\ IsFiniteSet(NextCallers) /\ Cardinality(NextCallers) \in Nat /\ NextCallers \subseteq Id
         /\ Found(NextCallers) \in Seq(Entry) /\ Distinct(Found(NextCallers))
         /\ ToSet(Found(NextCallers))
              = {[origin |-> walk.origin, depth |-> First.depth + 1, id |-> x] :
                   x \in NextCallers \ walk.seen}
         /\ ToSet(Found(NextCallers)) \subseteq LayersOf(walk.origin)
         /\ ToSet(Found(NextCallers)) \cap Reached = {}
<1>1. PICK o \in Origins : o = walk.origin
  BY OriginIsAsked
<1>2. IsIndex(Source(o)) /\ ask.action # "diff" /\ ask.depth \in 1 .. 10
  BY OriginIsAsked, SourceTypes
<1>3. PICK h \in Entry : h = First
  BY FirstFacts
<1>4. /\ h \in Reached /\ h \in LayersOf(o) /\ h.depth \in 0 .. ask.depth /\ h.depth \in Nat
      /\ h.id \in BallOf(o)[h.depth]
  <2>1. h \in Reached /\ h \in LayersOf(o) /\ h.depth \in 0 .. ask.depth
    BY <1>1, <1>3, FirstFacts
  <2> QED
    BY <1>2, <2>1, LayerFacts
<1>5. PICK C : C = NextCallers
  OBVIOUS
<1>6. /\ IsFiniteSet(C) /\ C \subseteq Nat /\ C \subseteq Id
      /\ C \subseteq Callers(Source(o), h.id) /\ (C # {} => h.depth < ask.depth)
  <2>1. CASE AtDepth(h.depth)
    BY <1>3, <1>5, <2>1, FS_EmptySet DEF NextCallers
  <2>2. CASE ~AtDepth(h.depth)
    <3>1. C = Callers(Source(o), h.id)
      BY <1>1, <1>3, <1>5, <2>2 DEF NextCallers
    <3>2. C \subseteq Source(o).syms /\ C \subseteq Nat /\ IsFiniteSet(C)
      BY <1>2, <3>1, CallersAreSymbols
    <3>3. C \subseteq Id
      BY <1>2, <3>2 DEF IsIndex
    <3>4. h.depth < ask.depth
      BY <1>2, <1>4, <2>2 DEF AtDepth
    <3> QED
      BY <3>1, <3>2, <3>3, <3>4
  <2> QED
    BY <2>1, <2>2
<1>7. PICK new : new = C \ walk.seen
  OBVIOUS
<1>8. Found(C) = LET ids == Ascending(new)
                  IN  [i \in DOMAIN ids |-> [origin |-> o, depth |-> h.depth + 1, id |-> ids[i]]]
  BY <1>1, <1>3, <1>7 DEF Found, First
<1>9. /\ Found(C) \in Seq(Entry) /\ Distinct(Found(C))
       /\ ToSet(Found(C)) = {[origin |-> o, depth |-> h.depth + 1, id |-> x] : x \in new}
  <2>1. new \subseteq Id /\ IsFiniteSet(new)
    <3>1. new \in SUBSET C
      BY <1>7
    <3> QED
      BY <1>6, <3>1, FS_Subset
  <2>2. o \in Origin /\ h.depth + 1 \in Nat
    BY <1>4, QueryTypes
  <2> QED
    BY <1>8, <2>1, <2>2, EntriesOfIds
<1>10. ASSUME NEW x \in new
       PROVE  [origin |-> o, depth |-> h.depth + 1, id |-> x] \in LayersOf(o)
  <2>1. h.depth < ask.depth /\ h.depth + 1 \in 0 .. ask.depth /\ h.depth + 1 \in Nat
        /\ h.depth <= ask.depth
    BY <1>2, <1>4, <1>6, <1>7
  <2>2. x \in BallOf(o)[h.depth + 1]
    <3>1. x \in Callers(Source(o), h.id)
      BY <1>6, <1>7
    <3>2. BallOf(o)[h.depth + 1] = OneHop(Source(o), BallOf(o)[h.depth])
      BY <1>4, BallFacts
    <3> QED
      BY <1>4, <3>1, <3>2 DEF OneHop
  <2>3. BallOf(o)[h.depth] \subseteq walk.seen
    <3>1. \A e \in ToSet(walk.queue) : h.depth <= e.depth
      <4>1. walk.queue \in Seq(Entry)
        BY DEF TypeOK
      <4>2. /\ DOMAIN walk.queue = 1 .. Len(walk.queue) /\ Len(walk.queue) \in Nat
            /\ 1 \in DOMAIN walk.queue /\ h = walk.queue[1]
        BY <1>3, <4>1 DEF First
      <4>3. \A i \in DOMAIN walk.queue : 1 <= i
        BY <4>2
      <4> QED
        BY <4>2, <4>3 DEF ToSet, WalkInv, Explored, ByDepth
    <3> QED
      BY <1>1, <1>2, <1>4, <2>1, <3>1, NearerWasSeen DEF WalkInv
  <2>4. ASSUME NEW n \in Nat, x \in BallOf(o)[n] PROVE h.depth + 1 <= n
    <3>1. SUFFICES ASSUME n <= h.depth PROVE FALSE
      BY <1>4
    <3>2. BallOf(o)[n] \subseteq BallOf(o)[h.depth]
      BY <1>4, <3>1, BallFacts
    <3> QED
      BY <1>7, <2>3, <2>4, <3>2
  <2> QED
    BY <1>2, <2>1, <2>2, <2>4, LayerFacts
<1>11. ToSet(Found(C)) \subseteq LayersOf(o)
  BY <1>9, <1>10
<1>12. ASSUME NEW e \in ToSet(Found(C)), e \in Reached PROVE FALSE
  <2>1. PICK x \in new : e.id = x
    BY <1>9
  <2>2. x \in walk.seen
    BY <1>12, <2>1 DEF WalkInv, Explored
  <2> QED
    BY <1>7, <2>1, <2>2
<1> QED
  BY <1>1, <1>3, <1>5, <1>6, <1>7, <1>9, <1>11, <1>12, FS_CardinalityType

\* The budget is spent on what has to be read, and on nothing twice.
LEMMA ReadFacts ==
  ASSUME ask \in Asks, TypeOK, WalkInv, walk.queue # <<>>
  PROVE  /\ IsFiniteSet(ReadSoFar) /\ Cardinality(ReadSoFar) \in Nat
         /\ Cardinality(ReadSoFar \cup NextReads)
              = Cardinality(ReadSoFar) + Cardinality(NextCallers)
         /\ ReadSoFar \cup NextReads \subseteq Work /\ IsFiniteSet(Work)
<1>1. PICK o \in Origins : o = walk.origin
  BY OriginIsAsked
<1>2. IsIndex(Source(o)) /\ ask.action # "diff" /\ ask.depth \in 1 .. 10 /\ o \in Origin
  BY OriginIsAsked, SourceTypes, QueryTypes
<1>3. PICK h \in Entry : h = First
  BY FirstFacts
<1>4. h \in LayersOf(o) /\ h.depth \in 0 .. ask.depth /\ h.id \notin Expanded
  BY <1>1, <1>3, FirstFacts
<1>5. /\ Reads(o, Expanded) \subseteq ReadsOf(o) /\ ReadsOf(o) \subseteq Work
      /\ IsFiniteSet(Work) /\ IsFiniteSet(Reads(o, Expanded))
  <2>1. \A x \in Expanded : \E e \in LayersOf(o) : e.id = x /\ e.depth < ask.depth
    <3>1. Visited \subseteq LayersOf(o)
      BY <1>1 DEF Visited, WalkInv, Explored
    <3> QED
      BY <3>1 DEF Expanded
  <2> QED
    BY <1>2, <2>1, ReadsBelongToWork
<1>6. ReadsOf("current") \subseteq Work /\ IsFiniteSet(ReadsOf("current"))
  <2>1. "current" \in Origins
    BY QueryTypes
  <2>2. PICK V : V = {}
    OBVIOUS
  <2>3. \A x \in V : \E e \in LayersOf("current") : e.id = x /\ e.depth < ask.depth
    BY <2>2
  <2> QED
    BY <1>2, <2>1, <2>3, ReadsBelongToWork
<1>7. IsFiniteSet(ReadSoFar) /\ ReadSoFar \subseteq Work
  <2>1. ReadSoFar = Reads(o, Expanded) \cup (IF o = "current" THEN {} ELSE ReadsOf("current"))
    BY <1>1 DEF ReadSoFar
  <2> QED
    BY <1>5, <1>6, <2>1, FS_Union
<1>8. CASE AtDepth(h.depth)
  <2>1. NextReads = {} /\ NextCallers = {} /\ Cardinality({}) = 0
    BY <1>3, <1>8, FS_EmptySet DEF NextReads, NextCallers
  <2>2. Cardinality(ReadSoFar) \in Nat
    BY <1>7, FS_CardinalityType
  <2>3. ReadSoFar \cup NextReads = ReadSoFar
    BY <2>1
  <2> QED
    BY <1>5, <1>7, <2>1, <2>2, <2>3
<1>9. CASE ~AtDepth(h.depth)
  <2>1. NextReads = Reads(o, {h.id}) /\ NextCallers = Callers(Source(o), h.id)
    BY <1>1, <1>3, <1>9 DEF NextReads, NextCallers
  <2>2. h.depth < ask.depth
    BY <1>2, <1>4, <1>9 DEF AtDepth
  <2>3. NextReads \subseteq Work /\ IsFiniteSet(NextReads)
    <3>1. PICK V : V = {h.id}
      OBVIOUS
    <3>2. \A x \in V : \E e \in LayersOf(o) : e.id = x /\ e.depth < ask.depth
      BY <1>4, <2>2, <3>1
    <3>3. Reads(o, V) \subseteq ReadsOf(o) /\ ReadsOf(o) \subseteq Work /\ IsFiniteSet(Reads(o, V))
      BY <1>2, <3>2, ReadsBelongToWork
    <3> QED
      BY <2>1, <3>1, <3>3
  <2>4. Cardinality(NextReads) = Cardinality(NextCallers)
    BY <1>2, <2>1, ReadsOfOne
  <2>5. ASSUME NEW r \in ReadSoFar, r \in NextReads PROVE FALSE
    <3>1. PICK c : r = <<o, c, h.id>>
      BY <2>1, <2>5, ReadsElements
    <3>2. CASE r \in Reads(o, Expanded)
      <4>1. PICK x \in Expanded : \E d : r = <<o, d, x>>
        BY <3>2, ReadsElements
      <4> QED
        BY <1>4, <3>1, <4>1
    <3>3. CASE r \in ReadsOf("current") /\ o # "current"
      <4>1. PICK x, d : r = <<"current", d, x>>
        BY <3>3, ReadsElements DEF ReadsOf
      <4> QED
        BY <3>1, <3>3, <4>1
    <3> QED
      BY <1>1, <3>2, <3>3 DEF ReadSoFar
  <2>6. Cardinality(ReadSoFar \cup NextReads) = Cardinality(ReadSoFar) + Cardinality(NextReads)
    <3>1. ReadSoFar \cap NextReads = {} /\ Cardinality({}) = 0
      BY <2>5, FS_EmptySet
    <3>2. Cardinality(ReadSoFar \cap NextReads) = 0
      BY <3>1
    <3>3. Cardinality(ReadSoFar) \in Nat /\ Cardinality(NextReads) \in Nat
      BY <1>7, <2>3, FS_CardinalityType
    <3>4. Cardinality(ReadSoFar \cup NextReads)
            = Cardinality(ReadSoFar) + Cardinality(NextReads) - Cardinality(ReadSoFar \cap NextReads)
      BY <1>7, <2>3, FS_Union
    <3> QED
      BY <3>2, <3>3, <3>4
  <2> QED
    BY <1>5, <1>7, <2>3, <2>4, <2>6, FS_CardinalityType
<1> QED
  BY <1>8, <1>9

\* What a visit within the budget leaves.
VisitLeaves ==
  walk' = [walk EXCEPT !.queue = Tail(@) \o Found(NextCallers),
                       !.seen = @ \cup NextCallers,
                       !.left = @ - Cardinality(NextCallers),
                       !.all = @ \o (IF ask.action = "impact" THEN Found(NextCallers) ELSE <<First>>)]

LEMMA VisitFields ==
  ASSUME ask \in Asks, TypeOK, WalkInv, walk.queue # <<>>, VisitLeaves,
         Cardinality(NextCallers) <= walk.left
  PROVE  /\ walk'.queue = Tail(walk.queue) \o Found(NextCallers)
         /\ walk'.seen = walk.seen \cup NextCallers
         /\ walk'.left = walk.left - Cardinality(NextCallers)
         /\ walk'.all = walk.all \o (IF ask.action = "impact" THEN Found(NextCallers) ELSE <<First>>)
         /\ walk'.origin = walk.origin /\ walk'.status = walk.status /\ walk'.rows = walk.rows
         /\ walk' \in [status : Status, origin : Origin, queue : Seq(Entry), all : Seq(Entry),
                       seen : SUBSET Id, left : 0 .. MaxWork, rows : SUBSET Row]
<1>1. PICK C, F, t, h : C = NextCallers /\ F = Found(NextCallers) /\ t = Tail(walk.queue) /\ h = First
  OBVIOUS
<1>2. /\ F \in Seq(Entry) /\ t \in Seq(Entry) /\ h \in Entry /\ C \subseteq Id
      /\ Cardinality(C) \in Nat /\ Cardinality(C) <= walk.left
  BY <1>1, FoundFacts, FirstFacts
<1>3. walk \in [status : Status, origin : Origin, queue : Seq(Entry), all : Seq(Entry),
                seen : SUBSET Id, left : 0 .. MaxWork, rows : SUBSET Row]
  BY DEF TypeOK
<1>4. walk' = [walk EXCEPT !.queue = t \o F, !.seen = walk.seen \cup C,
                           !.left = walk.left - Cardinality(C),
                           !.all = walk.all \o (IF ask.action = "impact" THEN F ELSE <<h>>)]
  BY <1>1 DEF VisitLeaves
<1>5. /\ t \o F \in Seq(Entry) /\ walk.seen \cup C \in SUBSET Id
      /\ walk.left - Cardinality(C) \in 0 .. MaxWork
      /\ walk.all \o (IF ask.action = "impact" THEN F ELSE <<h>>) \in Seq(Entry)
  <2>1. walk.all \in Seq(Entry) /\ walk.seen \in SUBSET Id /\ walk.left \in 0 .. MaxWork
    BY <1>3
  <2>2. MaxWork \in Nat
    BY ConstantsAssumption
  <2>3. <<h>> \in Seq(Entry)
    BY <1>2
  <2>4. (IF ask.action = "impact" THEN F ELSE <<h>>) \in Seq(Entry)
    BY <1>2, <2>3
  <2>5. walk.left - Cardinality(C) \in 0 .. MaxWork
    BY <1>2, <2>1, <2>2
  <2>6. walk.all \o (IF ask.action = "impact" THEN F ELSE <<h>>) \in Seq(Entry)
    BY <2>1, <2>4
  <2> QED
    BY <1>2, <2>1, <2>5, <2>6
<1>6. /\ walk'.queue = t \o F /\ walk'.seen = walk.seen \cup C
      /\ walk'.left = walk.left - Cardinality(C)
      /\ walk'.all = walk.all \o (IF ask.action = "impact" THEN F ELSE <<h>>)
      /\ walk'.origin = walk.origin /\ walk'.status = walk.status /\ walk'.rows = walk.rows
  BY <1>3, <1>4
<1>7. walk' \in [status : Status, origin : Origin, queue : Seq(Entry), all : Seq(Entry),
                 seen : SUBSET Id, left : 0 .. MaxWork, rows : SUBSET Row]
  BY <1>3, <1>4, <1>5
<1> QED
  BY <1>1, <1>6, <1>7

\* It moves one symbol to those visited, and finds its callers.
LEMMA VisitReaches ==
  ASSUME ask \in Asks, TypeOK, WalkInv, walk.queue # <<>>, VisitLeaves,
         Cardinality(NextCallers) <= walk.left, ask' = ask
  PROVE  /\ ToSet(walk'.queue) = ToSet(Tail(walk.queue)) \cup ToSet(Found(NextCallers))
         /\ ToSet(walk'.all) = ToSet(walk.all) \cup
              (IF ask.action = "impact" THEN ToSet(Found(NextCallers)) ELSE {First})
         /\ Reached' = Reached \cup ToSet(Found(NextCallers))
         /\ Visited' = Visited \cup {First}
<1>1. PICK C, F, t, h, o :
        C = NextCallers /\ F = Found(NextCallers) /\ t = Tail(walk.queue) /\ h = First /\ o = walk.origin
  OBVIOUS
<1>2. PICK A, Q, SF, ST : A = ToSet(walk.all) /\ Q = ToSet(walk.queue) /\ SF = ToSet(F) /\ ST = ToSet(t)
  OBVIOUS
<1>3. /\ F \in Seq(Entry) /\ t \in Seq(Entry) /\ h \in Entry /\ walk.all \in Seq(Entry)
      /\ Q = {h} \cup ST /\ h \notin ST /\ h \in Reached /\ h.origin = o
      /\ SF \cap Reached = {} /\ Q \subseteq Reached
      /\ \A e \in SF : e.origin = o
  <2>1. F \in Seq(Entry) /\ SF \cap Reached = {} /\ SF \subseteq LayersOf(o)
    BY <1>1, <1>2, FoundFacts
  <2>2. /\ t \in Seq(Entry) /\ h \in Entry /\ Q = {h} \cup ST /\ h \notin ST
        /\ h \in Reached /\ h \in LayersOf(o)
    BY <1>1, <1>2, FirstFacts
  <2>3. \A e \in LayersOf(o) : e.origin = o
    BY <1>1, OriginIsAsked, LayerFacts
  <2>4. walk.all \in Seq(Entry)
    BY DEF TypeOK
  <2>5. Q \subseteq Reached
    BY <1>2 DEF WalkInv, Explored
  <2> QED
    BY <2>1, <2>2, <2>3, <2>4, <2>5
<1>4. /\ walk'.queue = t \o F /\ walk'.origin = o
      /\ walk'.all = walk.all \o (IF ask.action = "impact" THEN F ELSE <<h>>)
  BY <1>1, VisitFields
<1>5. ToSet(walk'.queue) = ST \cup SF
  BY <1>2, <1>3, <1>4, ElementsOfConcatenation
<1>6. ToSet(walk'.all) = A \cup (IF ask.action = "impact" THEN SF ELSE {h})
  <2>1. CASE ask.action = "impact"
    BY <1>2, <1>3, <1>4, <2>1, ElementsOfConcatenation
  <2>2. CASE ask.action # "impact"
    <3>1. PICK s \in Seq(Entry) : s = <<h>> /\ ToSet(s) = {h}
      BY <1>3, OneElement
    <3>2. walk'.all = walk.all \o s
      BY <1>4, <2>2, <3>1
    <3>3. ToSet(walk.all \o s) = ToSet(walk.all) \cup ToSet(s)
      BY <1>3, ElementsOfConcatenation
    <3> QED
      BY <1>2, <2>2, <3>1, <3>2, <3>3
  <2> QED
    BY <2>1, <2>2
<1>7. Reached' = Reached \cup SF
  <2>1. CASE ask.action = "impact"
    <3>1. Seeded' = Seeded
      BY <1>1, <1>4, QueryIsFixed DEF Seeded
    <3> QED
      BY <1>2, <1>6, <2>1, <3>1 DEF Reached
  <2>2. CASE ask.action # "impact"
    <3>1. Reached = {e \in A : e.origin = o} \cup Q
      BY <1>1, <1>2, <2>2 DEF Reached
    <3>2. Reached' = {e \in A \cup {h} : e.origin = o} \cup (ST \cup SF)
      BY <1>4, <1>5, <1>6, <2>2 DEF Reached
    <3> QED
      BY <1>3, <3>1, <3>2
  <2> QED
    BY <2>1, <2>2
<1>8. Visited' = Visited \cup {h}
  <2>1. Visited = Reached \ Q
    BY <1>2 DEF Visited
  <2>2. Visited' = (Reached \cup SF) \ (ST \cup SF)
    BY <1>5, <1>7 DEF Visited
  <2> QED
    BY <1>3, <2>1, <2>2
<1> QED
  BY <1>1, <1>2, <1>5, <1>6, <1>7, <1>8

LEMMA VisitKeepsExplored ==
  ASSUME ask \in Asks, TypeOK, WalkInv, walk.queue # <<>>, VisitLeaves,
         Cardinality(NextCallers) <= walk.left, ask' = ask
  PROVE  Explored'
<1>1. PICK C, F, t, h, o, q :
        /\ C = NextCallers /\ F = Found(NextCallers) /\ t = Tail(walk.queue)
        /\ h = First /\ o = walk.origin /\ q = walk.queue
  OBVIOUS
<1>2. PICK SF, ST, R, V : SF = ToSet(F) /\ ST = ToSet(t) /\ R = Reached /\ V = Visited
  OBVIOUS
<1>3. /\ walk'.queue = t \o F /\ walk'.seen = walk.seen \cup C /\ walk'.origin = o
      /\ ToSet(walk'.queue) = ST \cup SF /\ Reached' = R \cup SF /\ Visited' = V \cup {h}
  BY <1>1, <1>2, VisitFields, VisitReaches
<1>4. /\ q \in Seq(Entry) /\ t \in Seq(Entry) /\ F \in Seq(Entry) /\ h = Head(q) /\ q # <<>> /\ t = Tail(q)
      /\ h \in R /\ h \in LayersOf(o) /\ h \in ToSet(q) /\ h.depth \in Nat
      /\ ToSet(q) = {h} \cup ST
      /\ SF = {[origin |-> o, depth |-> h.depth + 1, id |-> x] : x \in C \ walk.seen}
      /\ SF \subseteq LayersOf(o)
  <2>1. q \in Seq(Entry) /\ h = Head(q) /\ q # <<>> /\ t = Tail(q)
    BY <1>1 DEF TypeOK, First
  <2>2. /\ t \in Seq(Entry) /\ h \in R /\ h \in LayersOf(o) /\ ToSet(q) = {h} \cup ST /\ h \in Entry
    BY <1>1, <1>2, FirstFacts
  <2>3. /\ F \in Seq(Entry) /\ SF \subseteq LayersOf(o)
        /\ SF = {[origin |-> o, depth |-> h.depth + 1, id |-> x] : x \in C \ walk.seen}
    BY <1>1, <1>2, FoundFacts
  <2>4. h.depth \in Nat
    BY <2>2 DEF Entry
  <2> QED
    BY <2>1, <2>2, <2>3, <2>4
<1>5. /\ walk.seen = {e.id : e \in R} /\ SeedsOf(o) \subseteq walk.seen
      /\ ToSet(q) \subseteq R /\ R \subseteq LayersOf(o)
      /\ \A e \in V : e.depth < ask.depth => Callers(Source(o), e.id) \subseteq walk.seen
      /\ \A i, j \in DOMAIN q : i <= j => q[i].depth <= q[j].depth
      /\ \A e \in ToSet(q) : e.depth <= h.depth + 1
      /\ \A e \in V, d \in ToSet(q) : e.depth <= d.depth
  BY <1>1, <1>2, <1>4 DEF WalkInv, Explored, ByDepth
<1>6. walk'.seen = {e.id : e \in R \cup SF}
  <2>1. {e.id : e \in SF} = C \ walk.seen
    <3>1. \A e \in SF : e.id \in C \ walk.seen
      BY <1>4
    <3>2. ASSUME NEW x \in C \ walk.seen PROVE \E e \in SF : e.id = x
      <4>1. PICK e : e = [origin |-> o, depth |-> h.depth + 1, id |-> x]
        OBVIOUS
      <4>2. e \in SF /\ e.id = x
        BY <1>4, <4>1
      <4> QED
        BY <4>2
    <3> QED
      BY <3>1, <3>2
  <2> QED
    BY <1>3, <1>5, <2>1
<1>7. \A e \in V \cup {h} : e.depth < ask.depth => Callers(Source(o), e.id) \subseteq walk.seen \cup C
  <2>1. h.depth < ask.depth => C = Callers(Source(o), h.id)
    <3>1. ask.depth \in Nat
      BY QueryTypes
    <3> QED
      BY <1>1, <1>4, <3>1 DEF NextCallers, AtDepth
  <2> QED
    BY <1>5, <2>1
<1>8. /\ DOMAIN q = 1 .. Len(q) /\ Len(q) \in Nat /\ Len(q) >= 1 /\ h = q[1]
      /\ Len(t) = Len(q) - 1 /\ \A i \in 1 .. Len(t) : t[i] = q[i + 1]
  BY <1>4
<1>9. \A e \in ST \cup SF : h.depth <= e.depth /\ e.depth <= h.depth + 1 /\ e.depth \in Nat
  <2>1. \A e \in ST : h.depth <= e.depth /\ e.depth <= h.depth + 1 /\ e.depth \in Nat
    <3> SUFFICES ASSUME NEW i \in 1 .. Len(t)
                 PROVE  h.depth <= t[i].depth /\ t[i].depth <= h.depth + 1 /\ t[i].depth \in Nat
      BY <1>2, <1>4 DEF ToSet
    <3>1. i + 1 \in DOMAIN q /\ 1 \in DOMAIN q /\ 1 <= i + 1 /\ t[i] = q[i + 1]
      BY <1>8
    <3>2. q[i + 1] \in ToSet(q) /\ q[i + 1] \in Entry
      BY <1>4, <3>1 DEF ToSet
    <3> QED
      BY <1>5, <1>8, <3>1, <3>2 DEF Entry
  <2>2. \A e \in SF : e.depth = h.depth + 1
    BY <1>4
  <2> QED
    BY <1>4, <2>1, <2>2
<1>10. PICK p : p = t \o F
  OBVIOUS
<1>11. /\ DOMAIN p = 1 .. Len(t) + Len(F) /\ Len(F) \in Nat /\ Len(t) \in Nat
       /\ \A i \in 1 .. Len(t) : p[i] = q[i + 1] /\ i + 1 \in DOMAIN q
       /\ \A i \in DOMAIN p : ~(i <= Len(t)) => p[i].depth = h.depth + 1
  <2>1. /\ DOMAIN p = 1 .. Len(t) + Len(F) /\ Len(F) \in Nat /\ Len(t) \in Nat
        /\ \A i \in 1 .. Len(t) : p[i] = t[i]
        /\ \A i \in DOMAIN p : ~(i <= Len(t)) => p[i] = F[i - Len(t)] /\ i - Len(t) \in 1 .. Len(F)
    BY <1>4, <1>10
  <2>2. \A i \in 1 .. Len(F) : F[i] \in SF
    BY <1>2, <1>4 DEF ToSet
  <2>3. \A e \in SF : e.depth = h.depth + 1
    BY <1>4
  <2> QED
    BY <1>8, <2>1, <2>2, <2>3
<1>12. \A i \in DOMAIN p : p[i] \in ST \cup SF
  BY <1>3, <1>10 DEF ToSet
<1>13. ASSUME NEW i \in DOMAIN p, NEW j \in DOMAIN p, i <= j PROVE p[i].depth <= p[j].depth
  <2>1. CASE j <= Len(t)
    <3>1. i + 1 \in DOMAIN q /\ j + 1 \in DOMAIN q /\ i + 1 <= j + 1 /\ p[i] = q[i + 1] /\ p[j] = q[j + 1]
      BY <1>11, <1>13, <2>1
    <3> QED
      BY <1>5, <3>1
  <2>2. CASE ~(j <= Len(t))
    BY <1>9, <1>11, <1>12, <2>2
  <2> QED
    BY <2>1, <2>2
<1>14. ASSUME NEW e \in ST \cup SF PROVE e.depth <= Head(p).depth + 1
  <2>1. PICK i \in DOMAIN p : p[i] = e
    BY <1>3, <1>10 DEF ToSet
  <2>2. 1 \in DOMAIN p
    BY <1>11
  <2>3. p \in Seq(Entry)
    BY <1>4, <1>10
  <2>4. Head(p) = p[1]
    BY <2>2, <2>3
  <2>5. h.depth <= p[1].depth /\ e.depth <= h.depth + 1 /\ p[1].depth \in Nat /\ e.depth \in Nat
    BY <1>9, <1>12, <2>2
  <2> QED
    BY <1>4, <2>4, <2>5
<1>15. ASSUME NEW e \in V \cup {h}, NEW d \in ST \cup SF PROVE e.depth <= d.depth
  <2>1. e.depth <= h.depth
    BY <1>4, <1>5
  <2>2. e \in LayersOf(o)
    BY <1>2, <1>4, <1>5 DEF Visited
  <2>3. e.depth \in Nat
    BY <1>1, <2>2, OriginIsAsked, LayerFacts
  <2> QED
    BY <1>4, <1>9, <2>1, <2>3
<1>16. ByDepth'
  BY <1>3, <1>10, <1>13, <1>14, <1>15 DEF ByDepth
<1>17. /\ SeedsOf(o)' = SeedsOf(o) /\ LayersOf(o)' = LayersOf(o) /\ Source(o)' = Source(o)
  BY QueryIsFixed
<1>18. /\ SeedsOf(walk.origin)' = SeedsOf(o) /\ LayersOf(walk.origin)' = LayersOf(o)
       /\ Source(walk.origin)' = Source(o)
  BY <1>1, <1>3, <1>17
<1>19. (\A e \in Visited : e.depth < ask.depth => Callers(Source(walk.origin), e.id) \subseteq walk.seen)'
  BY <1>3, <1>7, <1>18 DEF Callers
<1> QED
  BY <1>3, <1>4, <1>5, <1>6, <1>16, <1>18, <1>19 DEF Explored

LEMMA VisitKeepsListed ==
  ASSUME ask \in Asks, TypeOK, WalkInv, walk.queue # <<>>, VisitLeaves,
         Cardinality(NextCallers) <= walk.left, ask' = ask
  PROVE  Listed'
<1>1. PICK F, t, h, o : F = Found(NextCallers) /\ t = Tail(walk.queue) /\ h = First /\ o = walk.origin
  OBVIOUS
<1>2. PICK A, Q, SF, ST : A = ToSet(walk.all) /\ Q = ToSet(walk.queue) /\ SF = ToSet(F) /\ ST = ToSet(t)
  OBVIOUS
<1>3. /\ walk'.queue = t \o F /\ walk'.origin = o
      /\ walk'.all = walk.all \o (IF ask.action = "impact" THEN F ELSE <<h>>)
      /\ ToSet(walk'.queue) = ST \cup SF
      /\ ToSet(walk'.all) = A \cup (IF ask.action = "impact" THEN SF ELSE {h})
  BY <1>1, <1>2, VisitFields, VisitReaches
<1>4. /\ walk.all \in Seq(Entry) /\ t \in Seq(Entry) /\ F \in Seq(Entry) /\ h \in Entry
      /\ Distinct(walk.all) /\ Distinct(t) /\ Distinct(F)
      /\ h \in Reached /\ Q = {h} \cup ST /\ h \notin ST /\ Q \subseteq Reached
      /\ SF \cap Reached = {} /\ h \in LayersOf(o) /\ SF \subseteq LayersOf(o)
      /\ SF = {[origin |-> o, depth |-> h.depth + 1, id |-> x] : x \in NextCallers \ walk.seen}
  <2>1. walk.all \in Seq(Entry)
    BY DEF TypeOK
  <2>2. Distinct(walk.all) /\ Q \subseteq Reached
    BY <1>2 DEF WalkInv, Listed, Explored
  <2>3. /\ t \in Seq(Entry) /\ h \in Entry /\ Distinct(t) /\ h \in Reached /\ h \in LayersOf(o)
        /\ Q = {h} \cup ST /\ h \notin ST
    BY <1>1, <1>2, FirstFacts
  <2>4. /\ F \in Seq(Entry) /\ Distinct(F) /\ SF \cap Reached = {} /\ SF \subseteq LayersOf(o)
        /\ SF = {[origin |-> o, depth |-> h.depth + 1, id |-> x] : x \in NextCallers \ walk.seen}
    BY <1>1, <1>2, FoundFacts
  <2> QED
    BY <2>1, <2>2, <2>3, <2>4
<1>5. h.depth \in Nat /\ h.origin = o /\ \A e \in SF : e.origin = o /\ e.depth > 0
  <2>1. h.depth \in Nat
    BY <1>4 DEF Entry
  <2>2. \A e \in LayersOf(o) : e.origin = o
    BY <1>1, OriginIsAsked, LayerFacts
  <2>3. \A e \in SF : e.depth = h.depth + 1
    BY <1>4
  <2> QED
    BY <1>4, <2>1, <2>2, <2>3
<1>6. A \cap SF = {}
  <2>1. \A e \in A : e.origin = o => e \in Reached
    BY <1>1, <1>2 DEF Reached
  <2> QED
    BY <1>4, <1>5, <2>1
<1>7. ask.action # "impact" => A \cap Q = {}
  BY <1>2 DEF WalkInv, Listed
<1>8. Distinct(t \o F)
  <2>1. ST \cap SF = {}
    BY <1>4
  <2> QED
    BY <1>2, <1>4, <2>1, DistinctConcatenation
<1>9. Distinct(walk'.all)
  <2>1. CASE ask.action = "impact"
    <3>1. Distinct(walk.all \o F)
      BY <1>2, <1>4, <1>6, DistinctConcatenation
    <3> QED
      BY <1>3, <2>1, <3>1
  <2>2. CASE ask.action # "impact"
    <3>1. PICK s \in Seq(Entry) : s = <<h>> /\ ToSet(s) = {h} /\ Distinct(s)
      BY <1>4, OneElement
    <3>2. ToSet(walk.all) \cap ToSet(s) = {}
      BY <1>2, <1>4, <1>7, <2>2, <3>1
    <3>3. Distinct(walk.all \o s)
      BY <1>4, <3>1, <3>2, DistinctConcatenation
    <3> QED
      BY <1>3, <2>2, <3>1, <3>3
  <2> QED
    BY <2>1, <2>2
<1>10. ask.action = "changes" => ToSet(walk'.all) \cap ToSet(walk'.queue) = {}
  <2>1. SUFFICES ASSUME ask.action = "changes"
                 PROVE  ToSet(walk'.all) \cap ToSet(walk'.queue) = {}
    OBVIOUS
  <2>2. ToSet(walk'.all) = A \cup {h} /\ ToSet(walk'.queue) = ST \cup SF
    BY <1>3, <2>1
  <2>3. A \cap ST = {} /\ A \cap SF = {} /\ h \notin ST
    BY <1>4, <1>6, <1>7, <2>1
  <2>4. h \notin SF
    BY <1>4
  <2> QED
    BY <2>2, <2>3, <2>4
<1>11. ask.action = "impact" => \A e \in ToSet(walk'.all) : e.depth > 0
  BY <1>2, <1>3, <1>5 DEF WalkInv, Listed
<1>12. \A e \in ToSet(walk'.all) : e.origin \in {"current", o} /\ e \in LayersOf(e.origin)
  <2>1. \A e \in A : e.origin \in {"current", o} /\ e \in LayersOf(e.origin)
    BY <1>1, <1>2 DEF WalkInv, Listed
  <2> QED
    BY <1>3, <1>4, <1>5, <2>1
<1>13. (\A e \in ToSet(walk.all) : e.origin \in {"current", walk.origin} /\ e \in LayersOf(e.origin))'
  <2>1. \A u : LayersOf(u)' = LayersOf(u)
    BY QueryIsFixed
  <2> QED
    BY <1>3, <1>12, <2>1
<1> QED
  BY <1>3, <1>8, <1>9, <1>10, <1>11, <1>13 DEF Listed, Distinct

LEMMA VisitKeepsCounted ==
  ASSUME ask \in Asks, TypeOK, WalkInv, walk.queue # <<>>, VisitLeaves,
         Cardinality(NextCallers) <= walk.left, ask' = ask
  PROVE  Counted'
<1>1. PICK h, o : h = First /\ o = walk.origin
  OBVIOUS
<1>2. /\ walk'.left = walk.left - Cardinality(NextCallers) /\ walk'.origin = o
      /\ Visited' = Visited \cup {h}
  BY <1>1, VisitFields, VisitReaches
<1>3. /\ ReadsOf("current")' = ReadsOf("current") /\ \A V : Reads(o, V)' = Reads(o, V)
  BY QueryIsFixed
<1>4. PICK E, V : E = Expanded /\ V = Visited
  OBVIOUS
<1>5. Expanded' = {e.id : e \in {v \in V \cup {h} : v.depth < ask.depth}}
  BY <1>2, <1>4 DEF Expanded
<1>6. E = {e.id : e \in {v \in V : v.depth < ask.depth}}
  BY <1>4 DEF Expanded
<1>7. AtDepth(h.depth) <=> ~(h.depth < ask.depth)
  <2>1. h.depth \in 0 .. ask.depth /\ ask.depth \in 1 .. 10
    BY <1>1, FirstFacts, QueryTypes
  <2> QED
    BY <2>1 DEF AtDepth
<1>8. PICK E2 : E2 = Expanded'
  OBVIOUS
<1>9. ReadSoFar' = Reads(o, E2) \cup (IF o = "current" THEN {} ELSE ReadsOf("current"))
  <2>1. ReadSoFar' = Reads(walk.origin, Expanded)' \cup (IF o = "current" THEN {} ELSE ReadsOf("current"))
    BY <1>2, <1>3 DEF ReadSoFar
  <2>2. Reads(walk.origin, Expanded)' = Reads(o, E2)
    BY <1>2, <1>8, QueryIsFixed DEF Reads
  <2> QED
    BY <2>1, <2>2
<1>10. ReadSoFar = Reads(o, E) \cup (IF o = "current" THEN {} ELSE ReadsOf("current"))
  BY <1>1, <1>4 DEF ReadSoFar
<1>11. Reads(o, E2) = Reads(o, E) \cup NextReads
  <2>1. CASE AtDepth(h.depth)
    <3>1. E2 = E
      BY <1>5, <1>6, <1>7, <1>8, <2>1
    <3> QED
      BY <1>1, <2>1, <3>1 DEF NextReads
  <2>2. CASE ~AtDepth(h.depth)
    <3>1. E2 = E \cup {h.id}
      BY <1>5, <1>6, <1>7, <1>8, <2>2
    <3>2. NextReads = Reads(o, {h.id})
      BY <1>1, <2>2 DEF NextReads
    <3>3. PICK I : I = {h.id}
      OBVIOUS
    <3>4. \A r : r \in Reads(o, E \cup I) <=> r \in Reads(o, E) \/ r \in Reads(o, I)
      BY ReadsElements
    <3> QED
      BY <3>1, <3>2, <3>3, <3>4
  <2> QED
    BY <2>1, <2>2
<1>12. ReadSoFar' = ReadSoFar \cup NextReads
  BY <1>9, <1>10, <1>11
<1>13. Cardinality(ReadSoFar \cup NextReads) = Cardinality(ReadSoFar) + Cardinality(NextCallers)
       /\ Cardinality(ReadSoFar) \in Nat /\ Cardinality(NextCallers) \in Nat
  BY ReadFacts, FoundFacts
<1>14. walk.left + Cardinality(ReadSoFar) = MaxWork /\ walk.left \in 0 .. MaxWork /\ MaxWork \in Nat
  BY ConstantsAssumption DEF TypeOK, WalkInv, Counted
<1>15. walk'.left + Cardinality(ReadSoFar') = MaxWork
  BY <1>2, <1>12, <1>13, <1>14
<1> QED
  BY <1>15 DEF Counted

LEMMA StepVisit ==
  ASSUME IInv, walk.status = "walking", walk.queue # <<>>, VisitLeaves,
         Cardinality(NextCallers) <= walk.left, ask' = ask,
         ask.action = "changes" => Len(walk.all) + 1 <= MaxResults
  PROVE  IInv'
<1>1. ask \in Asks /\ TypeOK /\ WalkInv
  BY DEF IInv
<1>2. PICK h, o : h = First /\ o = walk.origin
  OBVIOUS
<1>3. /\ walk'.all = walk.all \o (IF ask.action = "impact" THEN Found(NextCallers) ELSE <<h>>)
      /\ ToSet(walk'.all) = ToSet(walk.all) \cup
              (IF ask.action = "impact" THEN ToSet(Found(NextCallers)) ELSE {h})
      /\ walk'.origin = o /\ walk'.status = "walking"
      /\ walk' \in [status : Status, origin : Origin, queue : Seq(Entry), all : Seq(Entry),
                    seen : SUBSET Id, left : 0 .. MaxWork, rows : SUBSET Row]
  BY <1>1, <1>2, VisitFields, VisitReaches
<1>4. TypeOK'
  <2>1. ASSUME ask.action = "changes" PROVE Len(walk'.all) <= MaxResults
    <3>1. walk'.all = walk.all \o <<h>> /\ walk.all \in Seq(Entry)
      BY <1>1, <1>3, <2>1 DEF TypeOK
    <3>2. Len(walk'.all) = Len(walk.all) + 1
      BY <3>1
    <3> QED
      BY <2>1, <3>2
  <2> QED
    BY <1>3, <2>1 DEF TypeOK
<1>5. o = "baseline" => CurrentIsDone'
  <2> SUFFICES ASSUME o = "baseline" PROVE CurrentIsDone'
    OBVIOUS
  <2>1. /\ ask.action = "changes" /\ ask.baseline # None /\ Admitted("current")
        /\ {e \in ToSet(walk.all) : e.origin = "current"} = LayersOf("current")
    BY <1>1, <1>2 DEF WalkInv, CurrentIsDone
  <2>2. h.origin = o
    <3>1. h \in LayersOf(o)
      BY <1>1, <1>2, FirstFacts
    <3> QED
      BY <1>1, <1>2, <3>1, OriginIsAsked, LayerFacts
  <2>3. {e \in ToSet(walk'.all) : e.origin = "current"} = {e \in ToSet(walk.all) : e.origin = "current"}
    BY <1>3, <2>1, <2>2
  <2>4. Admitted("current")' /\ LayersOf("current")' = LayersOf("current")
    BY <2>1, QueryIsFixed
  <2> QED
    BY <2>1, <2>3, <2>4 DEF CurrentIsDone
<1>6. Admitted(walk.origin)'
  <2>1. Admitted(o)' = Admitted(o)
    BY QueryIsFixed
  <2> QED
    BY <1>1, <1>2, <1>3, <2>1 DEF WalkInv, Admitted, Touched
<1>7. Explored' /\ Listed' /\ Counted'
  BY <1>1, VisitKeepsExplored, VisitKeepsListed, VisitKeepsCounted
<1>8. WalkInv'
  BY <1>1, <1>3, <1>5, <1>6, <1>7 DEF WalkInv
<1>9. CallersAreExact' /\ RefusedOnlyOverBudget' /\ DiffIsExact'
  BY <1>3 DEF CallersAreExact, RefusedOnlyOverBudget, DiffIsExact
<1> QED
  BY <1>1, <1>3, <1>4, <1>8, <1>9 DEF IInv
-----------------------------------------------------------------------------
(***************************************************************************)
(* A walk gives up.                                                        *)
(***************************************************************************)
LEMMA AnswerFacts ==
  ASSUME ask \in Asks, ask.action # "diff"
  PROVE  /\ IsFiniteSet(Answer)
         /\ ask.action = "changes" => Answer = UNION {LayersOf(o) : o \in Origins}
         /\ ask.action = "impact" => Answer = {e \in LayersOf("current") : e.depth > 0}
<1>1. PICK all : all = UNION {LayersOf(o) : o \in Origins}
  OBVIOUS
<1>2. Answer = IF ask.action = "impact" THEN {e \in all : e.depth > 0} ELSE all
  BY <1>1 DEF Answer, LayersOf
<1>3. IsFiniteSet(all)
  <2>1. IsFiniteSet(LayersOf("current")) /\ ("baseline" \in Origins => IsFiniteSet(LayersOf("baseline")))
    BY QueryTypes, LayerFacts
  <2>2. all = IF "baseline" \in Origins THEN LayersOf("current") \cup LayersOf("baseline")
              ELSE LayersOf("current")
    BY <1>1, QueryTypes DEF Origin
  <2> QED
    BY <2>1, <2>2, FS_Union
<1>4. IsFiniteSet(Answer)
  <2>1. Answer \in SUBSET all
    BY <1>2
  <2> QED
    BY <1>3, <2>1, FS_Subset
<1>5. ask.action = "impact" => all = LayersOf("current")
  BY <1>1 DEF Origins
<1> QED
  BY <1>1, <1>2, <1>4, <1>5

\* Only if what it was asked for is too much to read ...
LEMMA TooMuchToRead ==
  ASSUME ask \in Asks, TypeOK, WalkInv, walk.queue # <<>>, Cardinality(NextCallers) > walk.left
  PROVE  ~WithinBudgets
<1>1. /\ Cardinality(ReadSoFar \cup NextReads) = Cardinality(ReadSoFar) + Cardinality(NextCallers)
      /\ Cardinality(ReadSoFar) \in Nat /\ Cardinality(NextCallers) \in Nat
      /\ ReadSoFar \cup NextReads \in SUBSET Work /\ IsFiniteSet(Work)
  BY ReadFacts, FoundFacts
<1>2. walk.left + Cardinality(ReadSoFar) = MaxWork /\ walk.left \in 0 .. MaxWork /\ MaxWork \in Nat
  BY ConstantsAssumption DEF TypeOK, WalkInv, Counted
<1>3. Cardinality(ReadSoFar \cup NextReads) <= Cardinality(Work)
  BY <1>1, FS_Subset
<1>4. Cardinality(Work) \in Nat
  BY <1>1, FS_CardinalityType
<1>5. ~(Cardinality(Work) <= MaxWork)
  BY <1>1, <1>2, <1>3, <1>4
<1> QED
  BY <1>5 DEF WithinBudgets

\* ... or has more results than allowed.
LEMMA TooManyResults ==
  ASSUME ask \in Asks, TypeOK, WalkInv, walk.queue # <<>>, ask.action = "changes", Full
  PROVE  ~WithinBudgets
<1>1. PICK A, h : A = ToSet(walk.all) /\ h = First
  OBVIOUS
<1>2. walk.all \in Seq(Entry) /\ walk.origin \in Origins
  BY OriginIsAsked DEF TypeOK
<1>3. IsFiniteSet(A) /\ Cardinality(A) = Len(walk.all) /\ Cardinality(A) \in Nat
  <2>1. Cardinality(A) = Len(walk.all)
    BY <1>1 DEF WalkInv, Listed, Distinct
  <2> QED
    BY <1>1, <1>2, <2>1, ElementsAreFinite
<1>4. h \notin A
  <2>1. h \in ToSet(walk.queue)
    BY <1>1, FirstFacts
  <2> QED
    BY <1>1, <2>1 DEF WalkInv, Listed
<1>5. A \cup {h} \subseteq Answer /\ IsFiniteSet(Answer)
  <2>1. Answer = UNION {LayersOf(o) : o \in Origins} /\ IsFiniteSet(Answer)
    BY AnswerFacts
  <2>2. h \in LayersOf(walk.origin)
    BY <1>1, FirstFacts
  <2>3. \A e \in A : e.origin \in Origins /\ e \in LayersOf(e.origin)
    <3>1. "current" \in Origins
      BY QueryTypes
    <3> QED
      BY <1>1, <1>2, <3>1 DEF WalkInv, Listed
  <2> QED
    BY <1>2, <2>1, <2>2, <2>3
<1>6. Cardinality(A \cup {h}) = Cardinality(A) + 1
  BY <1>3, <1>4, FS_AddElement
<1>7. Cardinality(A \cup {h}) <= Cardinality(Answer)
  <2>1. A \cup {h} \in SUBSET Answer
    BY <1>5
  <2> QED
    BY <1>5, <2>1, FS_Subset
<1>8. ~(Cardinality(Answer) <= MaxResults)
  <2>1. Cardinality(Answer) \in Nat /\ MaxResults \in Nat
    BY <1>5, FS_CardinalityType, ConstantsAssumption
  <2> QED
    BY <1>3, <1>6, <1>7, <2>1 DEF Full
<1> QED
  BY <1>8 DEF WithinBudgets

LEMMA StepRefused ==
  ASSUME IInv, walk' = Refused, ask' = ask, ask.action # "diff" => ~WithinBudgets
  PROVE  IInv'
<1>1. walk \in [status : Status, origin : Origin, queue : Seq(Entry), all : Seq(Entry),
                seen : SUBSET Id, left : 0 .. MaxWork, rows : SUBSET Row]
  BY DEF IInv, TypeOK
<1>2. /\ walk' \in [status : Status, origin : Origin, queue : Seq(Entry), all : Seq(Entry),
                    seen : SUBSET Id, left : 0 .. MaxWork, rows : SUBSET Row]
      /\ walk'.status = "refused" /\ walk'.all = walk.all
  BY <1>1 DEF Refused, Status
<1>3. TypeOK'
  BY <1>2 DEF IInv, TypeOK
<1>4. RefusedOnlyOverBudget'
  <2>1. WithinBudgets' = WithinBudgets
    BY QueryIsFixed
  <2> QED
    BY <1>2, <2>1 DEF RefusedOnlyOverBudget
<1>5. CallersAreExact' /\ DiffIsExact'
  BY <1>2 DEF CallersAreExact, DiffIsExact
<1> QED
  BY <1>2, <1>3, <1>4, <1>5 DEF IInv
-----------------------------------------------------------------------------
(***************************************************************************)
(* A walk begins at the seeds.                                             *)
(***************************************************************************)
LEMMA StepBegin ==
  ASSUME IInv, walk.status = "start", ask.action \in {"impact", "changes"}, ask' = ask,
         Admitted(walk.origin),
         NEW q \in Seq(Entry), ToSet(q) = Seeded, Distinct(q),
         walk' = [walk EXCEPT !.status = "walking", !.seen = SeedsOf(walk.origin), !.queue = q]
  PROVE  IInv'
<1>1. ask \in Asks /\ TypeOK /\ StartInv
  BY DEF IInv
<1>2. walk \in [status : Status, origin : Origin, queue : Seq(Entry), all : Seq(Entry),
                seen : SUBSET Id, left : 0 .. MaxWork, rows : SUBSET Row]
  BY <1>1 DEF TypeOK
<1>3. PICK o : o = walk.origin
  OBVIOUS
<1>4. o \in Origins /\ ask.action # "diff"
  <2>1. CASE walk = Idle
    BY <1>1, <1>3, <2>1, QueryTypes DEF Idle
  <2>2. CASE walk # Idle
    BY <1>1, <1>3, <2>2, QueryTypes DEF StartInv, CurrentIsDone
  <2> QED
    BY <2>1, <2>2
<1>5. PICK S : S = SeedsOf(o)
  OBVIOUS
<1>6. /\ walk'.status = "walking" /\ walk'.seen = S /\ walk'.queue = q /\ walk'.origin = o
      /\ walk'.all = walk.all /\ walk'.left = walk.left /\ walk'.rows = walk.rows
  BY <1>2, <1>3, <1>5
<1>7. S \subseteq Id
  <2>1. IsIndex(Source(o)) /\ SeedsOf(o) \subseteq Source(o).syms
    BY <1>1, <1>4, SourceTypes
  <2> QED
    BY <1>5, <2>1 DEF IsIndex
<1>8. walk' \in [status : Status, origin : Origin, queue : Seq(Entry), all : Seq(Entry),
                 seen : SUBSET Id, left : 0 .. MaxWork, rows : SUBSET Row]
  BY <1>2, <1>3, <1>5, <1>7 DEF Status
<1>9. Seeded = {[origin |-> o, depth |-> 0, id |-> x] : x \in S}
  BY <1>3, <1>5 DEF Seeded
<1>10. Seeded' = Seeded
  <2>1. SeedsOf(o)' = SeedsOf(o)
    BY QueryIsFixed
  <2>2. Seeded' = {[origin |-> o, depth |-> 0, id |-> x] : x \in SeedsOf(o)'}
    BY <1>6 DEF Seeded, SeedsOf, Touched
  <2> QED
    BY <1>5, <1>9, <2>1, <2>2
<1>11. /\ ask.action = "impact" => ToSet(walk.all) = {} /\ walk = Idle
       /\ \A e \in ToSet(walk.all) : e.origin # o
       /\ Distinct(walk.all)
       /\ \A e \in ToSet(walk.all) : e.origin \in {"current", o} /\ e \in LayersOf(e.origin)
  <2>1. CASE walk = Idle
    <3>1. ToSet(walk.all) = {} /\ Distinct(walk.all)
      BY <2>1, NoElement DEF Idle
    <3> QED
      BY <2>1, <3>1
  <2>2. CASE walk # Idle
    BY <1>1, <1>3, <2>2 DEF StartInv, CurrentIsDone, Listed
  <2> QED
    BY <2>1, <2>2
<1>12. Reached' = ToSet(q) /\ Visited' = {}
  <2>1. Reached' = IF ask.action = "impact" THEN Seeded \cup ToSet(walk.all)
                   ELSE {e \in ToSet(walk.all) : e.origin = o} \cup ToSet(q)
    BY <1>6, <1>10 DEF Reached
  <2>2. Reached' = ToSet(q)
    BY <1>11, <2>1
  <2> QED
    BY <1>6, <2>2 DEF Visited
<1>13. /\ SeedsOf(walk.origin)' = S /\ LayersOf(walk.origin)' = LayersOf(o)
       /\ \A u : LayersOf(u)' = LayersOf(u)
  BY <1>3, <1>5, <1>6, QueryIsFixed DEF SeedsOf, LayersOf, Layers, Source, Touched
<1>14. \A e \in ToSet(q) : e.depth = 0 /\ e.origin = o
  BY <1>9
<1>15. ToSet(q) \subseteq LayersOf(o)
  <2> SUFFICES ASSUME NEW x \in S PROVE [origin |-> o, depth |-> 0, id |-> x] \in LayersOf(o)
    BY <1>9
  <2>1. x \in BallOf(o)[0] /\ 0 \in 0 .. ask.depth /\ \A n \in Nat : 0 <= n
    BY <1>1, <1>5, BallFacts, QueryTypes
  <2> QED
    BY <1>1, <1>4, <2>1, LayerFacts
<1>16. Explored'
  <2>1. S = {e.id : e \in ToSet(q)}
    <3>1. \A e \in ToSet(q) : e.id \in S
      BY <1>9
    <3>2. ASSUME NEW x \in S PROVE \E e \in ToSet(q) : e.id = x
      <4>1. PICK e : e = [origin |-> o, depth |-> 0, id |-> x]
        OBVIOUS
      <4>2. e \in ToSet(q) /\ e.id = x
        BY <1>9, <4>1
      <4> QED
        BY <4>2
    <3> QED
      BY <3>1, <3>2
  <2>2. \A i \in DOMAIN q : q[i] \in ToSet(q)
    BY DEF ToSet
  <2>3. ToSet(q) # {} => Head(q) \in ToSet(q)
    <3>1. q = <<>> => ToSet(q) = {}
      BY NoElement
    <3>2. q # <<>> => Head(q) \in ToSet(q)
      BY ElementsOfTail
    <3> QED
      BY <3>1, <3>2
  <2>4. ByDepth'
    BY <1>6, <1>12, <1>14, <2>2, <2>3 DEF ByDepth
  <2> QED
    BY <1>6, <1>12, <1>13, <1>15, <2>1, <2>4 DEF Explored
<1>17. Listed'
  <2>1. ask.action = "changes" => ToSet(walk.all) \cap ToSet(q) = {}
    BY <1>11, <1>14
  <2>2. (\A e \in ToSet(walk.all) : e.origin \in {"current", walk.origin} /\ e \in LayersOf(e.origin))'
    BY <1>6, <1>11, <1>13
  <2> QED
    BY <1>6, <1>11, <2>1, <2>2 DEF Listed, Distinct
<1>18. Counted'
  <2>1. Expanded' = {}
    BY <1>12 DEF Expanded
  <2>2. PICK V : V = {}
    OBVIOUS
  <2>3. Reads(o, V) = {}
    BY <2>2, ReadsElements
  <2>4. ReadSoFar' = IF o = "current" THEN {} ELSE ReadsOf("current")
    <3>1. Reads(walk.origin, Expanded)' = Reads(o, V)
      BY <1>6, <2>1, <2>2, QueryIsFixed DEF Reads
    <3>2. ReadsOf("current")' = ReadsOf("current")
      BY QueryIsFixed
    <3>3. ReadSoFar' = Reads(walk.origin, Expanded)' \cup (IF o = "current" THEN {} ELSE ReadsOf("current"))
      BY <1>6, <3>2 DEF ReadSoFar
    <3> QED
      BY <2>3, <3>1, <3>3
  <2>5. CASE walk = Idle
    <3>1. o = "current" /\ walk.left = MaxWork /\ Cardinality({}) = 0 /\ MaxWork \in Nat
      BY <1>3, <2>5, FS_EmptySet, ConstantsAssumption DEF Idle
    <3> QED
      BY <1>6, <2>4, <3>1 DEF Counted
  <2>6. CASE walk # Idle
    <3>1. /\ o = "baseline" /\ walk.queue = <<>> /\ Counted /\ ask.action = "changes"
      BY <1>1, <1>3, <2>6 DEF StartInv, CurrentIsDone
    <3>2. Expanded = {}
      <4>1. Reached = {e \in ToSet(walk.all) : e.origin = o} \cup {}
        BY <1>3, <3>1, NoElement DEF Reached
      <4>2. Reached = {}
        BY <1>11, <4>1
      <4> QED
        BY <4>2 DEF Visited, Expanded
    <3>3. ReadSoFar = ReadsOf("current")
      BY <1>3, <2>2, <2>3, <3>1, <3>2 DEF ReadSoFar
    <3> QED
      BY <1>6, <2>4, <3>1, <3>3 DEF Counted
  <2> QED
    BY <2>5, <2>6
<1>19. o = "baseline" => CurrentIsDone'
  <2> SUFFICES ASSUME o = "baseline" PROVE CurrentIsDone'
    OBVIOUS
  <2>1. CurrentIsDone
    BY <1>1, <1>3 DEF StartInv, Idle
  <2>2. Admitted("current")' = Admitted("current")
    BY QueryIsFixed
  <2> QED
    BY <1>6, <1>13, <2>1, <2>2 DEF CurrentIsDone
<1>20. Admitted(walk.origin)'
  BY <1>3, <1>6 DEF Admitted, Touched
<1>21. TypeOK'
  BY <1>1, <1>6, <1>8 DEF TypeOK
<1>22. CallersAreExact' /\ RefusedOnlyOverBudget' /\ DiffIsExact'
  BY <1>6 DEF CallersAreExact, RefusedOnlyOverBudget, DiffIsExact
<1> QED
  BY <1>1, <1>6, <1>16, <1>17, <1>18, <1>19, <1>20, <1>21, <1>22 DEF IInv, WalkInv
-----------------------------------------------------------------------------
(***************************************************************************)
(* A walk ends.                                                            *)
(***************************************************************************)
\* The walks over all sources have ended.
AllWalked == ask.action = "impact" \/ walk.origin = "baseline" \/ ask.baseline = None

LEMMA AnswerIsListed ==
  ASSUME ask \in Asks, TypeOK, WalkInv, walk.queue = <<>>, AllWalked
  PROVE  ToSet(walk.all) = Answer /\ Len(walk.all) = Cardinality(Answer) /\ WithinBudgets
<1>1. PICK o, A : o = walk.origin /\ A = ToSet(walk.all)
  OBVIOUS
<1>2. o \in Origins /\ ask.action # "diff" /\ o \in Origin
  BY <1>1, OriginIsAsked, QueryTypes
<1>3. Reached = LayersOf(o) /\ Reads(o, Expanded) = ReadsOf(o)
  BY <1>1, <1>2, NothingLeft DEF WalkInv
<1>4. Origins = IF o = "baseline" THEN {"current", "baseline"} ELSE {"current"}
  <2>1. CASE o = "baseline"
    BY <1>1, <2>1 DEF WalkInv, CurrentIsDone, Origins
  <2>2. CASE o # "baseline"
    BY <1>1, <2>2 DEF AllWalked, Origins
  <2> QED
    BY <2>1, <2>2
<1>5. o # "baseline" => o = "current"
  BY <1>2 DEF Origin
<1>6. A = Answer
  <2>1. CASE ask.action = "impact"
    <3>1. o = "current"
      BY <1>2, <2>1 DEF Origins
    <3>2. Answer = {e \in LayersOf("current") : e.depth > 0}
      BY <1>2, <2>1, AnswerFacts
    <3>3. LayersOf("current") = Seeded \cup A
      BY <1>1, <1>3, <2>1, <3>1 DEF Reached
    <3>4. \A e \in Seeded : ~(e.depth > 0)
      BY DEF Seeded
    <3>5. \A e \in A : e.depth > 0
      BY <1>1, <2>1 DEF WalkInv, Listed
    <3> QED
      BY <3>2, <3>3, <3>4, <3>5
  <2>2. CASE ask.action # "impact"
    <3>1. ask.action = "changes"
      BY <1>2, <2>2, QueryTypes
    <3>2. Answer = UNION {LayersOf(u) : u \in Origins}
      BY <1>2, <3>1, AnswerFacts
    <3>3. {e \in A : e.origin = o} = LayersOf(o)
      <4>1. Reached = {e \in A : e.origin = o} \cup {}
        BY <1>1, <2>2, NoElement DEF Reached
      <4> QED
        BY <1>3, <4>1
    <3>4. \A e \in A : e.origin \in {"current", o}
      BY <1>1 DEF WalkInv, Listed
    <3>5. CASE o = "baseline"
      <4>1. {e \in A : e.origin = "current"} = LayersOf("current")
        BY <1>1, <3>5 DEF WalkInv, CurrentIsDone
      <4>2. Answer = LayersOf("current") \cup LayersOf("baseline")
        BY <1>4, <3>2, <3>5
      <4> QED
        BY <3>3, <3>4, <3>5, <4>1, <4>2
    <3>6. CASE o # "baseline"
      <4>1. Answer = LayersOf("current") /\ o = "current"
        BY <1>4, <1>5, <3>2, <3>6
      <4> QED
        BY <3>3, <3>4, <4>1
    <3> QED
      BY <3>5, <3>6
  <2> QED
    BY <2>1, <2>2
<1>7. Len(walk.all) = Cardinality(Answer)
  BY <1>1, <1>6 DEF WalkInv, Listed, Distinct
<1>8. Cardinality(Work) <= MaxWork
  <2>1. Work = UNION {ReadsOf(u) : u \in Origins}
    BY DEF Work, ReadsOf, BallOf
  <2>2. ReadSoFar = ReadsOf(o) \cup (IF o = "current" THEN {} ELSE ReadsOf("current"))
    BY <1>1, <1>3 DEF ReadSoFar
  <2>3. Work = ReadSoFar
    BY <1>4, <1>5, <2>1, <2>2
  <2>4. walk.left + Cardinality(ReadSoFar) = MaxWork /\ walk.left \in 0 .. MaxWork /\ MaxWork \in Nat
    BY ConstantsAssumption DEF TypeOK, WalkInv, Counted
  <2>5. Cardinality(ReadSoFar) \in Nat
    <3>1. PICK V : V = {}
      OBVIOUS
    <3>2. \A x \in V : \E e \in LayersOf(o) : e.id = x /\ e.depth < ask.depth
      BY <3>1
    <3>3. IsFiniteSet(Work)
      BY <1>2, <3>2, ReadsBelongToWork
    <3> QED
      BY <2>3, <3>3, FS_CardinalityType
  <2> QED
    BY <2>3, <2>4, <2>5
<1>9. ask.action = "changes" =>
        /\ ask.baseline # None => ask.baseline.complete
        /\ \A u \in Origins : Cardinality(Touched(u)) <= MaxSeeds
        /\ Cardinality(Answer) <= MaxResults
  <2> SUFFICES ASSUME ask.action = "changes"
               PROVE  /\ ask.baseline # None => ask.baseline.complete
                      /\ \A u \in Origins : Cardinality(Touched(u)) <= MaxSeeds
                      /\ Cardinality(Answer) <= MaxResults
    OBVIOUS
  <2>1. /\ ask.baseline # None => ask.baseline.complete
        /\ Cardinality(Touched(o)) <= MaxSeeds
    BY <1>1 DEF WalkInv, Admitted
  <2>2. o = "baseline" => Cardinality(Touched("current")) <= MaxSeeds
    BY <1>1 DEF WalkInv, CurrentIsDone, Admitted
  <2>3. Len(walk.all) <= MaxResults
    BY DEF TypeOK
  <2> QED
    BY <1>4, <1>5, <1>7, <2>1, <2>2, <2>3
<1>10. WithinBudgets
  BY <1>8, <1>9 DEF WithinBudgets
<1> QED
  BY <1>1, <1>6, <1>7, <1>10

LEMMA StepDone ==
  ASSUME IInv, walk.status = "walking", walk.queue = <<>>, AllWalked, ask' = ask,
         walk' = [walk EXCEPT !.status = "done"]
  PROVE  IInv'
<1>1. ask \in Asks /\ TypeOK /\ WalkInv
  BY DEF IInv
<1>2. walk \in [status : Status, origin : Origin, queue : Seq(Entry), all : Seq(Entry),
                seen : SUBSET Id, left : 0 .. MaxWork, rows : SUBSET Row]
  BY <1>1 DEF TypeOK
<1>3. /\ walk' \in [status : Status, origin : Origin, queue : Seq(Entry), all : Seq(Entry),
                    seen : SUBSET Id, left : 0 .. MaxWork, rows : SUBSET Row]
      /\ walk'.status = "done" /\ walk'.all = walk.all
  BY <1>2 DEF Status
<1>4. TypeOK'
  BY <1>1, <1>3 DEF TypeOK
<1>5. ToSet(walk.all) = Answer /\ Len(walk.all) = Cardinality(Answer) /\ WithinBudgets
  BY <1>1, AnswerIsListed
<1>6. Answer' = Answer /\ WithinBudgets' = WithinBudgets
  BY QueryIsFixed
<1>7. CallersAreExact' /\ RefusedOnlyOverBudget'
  BY <1>3, <1>5, <1>6 DEF CallersAreExact, RefusedOnlyOverBudget
<1>8. DiffIsExact'
  BY <1>1 DEF DiffIsExact, WalkInv
<1> QED
  BY <1>1, <1>3, <1>4, <1>7, <1>8 DEF IInv

\* The baseline comes after the index.
LEMMA StepBaseline ==
  ASSUME IInv, walk.status = "walking", walk.queue = <<>>, ask.action = "changes",
         walk.origin = "current", ask.baseline # None, ask' = ask,
         walk' = [walk EXCEPT !.status = "start", !.origin = "baseline"]
  PROVE  IInv'
<1>1. ask \in Asks /\ TypeOK /\ WalkInv
  BY DEF IInv
<1>2. walk \in [status : Status, origin : Origin, queue : Seq(Entry), all : Seq(Entry),
                seen : SUBSET Id, left : 0 .. MaxWork, rows : SUBSET Row]
  BY <1>1 DEF TypeOK
<1>3. /\ walk' \in [status : Status, origin : Origin, queue : Seq(Entry), all : Seq(Entry),
                    seen : SUBSET Id, left : 0 .. MaxWork, rows : SUBSET Row]
      /\ walk'.status = "start" /\ walk'.origin = "baseline" /\ walk'.all = walk.all
      /\ walk'.queue = <<>> /\ walk'.left = walk.left
  BY <1>2 DEF Status, Origin
<1>4. Reached = LayersOf("current") /\ Reads("current", Expanded) = ReadsOf("current")
  BY <1>1, OriginIsAsked, NothingLeft DEF WalkInv
<1>5. \A e \in ToSet(walk.all) : e.origin = "current" /\ e \in LayersOf("current")
  BY <1>1 DEF WalkInv, Listed
<1>6. ToSet(walk.all) = LayersOf("current")
  <2>1. Reached = {e \in ToSet(walk.all) : e.origin = "current"} \cup {}
    BY NoElement DEF Reached
  <2> QED
    BY <1>4, <1>5, <2>1
<1>7. /\ \A o : LayersOf(o)' = LayersOf(o) /\ Admitted("current")' = Admitted("current")
      /\ ReadsOf("current")' = ReadsOf("current")
  BY QueryIsFixed
<1>8. CurrentIsDone'
  <2>1. Admitted("current")
    BY <1>1 DEF WalkInv
  <2>2. {e \in ToSet(walk.all) : e.origin = "current"} = LayersOf("current")
    BY <1>5, <1>6
  <2> QED
    BY <1>3, <1>7, <2>1, <2>2 DEF CurrentIsDone
<1>9. Listed'
  <2>1. (\A e \in ToSet(walk.all) : e.origin \in {"current", walk.origin} /\ e \in LayersOf(e.origin))'
    BY <1>3, <1>5, <1>7
  <2>2. Distinct(walk.all)
    BY <1>1 DEF WalkInv, Listed
  <2> QED
    BY <1>3, <2>1, <2>2, NoElement DEF Listed, Distinct
<1>10. Counted'
  <2>1. Expanded' = {}
    <3>1. Reached' = {e \in ToSet(walk.all) : e.origin = "baseline"} \cup {}
      BY <1>3, NoElement DEF Reached
    <3>2. Reached' = {}
      BY <1>5, <3>1
    <3> QED
      BY <3>2 DEF Visited, Expanded
  <2>2. PICK V : V = {}
    OBVIOUS
  <2>3. Reads(walk.origin, Expanded)' = Reads("baseline", V)
    BY <1>3, <2>1, <2>2, QueryIsFixed DEF Reads
  <2>4. Reads("baseline", V) = {}
    BY <2>2, ReadsElements
  <2>5. ReadSoFar' = Reads(walk.origin, Expanded)' \cup ReadsOf("current")
    BY <1>3, <1>7 DEF ReadSoFar
  <2>6. ReadSoFar = ReadsOf("current")
    BY <1>4 DEF ReadSoFar
  <2>7. ReadSoFar' = ReadSoFar
    BY <2>3, <2>4, <2>5, <2>6
  <2> QED
    BY <1>1, <1>3, <2>7 DEF WalkInv, Counted
<1>11. TypeOK'
  BY <1>1, <1>3 DEF TypeOK
<1>12. StartInv'
  BY <1>3, <1>5, <1>8, <1>9, <1>10 DEF StartInv
<1>13. CallersAreExact' /\ RefusedOnlyOverBudget' /\ DiffIsExact'
  BY <1>3 DEF CallersAreExact, RefusedOnlyOverBudget, DiffIsExact
<1> QED
  BY <1>1, <1>3, <1>11, <1>12, <1>13 DEF IInv
-----------------------------------------------------------------------------
(***************************************************************************)
(* A difference of two snapshots.                                          *)
(***************************************************************************)
LEMMA NamedFacts ==
  ASSUME NEW s, IsIndex(s), NEW i
  PROVE  /\ Named(s, i) \subseteq s.syms /\ Named(s, i) \subseteq Id
         /\ IsFiniteSet(Named(s, i)) /\ Count(s, i) \in Nat
         /\ Count(s, i) = 0 <=> Named(s, i) = {}
         /\ Count(s, i) = 1 <=> \E x : Named(s, i) = {x}
<1>1. Named(s, i) \in SUBSET s.syms /\ IsFiniteSet(s.syms) /\ s.syms \subseteq Id
  BY DEF Named, IsIndex
<1>2. IsFiniteSet(Named(s, i))
  BY <1>1, FS_Subset
<1>3. Count(s, i) \in Nat
  BY <1>2, FS_CardinalityType DEF Count
<1>4. Count(s, i) = 0 <=> Named(s, i) = {}
  BY <1>2, FS_EmptySet DEF Count
<1>5. Count(s, i) = 1 <=> \E x : Named(s, i) = {x}
  BY <1>2, FS_Singleton DEF Count
<1> QED
  BY <1>1, <1>2, <1>3, <1>4, <1>5

\* The rows for one name: the outer join loses and invents nothing.
LEMMA NameIsReported ==
  ASSUME IsIndex(ask.baseline), IsIndex(ask.current), NEW i \in Identity
  PROVE  {row.change : row \in {r \in SymbolChanges(ask.baseline, ask.current) : r.identity = i}}
           = SymbolChange(i)
<1>1. PICK old, new : old = ask.baseline /\ new = ask.current
  OBVIOUS
<1>2. IsIndex(old) /\ IsIndex(new)
  BY <1>1
<1>3. PICK O, N : O = Named(old, i) /\ N = Named(new, i)
  OBVIOUS
<1>4. PICK m, n : m = Count(old, i) /\ n = Count(new, i)
  OBVIOUS
<1>5. /\ m \in Nat /\ n \in Nat /\ O \subseteq Id /\ N \subseteq Id
      /\ (m = 0 <=> O = {}) /\ (n = 0 <=> N = {})
      /\ (m = 1 <=> \E x : O = {x}) /\ (n = 1 <=> \E x : N = {x})
  BY <1>2, <1>3, <1>4, NamedFacts
<1>6. None \notin O /\ None \notin N
  BY <1>5, ConstantsAssumption
<1>7. PICK SO, SN : SO = Side(old, i) /\ SN = Side(new, i)
  OBVIOUS
<1>8. SO = (IF O = {} THEN {None} ELSE O) /\ SN = (IF N = {} THEN {None} ELSE N)
  BY <1>3, <1>7 DEF Side
<1>9. PICK got : got = {row.change : row \in {r \in SymbolChanges(old, new) : r.identity = i}}
  OBVIOUS
<1>10. \A c : c \in got <=>
         /\ O \cup N # {}
         /\ \E o \in SO, x \in SN : Differ(old, new, i, o, x) /\ c = Change(old, new, i, o, x)
  <2> DEFINE rows(j) == {[identity |-> j, change |-> Change(old, new, j, on[1], on[2])] :
                           on \in {p \in Side(old, j) \X Side(new, j) : Differ(old, new, j, p[1], p[2])}}
  <2>1. SymbolChanges(old, new)
          = UNION {rows(j) : j \in {k \in Identity : Named(old, k) \cup Named(new, k) # {}}}
    BY DEF SymbolChanges
  <2>2. \A j : \A r \in rows(j) : r.identity = j
    OBVIOUS
  <2>3. \A r : r \in rows(i) <=>
          \E o \in SO, x \in SN : /\ Differ(old, new, i, o, x)
                                  /\ r = [identity |-> i, change |-> Change(old, new, i, o, x)]
    <3>1. ASSUME NEW r \in rows(i)
          PROVE  \E o \in SO, x \in SN : /\ Differ(old, new, i, o, x)
                                         /\ r = [identity |-> i, change |-> Change(old, new, i, o, x)]
      <4>1. PICK on \in SO \X SN : /\ Differ(old, new, i, on[1], on[2])
                                   /\ r = [identity |-> i, change |-> Change(old, new, i, on[1], on[2])]
        BY <1>7
      <4>2. on[1] \in SO /\ on[2] \in SN
        OBVIOUS
      <4> QED
        BY <4>1, <4>2
    <3>2. ASSUME NEW o \in SO, NEW x \in SN, Differ(old, new, i, o, x)
          PROVE  [identity |-> i, change |-> Change(old, new, i, o, x)] \in rows(i)
      <4>1. PICK on : on = <<o, x>>
        OBVIOUS
      <4>2. on \in SO \X SN /\ on[1] = o /\ on[2] = x
        BY <4>1
      <4>3. on \in {p \in Side(old, i) \X Side(new, i) : Differ(old, new, i, p[1], p[2])}
        BY <1>7, <3>2, <4>2
      <4>4. [identity |-> i, change |-> Change(old, new, i, on[1], on[2])] \in rows(i)
        BY <4>3
      <4> QED
        BY <4>2, <4>4
    <3> QED
      BY <3>1, <3>2
  <2>4. \A r : r \in SymbolChanges(old, new) /\ r.identity = i <=> O \cup N # {} /\ r \in rows(i)
    <3> HIDE DEF rows
    <3> QED
      BY <1>3, <2>1, <2>2
  <2> HIDE DEF rows
  <2>5. \A c : c \in got <=> \E r : r \in SymbolChanges(old, new) /\ r.identity = i /\ c = r.change
    BY <1>9
  <2>6. \A c : c \in got <=> O \cup N # {} /\ \E r \in rows(i) : c = r.change
    BY <2>4, <2>5
  <2>7. ASSUME NEW c, NEW o \in SO, NEW x \in SN, Differ(old, new, i, o, x), c = Change(old, new, i, o, x)
        PROVE  \E r \in rows(i) : c = r.change
    <3>1. PICK r : r = [identity |-> i, change |-> Change(old, new, i, o, x)]
      OBVIOUS
    <3>2. r \in rows(i) /\ r.change = c
      BY <2>3, <2>7, <3>1
    <3> QED
      BY <3>2
  <2>8. ASSUME NEW r \in rows(i)
        PROVE  \E o \in SO, x \in SN : Differ(old, new, i, o, x) /\ r.change = Change(old, new, i, o, x)
    BY <2>3
  <2> QED
    BY <2>6, <2>7, <2>8
<1>11. \A o, x : /\ Differ(old, new, i, o, x) <=> o = None \/ x = None \/ old.hash[o] # new.hash[x] \/ m > 1 \/ n > 1
                 /\ Change(old, new, i, o, x) = IF m > 1 \/ n > 1 THEN "ambiguous_identity"
                                                ELSE IF o = None THEN "added"
                                                ELSE IF x = None THEN "removed" ELSE "changed"
  BY <1>4 DEF Differ, Change, Count
<1>12. SymbolChange(i) = IF m > 1 \/ n > 1 THEN {"ambiguous_identity"}
                         ELSE IF m = 0 /\ n = 1 THEN {"added"}
                         ELSE IF m = 1 /\ n = 0 THEN {"removed"}
                         ELSE IF {old.hash[x] : x \in O} # {new.hash[x] : x \in N} THEN {"changed"}
                         ELSE {}
  BY <1>1, <1>3, <1>4 DEF SymbolChange
<1>13. CASE m > 1 \/ n > 1
  <2>1. O \cup N # {}
    BY <1>5, <1>13
  <2>2. \E o \in SO, x \in SN : TRUE
    BY <1>8
  <2>3. \A c : c \in got <=> c = "ambiguous_identity"
    BY <1>10, <1>11, <1>13, <2>1, <2>2
  <2>4. SymbolChange(i) = {"ambiguous_identity"}
    BY <1>12, <1>13
  <2>5. got = SymbolChange(i)
    BY <2>3, <2>4
  <2> QED
    BY <1>1, <1>9, <2>5
<1>14. CASE ~(m > 1 \/ n > 1)
  <2>1. (m = 0 \/ m = 1) /\ (n = 0 \/ n = 1)
    BY <1>5, <1>14
  <2>2. CASE m = 0 /\ n = 0
    <3>1. got = {}
      BY <1>5, <1>10, <2>2
    <3>2. SymbolChange(i) = {}
      BY <1>5, <1>12, <1>14, <2>2
    <3> QED
      BY <1>1, <1>9, <3>1, <3>2
  <2>3. CASE m = 0 /\ n = 1
    <3>1. PICK y : N = {y} /\ SN = {y} /\ SO = {None} /\ O \cup N # {} /\ y # None
      BY <1>5, <1>6, <1>8, <2>3
    <3>2. \A c : c \in got <=> c = "added"
      BY <1>10, <1>11, <1>14, <3>1
    <3>3. SymbolChange(i) = {"added"}
      BY <1>12, <1>14, <2>3
    <3>4. got = SymbolChange(i)
      BY <3>2, <3>3
    <3> QED
      BY <1>1, <1>9, <3>4
  <2>4. CASE m = 1 /\ n = 0
    <3>1. PICK y : O = {y} /\ SO = {y} /\ SN = {None} /\ O \cup N # {} /\ y # None
      BY <1>5, <1>6, <1>8, <2>4
    <3>2. \A c : c \in got <=> c = "removed"
      BY <1>10, <1>11, <1>14, <3>1
    <3>3. SymbolChange(i) = {"removed"}
      BY <1>12, <1>14, <2>4
    <3>4. got = SymbolChange(i)
      BY <3>2, <3>3
    <3> QED
      BY <1>1, <1>9, <3>4
  <2>5. CASE m = 1 /\ n = 1
    <3>1. PICK y : O = {y} /\ SO = {y} /\ y # None
      BY <1>5, <1>6, <1>8, <2>5
    <3>2. PICK z : N = {z} /\ SN = {z} /\ z # None
      BY <1>5, <1>6, <1>8, <2>5
    <3>3. \A c : c \in got <=> old.hash[y] # new.hash[z] /\ c = "changed"
      BY <1>10, <1>11, <1>14, <3>1, <3>2
    <3>4. SymbolChange(i) = IF old.hash[y] # new.hash[z] THEN {"changed"} ELSE {}
      <4>1. {old.hash[x] : x \in O} = {old.hash[y]} /\ {new.hash[x] : x \in N} = {new.hash[z]}
        BY <3>1, <3>2
      <4>2. SymbolChange(i) = IF {old.hash[x] : x \in O} # {new.hash[x] : x \in N} THEN {"changed"} ELSE {}
        BY <1>12, <1>14, <2>5
      <4> QED
        BY <4>1, <4>2
    <3>5. got = SymbolChange(i)
      BY <3>3, <3>4
    <3> QED
      BY <1>1, <1>9, <3>5
  <2> QED
    BY <2>1, <2>2, <2>3, <2>4, <2>5
<1> QED
  BY <1>13, <1>14

\* A name that no two symbols share stands for its symbol.
LEMMA EdgesAreCalls ==
  ASSUME NEW s, IsIndex(s), NEW i, NEW j, Count(s, i) <= 1, Count(s, j) <= 1
  PROVE  Edges(s, i, j) = Calls(s, <<i, j>>)
<1> DEFINE E == {c \in s.calls : c.caller \in Named(s, i) /\ c.callee \in Named(s, j)}
           C == {c \in s.calls : c.caller # None /\ s.identity[c.caller] = i /\ s.identity[c.callee] = j}
<1>1. E = C
  <2>1. \A c \in s.calls : c.caller \in s.syms \cup {None} /\ c.callee \in s.syms
    BY DEF IsIndex
  <2>2. None \notin s.syms
    BY ConstantsAssumption DEF IsIndex
  <2> QED
    BY <2>1, <2>2 DEF Named
<1>2. Calls(s, <<i, j>>) = Cardinality(C)
  BY DEF Calls
<1>3. CASE Unique(s, i) /\ Unique(s, j)
  BY <1>1, <1>2, <1>3 DEF Edges
<1>4. CASE ~(Unique(s, i) /\ Unique(s, j))
  <2>1. Count(s, i) \in Nat /\ Count(s, j) \in Nat
    BY NamedFacts
  <2>2. Count(s, i) = 0 \/ Count(s, j) = 0
    BY <1>4, <2>1 DEF Unique, Count
  <2>3. Named(s, i) = {} \/ Named(s, j) = {}
    BY <2>2, NamedFacts
  <2>4. E = {}
    BY <2>3
  <2>5. Cardinality(C) = 0
    BY <1>1, <2>4, FS_EmptySet
  <2> QED
    BY <1>2, <1>4, <2>5 DEF Edges
<1> QED
  BY <1>3, <1>4

\* The row for a pair of names.
LEMMA PairIsReported ==
  ASSUME IsIndex(ask.baseline), IsIndex(ask.current), NEW p \in Identity \X Identity,
         Matched(p[1]), Matched(p[2])
  PROVE  {row.change : row \in {r \in RelationshipChanges(ask.baseline, ask.current) : r.identity = p}}
           = RelationshipChange(p)
<1>1. PICK old, new : old = ask.baseline /\ new = ask.current
  OBVIOUS
<1>2. PICK m, n : m = Edges(old, p[1], p[2]) /\ n = Edges(new, p[1], p[2])
  OBVIOUS
<1>3. m = Calls(old, p) /\ n = Calls(new, p)
  <2>1. p = <<p[1], p[2]>>
    OBVIOUS
  <2>2. /\ Count(old, p[1]) <= 1 /\ Count(old, p[2]) <= 1
        /\ Count(new, p[1]) <= 1 /\ Count(new, p[2]) <= 1
    BY <1>1 DEF Matched
  <2>3. /\ Edges(old, p[1], p[2]) = Calls(old, <<p[1], p[2]>>)
        /\ Edges(new, p[1], p[2]) = Calls(new, <<p[1], p[2]>>)
    BY <1>1, <2>2, EdgesAreCalls
  <2> QED
    BY <1>2, <2>1, <2>3
<1>4. PICK change : change = IF m = 0 THEN "relationship_added"
                             ELSE IF n = 0 THEN "relationship_removed"
                             ELSE "relationship_count_changed"
  OBVIOUS
<1>5. RelationshipChange(p) = IF m = n THEN {} ELSE {change}
  BY <1>1, <1>3, <1>4 DEF RelationshipChange
<1>6. \A r : r \in RelationshipChanges(old, new) /\ r.identity = p
               <=> m # n /\ r = [identity |-> p, change |-> change]
  <2> DEFINE row(q) == [identity |-> q,
                        change |-> IF Edges(old, q[1], q[2]) = 0 THEN "relationship_added"
                                   ELSE IF Edges(new, q[1], q[2]) = 0 THEN "relationship_removed"
                                   ELSE "relationship_count_changed"]
  <2>1. \A r : r \in RelationshipChanges(old, new)
                 <=> \E q \in Identity \X Identity :
                       Edges(old, q[1], q[2]) # Edges(new, q[1], q[2]) /\ r = row(q)
    BY DEF RelationshipChanges
  <2>2. \A q : row(q).identity = q
    OBVIOUS
  <2>3. row(p) = [identity |-> p, change |-> change]
    BY <1>2, <1>4
  <2> HIDE DEF row
  <2> QED
    BY <1>2, <2>1, <2>2, <2>3
<1>7. PICK R : R = {r \in RelationshipChanges(old, new) : r.identity = p}
  OBVIOUS
<1>8. {row.change : row \in R} = IF m = n THEN {} ELSE {change}
  <2>1. PICK r : r = [identity |-> p, change |-> change]
    OBVIOUS
  <2>2. r.change = change
    BY <2>1
  <2>3. R = IF m = n THEN {} ELSE {r}
    BY <1>6, <1>7, <2>1
  <2> QED
    BY <2>2, <2>3
<1> QED
  BY <1>1, <1>5, <1>7, <1>8

\* Rows for names and rows for pairs of names do not mix.
LEMMA RowsOfDifferences ==
  ASSUME NEW old, NEW new
  PROVE  /\ SymbolChanges(old, new) \subseteq Row /\ RelationshipChanges(old, new) \subseteq Row
         /\ \A r \in SymbolChanges(old, new) : r.identity \in Identity
         /\ \A r \in RelationshipChanges(old, new) : r.identity \in Identity \X Identity
<1>1. ASSUME NEW r \in SymbolChanges(old, new) PROVE r \in Row /\ r.identity \in Identity
  <2>1. PICK i \in Identity : \E on \in Side(old, i) \X Side(new, i) :
                                r = [identity |-> i, change |-> Change(old, new, i, on[1], on[2])]
    BY <1>1 DEF SymbolChanges
  <2>2. PICK on : r = [identity |-> i, change |-> Change(old, new, i, on[1], on[2])]
    BY <2>1
  <2>3. Change(old, new, i, on[1], on[2]) \in {"added", "removed", "changed", "ambiguous_identity"}
    BY DEF Change
  <2> QED
    BY <2>2, <2>3 DEF Row
<1>2. ASSUME NEW r \in RelationshipChanges(old, new) PROVE r \in Row /\ r.identity \in Identity \X Identity
  <2>1. PICK p \in Identity \X Identity :
          r = [identity |-> p,
               change |-> IF Edges(old, p[1], p[2]) = 0 THEN "relationship_added"
                          ELSE IF Edges(new, p[1], p[2]) = 0 THEN "relationship_removed"
                          ELSE "relationship_count_changed"]
    BY <1>2 DEF RelationshipChanges
  <2> QED
    BY <2>1 DEF Row
<1> QED
  BY <1>1, <1>2
-----------------------------------------------------------------------------
(***************************************************************************)
(* Every action keeps the invariant.                                       *)
(***************************************************************************)
LEMMA OriginToBegin ==
  ASSUME ask \in Asks, StartInv, ask.action # "diff"
  PROVE  walk.origin \in Origins /\ (ask.action = "impact" => walk = Idle)
<1>1. CASE walk = Idle
  BY <1>1, QueryTypes DEF Idle
<1>2. CASE walk # Idle
  BY <1>2, QueryTypes DEF StartInv, CurrentIsDone
<1> QED
  BY <1>1, <1>2

LEMMA BeginImpactStep ==
  ASSUME IInv, BeginImpact
  PROVE  IInv'
<1>1. ask \in Asks /\ StartInv /\ ask.action = "impact" /\ walk.status = "start" /\ ask' = ask
  BY DEF IInv, BeginImpact
<1>2. walk.origin = "current"
  BY <1>1, OriginToBegin DEF Idle
<1>3. PICK e : e = [origin |-> "current", depth |-> 0, id |-> ask.seed]
  OBVIOUS
<1>4. e \in Entry
  <2>1. ask.seed \in ask.current.syms
    BY <1>1, ConstantsAssumption
  <2>2. ask.seed \in Id
    BY <1>1, <2>1, QueryTypes DEF IsIndex
  <2> QED
    BY <1>3, <2>2 DEF Entry, Origin
<1>5. PICK q \in Seq(Entry) : q = <<e>> /\ ToSet(q) = {e} /\ Distinct(q)
  BY <1>4, OneElement
<1>6. SeedsOf(walk.origin) = {ask.seed}
  BY <1>1 DEF SeedsOf
<1>7. ToSet(q) = Seeded
  BY <1>2, <1>3, <1>5, <1>6 DEF Seeded
<1>8. walk' = [walk EXCEPT !.status = "walking", !.seen = SeedsOf(walk.origin), !.queue = q]
  BY <1>3, <1>5, <1>6 DEF BeginImpact
<1>9. Admitted(walk.origin)
  BY <1>1 DEF Admitted
<1> QED
  BY <1>1, <1>5, <1>7, <1>8, <1>9, StepBegin

LEMMA BeginChangesStep ==
  ASSUME IInv, BeginChanges
  PROVE  IInv'
<1>1. ask \in Asks /\ StartInv /\ ask.action = "changes" /\ walk.status = "start" /\ ask' = ask
  BY DEF IInv, BeginChanges
<1>2. PICK o \in Origins : o = walk.origin
  BY <1>1, OriginToBegin
<1>3. PICK T : T = Touched(o)
  OBVIOUS
<1>4. SeedsOf(o) = T
  BY <1>1, <1>3 DEF SeedsOf
<1>5. T \subseteq Id /\ IsFiniteSet(T) /\ Cardinality(T) \in Nat
  <2>1. IsIndex(Source(o)) /\ T \in SUBSET Source(o).syms
    BY <1>1, <1>4, SourceTypes
  <2>2. IsFiniteSet(Source(o).syms) /\ Source(o).syms \subseteq Id
    BY <2>1 DEF IsIndex
  <2>3. IsFiniteSet(T)
    BY <2>1, <2>2, FS_Subset
  <2> QED
    BY <2>1, <2>2, <2>3, FS_CardinalityType
<1>6. CASE (ask.baseline # None /\ ~ask.baseline.complete) \/ Cardinality(Touched(walk.origin)) > MaxSeeds
  <2>1. walk' = Refused
    BY <1>6 DEF BeginChanges
  <2>2. ~WithinBudgets
    <3>1. CASE ask.baseline # None /\ ~ask.baseline.complete
      BY <1>1, <3>1 DEF WithinBudgets
    <3>2. CASE Cardinality(Touched(walk.origin)) > MaxSeeds
      <4>1. ~(Cardinality(Touched(o)) <= MaxSeeds)
        BY <1>2, <1>3, <1>5, <3>2, ConstantsAssumption
      <4> QED
        BY <1>1, <4>1 DEF WithinBudgets
    <3> QED
      BY <1>6, <3>1, <3>2
  <2> QED
    BY <1>1, <2>1, <2>2, StepRefused
<1>7. CASE ~((ask.baseline # None /\ ~ask.baseline.complete) \/ Cardinality(Touched(walk.origin)) > MaxSeeds)
  <2>1. PICK q : q = LET ids == Ascending(T)
                     IN  [i \in DOMAIN ids |-> [origin |-> o, depth |-> 0, id |-> ids[i]]]
    OBVIOUS
  <2>2. /\ q \in Seq(Entry) /\ Distinct(q)
        /\ ToSet(q) = {[origin |-> o, depth |-> 0, id |-> x] : x \in T}
    BY <1>1, <1>5, <2>1, QueryTypes, EntriesOfIds
  <2>3. ToSet(q) = Seeded
    BY <1>2, <1>4, <2>2 DEF Seeded
  <2>4. Admitted(walk.origin)
    <3>1. Cardinality(Touched(walk.origin)) <= MaxSeeds
      BY <1>2, <1>3, <1>5, <1>7, ConstantsAssumption
    <3> QED
      BY <1>7, <3>1 DEF Admitted
  <2>5. walk' = [walk EXCEPT !.status = "walking", !.seen = SeedsOf(walk.origin), !.queue = q]
    <3>1. walk' = [walk EXCEPT !.status = "walking", !.seen = T, !.left = walk.left, !.queue = q]
      BY <1>2, <1>3, <1>7, <2>1 DEF BeginChanges, Budget
    <3>2. walk \in [status : Status, origin : Origin, queue : Seq(Entry), all : Seq(Entry),
                    seen : SUBSET Id, left : 0 .. MaxWork, rows : SUBSET Row]
      BY DEF IInv, TypeOK
    <3> QED
      BY <1>2, <1>4, <3>1, <3>2
  <2> QED
    BY <1>1, <2>2, <2>3, <2>4, <2>5, StepBegin
<1> QED
  BY <1>6, <1>7

\* A visit exceeds the budget or leaves what it should.
LEMMA VisitOutcome ==
  ASSUME ask \in Asks, TypeOK, WalkInv, walk.queue # <<>>, NEW results,
         results = IF ask.action = "impact" THEN "found" ELSE "visited", Visit(results)
  PROVE  \/ walk' = Refused /\ ~WithinBudgets
         \/ VisitLeaves /\ Cardinality(NextCallers) <= walk.left
<1>1. PICK C : C = NextCallers
  OBVIOUS
<1>2. walk' = IF Cardinality(C) > walk.left THEN Refused
              ELSE [walk EXCEPT !.queue = Tail(@) \o Found(C),
                                !.seen = SeenWith(C),
                                !.left = @ - Cardinality(C),
                                !.all = @ \o (IF results = "found" THEN Found(C) ELSE <<First>>)]
  BY <1>1 DEF Visit, NextCallers, First
<1>3. Cardinality(C) \in Nat /\ walk.left \in 0 .. MaxWork /\ MaxWork \in Nat
  BY <1>1, FoundFacts, ConstantsAssumption DEF TypeOK
<1>4. CASE Cardinality(C) > walk.left
  BY <1>1, <1>2, <1>4, TooMuchToRead
<1>5. CASE ~(Cardinality(C) > walk.left)
  <2>1. results = "found" <=> ask.action = "impact"
    OBVIOUS
  <2>2. SeenWith(C) = walk.seen \cup C
    BY DEF SeenWith
  <2>3. VisitLeaves
    BY <1>1, <1>2, <1>5, <2>1, <2>2 DEF VisitLeaves
  <2>4. Cardinality(NextCallers) <= walk.left
    BY <1>1, <1>3, <1>5
  <2> QED
    BY <2>3, <2>4
<1> QED
  BY <1>4, <1>5

LEMMA VisitForImpactStep ==
  ASSUME IInv, VisitForImpact
  PROVE  IInv'
<1>1. /\ ask \in Asks /\ TypeOK /\ WalkInv /\ ask.action = "impact" /\ ask' = ask
      /\ walk.status = "walking" /\ walk.queue # <<>> /\ Visit("found")
  BY DEF IInv, VisitForImpact
<1>2. \/ walk' = Refused /\ ~WithinBudgets
      \/ VisitLeaves /\ Cardinality(NextCallers) <= walk.left
  BY <1>1, VisitOutcome
<1> QED
  BY <1>1, <1>2, StepRefused, StepVisit

LEMMA VisitForChangesStep ==
  ASSUME IInv, VisitForChanges
  PROVE  IInv'
<1>1. /\ ask \in Asks /\ TypeOK /\ WalkInv /\ ask.action = "changes" /\ ask' = ask
      /\ walk.status = "walking" /\ walk.queue # <<>>
  BY DEF IInv, VisitForChanges
<1>2. CASE Full
  <2>1. walk' = Refused
    BY <1>2 DEF VisitForChanges
  <2> QED
    BY <1>1, <1>2, <2>1, TooManyResults, StepRefused
<1>3. CASE ~Full
  <2>1. Visit("visited")
    BY <1>3 DEF VisitForChanges
  <2>2. Len(walk.all) + 1 <= MaxResults
    <3>1. walk.all \in Seq(Entry) /\ MaxResults \in Nat
      BY <1>1, ConstantsAssumption DEF TypeOK
    <3> QED
      BY <1>3, <3>1 DEF Full
  <2>3. \/ walk' = Refused /\ ~WithinBudgets
        \/ VisitLeaves /\ Cardinality(NextCallers) <= walk.left
    BY <1>1, <2>1, VisitOutcome
  <2> QED
    BY <1>1, <2>2, <2>3, StepRefused, StepVisit
<1> QED
  BY <1>2, <1>3

LEMMA EndImpactStep ==
  ASSUME IInv, EndImpact
  PROVE  IInv'
<1>1. /\ walk.status = "walking" /\ walk.queue = <<>> /\ ask.action = "impact" /\ ask' = ask
      /\ walk' = [walk EXCEPT !.status = "done"]
  BY DEF EndImpact
<1> QED
  BY <1>1, StepDone DEF AllWalked

LEMMA EndOriginStep ==
  ASSUME IInv, EndOrigin
  PROVE  IInv'
<1>1. walk.status = "walking" /\ walk.queue = <<>> /\ ask.action = "changes" /\ ask' = ask
  BY DEF EndOrigin
<1>2. CASE walk.origin = "current" /\ ask.baseline # None
  <2>1. walk' = [walk EXCEPT !.status = "start", !.origin = "baseline"]
    BY <1>2 DEF EndOrigin
  <2> QED
    BY <1>1, <1>2, <2>1, StepBaseline
<1>3. CASE ~(walk.origin = "current" /\ ask.baseline # None)
  <2>1. walk' = [walk EXCEPT !.status = "done"]
    BY <1>3 DEF EndOrigin
  <2>2. walk.origin \in {"current", "baseline"}
    BY DEF IInv, TypeOK, Origin
  <2>3. AllWalked
    BY <1>3, <2>2 DEF AllWalked
  <2> QED
    BY <1>1, <2>1, <2>3, StepDone
<1> QED
  BY <1>2, <1>3

LEMMA DiffStep ==
  ASSUME IInv, Diff
  PROVE  IInv'
<1>1. ask \in Asks /\ TypeOK /\ ask.action = "diff" /\ ask' = ask
  BY DEF IInv, Diff
<1>2. CASE ~Comparable
  <2>1. walk' = Refused
    BY <1>2 DEF Diff
  <2> QED
    BY <1>1, <2>1, StepRefused
<1>3. CASE Comparable
  <2>1. PICK S, P : S = SymbolChanges(ask.baseline, ask.current)
                    /\ P = RelationshipChanges(ask.baseline, ask.current)
    OBVIOUS
  <2>2. walk' = [walk EXCEPT !.status = "done", !.rows = S \cup P]
    BY <1>3, <2>1 DEF Diff
  <2>3. S \subseteq Row /\ P \subseteq Row
    BY <2>1, RowsOfDifferences
  <2>4. walk \in [status : Status, origin : Origin, queue : Seq(Entry), all : Seq(Entry),
                  seen : SUBSET Id, left : 0 .. MaxWork, rows : SUBSET Row]
    BY <1>1 DEF TypeOK
  <2>5. /\ walk' \in [status : Status, origin : Origin, queue : Seq(Entry), all : Seq(Entry),
                      seen : SUBSET Id, left : 0 .. MaxWork, rows : SUBSET Row]
        /\ walk'.status = "done" /\ walk'.rows = S \cup P
    BY <2>2, <2>3, <2>4 DEF Status
  <2>6. IsIndex(ask.baseline) /\ IsIndex(ask.current)
    BY <1>1, <1>3, QueryTypes DEF Comparable
  <2>7. ASSUME NEW i \in Identity PROVE Reported(i)' = SymbolChange(i)'
    <3>1. Reported(i)' = {row.change : row \in {r \in S \cup P : r.identity = i}}
      BY <2>5 DEF Reported
    <3>2. \A r \in P : r.identity # i
      BY <2>1, RowsOfDifferences, ConstantsAssumption
    <3>3. {r \in S \cup P : r.identity = i} = {r \in S : r.identity = i}
      BY <3>2
    <3>4. {row.change : row \in {r \in S : r.identity = i}} = SymbolChange(i)
      BY <2>1, <2>6, NameIsReported
    <3>5. SymbolChange(i)' = SymbolChange(i)
      BY <1>1 DEF SymbolChange
    <3> QED
      BY <3>1, <3>3, <3>4, <3>5
  <2>8. ASSUME NEW p \in Identity \X Identity, Matched(p[1])', Matched(p[2])'
        PROVE  Reported(p)' = RelationshipChange(p)'
    <3>1. Reported(p)' = {row.change : row \in {r \in S \cup P : r.identity = p}}
      BY <2>5 DEF Reported
    <3>2. \A r \in S : r.identity # p
      BY <2>1, RowsOfDifferences, ConstantsAssumption
    <3>3. {r \in S \cup P : r.identity = p} = {r \in P : r.identity = p}
      BY <3>2
    <3>4. Matched(p[1]) /\ Matched(p[2])
      BY <1>1, <2>8 DEF Matched
    <3>5. {row.change : row \in {r \in P : r.identity = p}} = RelationshipChange(p)
      BY <2>1, <2>6, <3>4, PairIsReported
    <3>6. RelationshipChange(p)' = RelationshipChange(p)
      BY <1>1 DEF RelationshipChange
    <3> QED
      BY <3>1, <3>3, <3>5, <3>6
  <2>9. DiffIsExact'
    BY <2>7, <2>8 DEF DiffIsExact
  <2>10. TypeOK'
    BY <1>1, <2>5 DEF TypeOK
  <2>11. CallersAreExact' /\ RefusedOnlyOverBudget'
    BY <1>1 DEF CallersAreExact, RefusedOnlyOverBudget
  <2> QED
    BY <1>1, <2>5, <2>9, <2>10, <2>11 DEF IInv
<1> QED
  BY <1>2, <1>3

LEMMA InitInvariant == Init => IInv
<1> SUFFICES ASSUME Init PROVE IInv
  OBVIOUS
<1>1. ask \in Asks /\ walk = Idle
  BY DEF Init
<1>2. walk.status = "start" /\ StartInv /\ walk.all = <<>> /\ Len(walk.all) = 0
  BY <1>1 DEF Idle, StartInv
<1>3. TypeOK
  <2>1. MaxWork \in 0 .. MaxWork /\ 0 <= MaxResults
    BY ConstantsAssumption
  <2> QED
    BY <1>1, <1>2, <2>1 DEF TypeOK, Idle, Status, Origin
<1> QED
  BY <1>1, <1>2, <1>3 DEF IInv, CallersAreExact, RefusedOnlyOverBudget, DiffIsExact

LEMMA InvariantIsOfState ==
  ASSUME IInv, UNCHANGED vars
  PROVE  IInv'
<1>1. ask' = ask /\ walk' = walk
  BY DEF vars
<1>2. /\ \A o : Source(o)' = Source(o) /\ SeedsOf(o)' = SeedsOf(o)
      /\ \A o : LayersOf(o)' = LayersOf(o) /\ ReadsOf(o)' = ReadsOf(o) /\ Admitted(o)' = Admitted(o)
      /\ \A o, V : Reads(o, V)' = Reads(o, V)
      /\ Answer' = Answer /\ WithinBudgets' = WithinBudgets
  BY <1>1, QueryIsFixed
<1>3. TypeOK' /\ CallersAreExact' /\ RefusedOnlyOverBudget'
  BY <1>1, <1>2 DEF IInv, TypeOK, CallersAreExact, RefusedOnlyOverBudget
<1>4. DiffIsExact'
  <2>1. DiffIsExact
    BY DEF IInv
  <2>2. \A x : Reported(x)' = Reported(x)
    BY <1>1 DEF Reported
  <2>3. /\ \A i : SymbolChange(i)' = SymbolChange(i) /\ Matched(i)' = Matched(i)
        /\ \A p : RelationshipChange(p)' = RelationshipChange(p)
    BY <1>1 DEF SymbolChange, Matched, RelationshipChange
  <2> QED
    BY <1>1, <2>1, <2>2, <2>3 DEF DiffIsExact
<1>5. Seeded' = Seeded
  BY <1>1, <1>2 DEF Seeded, SeedsOf, Touched
<1>6. Reached' = Reached
  BY <1>1, <1>5 DEF Reached
<1>7. Visited' = Visited
  BY <1>1, <1>6 DEF Visited
<1>8. Expanded' = Expanded
  BY <1>1, <1>7 DEF Expanded
<1>9. ReadSoFar' = ReadSoFar
  <2>1. Reads(walk.origin, Expanded)' = Reads(walk.origin, Expanded)
    BY <1>1, <1>8 DEF Reads, Source
  <2>2. ReadsOf("current")' = ReadsOf("current")
    BY <1>2
  <2> QED
    BY <1>1, <2>1, <2>2 DEF ReadSoFar
<1>10. Counted' = Counted
  BY <1>1, <1>9 DEF Counted
<1>11. Listed' = Listed
  <2>1. (\A e \in ToSet(walk.all) : e.origin \in {"current", walk.origin} /\ e \in LayersOf(e.origin))'
          = (\A e \in ToSet(walk.all) : e.origin \in {"current", walk.origin} /\ e \in LayersOf(e.origin))
    BY <1>1, <1>2
  <2> QED
    BY <1>1, <2>1 DEF Listed
<1>12. CurrentIsDone' = CurrentIsDone
  <2>1. Admitted("current")' = Admitted("current") /\ LayersOf("current")' = LayersOf("current")
    BY <1>2
  <2> QED
    BY <1>1, <2>1 DEF CurrentIsDone
<1>13. Explored' = Explored
  <2>1. ByDepth' = ByDepth
    BY <1>1, <1>7 DEF ByDepth
  <2>2. /\ SeedsOf(walk.origin)' = SeedsOf(walk.origin) /\ Source(walk.origin)' = Source(walk.origin)
        /\ LayersOf(walk.origin)' = LayersOf(walk.origin)
    BY <1>1 DEF SeedsOf, Touched, Source, LayersOf, Layers
  <2> QED
    BY <1>1, <1>6, <1>7, <2>1, <2>2 DEF Explored
<1>14. StartInv' = StartInv
  BY <1>1, <1>10, <1>11, <1>12 DEF StartInv
<1>15. WalkInv' = WalkInv
  <2>1. Admitted(walk.origin)' = Admitted(walk.origin)
    BY <1>1 DEF Admitted, Touched
  <2> QED
    BY <1>1, <1>10, <1>11, <1>12, <1>13, <2>1 DEF WalkInv
<1> QED
  BY <1>1, <1>3, <1>4, <1>14, <1>15 DEF IInv

LEMMA StepInvariant == IInv /\ [Next]_vars => IInv'
  BY BeginImpactStep, VisitForImpactStep, EndImpactStep, BeginChangesStep, VisitForChangesStep,
     EndOriginStep, DiffStep, InvariantIsOfState DEF Next

LEMMA Invariance == Spec => []IInv
<1>1. Init => IInv
  BY InitInvariant
<1>2. IInv /\ [Next]_vars => IInv'
  BY StepInvariant
<1> QED
  BY <1>1, <1>2, PTL DEF Spec

\* The types, and the budgets of the queue and of the results.
THEOREM TypeCorrectness == Spec => []TypeOK
<1>1. IInv => TypeOK
  BY DEF IInv
<1> QED
  BY <1>1, Invariance, PTL

\* impact and changes answer with exactly the symbols within the asked depth, each once and at
\* its least distance (Store::impact_ids, changed_impact), whatever the calls form.
THEOREM WalksAreExact == Spec => []CallersAreExact
<1>1. IInv => CallersAreExact
  BY DEF IInv
<1> QED
  BY <1>1, Invariance, PTL

\* They give up only if the answer, or the calls to read for it, exceed the budgets; both walks
\* of changes share one budget.
THEOREM RefusalsAreJustified == Spec => []RefusedOnlyOverBudget
<1>1. IInv => RefusedOnlyOverBudget
  BY DEF IInv
<1> QED
  BY <1>1, Invariance, PTL

\* diff reports of every name what its symbols require, and of every pair of unambiguous names
\* how the number of their calls changed (Store::snapshot_diff).
THEOREM DiffsAreExact == Spec => []DiffIsExact
<1>1. IInv => DiffIsExact
  BY DEF IInv
<1> QED
  BY <1>1, Invariance, PTL
=============================================================================
