--------------------------- MODULE PagedQueriesProofs ---------------------------
(***************************************************************************)
(* Following cursors yields the result, for any queries, limits, contents, *)
(* row sizes, page sizes and number of publications.                       *)
(***************************************************************************)
EXTENDS PagedQueriesProps, FiniteSetTheorems, SequenceTheorems,
        WellFoundedInduction, TLAPS

(***************************************************************************)
(* The inductive invariant.  A cursor that will be accepted comes from the *)
(* generation the index has now, and the rows of that generation can be    *)
(* ordered in one way only: the next page is cut from the same sequence.   *)
(***************************************************************************)
Collected(c) ==
  /\ Len(c.got) <= Len(c.order)
  /\ c.got = SubSeq(c.order, 1, Len(c.got))
  /\ c.cursor = None => c.got = c.order
  /\ c.cursor # None => c.cursor.offset = Len(c.got)

Advanced(c) == c.cursor # None => c.pages <= Len(c.got)

CutFromTheIndex(c, r) ==
  c.cursor # None /\ c.cursor.generation = db.generation =>
    c.order \in Orders(db.content[c.cursor.query][r])

IInv ==
  /\ TypeOK
  /\ \A r \in Relation :
       Collected(chain[r]) /\ Advanced(chain[r]) /\ CutFromTheIndex(chain[r], r)
-----------------------------------------------------------------------------
Less == OpToRel(<, Nat)

LEMMA LeastNatural ==
  ASSUME NEW T, T \subseteq Nat, T # {}
  PROVE  \E m \in T : \A n \in T : m <= n
<1>1. IsWellFoundedOn(Less, Nat)
  BY NatLessThanWellFounded DEF Less
<1>2. PICK m \in T : \A n \in T : ~(<<n, m>> \in Less)
  BY <1>1, WFMin
<1>3. \A k, n \in Nat : <<k, n>> \in Less <=> k < n
  BY DEF Less, OpToRel
<1>4. \A n \in T : ~(n < m)
  BY <1>2, <1>3
<1> QED
  BY <1>4

\* A bounded set of numbers that is not empty has its Max as an element.
LEMMA MaxIsElement ==
  ASSUME NEW S, S \subseteq Nat, S # {}, NEW n \in Nat, \A x \in S : x <= n
  PROVE  Max(S) \in S
<1> DEFINE bounds == {m \in Nat : \A x \in S : x <= m}
<1>1. PICK m \in bounds : \A k \in bounds : m <= k
  <2>1. bounds \subseteq Nat /\ n \in bounds
    OBVIOUS
  <2> QED
    BY <2>1, LeastNatural
<1>2. m \in S
  <2> SUFFICES ASSUME m \notin S PROVE FALSE
    OBVIOUS
  <2>1. \A x \in S : x <= m - 1
    OBVIOUS
  <2>2. PICK x \in S : TRUE
    OBVIOUS
  <2>3. m - 1 \in Nat
    BY <2>1, <2>2
  <2>4. m - 1 \in bounds
    BY <2>1, <2>3
  <2> QED
    BY <1>1, <2>4
<1>3. \E x \in S : \A y \in S : x >= y
  BY <1>2
<1> QED
  BY <1>3 DEF Max
-----------------------------------------------------------------------------
(***************************************************************************)
(* The order of the rows.                                                  *)
(***************************************************************************)

\* An order lists every row exactly once.
LEMMA OrderListsRows ==
  ASSUME NEW S, S \subseteq Row, NEW s \in Orders(S)
  PROVE  /\ Cardinality(S) \in Nat
         /\ s \in [1 .. Cardinality(S) -> S]
         /\ \A i, j \in 1 .. Cardinality(S) : i # j => s[i] # s[j]
         /\ \A i \in 1 .. Cardinality(S), j \in 1 .. Cardinality(S) :
              j < i => ~Before(s[i], s[j])
         /\ \A x \in S : \E i \in 1 .. Cardinality(S) : s[i] = x
<1> DEFINE n == Cardinality(S)
<1>1. IsFiniteSet(S) /\ n \in Nat
  BY FS_Subset, FS_CardinalityType, ConstantsAssumption
<1>2. s \in SetToSeqs(S) /\ \A j \in DOMAIN s : \A i \in 1 .. j - 1 : ~Before(s[j], s[i])
  BY DEF Orders
<1>3. s \in [1 .. n -> S] /\ \A i, j \in 1 .. n : i # j => s[i] # s[j]
  BY <1>2 DEF SetToSeqs
<1>4. \A i \in 1 .. n, j \in 1 .. n : j < i => ~Before(s[i], s[j])
  <2>1. \A i, j \in 1 .. n : j < i => j \in 1 .. i - 1
    BY <1>1
  <2> QED
    BY <1>2, <1>3, <2>1
<1>5. s \in Injection(1 .. n, S)
  BY <1>3 DEF Injection, IsInjective
<1>6. IsFiniteSet(1 .. n) /\ Cardinality(1 .. n) = n
  BY <1>1, FS_Interval
<1>7. s \in Surjection(1 .. n, S)
  BY <1>1, <1>5, <1>6, FS_Injection
<1>8. \A x \in S : \E i \in 1 .. n : s[i] = x
  BY <1>7 DEF Surjection
<1> QED
  BY <1>1, <1>3, <1>4, <1>8

\* ORDER BY path, line, id leaves SQLite no choice: two requests to one
\* generation see one sequence.
LEMMA OrderIsUnique ==
  ASSUME NEW S, S \subseteq Row, NEW s \in Orders(S), NEW t \in Orders(S)
  PROVE  s = t
<1> DEFINE n == Cardinality(S)
           differ == {k \in 1 .. n : s[k] # t[k]}
<1>1. /\ n \in Nat /\ s \in [1 .. n -> S] /\ t \in [1 .. n -> S]
      /\ \A i, j \in 1 .. n : i # j => s[i] # s[j]
      /\ \A i, j \in 1 .. n : i # j => t[i] # t[j]
  <2>1. n \in Nat /\ s \in [1 .. n -> S] /\ \A i, j \in 1 .. n : i # j => s[i] # s[j]
    BY OrderListsRows
  <2>2. t \in [1 .. n -> S] /\ \A i, j \in 1 .. n : i # j => t[i] # t[j]
    BY OrderListsRows
  <2> QED
    BY <2>1, <2>2
<1>2. /\ \A i \in 1 .. n, j \in 1 .. n : j < i => ~Before(s[i], s[j])
      /\ \A i \in 1 .. n, j \in 1 .. n : j < i => ~Before(t[i], t[j])
  <2>1. \A i \in 1 .. n, j \in 1 .. n : j < i => ~Before(s[i], s[j])
    BY OrderListsRows
  <2>2. \A i \in 1 .. n, j \in 1 .. n : j < i => ~Before(t[i], t[j])
    BY OrderListsRows
  <2> QED
    BY <2>1, <2>2
<1>3. /\ \A x \in S : \E i \in 1 .. n : s[i] = x
      /\ \A x \in S : \E i \in 1 .. n : t[i] = x
  <2>1. \A x \in S : \E i \in 1 .. n : s[i] = x
    BY OrderListsRows
  <2>2. \A x \in S : \E i \in 1 .. n : t[i] = x
    BY OrderListsRows
  <2> QED
    BY <2>1, <2>2
<1>4. SUFFICES ASSUME differ # {} PROVE FALSE
  BY <1>1
<1>5. differ \subseteq Nat
  BY <1>1
<1> HIDE DEF differ
<1>6. PICK k \in differ : \A j \in differ : k <= j
  BY <1>4, <1>5, LeastNatural
<1>7. k \in 1 .. n /\ s[k] # t[k]
  BY <1>6 DEF differ
<1>8. \A j \in 1 .. n : j < k => s[j] = t[j]
  BY <1>1, <1>6, <1>7 DEF differ
<1>9. s[k] \in S /\ t[k] \in S
  BY <1>1, <1>7
<1>10. PICK j \in 1 .. n : t[j] = s[k]
  BY <1>3, <1>9
<1>11. PICK i \in 1 .. n : s[i] = t[k]
  BY <1>3, <1>9
<1>12. k < j /\ k < i
  BY <1>1, <1>7, <1>8, <1>10, <1>11
<1>13. ~Before(s[k], t[k]) /\ ~Before(t[k], s[k])
  BY <1>2, <1>7, <1>10, <1>11, <1>12
<1>14. \A x, y \in Row : x # y => Before(x, y) \/ Before(y, x)
  BY ConstantsAssumption DEF Before
<1> QED
  BY <1>7, <1>9, <1>13, <1>14

\* An order is a sequence of rows.
LEMMA OrderIsSequence ==
  ASSUME NEW S, S \subseteq Row, NEW s \in Orders(S)
  PROVE  s \in Seq(Row)
<1>1. Cardinality(S) \in Nat /\ s \in [1 .. Cardinality(S) -> S]
  BY OrderListsRows
<1>2. s \in [1 .. Cardinality(S) -> Row]
  BY <1>1
<1> QED
  BY <1>1, <1>2, SeqDef
-----------------------------------------------------------------------------
(***************************************************************************)
(* One page.                                                               *)
(***************************************************************************)

\* What is kept of the selected rows: some, within the limit.
LEMMA FittingIsWithinLimit ==
  ASSUME NEW rows \in Seq(Row), NEW limit \in Nat
  PROVE  Fitting(rows, limit) \in 0 .. Len(rows) /\ Fitting(rows, limit) <= limit
<1> DEFINE fits == {n \in 0 .. Len(rows) : n <= limit /\ Bytes(SubSeq(rows, 1, n)) <= PageBytes}
<1>1. Bytes(SubSeq(rows, 1, 0)) <= PageBytes
  <2>1. SubSeq(rows, 1, 0) = <<>>
    BY SubSeqEmpty
  <2>2. Bytes(<<>>) <= PageBytes
    BY ConstantsAssumption
  <2> QED
    BY <2>1, <2>2
<1>2. fits \subseteq Nat /\ 0 \in fits /\ Len(rows) \in Nat /\ \A n \in fits : n <= Len(rows)
  BY <1>1
<1> HIDE DEF fits
<1>3. Max(fits) \in fits
  <2>1. fits # {}
    BY <1>2
  <2> QED
    BY <1>2, <2>1, MaxIsElement
<1> QED
  BY <1>3 DEF fits, Fitting

\* A page is the next n rows of the order; a page that is not truncated ends
\* the order.
LEMMA PageIsCut ==
  ASSUME NEW q \in Query,
         NEW order \in Seq(Row), NEW offset \in 0 .. Len(order)
  PROVE  \E n \in 0 .. Len(order) - offset :
           /\ n <= Limit[q]
           /\ PageAt(order, q, offset).items = SubSeq(order, offset + 1, offset + n)
           /\ ~PageAt(order, q, offset).truncated => offset + n = Len(order)
<1> DEFINE limit == Limit[q]
           end == IF offset + limit < Len(order) THEN offset + limit + 1 ELSE Len(order)
           rows == Selected(order, offset, limit)
           n == Fitting(rows, limit)
<1>1. limit \in Nat \ {0}
  BY ConstantsAssumption
<1>2. end \in offset .. Len(order) /\ rows = SubSeq(order, offset + 1, end)
  BY <1>1 DEF Selected
<1>3. rows \in Seq(Row) /\ Len(rows) = end - offset
  <2>1. \A i \in offset + 1 .. end : order[i] \in Row
    BY <1>2
  <2> QED
    BY <1>2, <2>1, SubSeqProperties
<1>4. n \in 0 .. end - offset /\ n <= limit
  <2> HIDE DEF rows, end, limit
  <2> QED
    BY <1>1, <1>3, FittingIsWithinLimit
<1>5. /\ PageAt(order, q, offset).items = SubSeq(rows, 1, n)
      /\ PageAt(order, q, offset).truncated <=> n < Len(rows)
  BY DEF PageAt, Page
<1>6. SubSeq(rows, 1, n) = SubSeq(order, offset + 1, offset + n)
  <2> HIDE DEF rows, end, limit, n
  <2>1. CASE n = 0
    <3>1. SubSeq(rows, 1, n) = <<>> /\ SubSeq(order, offset + 1, offset + n) = <<>>
      BY <2>1, SubSeqEmpty
    <3> QED
      BY <3>1
  <2>2. CASE n # 0
    <3>1. n \in 1 .. end - offset /\ offset + 1 \in 1 .. Len(order) /\ end \in 1 .. Len(order)
      BY <1>2, <1>4, <2>2
    <3>2. n \in 1 .. end - (offset + 1) + 1 /\ 1 \in 1 .. end - (offset + 1) + 1
      BY <3>1
    <3>3. SubSeq(SubSeq(order, offset + 1, end), 1, n)
            = SubSeq(order, (offset + 1) + 1 - 1, (offset + 1) + n - 1)
      BY <1>3, <3>1, <3>2, SubSeqOfSubSeq
    <3>4. (offset + 1) + 1 - 1 = offset + 1 /\ (offset + 1) + n - 1 = offset + n
      BY <3>1
    <3> QED
      BY <1>2, <3>3, <3>4
  <2> QED
    BY <2>1, <2>2
<1>7. ~(n < Len(rows)) => offset + n = Len(order)
  <2> HIDE DEF rows, n
  <2> QED
    BY <1>1, <1>3, <1>4
<1> HIDE DEF rows, end, limit, n
<1>8. n \in 0 .. Len(order) - offset
  BY <1>2, <1>4
<1> QED
  BY <1>4, <1>5, <1>6, <1>7, <1>8 DEF limit

\* Adding the page at the end of the rows received leaves them a beginning of
\* the order, and all of it if the page was the last one.
LEMMA PageContinues ==
  ASSUME NEW q \in Query, NEW order \in Seq(Row), NEW offset \in 0 .. Len(order)
  PROVE  LET page == PageAt(order, q, offset)
             more == SubSeq(order, 1, offset) \o page.items
         IN  /\ more \in Seq(Row) /\ page.items \in Seq(Row)
             /\ Len(page.items) <= Limit[q]
             /\ Len(more) = offset + Len(page.items) /\ Len(more) <= Len(order)
             /\ more = SubSeq(order, 1, Len(more))
             /\ ~page.truncated => more = order
             /\ page.items # <<>> => Len(page.items) >= 1
<1>0. PICK page, more :
        page = PageAt(order, q, offset) /\ more = SubSeq(order, 1, offset) \o page.items
  OBVIOUS
<1>1. PICK n \in 0 .. Len(order) - offset :
        /\ n <= Limit[q]
        /\ page.items = SubSeq(order, offset + 1, offset + n)
        /\ ~page.truncated => offset + n = Len(order)
  BY <1>0, PageIsCut
<1>2. Limit[q] \in Nat /\ Len(order) \in Nat
  BY ConstantsAssumption
<1>3. page.items \in Seq(Row) /\ Len(page.items) = n
  <2>1. \A i \in offset + 1 .. offset + n : order[i] \in Row
    OBVIOUS
  <2> QED
    BY <1>1, <2>1, SubSeqProperties
<1>4. more = SubSeq(order, 1, offset + n)
  <2>1. 1 \in 1 .. Len(order) + 1 /\ offset \in 1 - 1 .. Len(order)
    OBVIOUS
  <2>2. offset + n \in offset .. Len(order)
    OBVIOUS
  <2> QED
    BY <1>0, <1>1, <2>1, <2>2, ConcatAdjacentSubSeq
<1>5. more \in Seq(Row) /\ Len(more) = offset + n
  <2>1. \A i \in 1 .. offset + n : order[i] \in Row
    OBVIOUS
  <2> QED
    BY <1>4, <2>1, SubSeqProperties
<1>6. ~page.truncated => more = order
  BY <1>1, <1>4, SubSeqFull
<1>7. page.items # <<>> => Len(page.items) >= 1
  BY <1>3
<1>8. Len(more) = offset + Len(page.items) /\ Len(more) <= Len(order)
  BY <1>1, <1>2, <1>3, <1>5
<1>9. more = SubSeq(order, 1, Len(more))
  BY <1>4, <1>5
<1>10. Len(page.items) <= Limit[q]
  BY <1>1, <1>3
<1> QED
  BY <1>0, <1>3, <1>5, <1>6, <1>7, <1>8, <1>9, <1>10
-----------------------------------------------------------------------------
(***************************************************************************)
(* Requests and publications.                                              *)
(***************************************************************************)

\* The order of a list is a sequence of rows of the index.
LEMMA ListOrdersAreSequences ==
  ASSUME TypeOK, NEW q \in Query, NEW r \in Relation,
         NEW order \in ListOrders(q)
  PROVE  /\ db.content[q][r] \subseteq Row
         /\ order[r] \in Orders(db.content[q][r])
         /\ order[r] \in Seq(Row)
<1>1. db.content[q][r] \subseteq Row
  BY ConstantsAssumption DEF TypeOK
<1>2. order[r] \in Orders(db.content[q][r])
  BY DEF ListOrders
<1> QED
  BY <1>1, <1>2, OrderIsSequence

\* The cursor of a page with room lies within one page of its offset.
LEMMA CursorOfPage ==
  ASSUME TypeOK, NEW q \in Query, NEW offset \in 0 .. MaxOffset,
         NEW page, HasRoom(page), page.items \in Seq(Row), Len(page.items) <= Limit[q],
         page.items # <<>> => Len(page.items) >= 1
  PROVE  LET cursor == NextCursor(page, q, offset)
         IN  /\ cursor = None \/ CursorOK(cursor)
             /\ cursor = None <=> ~page.truncated
             /\ cursor # None => /\ cursor.offset = offset + Len(page.items)
                                 /\ cursor.query = q
                                 /\ cursor.generation = db.generation
                                 /\ Len(page.items) >= 1
<1>1. /\ Limit[q] \in Nat /\ MaxOffset \in Nat /\ None \notin Cursor
      /\ db.generation \in Nat /\ db.generation >= 1 /\ Len(page.items) \in Nat
  BY ConstantsAssumption DEF TypeOK
<1>2. CASE ~page.truncated
  BY <1>2 DEF NextCursor
<1>3. CASE page.truncated
  <2> DEFINE cursor == [generation |-> db.generation, query |-> q,
                        offset |-> offset + Len(page.items)]
  <2>1. NextCursor(page, q, offset) = cursor
    BY <1>3 DEF NextCursor
  <2>2. Len(page.items) >= 1
    BY <1>3 DEF HasRoom
  <2>3. cursor \in Cursor /\ cursor # None
    BY <1>1 DEF Cursor
  <2>4. CursorOK(cursor)
    BY <1>1, <2>2, <2>3 DEF CursorOK
  <2> QED
    BY <1>3, <2>1, <2>2, <2>3, <2>4
<1> QED
  BY <1>2, <1>3

LEMMA InitEstablishes ==
  ASSUME Init
  PROVE  IInv
<1>0. \A r \in Relation : chain[r] = NoChain
  BY DEF Init
<1>1. TypeOK
  <2>1. db.generation = 1 /\ db.content \in Content /\ DOMAIN chain = Relation
    BY DEF Init
  <2>2. 1 \in 1 .. MaxGeneration
    BY ConstantsAssumption
  <2>3. <<>> \in Seq(Row) /\ 0 \in Nat
    BY EmptySeq
  <2>4. /\ NoChain.query = None /\ NoChain.order = <<>> /\ NoChain.got = <<>>
        /\ NoChain.pages = 0 /\ NoChain.cursor = None
    BY DEF NoChain
  <2> QED
    BY <1>0, <2>1, <2>2, <2>3, <2>4 DEF TypeOK
<1>2. SubSeq(<<>>, 1, 0) = <<>> /\ Len(<<>>) = 0
  BY SubSeqEmpty
<1>3. \A r \in Relation : Collected(chain[r]) /\ Advanced(chain[r]) /\ CutFromTheIndex(chain[r], r)
  <2>1. NoChain.order = <<>> /\ NoChain.got = <<>> /\ NoChain.cursor = None
    BY DEF NoChain
  <2>2. Collected(NoChain)
    BY <1>2, <2>1 DEF Collected
  <2>3. Advanced(NoChain) /\ \A r \in Relation : CutFromTheIndex(NoChain, r)
    BY <2>1 DEF Advanced, CutFromTheIndex
  <2> QED
    BY <1>0, <2>2, <2>3
<1> QED
  BY <1>1, <1>3 DEF IInv

\* A publication makes every cursor stale.
LEMMA PublishKeeps ==
  ASSUME IInv, Publish
  PROVE  IInv'
<1>1. TypeOK /\ chain' = chain
  BY DEF IInv, Publish
<1>2. /\ db.generation \in 1 .. MaxGeneration /\ db'.generation = db.generation + 1
      /\ db'.generation <= MaxGeneration /\ db'.content \in Content /\ MaxGeneration \in Nat
  BY <1>1, ConstantsAssumption DEF Publish, TypeOK
<1>3. \A r \in Relation :
        chain[r].cursor # None => CursorOK(chain[r].cursor)' /\ chain[r].cursor.generation < db'.generation
  BY <1>1, <1>2 DEF TypeOK, CursorOK
<1>4. TypeOK'
  BY <1>1, <1>2, <1>3 DEF TypeOK
<1>5. \A r \in Relation : Collected(chain'[r]) /\ Advanced(chain'[r])
  BY <1>1 DEF IInv
<1>6. \A r \in Relation : CutFromTheIndex(chain[r], r)'
  BY <1>1, <1>2, <1>3 DEF CutFromTheIndex
<1> QED
  BY <1>4, <1>5, <1>6 DEF IInv, Collected, Advanced

LEMMA StartKeeps ==
  ASSUME IInv, NEW q \in Query, Start(q)
  PROVE  IInv'
<1>1. TypeOK /\ db' = db
  BY DEF IInv, Start
<1>2. PICK order \in ListOrders(q) :
        LET pages == [r \in Relation |-> PageAt(order[r], q, 0)]
        IN  /\ Deliverable(pages)
            /\ chain' = [r \in Relation |->
                          [query |-> q, order |-> order[r], got |-> pages[r].items, pages |-> 1,
                           cursor |-> NextCursor(pages[r], q, 0)]]
  BY DEF Start
<1>3. DOMAIN chain' = Relation
  BY <1>2
<1>4. ASSUME NEW r \in Relation
      PROVE  /\ chain'[r].query \in Query \cup {None}
             /\ chain'[r].order \in Seq(Row) /\ chain'[r].got \in Seq(Row)
             /\ chain'[r].pages \in Nat
             /\ chain'[r].cursor = None \/ CursorOK(chain'[r].cursor)
             /\ Collected(chain'[r]) /\ Advanced(chain'[r])
             /\ chain'[r].order \in Orders(db.content[q][r])
             /\ chain'[r].cursor # None => chain'[r].cursor.query = q
  <2> DEFINE page == PageAt(order[r], q, 0)
  <2>1. /\ chain'[r].query = q /\ chain'[r].order = order[r] /\ chain'[r].got = page.items
        /\ chain'[r].pages = 1 /\ chain'[r].cursor = NextCursor(page, q, 0)
        /\ HasRoom(page)
    BY <1>2 DEF Deliverable
  <2>2. order[r] \in Orders(db.content[q][r]) /\ order[r] \in Seq(Row)
    BY <1>1, ListOrdersAreSequences
  <2>3. PICK p : p = page
    OBVIOUS
  <2>4. /\ p.items \in Seq(Row) /\ Len(p.items) <= Limit[q] /\ Len(p.items) <= Len(order[r])
        /\ p.items = SubSeq(order[r], 1, Len(p.items))
        /\ ~p.truncated => p.items = order[r]
        /\ p.items # <<>> => Len(p.items) >= 1
    <3>1. PICK o \in Seq(Row) : o = order[r]
      BY <2>2
    <3>2. PICK z : z = 0
      OBVIOUS
    <3>3. z \in 0 .. Len(o) /\ p = PageAt(o, q, z)
      BY <2>3, <3>1, <3>2
    <3> HIDE DEF page
    <3>4. \E n \in 0 .. Len(o) - z :
             /\ n <= Limit[q]
             /\ p.items = SubSeq(o, z + 1, z + n)
             /\ ~p.truncated => z + n = Len(o)
      BY <3>3, PageIsCut
    <3>5. PICK n \in 0 .. Len(o) :
            n <= Limit[q] /\ p.items = SubSeq(o, 1, n) /\ (~p.truncated => n = Len(o))
      BY <3>2, <3>4
    <3>6. p.items \in Seq(Row) /\ Len(p.items) = n
      BY <3>5, SubSeqProperties
    <3>7. ~p.truncated => p.items = o
      BY <3>5, SubSeqFull
    <3>8. Limit[q] \in Nat /\ (p.items # <<>> => Len(p.items) >= 1)
      BY <3>6, ConstantsAssumption
    <3> QED
      BY <3>1, <3>5, <3>6, <3>7, <3>8
  <2>5. PICK cursor : cursor = NextCursor(p, q, 0)
    OBVIOUS
  <2>6. /\ cursor = None \/ CursorOK(cursor)
        /\ cursor = None <=> ~p.truncated
        /\ cursor # None => /\ cursor.offset = 0 + Len(p.items)
                            /\ cursor.query = q
                            /\ Len(p.items) >= 1
    <3>1. 0 \in 0 .. MaxOffset
      BY ConstantsAssumption
    <3> HIDE DEF page
    <3> QED
      BY <1>1, <2>1, <2>3, <2>4, <2>5, <3>1, CursorOfPage
  <2>7. chain'[r].got = p.items /\ chain'[r].cursor = cursor
    BY <2>1, <2>3, <2>5
  <2> HIDE DEF page
  <2>8. Collected(chain'[r])
    BY <2>1, <2>4, <2>6, <2>7 DEF Collected
  <2>9. Advanced(chain'[r])
    BY <2>1, <2>6, <2>7 DEF Advanced
  <2> QED
    BY <2>1, <2>2, <2>4, <2>6, <2>7, <2>8, <2>9
<1>5. \A c : CursorOK(c)' = CursorOK(c)
  BY <1>1 DEF CursorOK
<1>6. TypeOK'
  BY <1>1, <1>3, <1>4, <1>5 DEF TypeOK
<1>7. \A r \in Relation : CutFromTheIndex(chain[r], r)'
  BY <1>1, <1>4 DEF CutFromTheIndex
<1> QED
  BY <1>4, <1>6, <1>7 DEF IInv, Collected, Advanced

\* The cursor is of this generation, so the order SQLite follows now is the
\* order of the first page.
LEMMA FollowKeeps ==
  ASSUME IInv, NEW r \in Relation, NEW q \in Query, Follow(r, q)
  PROVE  IInv'
<1>1. TypeOK /\ db' = db /\ chain[r].cursor # None /\ Accepts(chain[r].cursor, q)
  BY DEF IInv, Follow
<1>2. /\ chain[r].cursor.query = q /\ chain[r].cursor.generation = db.generation
      /\ chain[r].cursor.offset <= MaxOffset /\ chain[r].cursor.offset = Len(chain[r].got)
  BY <1>1 DEF Accepts, IInv, Collected
<1>3. /\ chain[r].order \in Seq(Row) /\ chain[r].got \in Seq(Row)
      /\ chain[r].pages \in Nat /\ chain[r].pages <= Len(chain[r].got)
      /\ Len(chain[r].got) \in 0 .. Len(chain[r].order) /\ Len(chain[r].got) \in 0 .. MaxOffset
      /\ chain[r].got = SubSeq(chain[r].order, 1, Len(chain[r].got))
  BY <1>1, <1>2, ConstantsAssumption DEF IInv, TypeOK, Collected, Advanced
<1>4. PICK order \in ListOrders(q) :
        LET offset == chain[r].cursor.offset
            pages == [s \in Relation |-> PageAt(order[s], q, offset)]
        IN  /\ Deliverable(pages)
            /\ chain' = [chain EXCEPT ![r].got = @ \o pages[r].items,
                                      ![r].pages = @ + 1,
                                      ![r].cursor = NextCursor(pages[r], q, offset)]
  BY DEF Follow
<1>5. order[r] = chain[r].order
  <2>1. db.content[q][r] \subseteq Row /\ order[r] \in Orders(db.content[q][r])
    BY <1>1, ListOrdersAreSequences
  <2>2. chain[r].order \in Orders(db.content[q][r])
    BY <1>1, <1>2 DEF IInv, CutFromTheIndex
  <2> QED
    BY <2>1, <2>2, OrderIsUnique
<1>6. PICK page : page = PageAt(order[r], q, Len(chain[r].got))
  OBVIOUS
<1>7. PICK cursor : cursor = NextCursor(page, q, Len(chain[r].got))
  OBVIOUS
<1>8. PICK more : more = chain[r].got \o page.items
  OBVIOUS
<1>9. HasRoom(page)
  BY <1>2, <1>4, <1>6 DEF Deliverable
<1>10. chain' = [chain EXCEPT ![r] = [chain[r] EXCEPT !.got = more, !.pages = chain[r].pages + 1,
                                                      !.cursor = cursor]]
  BY <1>1, <1>2, <1>4, <1>6, <1>7, <1>8 DEF TypeOK
<1>11. /\ more \in Seq(Row)
       /\ page.items \in Seq(Row) /\ Len(page.items) <= Limit[q]
       /\ Len(more) = Len(chain[r].got) + Len(page.items) /\ Len(more) <= Len(chain[r].order)
       /\ more = SubSeq(chain[r].order, 1, Len(more))
       /\ ~page.truncated => more = chain[r].order
       /\ page.items # <<>> => Len(page.items) >= 1
  <2>1. PICK o \in Seq(Row) : o = order[r]
    BY <1>3, <1>5
  <2>2. PICK offset \in 0 .. Len(o) : offset = Len(chain[r].got)
    BY <1>3, <1>5, <2>1
  <2>3. page = PageAt(o, q, offset) /\ more = SubSeq(o, 1, offset) \o page.items
    BY <1>3, <1>5, <1>6, <1>8, <2>1, <2>2
  <2>4. LET next == PageAt(o, q, offset)
            all == SubSeq(o, 1, offset) \o next.items
        IN  /\ all \in Seq(Row) /\ next.items \in Seq(Row)
            /\ Len(next.items) <= Limit[q]
            /\ Len(all) = offset + Len(next.items) /\ Len(all) <= Len(o)
            /\ all = SubSeq(o, 1, Len(all))
            /\ ~next.truncated => all = o
            /\ next.items # <<>> => Len(next.items) >= 1
    BY PageContinues
  <2> QED
    BY <1>5, <2>1, <2>2, <2>3, <2>4
<1>12. /\ cursor = None \/ CursorOK(cursor)
       /\ cursor = None <=> ~page.truncated
       /\ cursor # None => /\ cursor.offset = Len(chain[r].got) + Len(page.items)
                           /\ cursor.query = q
                           /\ Len(page.items) >= 1
  <2>1. PICK offset \in 0 .. MaxOffset : offset = Len(chain[r].got)
    BY <1>3
  <2>2. cursor = NextCursor(page, q, offset)
    BY <1>7, <2>1
  <2>3. LET next == NextCursor(page, q, offset)
        IN  /\ next = None \/ CursorOK(next)
            /\ next = None <=> ~page.truncated
            /\ next # None => /\ next.offset = offset + Len(page.items)
                              /\ next.query = q
                              /\ next.generation = db.generation
                              /\ Len(page.items) >= 1
    BY <1>1, <1>9, <1>11, CursorOfPage
  <2> QED
    BY <2>1, <2>2, <2>3
<1>13. DOMAIN chain = Relation /\ DOMAIN chain' = Relation
  BY <1>1, <1>10 DEF TypeOK
<1>14. \A s \in Relation : s # r => chain'[s] = chain[s]
  BY <1>10, <1>13
<1>15. /\ chain'[r].got = more /\ chain'[r].pages = chain[r].pages + 1
       /\ chain'[r].cursor = cursor /\ chain'[r].order = chain[r].order
       /\ chain'[r].query = chain[r].query
  BY <1>10, <1>13
<1>16. TypeOK'
  <2>1. \A c : CursorOK(c)' = CursorOK(c)
    BY <1>1 DEF CursorOK
  <2>2. ASSUME NEW s \in Relation
        PROVE  /\ chain'[s].query \in Query \cup {None}
               /\ chain'[s].order \in Seq(Row) /\ chain'[s].got \in Seq(Row)
               /\ chain'[s].pages \in Nat
               /\ chain'[s].cursor = None \/ CursorOK(chain'[s].cursor)
    <3>1. CASE s = r
      <4>1. chain[r].query \in Query \cup {None} /\ chain[r].pages + 1 \in Nat
        BY <1>1, <1>3 DEF TypeOK
      <4> QED
        BY <1>3, <1>11, <1>12, <1>15, <3>1, <4>1
    <3>2. CASE s # r
      BY <1>1, <1>14, <3>2 DEF TypeOK
    <3> QED
      BY <3>1, <3>2
  <2> QED
    BY <1>1, <1>13, <2>1, <2>2 DEF TypeOK
<1>17. Collected(chain'[r])
  BY <1>11, <1>12, <1>15 DEF Collected
<1>18. Advanced(chain'[r])
  <2>1. PICK n \in Nat, pages \in Nat : n = Len(chain[r].got) /\ pages = chain[r].pages
    BY <1>3
  <2>2. cursor # None => Len(page.items) >= 1
    BY <1>12
  <2>3. pages <= n /\ Len(more) = n + Len(page.items) /\ Len(page.items) \in Nat
    BY <1>3, <1>11, <2>1
  <2>4. cursor # None => pages + 1 <= Len(more)
    BY <2>2, <2>3
  <2> QED
    BY <1>15, <2>1, <2>4 DEF Advanced
<1>19. CutFromTheIndex(chain[r], r)'
  BY <1>1, <1>2, <1>12, <1>15 DEF IInv, CutFromTheIndex
<1>20. \A s \in Relation :
         s # r => Collected(chain'[s]) /\ Advanced(chain'[s]) /\ CutFromTheIndex(chain[s], s)'
  BY <1>1, <1>14 DEF IInv, CutFromTheIndex
<1> QED
  BY <1>16, <1>17, <1>18, <1>19, <1>20 DEF IInv, Collected, Advanced
-----------------------------------------------------------------------------
LEMMA StepKeeps ==
  ASSUME IInv, [Next]_vars
  PROVE  IInv'
<1>1. CASE Publish
  BY <1>1, PublishKeeps
<1>2. ASSUME NEW q \in Query, Start(q) PROVE IInv'
  BY <1>2, StartKeeps
<1>3. ASSUME NEW r \in Relation, NEW q \in Query, Follow(r, q) PROVE IInv'
  BY <1>3, FollowKeeps
<1>4. CASE UNCHANGED vars
  BY <1>4 DEF vars, IInv, TypeOK, CursorOK, Collected, Advanced, CutFromTheIndex
<1> QED
  BY <1>1, <1>2, <1>3, <1>4 DEF Next

LEMMA Inductive == Spec => []IInv
<1>1. Init => IInv
  BY InitEstablishes
<1>2. IInv /\ [Next]_vars => IInv'
  BY StepKeeps
<1> QED
  BY <1>1, <1>2, PTL DEF Spec

\* The types, and how far a cursor can lie: no request makes SQLite skip more
\* rows than MaxOffset and one page (Query::window, Window::page).
THEOREM TypeCorrectness == Spec => []TypeOK
<1>1. IInv => TypeOK
  BY DEF IInv
<1> QED
  BY <1>1, Inductive, PTL

\* Whatever is published between the pages, and however they are cut, what a
\* client has received is a beginning of one result, without gaps or
\* repetitions, and all of it once there is no cursor.
THEOREM ChainsAreResults == Spec => []PagesAreTheResult
<1>1. IInv => PagesAreTheResult
  <2> SUFFICES ASSUME IInv, NEW r \in Relation
               PROVE  /\ IsPrefix(chain[r].got, chain[r].order)
                      /\ IF chain[r].cursor = None
                         THEN chain[r].got = chain[r].order
                         ELSE chain[r].cursor.offset = Len(chain[r].got)
    BY DEF PagesAreTheResult
  <2>1. Collected(chain[r]) /\ chain[r].got \in Seq(Row)
    BY DEF IInv, TypeOK
  <2>2. SubSeq(chain[r].got, 1, Len(chain[r].got)) = chain[r].got
    BY <2>1, SubSeqFull
  <2>3. IsPrefix(chain[r].got, chain[r].order)
    BY <2>1, <2>2 DEF Collected, IsPrefix
  <2> QED
    BY <2>1, <2>3 DEF Collected
<1> QED
  BY <1>1, Inductive, PTL

\* No page that promises another one is empty: following cursors ends.
THEOREM PagesAdvance == Spec => []EveryPageAdvances
<1>1. IInv => EveryPageAdvances
  BY DEF IInv, Advanced, EveryPageAdvances
<1> QED
  BY <1>1, Inductive, PTL
=============================================================================
