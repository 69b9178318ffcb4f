------------------------------ MODULE PagedQueries ------------------------------
(***************************************************************************)
(* Pages of a query result: Query::window and Window::page of query.rs,    *)
(* the projections of store/query.rs, and execute of engine.rs.            *)
(*                                                                         *)
(* A client repeats its query with the cursor of the last page, while the  *)
(* index is published again.  Every request is one read transaction, hence *)
(* one action.  A request that is refused changes nothing.                 *)
(***************************************************************************)
EXTENDS Integers, Sequences, FiniteSets, SequencesExt

CONSTANTS Query,         \* requests that differ in an argument, the limit for one
          Relation,      \* the lists of an answer: two for "describe"
          Row,           \* row ids, which SQLite keeps in 64 bits
          Line,          \* [Row -> path and line], the first part of the order
          Bytes(_),      \* length of the JSON of a sequence of rows
          Limit,         \* [Query -> rows per page]
          Content,       \* what an index may answer: [Query -> [Relation -> SUBSET Row]]
          PageBytes, ReplyBytes, MaxOffset,
          None,
          MaxGeneration  \* bound

VARIABLES db,   \* generation and content of the index
          chain \* [Relation -> what the client has of it]

vars == <<db, chain>>

Cursor == [generation : Nat, query : Query, offset : Nat]

ASSUME ConstantsAssumption ==
  /\ Row \subseteq Nat /\ IsFiniteSet(Row)
  /\ Line \in [Row -> Nat]
  /\ Limit \in [Query -> Nat \ {0}]
  /\ Content \subseteq [Query -> [Relation -> SUBSET Row]]
  /\ None \notin Query \cup Cursor
  /\ PageBytes \in Nat /\ ReplyBytes \in Nat /\ MaxOffset \in Nat
  /\ Bytes(<<>>) \in 0 .. PageBytes
  /\ MaxGeneration \in Nat \ {0}

\* order is history: the whole result when its first page was cut.
NoChain == [query |-> None, order |-> <<>>, got |-> <<>>, pages |-> 0, cursor |-> None]
-----------------------------------------------------------------------------
\* Mutant: rows of one line come in any order.
BeforeByLine(x, y) == Line[x] < Line[y]

\* ORDER BY path, line, id: no two rows are equal.
Before(x, y) == Line[x] < Line[y] \/ (Line[x] = Line[y] /\ x < y)

\* The orders in which SQLite may return these rows.
Orders(rows) ==
  {s \in SetToSeqs(rows) : \A j \in DOMAIN s : \A i \in 1 .. j - 1 : ~Before(s[j], s[i])}

\* LIMIT limit + 1 OFFSET offset
Selected(order, offset, limit) ==
  SubSeq(order, offset + 1,
         IF offset + limit < Len(order) THEN offset + limit + 1 ELSE Len(order))

\* truncate(limit), then pop until the rest fits.
Fitting(rows, limit) ==
  Max({n \in 0 .. Len(rows) : n <= limit /\ Bytes(SubSeq(rows, 1, n)) <= PageBytes})

Page(rows, limit) ==
  [items |-> SubSeq(rows, 1, Fitting(rows, limit)), truncated |-> Fitting(rows, limit) < Len(rows)]

\* Mutant: a page with no room for its first row is delivered.
AnyPage(page) == TRUE

\* "one result exceeds the output budget"
HasRoom(page) == page.truncated => page.items # <<>>

\* Mutant: the cursor names the end of a full page.
FullPageCursor(page, q, offset) ==
  IF page.truncated
  THEN [generation |-> db.generation, query |-> q, offset |-> offset + Limit[q]]
  ELSE None

NextCursor(page, q, offset) ==
  IF page.truncated
  THEN [generation |-> db.generation, query |-> q, offset |-> offset + Len(page.items)]
  ELSE None

\* Mutant: the offset of a cursor is not limited.
AcceptsAnyOffset(cursor, q) == cursor.generation = db.generation /\ cursor.query = q

\* "stale cursor", "cursor belongs to a different query", "work limit reached"
Accepts(cursor, q) ==
  /\ cursor.generation = db.generation
  /\ cursor.query = q
  /\ cursor.offset <= MaxOffset

PageAt(order, q, offset) == Page(Selected(order, offset, Limit[q]), Limit[q])

ReplySize(pages) == LET Add(r, sum) == sum + Bytes(pages[r].items)
                    IN  FoldSet(Add, 0, Relation)

\* A reply with a page of every list, all cut at one offset.
Deliverable(pages) ==
  /\ \A r \in Relation : HasRoom(pages[r])
  /\ ReplySize(pages) <= ReplyBytes

\* The orders the lists may come in for one request.
ListOrders(q) ==
  {order \in [Relation -> UNION {Orders(db.content[q][r]) : r \in Relation}] :
     \A r \in Relation : order[r] \in Orders(db.content[q][r])}
-----------------------------------------------------------------------------
Init ==
  /\ db \in [generation : {1}, content : Content]
  /\ chain = [r \in Relation |-> NoChain]

\* An indexing pass or an import commits.
Publish ==
  /\ db.generation < MaxGeneration
  /\ \E content \in Content : db' = [generation |-> db.generation + 1, content |-> content]
  /\ UNCHANGED chain

\* A request without a cursor.
Start(q) ==
  \E order \in ListOrders(q) :
    LET pages == [r \in Relation |-> PageAt(order[r], q, 0)]
    IN  /\ Deliverable(pages)
        /\ chain' = [r \in Relation |->
                       [query |-> q, order |-> order[r], got |-> pages[r].items, pages |-> 1,
                        cursor |-> NextCursor(pages[r], q, 0)]]
        /\ UNCHANGED db

\* A request with the cursor of list r, of whose reply the client keeps list r.
Follow(r, q) ==
  /\ chain[r].cursor # None
  /\ Accepts(chain[r].cursor, q)
  /\ \E order \in ListOrders(q) :
       LET offset == chain[r].cursor.offset
           pages == [s \in Relation |-> PageAt(order[s], q, offset)]
       IN  /\ Deliverable(pages)
           /\ chain' = [chain EXCEPT ![r].got = @ \o pages[r].items,
                                     ![r].pages = @ + 1,
                                     ![r].cursor = NextCursor(pages[r], q, offset)]
           /\ UNCHANGED db

Next ==
  \/ Publish
  \/ \E q \in Query : Start(q)
  \/ \E r \in Relation, q \in Query : Follow(r, q)

Spec == Init /\ [][Next]_vars
=============================================================================
