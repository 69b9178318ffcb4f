---------------------------- MODULE PagedQueriesProps ----------------------------
(* What a client that follows cursors may rely on. *)
EXTENDS PagedQueries

CursorOK(cursor) ==
  /\ cursor \in Cursor
  /\ cursor.generation \in 1 .. db.generation
  /\ cursor.offset \in 1 .. MaxOffset + Limit[cursor.query]

\* The types.  A cursor lies at most one page beyond the offset at which
\* query.rs refuses to go on, so no request makes SQLite skip more rows.
TypeOK ==
  /\ db.generation \in 1 .. MaxGeneration
  /\ db.content \in Content
  /\ DOMAIN chain = Relation
  /\ \A r \in Relation :
       /\ chain[r].query \in Query \cup {None}
       /\ chain[r].order \in Seq(Row)
       /\ chain[r].got \in Seq(Row)
       /\ chain[r].pages \in Nat
       /\ chain[r].cursor = None \/ CursorOK(chain[r].cursor)

\* The pages of one chain are the result as it was at the first page, each row
\* once and in order, although every page is a query of its own, publications
\* come in between, pages are cut by size, and the lists of "describe" are cut
\* at each other's offsets; the last page leaves nothing out.
PagesAreTheResult ==
  \A r \in Relation :
    /\ IsPrefix(chain[r].got, chain[r].order)
    /\ IF chain[r].cursor = None
       THEN chain[r].got = chain[r].order
       ELSE chain[r].cursor.offset = Len(chain[r].got)

\* Every page that promises another one has a row: a client that goes on while
\* there is a cursor ends, even if a row is too large for a page.
EveryPageAdvances ==
  \A r \in Relation :
    chain[r].cursor # None => chain[r].pages <= Len(chain[r].got)

\* README.md:157: the two lists of "describe" "can be continued independently
\* using their respective cursors with the same request": a cursor that is
\* accepted, and whose own next page alone is within the limits, is answered.
ListsContinueIndependently ==
  \A r \in Relation :
    chain[r].cursor # None /\ Accepts(chain[r].cursor, chain[r].query) =>
      \A order \in ListOrders(chain[r].query) :
        LET pages == [s \in Relation |-> PageAt(order[s], chain[r].query, chain[r].cursor.offset)]
        IN  HasRoom(pages[r]) /\ Bytes(pages[r].items) <= ReplyBytes => Deliverable(pages)
=============================================================================
