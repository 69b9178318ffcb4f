----------------------------- MODULE MCPagedQueries -----------------------------
(* "describe" of two symbols, of one of them with two limits.  Rows 2 and 3 *)
(* share a line and are too large for one page; row 5 is too large for any. *)
EXTENDS PagedQueriesProps

CONSTANTS one, two, other, callers, callees

MCRow == 1 .. 5
MCLine == <<2, 1, 1, 3, 4>>
MCSize == <<1, 2, 2, 1, 4>>
MCBytes(rows) == FoldLeft(LAMBDA sum, row : sum + MCSize[row], 0, rows)
MCLimit == [q \in {one, two, other} |-> IF q = two THEN 2 ELSE 1]

Answers(in, out) ==
  [q \in {one, two, other} |-> [r \in {callers, callees} |->
      IF q = other THEN out ELSE IF r = callers THEN in ELSE out]]
MCContent == {Answers(in, out) : in \in SUBSET MCRow, out \in {{}, {1, 2}, {1, 5}}}

\* Every row fits into a page.
MCSmallRows == {Answers(in, out) : in \in SUBSET (1 .. 4), out \in SUBSET (1 .. 4)}
=============================================================================
