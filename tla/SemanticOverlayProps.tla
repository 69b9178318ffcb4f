------------------------ MODULE SemanticOverlayProps ------------------------
(***************************************************************************)
(* What imported semantic evidence promises to those who query it.         *)
(***************************************************************************)
EXTENDS SemanticOverlay

Tables ==
  [gen : Nat, ast : [Source -> Row \cup {None}], docs : [Source -> MaybeContent],
   inputs : [Input -> MaybeContent], inventory : BOOLEAN, calls : SUBSET Call,
   callGen : Nat \cup {None}, supported : BOOLEAN, callFingerprint : Fingerprint \cup {None}]

Importing ==
  [kind : {"import"}, artifact : Artifacts,
   inputs : SUBSET Input, docs : SUBSET Source, parse : SUBSET Source]

Indexing == [kind : {"index"}, todo : SUBSET Source, next : Tables]

Asking ==
  [phase : {"compare", "answered"}, kind : {"semantic", "combined"}, tables : Tables,
   todo : SUBSET Input, seen : [Input -> SUBSET MaybeContent]]

\* The types of the variables.  Sets of calls are too large for TLC to enumerate.
TypeOK ==
  /\ disk \in [Input -> MaybeContent]
  /\ db \in Tables
  /\ work \in {NoWork} \cup Indexing \cup Importing
  /\ query \in {NoQuery} \cup Asking
  /\ edits \in Nat
-----------------------------------------------------------------------------
Named(tables, id) == {f \in Source : tables.ast[f] # None /\ tables.ast[f].id = id}

\* The id leads to the row that was meant and to no other.
Meant(tables, id, meaning) ==
  /\ Named(tables, id) = {meaning.file}
  /\ tables.ast[meaning.file].content = meaning.content

(***************************************************************************)
(* An overlay row names the call and the definition it was built for.      *)
(* SQLite gives the ids of deleted rows to new ones (store.rs:328), and an *)
(* indexing pass does not touch semantic_calls, so a row that outlived its *)
(* reference would speak of somebody else's.                               *)
(***************************************************************************)
CallsMeanWhatTheyDid ==
  \A c \in db.calls :
    /\ Meant(db, c.ref, c.from)
    /\ c.to # None => Meant(db, c.target, c.to)

(***************************************************************************)
(* "cfg-disabled declarations must not reappear through fallback"          *)
(* (scip/calls.rs:366): in a combined answer every call of a file the      *)
(* artifact covers is one the overlay decided, however indexing passes and *)
(* imports came between.                                                   *)
(***************************************************************************)
NoFallback ==
  query.phase = "answered" /\ query.kind = "combined" =>
    \A f \in Source :
      query.tables.ast[f] # None /\ Recorded(query.tables, f) # {} =>
        \E c \in query.tables.calls : c.ref = query.tables.ast[f].id

(***************************************************************************)
(* "all artifact documents and manifest inputs matched current bytes at    *)
(* query time" (scip.rs:460): each file an answer depends on held its      *)
(* recorded content at some moment of the query, and a file the inventory  *)
(* does not list was absent at one.                                        *)
(***************************************************************************)
AnswersMatchTheTree ==
  query.phase = "answered" =>
    \A f \in Input :
      LET recorded == Recorded(query.tables, f)
      IN  /\ recorded \subseteq query.seen[f]
          /\ query.tables.inventory /\ recorded = {} => None \in query.seen[f]

(***************************************************************************)
(* The overlay of the current generation was joined with an index of the   *)
(* very bytes the artifact speaks of (scip.rs:283).                        *)
(***************************************************************************)
OverlayOfIndexedBytes ==
  db.callGen = db.gen =>
    \A f \in Source : db.docs[f] # None => db.ast[f] # None /\ db.ast[f].content = db.docs[f]

(***************************************************************************)
(* An import publishes an overlay that queries accept: its generation is   *)
(* the one the same transaction leaves (scip.rs:368).                      *)
(***************************************************************************)
ImportsAreUsable ==
  [][/\ work.kind = "import" /\ db' # db
     /\ db'.supported /\ db'.callFingerprint = Validator
     => CurrentOverlay(db')]_vars
=============================================================================
