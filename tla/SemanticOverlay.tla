--------------------------- MODULE SemanticOverlay ---------------------------
(***************************************************************************)
(* Semantic evidence beside the AST index: the import of a SCIP artifact   *)
(* (src/scip.rs), the call overlay built from it (src/scip/calls.rs) and   *)
(* the two queries that use them, "semantic" and a combined call query.    *)
(*                                                                         *)
(* Indexing passes and imports exclude each other by the writer lock;      *)
(* queries take no lock, read one snapshot of the database and compare it  *)
(* with the files one by one while the tree is edited.                     *)
(***************************************************************************)
EXTENDS Naturals, FiniteSetsExt

CONSTANTS Input,       \* files an artifact can depend on: sources, configuration, locks
          Source,      \* those the AST index can hold
          Content,     \* what a file can hold; a BLAKE3 hash stands for its content
          Trees,       \* what the files may hold at first
          Artifacts,   \* the artifacts (with their manifests) that may be imported
          Fingerprint, \* call validator versions of the executables that import
          Validator,   \* the one of the executable that queries
          None,
          MaxGen,      \* bound: index generations
          MaxEdits     \* bound: edits of the tree

VARIABLES disk,   \* [Input -> what the file holds, or None]
          db,     \* the committed tables
          work,   \* what the holder of the writer lock is doing, NoWork if nobody is
          query,  \* what the reader is doing
          edits   \* edits so far

vars == <<disk, db, work, query, edits>>

MaybeContent == Content \cup {None}

\* An artifact claims a content for each document, and where each file's call leads.
Manifest == [files : [Input -> MaybeContent], inventory : BOOLEAN]
Artifact ==
  [docs : [Source -> MaybeContent], calls : [Source -> Source \cup {None}],
   manifest : Manifest \cup {None}, supported : BOOLEAN]

ASSUME ConstantsAssumption ==
  /\ Source \subseteq Input
  /\ Trees \subseteq [Input -> MaybeContent]
  /\ Artifacts \subseteq Artifact
  /\ Validator \in Fingerprint
  /\ None \notin Content \cup Source \cup Nat
  /\ MaxGen \in Nat /\ MaxEdits \in Nat
-----------------------------------------------------------------------------
(***************************************************************************)
(* Every indexed source has one definition and one call; "id" is the       *)
(* SQLite row id of both.  A row of semantic_calls names them by id.       *)
(* "from" and "to" remember what the import meant by the ids.              *)
(***************************************************************************)
Row == [content : Content, id : Nat]
Meaning == [file : Source, content : Content]
Call == [ref : Nat, target : Nat \cup {None}, from : Meaning, to : Meaning \cup {None}]

NoFiles(S) == [f \in S |-> None]

EmptyDb ==
  [gen |-> 0, ast |-> NoFiles(Source), docs |-> NoFiles(Source), inputs |-> NoFiles(Input),
   inventory |-> FALSE, calls |-> {}, callGen |-> None, supported |-> FALSE,
   callFingerprint |-> None]

NoWork == [kind |-> "none"]
NoQuery == [phase |-> "idle"]

Rows(ast) == {ast[f] : f \in {g \in Source : ast[g] # None}}

\* INTEGER PRIMARY KEY without AUTOINCREMENT: the ids of deleted rows come back.
NextId(ast) == 1 + Max({0} \cup {row.id : row \in Rows(ast)})

\* Mutant: the overlay does not reference refs and symbols.
NoCascade(calls, ids) == calls

\* ON DELETE CASCADE from refs and from symbols.
Cascade(calls, ids) == {c \in calls : c.ref \notin ids /\ c.target \notin ids}

\* remove_file, or clear_file_contents before a file is extracted again.
Without(tables, gone) ==
  [tables EXCEPT
     !.ast = [f \in Source |-> IF f \in gone THEN None ELSE @[f]],
     !.calls = Cascade(@, {tables.ast[f].id : f \in {g \in gone : tables.ast[g] # None}})]
-----------------------------------------------------------------------------
(***************************************************************************)
(* An indexing pass, of which IndexPass tells what it may keep, replace    *)
(* or remove: here it removes any rows first and replaces any others.      *)
(***************************************************************************)
BeginIndex ==
  /\ work = NoWork
  /\ \E gone \in SUBSET Source :
       work' = [kind |-> "index", todo |-> Source \ gone, next |-> Without(db, gone)]
  /\ UNCHANGED <<disk, db, query, edits>>

\* Mutant: a file that is gone since the walk is taken for a source.
ReadAnyway(f) == TRUE

Readable(f) == disk[f] # None

\* A failed read and unchanged bytes keep the row; other bytes replace it.
IndexFile(f) ==
  /\ work.kind = "index"
  /\ f \in work.todo
  /\ LET cleared == Without(work.next, {f})
         row == [content |-> disk[f], id |-> NextId(cleared.ast)]
     IN  \/ work' = [work EXCEPT !.todo = @ \ {f}]
         \/ /\ Readable(f)
            /\ work' = [work EXCEPT !.todo = @ \ {f}, !.next = [cleared EXCEPT !.ast[f] = row]]
  /\ UNCHANGED <<disk, db, query, edits>>

CommitIndex ==
  /\ db.gen < MaxGen
  /\ work.kind = "index"
  /\ work.todo = {}
  /\ db' = [work.next EXCEPT !.gen = @ + 1]
  /\ work' = NoWork
  /\ UNCHANGED <<disk, query, edits>>

\* An error or a kill: the transaction rolls back and the lock is released.
Abandon ==
  /\ work # NoWork
  /\ work' = NoWork
  /\ UNCHANGED <<disk, db, query, edits>>
-----------------------------------------------------------------------------
Documents(a) == {f \in Source : a.docs[f] # None}
Listed(a) == IF a.manifest = None THEN {} ELSE {f \in Input : a.manifest.files[f] # None}
Inventoried(a) == a.manifest # None /\ a.manifest.inventory

\* Only a complete inventory of a supported producer can admit call edges.
AdmitsCalls(a) == Inventoried(a) /\ a.supported

BeginImport ==
  /\ work = NoWork
  /\ \E a \in Artifacts :
       /\ Documents(a) # {}
       /\ Inventoried(a) => Documents(a) \subseteq Listed(a)
       /\ work' = [kind |-> "import", artifact |-> a,
                   inputs |-> IF Inventoried(a) THEN Input ELSE Listed(a),
                   docs |-> Documents(a),
                   parse |-> IF AdmitsCalls(a) THEN Documents(a) ELSE {}]
  /\ UNCHANGED <<disk, db, query, edits>>

\* One file of the manifest: the inventory also rules out files it does not list.
CheckInput(f) ==
  /\ work.kind = "import"
  /\ f \in work.inputs
  /\ disk[f] = work.artifact.manifest.files[f]
  /\ work' = [work EXCEPT !.inputs = @ \ {f}]
  /\ UNCHANGED <<disk, db, query, edits>>

\* Mutant: a document only has to be indexed, whatever was indexed.
IndexedAtAll(f, content) == db.ast[f] # None

\* "AST snapshot is stale; index current source before importing SCIP".
IndexedAs(f, content) == db.ast[f] # None /\ db.ast[f].content = content

\* One document: its bytes are those the artifact, the manifest and the index know.
CheckDocument(f) ==
  /\ work.kind = "import" /\ work.inputs = {}
  /\ f \in work.docs
  /\ disk[f] = work.artifact.docs[f]
  /\ f \in Listed(work.artifact) => disk[f] = work.artifact.manifest.files[f]
  /\ IndexedAs(f, disk[f])
  /\ work' = [work EXCEPT !.docs = @ \ {f}]
  /\ UNCHANGED <<disk, db, query, edits>>

\* calls::build reads the document again.
ParseDocument(f) ==
  /\ work.kind = "import" /\ work.inputs = {} /\ work.docs = {}
  /\ f \in work.parse
  /\ disk[f] = work.artifact.docs[f]
  /\ work' = [work EXCEPT !.parse = @ \ {f}]
  /\ UNCHANGED <<disk, db, query, edits>>

\* The files of the call profile: every indexed input and every document.
Profile(a) == {f \in Source : db.ast[f] # None /\ f \in Listed(a) \cup Documents(a)}

As(f) == [file |-> f, content |-> db.ast[f].content]

(***************************************************************************)
(* Every call of a profile file gets a row, an admitted one with its       *)
(* target and any other one with none, so that no AST guess shows through. *)
(***************************************************************************)
BuiltCalls(a) ==
  {LET to == IF f \in Documents(a) /\ a.calls[f] \in Documents(a) THEN a.calls[f] ELSE None
   IN  [ref |-> db.ast[f].id, target |-> IF to = None THEN None ELSE db.ast[to].id,
        from |-> As(f), to |-> IF to = None THEN None ELSE As(to)] : f \in Profile(a)}

\* Mutant: persist before bump_generation.
PersistThenBump(tables) == [tables EXCEPT !.callGen = db.gen, !.gen = db.gen + 1]

\* bump_generation, then persist.
BumpThenPersist(tables) == [tables EXCEPT !.callGen = db.gen + 1, !.gen = db.gen + 1]

CommitImport ==
  /\ db.gen < MaxGen
  /\ work.kind = "import"
  /\ work.inputs = {} /\ work.docs = {} /\ work.parse = {}
  /\ \E v \in Fingerprint : LET a == work.artifact IN
         db' = BumpThenPersist(
           [db EXCEPT
              !.docs = a.docs,
              !.inputs = IF a.manifest = None THEN NoFiles(Input) ELSE a.manifest.files,
              !.inventory = Inventoried(a),
              !.calls = IF AdmitsCalls(a) THEN BuiltCalls(a) ELSE {},
              !.supported = AdmitsCalls(a),
              !.callFingerprint = v])
  /\ work' = NoWork
  /\ UNCHANGED <<disk, query, edits>>
-----------------------------------------------------------------------------
\* semantic_documents UNION semantic_inputs.
Recorded(tables, f) ==
  ({tables.inputs[f]} \cup (IF f \in Source THEN {tables.docs[f]} ELSE {})) \ {None}

HasDocuments(tables) == \E f \in Input : Recorded(tables, f) # {}

\* Mutant: an overlay is used in whatever generation of the index.
OfAnyGeneration(tables) == tables.supported /\ tables.callFingerprint = Validator

\* require_current, before it compares the files.
CurrentOverlay(tables) ==
  /\ tables.supported
  /\ tables.callGen = tables.gen
  /\ tables.callFingerprint = Validator

\* A query transaction; with an inventory every selected file is hashed.
BeginQuery(kind) ==
  /\ query = NoQuery
  /\ HasDocuments(db)
  /\ kind = "combined" => CurrentOverlay(db)
  /\ query' = [phase |-> "compare", kind |-> kind, tables |-> db,
               todo |-> IF db.inventory THEN Input ELSE {f \in Input : Recorded(db, f) # {}},
               seen |-> [f \in Input |-> {disk[f]}]]
  /\ UNCHANGED <<disk, db, work, edits>>

\* Mutant: a file the inventory does not list is not looked for.
MatchesListed(f) == \A c \in Recorded(query.tables, f) : disk[f] = c

Matches(f) ==
  IF Recorded(query.tables, f) = {} THEN disk[f] = None
  ELSE \A c \in Recorded(query.tables, f) : disk[f] = c

CompareFile(f) ==
  /\ query.phase = "compare"
  /\ f \in query.todo
  /\ query' = IF Matches(f) THEN [query EXCEPT !.todo = @ \ {f}] ELSE NoQuery
  /\ UNCHANGED <<disk, db, work, edits>>

Answer ==
  /\ query.phase = "compare"
  /\ query.todo = {}
  /\ query' = [query EXCEPT !.phase = "answered"]
  /\ UNCHANGED <<disk, db, work, edits>>

EndQuery ==
  /\ query.phase = "answered"
  /\ query' = NoQuery
  /\ UNCHANGED <<disk, db, work, edits>>
-----------------------------------------------------------------------------
Edit(f, c) ==
  /\ edits < MaxEdits
  /\ c # disk[f]
  /\ edits' = edits + 1
  /\ disk' = [disk EXCEPT ![f] = c]
  /\ query' = IF query.phase = "compare" THEN [query EXCEPT !.seen[f] = @ \cup {c}] ELSE query
  /\ UNCHANGED <<db, work>>

Init ==
  /\ disk \in Trees
  /\ db = EmptyDb
  /\ work = NoWork
  /\ query = NoQuery
  /\ edits = 0

Next ==
  \/ BeginIndex \/ CommitIndex \/ BeginImport \/ CommitImport \/ Abandon
  \/ \E f \in Source : IndexFile(f) \/ CheckDocument(f) \/ ParseDocument(f)
  \/ \E f \in Input : CheckInput(f) \/ CompareFile(f)
  \/ \E kind \in {"semantic", "combined"} : BeginQuery(kind)
  \/ Answer \/ EndQuery
  \/ \E f \in Input, c \in MaybeContent : Edit(f, c)

Spec == Init /\ [][Next]_vars
=============================================================================
