------------------------ MODULE SemanticOverlayProofs ------------------------
(***************************************************************************)
(* The safety of semantic evidence for any files, contents, artifacts and  *)
(* executables, and any number of generations and edits.                   *)
(***************************************************************************)
EXTENDS SemanticOverlayProps, WellFoundedInduction, TLAPS

(***************************************************************************)
(* The inductive invariant.  What holds of any version of the tables, the  *)
(* uncommitted ones of an indexing pass included.                          *)
(***************************************************************************)
IdsAreKeys(tables) ==
  \A f, g \in Source :
    tables.ast[f] # None /\ tables.ast[g] # None /\ tables.ast[f].id = tables.ast[g].id => f = g

\* Without it "the greatest id" of NextId need not exist.
IdsAreBounded(tables) ==
  \E n \in Nat : \A f \in Source : tables.ast[f] # None => tables.ast[f].id <= n

CallsAreMeant(tables) ==
  \A c \in tables.calls :
    /\ Meant(tables, c.ref, c.from)
    /\ c.to # None => Meant(tables, c.target, c.to)

NeverAhead(tables) == tables.callGen = None \/ tables.callGen <= tables.gen

Sound(tables) ==
  /\ IdsAreKeys(tables)
  /\ IdsAreBounded(tables)
  /\ CallsAreMeant(tables)
  /\ NeverAhead(tables)

\* Committed tables with an overlay of their own generation.
DocumentsIndexed(tables) ==
  tables.callGen = tables.gen =>
    \A f \in Source :
      tables.docs[f] # None => tables.ast[f] # None /\ tables.ast[f].content = tables.docs[f]

EveryCallDecided(tables) ==
  tables.callGen = tables.gen /\ tables.supported =>
    \A f \in Source :
      tables.ast[f] # None /\ Recorded(tables, f) # {} =>
        \E c \in tables.calls : c.ref = tables.ast[f].id

\* What an import has checked stays true: nobody else commits meanwhile.
ImportInv ==
  work.kind = "import" =>
    \A f \in Source :
      f \in Documents(work.artifact) /\ f \notin work.docs => IndexedAs(f, work.artifact.docs[f])

\* A query reads a version of the tables that was committed once, and has
\* seen every file it compared hold what the tables record.
QueryInv ==
  query # NoQuery =>
    /\ EveryCallDecided(query.tables)
    /\ query.kind = "combined" => CurrentOverlay(query.tables)
    /\ query.phase = "answered" => query.todo = {}
    /\ query.phase = "compare" => \A f \in Input : disk[f] \in query.seen[f]
    /\ \A f \in Input :
         f \notin query.todo =>
           LET recorded == Recorded(query.tables, f)
           IN  /\ recorded \subseteq query.seen[f]
               /\ query.tables.inventory /\ recorded = {} => None \in query.seen[f]

IInv ==
  /\ TypeOK
  /\ Sound(db) /\ DocumentsIndexed(db) /\ EveryCallDecided(db)
  /\ work.kind = "index" => Sound(work.next)
  /\ ImportInv
  /\ QueryInv
-----------------------------------------------------------------------------
(***************************************************************************)
(* The greatest id.                                                        *)
(***************************************************************************)
Less == OpToRel(<, Nat)

LEMMA LeastNatural ==
  ASSUME NEW T, T \subseteq Nat, T # {}
  PROVE  \E m \in T : \A n \in T : m <= n
<1>1. IsWellFoundedOn(Less, Nat)
  BY NatLessThanWellFounded DEF Less
<1>2. PICK m \in T : \A n \in T : ~(<<n, m>> \in Less)
  BY <1>1, WFMin
<1>3. \A k, n \in Nat : <<k, n>> \in Less <=> k < n
  BY DEF Less, OpToRel
<1>4. \A n \in T : ~(n < m)
  BY <1>2, <1>3
<1> QED
  BY <1>4

\* The maximum of a bounded set of row ids is one of them and bounds them all.
LEMMA MaxOfBounded ==
  ASSUME NEW S, S \subseteq Nat, 0 \in S, NEW n \in Nat, \A x \in S : x <= n
  PROVE  Max(S) \in S /\ \A x \in S : x <= Max(S)
<1> DEFINE bounds == {m \in Nat : \A x \in S : x <= m}
<1>1. PICK m \in bounds : \A k \in bounds : m <= k
  <2>1. bounds \subseteq Nat /\ n \in bounds
    OBVIOUS
  <2> QED
    BY <2>1, LeastNatural
<1>2. m \in S
  <2> SUFFICES ASSUME m \notin S PROVE FALSE
    OBVIOUS
  <2>1. \A x \in S : x <= m - 1
    OBVIOUS
  <2>2. m - 1 \in bounds
    BY <2>1
  <2> QED
    BY <1>1, <2>2
<1>3. \E x \in S : \A y \in S : x >= y
  BY <1>2
<1> QED
  BY <1>3 DEF Max

\* A new row gets an id above every id in use.
LEMMA NextIdIsFresh ==
  ASSUME NEW tables \in Tables, IdsAreBounded(tables)
  PROVE  /\ NextId(tables.ast) \in Nat
         /\ \A f \in Source : tables.ast[f] # None => tables.ast[f].id < NextId(tables.ast)
<1> DEFINE ids == {0} \cup {row.id : row \in Rows(tables.ast)}
<1>1. \A f \in Source : tables.ast[f] # None => tables.ast[f].id \in ids
  BY DEF Rows
<1>2. \A f \in Source : tables.ast[f] # None => tables.ast[f] \in Row
  BY DEF Tables
<1>3. ids \subseteq Nat /\ 0 \in ids
  BY <1>2 DEF Rows, Row
<1>4. PICK n \in Nat : \A f \in Source : tables.ast[f] # None => tables.ast[f].id <= n
  BY DEF IdsAreBounded
<1>5. Max(ids) \in Nat /\ \A x \in ids : x <= Max(ids)
  <2>1. \A x \in ids : x <= n
    BY <1>4 DEF Rows
  <2> HIDE DEF ids
  <2> QED
    BY <1>3, <2>1, MaxOfBounded
<1>6. NextId(tables.ast) = 1 + Max(ids)
  BY DEF NextId
<1> HIDE DEF ids
<1>7. \A x \in ids : x < 1 + Max(ids)
  BY <1>3, <1>5
<1> QED
  BY <1>1, <1>5, <1>6, <1>7
-----------------------------------------------------------------------------
(***************************************************************************)
(* What an indexing pass does to the tables leaves them sound.             *)
(***************************************************************************)
LEMMA WithoutIsSound ==
  ASSUME NEW tables \in Tables, Sound(tables), NEW gone \in SUBSET Source
  PROVE  /\ Without(tables, gone) \in Tables
         /\ Sound(Without(tables, gone))
         /\ \A f \in gone : Without(tables, gone).ast[f] = None
<1> DEFINE next == Without(tables, gone)
           ids == {tables.ast[f].id : f \in {g \in gone : tables.ast[g] # None}}
<1>1. /\ next.ast = [f \in Source |-> IF f \in gone THEN None ELSE tables.ast[f]]
      /\ next.calls = {c \in tables.calls : c.ref \notin ids /\ c.target \notin ids}
      /\ next.gen = tables.gen /\ next.callGen = tables.callGen
  BY DEF Without, Cascade, Tables
<1>2. next \in Tables
  BY DEF Without, Cascade, Tables
<1>3. \A f \in Source : next.ast[f] # None => next.ast[f] = tables.ast[f] /\ f \notin gone
  BY <1>1
<1>4. IdsAreKeys(next) /\ IdsAreBounded(next) /\ NeverAhead(next)
  BY <1>1, <1>3 DEF Sound, IdsAreKeys, IdsAreBounded, NeverAhead
<1>5. ASSUME NEW id, id \notin ids, NEW meaning, Meant(tables, id, meaning)
      PROVE  Meant(next, id, meaning)
  <2>1. /\ meaning.file \in Source /\ tables.ast[meaning.file] # None
        /\ tables.ast[meaning.file].id = id
    BY <1>5 DEF Meant, Named
  <2>2. meaning.file \notin gone
    BY <1>5, <2>1
  <2>3. next.ast[meaning.file] = tables.ast[meaning.file]
    BY <1>1, <2>1, <2>2
  <2>4. Named(next, id) = {meaning.file}
    <3>1. Named(next, id) \subseteq Named(tables, id)
      BY <1>3 DEF Named
    <3>2. meaning.file \in Named(next, id)
      BY <2>1, <2>3 DEF Named
    <3> QED
      BY <1>5, <3>1, <3>2 DEF Meant
  <2> QED
    BY <1>5, <2>3, <2>4 DEF Meant
<1>6. CallsAreMeant(next)
  BY <1>1, <1>5 DEF Sound, CallsAreMeant
<1> QED
  BY <1>1, <1>2, <1>4, <1>6 DEF Sound

LEMMA ReplaceIsSound ==
  ASSUME NEW tables \in Tables, Sound(tables), NEW f \in Source, tables.ast[f] = None,
         NEW content \in Content
  PROVE  LET row == [content |-> content, id |-> NextId(tables.ast)]
         IN  /\ [tables EXCEPT !.ast[f] = row] \in Tables
             /\ Sound([tables EXCEPT !.ast[f] = row])
<1> DEFINE row == [content |-> content, id |-> NextId(tables.ast)]
           next == [tables EXCEPT !.ast[f] = row]
<1>1. /\ NextId(tables.ast) \in Nat
      /\ \A g \in Source : tables.ast[g] # None => tables.ast[g].id < NextId(tables.ast)
  BY NextIdIsFresh DEF Sound
<1>2. /\ next.ast = [tables.ast EXCEPT ![f] = row] /\ next.calls = tables.calls
      /\ next.gen = tables.gen /\ next.callGen = tables.callGen
  BY DEF Tables
<1>3. \A g \in Source : tables.ast[g] # None => tables.ast[g] \in Row
  BY DEF Tables
<1>4. tables.ast \in [Source -> Row \cup {None}]
  BY DEF Tables
<1>5. row \in Row /\ row.id = NextId(tables.ast)
  BY <1>1 DEF Row
<1>6. next \in Tables
  BY <1>5 DEF Tables
<1>7. \A g \in Source : next.ast[g] = IF g = f THEN row ELSE tables.ast[g]
  BY <1>2, <1>4
<1> HIDE DEF next, row
<1>8. IdsAreKeys(next)
  BY <1>1, <1>3, <1>5, <1>7 DEF Sound, IdsAreKeys, Row
<1>9. IdsAreBounded(next)
  <2>1. \A g \in Source : next.ast[g] # None => next.ast[g].id <= NextId(tables.ast)
    BY <1>1, <1>3, <1>5, <1>7 DEF Row
  <2> QED
    BY <1>1, <2>1 DEF IdsAreBounded
<1>10. ASSUME NEW id, NEW meaning, Meant(tables, id, meaning)
       PROVE  Meant(next, id, meaning)
  <2>1. /\ meaning.file \in Source /\ tables.ast[meaning.file] # None
        /\ tables.ast[meaning.file].id = id
    BY <1>10 DEF Meant, Named
  <2>2. id # row.id
    BY <1>1, <1>3, <1>5, <2>1 DEF Row
  <2>3. Named(next, id) = Named(tables, id)
    BY <1>7, <2>2 DEF Named
  <2>4. next.ast[meaning.file] = tables.ast[meaning.file]
    BY <1>7, <2>1
  <2> QED
    BY <1>10, <2>3, <2>4 DEF Meant
<1>11. CallsAreMeant(next)
  BY <1>2, <1>10 DEF Sound, CallsAreMeant
<1>12. NeverAhead(next)
  BY <1>2 DEF Sound, NeverAhead
<1> QED
  BY <1>6, <1>8, <1>9, <1>11, <1>12 DEF Sound, next, row
-----------------------------------------------------------------------------
(***************************************************************************)
(* Every step keeps the invariant.                                         *)
(***************************************************************************)
LEMMA InitialTables ==
  EmptyDb \in Tables /\ Sound(EmptyDb) /\ DocumentsIndexed(EmptyDb) /\ EveryCallDecided(EmptyDb)
<1>1. EmptyDb \in Tables
  BY ConstantsAssumption DEF EmptyDb, NoFiles, Tables, MaybeContent
<1>2. /\ \A f \in Source : EmptyDb.ast[f] = None
      /\ EmptyDb.calls = {} /\ EmptyDb.callGen = None /\ EmptyDb.gen = 0
  BY DEF EmptyDb, NoFiles
<1>3. Sound(EmptyDb)
  BY <1>2 DEF Sound, IdsAreKeys, IdsAreBounded, CallsAreMeant, NeverAhead
<1>4. EmptyDb.callGen # EmptyDb.gen
  BY <1>2, ConstantsAssumption
<1> QED
  BY <1>1, <1>3, <1>4 DEF DocumentsIndexed, EveryCallDecided

LEMMA InitInv == Init => IInv
<1> SUFFICES ASSUME Init PROVE IInv
  OBVIOUS
<1>1. TypeOK
  BY InitialTables, ConstantsAssumption DEF Init, TypeOK
<1>2. work.kind = "none" /\ query = NoQuery
  BY DEF Init, NoWork
<1> QED
  BY <1>1, <1>2, InitialTables DEF Init, IInv, ImportInv, QueryInv

LEMMA BeginIndexKeeps == IInv /\ BeginIndex => IInv'
<1> SUFFICES ASSUME IInv, BeginIndex PROVE IInv'
  OBVIOUS
<1>1. PICK gone \in SUBSET Source :
        work' = [kind |-> "index", todo |-> Source \ gone, next |-> Without(db, gone)]
  BY DEF BeginIndex
<1>2. Without(db, gone) \in Tables /\ Sound(Without(db, gone))
  BY WithoutIsSound DEF IInv, TypeOK
<1>3. work'.kind = "index" /\ work'.next = Without(db, gone) /\ work' \in Indexing
  BY <1>1, <1>2 DEF Indexing
<1>4. UNCHANGED <<disk, db, query, edits>>
  BY DEF BeginIndex
<1>5. TypeOK'
  BY <1>3, <1>4 DEF IInv, TypeOK
<1>6. ImportInv' /\ (work.kind = "index" => Sound(work.next))'
  BY <1>2, <1>3 DEF ImportInv
<1>7. QueryInv'
  BY <1>4 DEF IInv, QueryInv
<1> QED
  BY <1>4, <1>5, <1>6, <1>7 DEF IInv

LEMMA IndexFileKeeps == IInv /\ (\E f \in Source : IndexFile(f)) => IInv'
<1> SUFFICES ASSUME IInv, NEW f \in Source, IndexFile(f) PROVE IInv'
  OBVIOUS
<1> DEFINE cleared == Without(work.next, {f})
           row == [content |-> disk[f], id |-> NextId(cleared.ast)]
<1>1. work \in Indexing /\ Sound(work.next) /\ work.next \in Tables
  BY DEF IndexFile, IInv, TypeOK, NoWork, Importing, Indexing
<1>2. UNCHANGED <<disk, db, query, edits>>
  BY DEF IndexFile
<1>3. cleared \in Tables /\ Sound(cleared) /\ cleared.ast[f] = None
  BY <1>1, WithoutIsSound
<1>4. work' \in Indexing /\ Sound(work'.next)
  <2>1. CASE work' = [work EXCEPT !.todo = @ \ {f}]
    BY <1>1, <2>1 DEF Indexing
  <2>2. CASE /\ Readable(f)
             /\ work' = [work EXCEPT !.todo = @ \ {f}, !.next = [cleared EXCEPT !.ast[f] = row]]
    <3>1. disk[f] \in Content
      BY <2>2, ConstantsAssumption DEF Readable, IInv, TypeOK, MaybeContent
    <3> HIDE DEF cleared
    <3>2. [cleared EXCEPT !.ast[f] = row] \in Tables /\ Sound([cleared EXCEPT !.ast[f] = row])
      BY <1>3, <3>1, ReplaceIsSound
    <3> QED
      BY <1>1, <2>2, <3>2 DEF Indexing
  <2> QED
    BY <2>1, <2>2 DEF IndexFile
<1>5. TypeOK'
  BY <1>2, <1>4 DEF IInv, TypeOK
<1>6. ImportInv'
  BY <1>4 DEF ImportInv, Indexing
<1>7. QueryInv'
  BY <1>2 DEF IInv, QueryInv
<1> QED
  BY <1>2, <1>4, <1>5, <1>6, <1>7 DEF IInv

\* A commit of a pass makes the generation newer than any overlay it kept.
LEMMA CommitIndexKeeps == IInv /\ CommitIndex => IInv'
<1> SUFFICES ASSUME IInv, CommitIndex PROVE IInv'
  OBVIOUS
<1>1. Sound(work.next) /\ work.next \in Tables
  BY DEF CommitIndex, IInv, TypeOK, NoWork, Importing, Indexing
<1>2. db' = [work.next EXCEPT !.gen = @ + 1] /\ work' = NoWork /\ UNCHANGED <<disk, query, edits>>
  BY DEF CommitIndex
<1>3. /\ db'.ast = work.next.ast /\ db'.calls = work.next.calls
      /\ db'.callGen = work.next.callGen /\ db'.gen = work.next.gen + 1
      /\ db' \in Tables
  BY <1>1, <1>2 DEF Tables
<1>4. work.next.gen \in Nat /\ work.next.callGen \in Nat \cup {None}
  BY <1>1 DEF Tables
<1>5. NeverAhead(db') /\ db'.callGen # db'.gen
  BY <1>1, <1>3, <1>4, ConstantsAssumption DEF Sound, NeverAhead
<1>6. Sound(db')
  BY <1>1, <1>3, <1>5 DEF Sound, IdsAreKeys, IdsAreBounded, CallsAreMeant, Meant, Named
<1>7. DocumentsIndexed(db') /\ EveryCallDecided(db')
  BY <1>5 DEF DocumentsIndexed, EveryCallDecided
<1>8. TypeOK'
  BY <1>2, <1>3 DEF IInv, TypeOK
<1>9. work'.kind = "none"
  BY <1>2 DEF NoWork
<1>10. QueryInv'
  BY <1>2 DEF IInv, QueryInv
<1> QED
  BY <1>6, <1>7, <1>8, <1>9, <1>10 DEF IInv, ImportInv

LEMMA AbandonKeeps == IInv /\ Abandon => IInv'
  BY DEF Abandon, IInv, TypeOK, ImportInv, QueryInv, NoWork
-----------------------------------------------------------------------------
LEMMA BeginImportKeeps == IInv /\ BeginImport => IInv'
<1> SUFFICES ASSUME IInv, BeginImport PROVE IInv'
  OBVIOUS
<1>1. PICK a \in Artifacts :
        work' = [kind |-> "import", artifact |-> a,
                 inputs |-> IF Inventoried(a) THEN Input ELSE Listed(a),
                 docs |-> Documents(a), parse |-> IF AdmitsCalls(a) THEN Documents(a) ELSE {}]
  BY DEF BeginImport
<1>2. work' \in Importing /\ work'.artifact = a /\ work'.docs = Documents(a)
  BY <1>1 DEF Importing, Documents, Listed
<1>3. UNCHANGED <<disk, db, query, edits>>
  BY DEF BeginImport
<1>4. TypeOK'
  BY <1>2, <1>3 DEF IInv, TypeOK
<1>5. ImportInv' /\ work'.kind # "index"
  BY <1>2 DEF ImportInv, Importing
<1>6. QueryInv'
  BY <1>3 DEF IInv, QueryInv
<1> QED
  BY <1>3, <1>4, <1>5, <1>6 DEF IInv

LEMMA ImportingWork ==
  ASSUME IInv, work.kind = "import"
  PROVE  work \in Importing /\ work.artifact \in Artifact
  BY ConstantsAssumption DEF IInv, TypeOK, NoWork, Indexing, Importing

LEMMA CheckInputKeeps == IInv /\ (\E f \in Input : CheckInput(f)) => IInv'
<1> SUFFICES ASSUME IInv, NEW f \in Input, CheckInput(f) PROVE IInv'
  OBVIOUS
<1>1. work \in Importing
  BY ImportingWork DEF CheckInput
<1>2. work' = [work EXCEPT !.inputs = @ \ {f}] /\ UNCHANGED <<disk, db, query, edits>>
  BY DEF CheckInput
<1>3. /\ work' \in Importing /\ work'.kind = "import"
      /\ work'.docs = work.docs /\ work'.artifact = work.artifact
  BY <1>1, <1>2 DEF Importing
<1>4. TypeOK'
  BY <1>2, <1>3 DEF IInv, TypeOK
<1>5. ImportInv'
  BY <1>1, <1>2, <1>3 DEF IInv, ImportInv, Importing, IndexedAs
<1>6. QueryInv'
  BY <1>2 DEF IInv, QueryInv
<1> QED
  BY <1>2, <1>3, <1>4, <1>5, <1>6 DEF IInv

LEMMA CheckDocumentKeeps == IInv /\ (\E f \in Source : CheckDocument(f)) => IInv'
<1> SUFFICES ASSUME IInv, NEW f \in Source, CheckDocument(f) PROVE IInv'
  OBVIOUS
<1>1. work \in Importing
  BY ImportingWork DEF CheckDocument
<1>2. work' = [work EXCEPT !.docs = @ \ {f}] /\ UNCHANGED <<disk, db, query, edits>>
  BY DEF CheckDocument
<1>3. /\ work' \in Importing /\ work'.kind = "import"
      /\ work'.docs = work.docs \ {f} /\ work'.artifact = work.artifact
  BY <1>1, <1>2 DEF Importing
<1>4. TypeOK'
  BY <1>2, <1>3 DEF IInv, TypeOK
<1>5. IndexedAs(f, work.artifact.docs[f])
  BY DEF CheckDocument
<1>6. ImportInv'
  BY <1>1, <1>2, <1>3, <1>5 DEF IInv, ImportInv, Importing, IndexedAs
<1>7. QueryInv'
  BY <1>2 DEF IInv, QueryInv
<1> QED
  BY <1>2, <1>3, <1>4, <1>6, <1>7 DEF IInv

LEMMA ParseDocumentKeeps == IInv /\ (\E f \in Source : ParseDocument(f)) => IInv'
<1> SUFFICES ASSUME IInv, NEW f \in Source, ParseDocument(f) PROVE IInv'
  OBVIOUS
<1>1. work \in Importing
  BY ImportingWork DEF ParseDocument
<1>2. work' = [work EXCEPT !.parse = @ \ {f}] /\ UNCHANGED <<disk, db, query, edits>>
  BY DEF ParseDocument
<1>3. /\ work' \in Importing /\ work'.kind = "import"
      /\ work'.docs = work.docs /\ work'.artifact = work.artifact
  BY <1>1, <1>2 DEF Importing
<1>4. TypeOK'
  BY <1>2, <1>3 DEF IInv, TypeOK
<1>5. ImportInv'
  BY <1>1, <1>2, <1>3 DEF IInv, ImportInv, Importing, IndexedAs
<1>6. QueryInv'
  BY <1>2 DEF IInv, QueryInv
<1> QED
  BY <1>2, <1>3, <1>4, <1>5, <1>6 DEF IInv
-----------------------------------------------------------------------------
(***************************************************************************)
(* The rows an import builds: one for every indexed file of the profile,   *)
(* each naming the call and the definition it was built for.               *)
(***************************************************************************)
LEMMA IdNamesItsRow ==
  ASSUME NEW f \in Source, IdsAreKeys(db), db.ast[f] # None
  PROVE  Meant(db, db.ast[f].id, As(f))
  BY DEF IdsAreKeys, Meant, Named, As

LEMMA BuiltCallsAreMeant ==
  ASSUME NEW a \in Artifact, db \in Tables, IdsAreKeys(db),
         \A f \in Source : f \in Documents(a) => db.ast[f] # None
  PROVE  /\ BuiltCalls(a) \subseteq Call
         /\ \A c \in BuiltCalls(a) :
              Meant(db, c.ref, c.from) /\ (c.to # None => Meant(db, c.target, c.to))
<1> SUFFICES ASSUME NEW c \in BuiltCalls(a)
             PROVE  /\ c \in Call
                    /\ Meant(db, c.ref, c.from)
                    /\ c.to # None => Meant(db, c.target, c.to)
  OBVIOUS
<1>1. PICK f \in Profile(a) :
        LET to == IF f \in Documents(a) /\ a.calls[f] \in Documents(a) THEN a.calls[f] ELSE None
        IN  c = [ref |-> db.ast[f].id, target |-> IF to = None THEN None ELSE db.ast[to].id,
                 from |-> As(f), to |-> IF to = None THEN None ELSE As(to)]
  BY DEF BuiltCalls
<1> DEFINE to == IF f \in Documents(a) /\ a.calls[f] \in Documents(a) THEN a.calls[f] ELSE None
<1>2. f \in Source /\ db.ast[f] # None
  BY DEF Profile
<1>3. to # None => to \in Source /\ db.ast[to] # None
  BY DEF Documents
<1>4. /\ c.ref = db.ast[f].id /\ c.from = As(f)
      /\ c.target = IF to = None THEN None ELSE db.ast[to].id
      /\ c.to = IF to = None THEN None ELSE As(to)
      /\ c = [ref |-> c.ref, target |-> c.target, from |-> c.from, to |-> c.to]
  BY <1>1
<1> HIDE DEF to
<1>5. ASSUME NEW g \in Source, db.ast[g] # None
      PROVE  db.ast[g].id \in Nat /\ As(g) \in Meaning
  BY <1>5 DEF Tables, Row, As, Meaning
<1>6. c \in Call
  BY <1>2, <1>3, <1>4, <1>5 DEF Call
<1>7. Meant(db, c.ref, c.from)
  BY <1>2, <1>4, IdNamesItsRow
<1>8. c.to # None => Meant(db, c.target, c.to)
  BY <1>3, <1>4, IdNamesItsRow
<1> QED
  BY <1>6, <1>7, <1>8

LEMMA EveryProfileCallIsBuilt ==
  ASSUME NEW a, NEW f \in Profile(a)
  PROVE  \E c \in BuiltCalls(a) : c.ref = db.ast[f].id
<1> DEFINE to == IF f \in Documents(a) /\ a.calls[f] \in Documents(a) THEN a.calls[f] ELSE None
           c == [ref |-> db.ast[f].id, target |-> IF to = None THEN None ELSE db.ast[to].id,
                 from |-> As(f), to |-> IF to = None THEN None ELSE As(to)]
<1>1. c \in BuiltCalls(a)
  BY DEF BuiltCalls
<1>2. c.ref = db.ast[f].id
  OBVIOUS
<1> QED
  BY <1>1, <1>2

LEMMA CommitImportKeeps == IInv /\ CommitImport => IInv'
<1> SUFFICES ASSUME IInv, CommitImport PROVE IInv'
  OBVIOUS
<1> DEFINE a == work.artifact
           built == IF AdmitsCalls(a) THEN BuiltCalls(a) ELSE {}
           inputs == IF a.manifest = None THEN NoFiles(Input) ELSE a.manifest.files
<1>1. work \in Importing /\ a \in Artifact /\ work.kind = "import" /\ work.docs = {}
  BY ImportingWork DEF CommitImport
<1>2. PICK v \in Fingerprint :
        db' = BumpThenPersist(
          [db EXCEPT !.docs = a.docs, !.inputs = inputs, !.inventory = Inventoried(a),
                     !.calls = built, !.supported = AdmitsCalls(a), !.callFingerprint = v])
  BY DEF CommitImport
<1>3. db \in Tables /\ db.gen \in Nat
  BY DEF IInv, TypeOK, Tables
<1>4. /\ db'.ast = db.ast /\ db'.docs = a.docs /\ db'.inputs = inputs /\ db'.calls = built
      /\ db'.supported = AdmitsCalls(a) /\ db'.inventory = Inventoried(a)
      /\ db'.callFingerprint = v /\ db'.callGen = db.gen + 1 /\ db'.gen = db.gen + 1
      /\ db' = [gen |-> db'.gen, ast |-> db'.ast, docs |-> db'.docs, inputs |-> db'.inputs,
                inventory |-> db'.inventory, calls |-> db'.calls, callGen |-> db'.callGen,
                supported |-> db'.supported, callFingerprint |-> db'.callFingerprint]
  BY <1>2, <1>3 DEF BumpThenPersist, Tables
<1>5. \A f \in Source : f \in Documents(a) => IndexedAs(f, a.docs[f])
  BY <1>1 DEF IInv, ImportInv
<1>6. /\ built \subseteq Call
      /\ \A c \in built : Meant(db, c.ref, c.from) /\ (c.to # None => Meant(db, c.target, c.to))
  BY <1>1, <1>3, <1>5, BuiltCallsAreMeant DEF IInv, Sound, IndexedAs
<1>7. a.docs \in [Source -> MaybeContent] /\ inputs \in [Input -> MaybeContent]
  BY <1>1 DEF Artifact, Manifest, NoFiles, MaybeContent
<1>8. Inventoried(a) \in BOOLEAN /\ AdmitsCalls(a) \in BOOLEAN
  BY DEF Inventoried, AdmitsCalls
<1> HIDE DEF built, inputs, a
<1>9. db.ast \in [Source -> Row \cup {None}]
  BY <1>3 DEF Tables
<1>10. db' \in Tables
  BY <1>3, <1>4, <1>6, <1>7, <1>8, <1>9 DEF Tables
<1>11. Sound(db')
  BY <1>3, <1>4, <1>6
    DEF IInv, Sound, IdsAreKeys, IdsAreBounded, CallsAreMeant, Meant, Named, NeverAhead
<1>12. DocumentsIndexed(db')
  BY <1>4, <1>5 DEF DocumentsIndexed, Documents, IndexedAs
<1>13. EveryCallDecided(db')
  <2> SUFFICES ASSUME AdmitsCalls(a), NEW f \in Source, db.ast[f] # None, Recorded(db', f) # {}
               PROVE  \E c \in BuiltCalls(a) : c.ref = db.ast[f].id
    BY <1>4 DEF EveryCallDecided, built
  <2>1. inputs[f] # None \/ a.docs[f] # None
    BY <1>4 DEF Recorded
  <2>2. inputs = a.manifest.files /\ Listed(a) = {g \in Input : a.manifest.files[g] # None}
    BY DEF AdmitsCalls, Inventoried, Listed, inputs
  <2>3. f \in Profile(a)
    BY <2>1, <2>2, ConstantsAssumption DEF Profile, Documents
  <2> QED
    BY <2>3, EveryProfileCallIsBuilt
<1>14. work' = NoWork /\ UNCHANGED <<disk, query, edits>>
  BY DEF CommitImport
<1>15. TypeOK' /\ work'.kind = "none"
  BY <1>10, <1>14 DEF IInv, TypeOK, NoWork
<1>16. QueryInv'
  BY <1>14 DEF IInv, QueryInv
<1> QED
  BY <1>11, <1>12, <1>13, <1>15, <1>16 DEF IInv, ImportInv
-----------------------------------------------------------------------------
LEMMA BeginQueryKeeps ==
  IInv /\ (\E kind \in {"semantic", "combined"} : BeginQuery(kind)) => IInv'
<1> SUFFICES ASSUME IInv, NEW kind \in {"semantic", "combined"}, BeginQuery(kind) PROVE IInv'
  OBVIOUS
<1> DEFINE todo == IF db.inventory THEN Input ELSE {f \in Input : Recorded(db, f) # {}}
<1>1. /\ query' = [phase |-> "compare", kind |-> kind, tables |-> db, todo |-> todo,
                   seen |-> [f \in Input |-> {disk[f]}]]
      /\ kind = "combined" => CurrentOverlay(db)
      /\ UNCHANGED <<disk, db, work, edits>>
  BY DEF BeginQuery
<1>2. query' \in Asking
  BY <1>1 DEF IInv, TypeOK, Asking
<1>3. TypeOK'
  BY <1>1, <1>2 DEF IInv, TypeOK
<1>4. /\ query'.tables = db /\ query'.kind = kind /\ query'.phase = "compare" /\ query'.todo = todo
      /\ \A f \in Input : query'.seen[f] = {disk[f]}
  BY <1>1
<1>5. \A f \in Input : f \notin todo => ~db.inventory /\ Recorded(db, f) = {}
  OBVIOUS
<1> HIDE DEF todo
<1>6. QueryInv'
  <2>1. EveryCallDecided(query'.tables)
    BY <1>4 DEF IInv
  <2>2. query'.kind = "combined" => CurrentOverlay(query'.tables)
    BY <1>1, <1>4
  <2>3. \A f \in Input : disk'[f] \in query'.seen[f]
    BY <1>1, <1>4
  <2>4. \A f \in Input : f \notin query'.todo =>
          /\ Recorded(query'.tables, f) = {}
          /\ ~query'.tables.inventory
    BY <1>4, <1>5
  <2> QED
    BY <1>4, <2>1, <2>2, <2>3, <2>4 DEF QueryInv
<1>7. ImportInv'
  BY <1>1 DEF IInv, ImportInv, IndexedAs
<1> QED
  BY <1>1, <1>3, <1>6, <1>7 DEF IInv

LEMMA AskingQuery ==
  ASSUME IInv, query # NoQuery
  PROVE  query \in Asking
  BY DEF IInv, TypeOK

LEMMA CompareFileKeeps == IInv /\ (\E f \in Input : CompareFile(f)) => IInv'
<1> SUFFICES ASSUME IInv, NEW f \in Input, CompareFile(f) PROVE IInv'
  OBVIOUS
<1>1. query # NoQuery /\ query \in Asking
  BY AskingQuery DEF CompareFile, NoQuery
<1>2. query.phase = "compare" /\ UNCHANGED <<disk, db, work, edits>>
  BY DEF CompareFile
<1>3. ImportInv'
  BY <1>2 DEF IInv, ImportInv, IndexedAs
<1>4. CASE query' = NoQuery
  BY <1>2, <1>3, <1>4 DEF IInv, TypeOK, QueryInv
<1>5. CASE Matches(f) /\ query' = [query EXCEPT !.todo = @ \ {f}]
  <2>1. /\ query' \in Asking /\ query'.phase = query.phase /\ query'.kind = query.kind
        /\ query'.tables = query.tables /\ query'.seen = query.seen
        /\ query'.todo = query.todo \ {f}
    BY <1>1, <1>5 DEF Asking
  <2>2. disk[f] \in query.seen[f]
    BY <1>1, <1>2 DEF IInv, QueryInv
  <2>3. LET recorded == Recorded(query.tables, f)
        IN  /\ recorded \subseteq query.seen[f]
            /\ query.tables.inventory /\ recorded = {} => None \in query.seen[f]
    BY <1>5, <2>2 DEF Matches
  <2>4. QueryInv'
    BY <1>1, <1>2, <2>1, <2>3 DEF IInv, QueryInv
  <2>5. TypeOK'
    BY <1>2, <2>1 DEF IInv, TypeOK
  <2> QED
    BY <1>2, <1>3, <2>4, <2>5 DEF IInv
<1> QED
  BY <1>4, <1>5 DEF CompareFile

LEMMA AnswerKeeps == IInv /\ Answer => IInv'
<1> SUFFICES ASSUME IInv, Answer PROVE IInv'
  OBVIOUS
<1>1. query # NoQuery /\ query \in Asking
  BY AskingQuery DEF Answer, NoQuery
<1>2. query.todo = {} /\ UNCHANGED <<disk, db, work, edits>>
  BY DEF Answer
<1>3. /\ query' \in Asking /\ query'.phase = "answered" /\ query'.kind = query.kind
      /\ query'.tables = query.tables /\ query'.seen = query.seen /\ query'.todo = {}
  BY <1>1, <1>2 DEF Answer, Asking
<1>4. QueryInv'
  BY <1>1, <1>2, <1>3 DEF IInv, QueryInv
<1>5. ImportInv' /\ TypeOK'
  BY <1>2, <1>3 DEF IInv, TypeOK, ImportInv, IndexedAs
<1> QED
  BY <1>2, <1>4, <1>5 DEF IInv

LEMMA EndQueryKeeps == IInv /\ EndQuery => IInv'
<1> SUFFICES ASSUME IInv, EndQuery PROVE IInv'
  OBVIOUS
<1>1. query' = NoQuery /\ UNCHANGED <<disk, db, work, edits>>
  BY DEF EndQuery
<1>2. ImportInv' /\ TypeOK' /\ QueryInv'
  BY <1>1 DEF IInv, TypeOK, ImportInv, QueryInv, IndexedAs
<1> QED
  BY <1>1, <1>2 DEF IInv

\* Whatever an edit writes while a query compares, the query has seen it there.
LEMMA EditKeeps == IInv /\ (\E f \in Input, c \in MaybeContent : Edit(f, c)) => IInv'
<1> SUFFICES ASSUME IInv, NEW f \in Input, NEW c \in MaybeContent, Edit(f, c) PROVE IInv'
  OBVIOUS
<1>1. /\ edits' = edits + 1 /\ disk' = [disk EXCEPT ![f] = c] /\ UNCHANGED <<db, work>>
      /\ query' = IF query.phase = "compare" THEN [query EXCEPT !.seen[f] = @ \cup {c}]
                  ELSE query
  BY DEF Edit
<1>2. disk' \in [Input -> MaybeContent] /\ edits' \in Nat
  BY <1>1 DEF IInv, TypeOK
<1>3. ImportInv'
  BY <1>1 DEF IInv, ImportInv, IndexedAs
<1>4. CASE query.phase # "compare"
  BY <1>1, <1>2, <1>3, <1>4 DEF IInv, TypeOK, QueryInv
<1>5. CASE query.phase = "compare"
  <2>1. query # NoQuery /\ query \in Asking
    BY <1>5, AskingQuery DEF NoQuery
  <2>2. query.seen \in [Input -> SUBSET MaybeContent]
    BY <2>1 DEF Asking
  <2>3. /\ query' \in Asking /\ query'.phase = "compare" /\ query'.kind = query.kind
        /\ query'.tables = query.tables /\ query'.todo = query.todo
        /\ query'.seen = [query.seen EXCEPT ![f] = @ \cup {c}]
    BY <1>1, <1>5, <2>1, <2>2 DEF Asking
  <2>4. \A g \in Input : query.seen[g] \subseteq query'.seen[g]
    BY <2>2, <2>3
  <2>5. \A g \in Input : disk'[g] \in query'.seen[g]
    BY <1>1, <1>5, <2>1, <2>2, <2>3 DEF IInv, TypeOK, QueryInv
  <2>6. QueryInv'
    BY <2>1, <2>3, <2>4, <2>5 DEF IInv, QueryInv
  <2>7. TypeOK'
    BY <1>1, <1>2, <2>3 DEF IInv, TypeOK
  <2> QED
    BY <1>1, <1>3, <2>6, <2>7 DEF IInv
<1> QED
  BY <1>4, <1>5

LEMMA StutterKeeps == IInv /\ UNCHANGED vars => IInv'
  BY DEF vars, IInv, TypeOK, ImportInv, QueryInv, IndexedAs
-----------------------------------------------------------------------------
LEMMA Invariance == Spec => []IInv
<1>1. IInv /\ [Next]_vars => IInv'
  BY BeginIndexKeeps, IndexFileKeeps, CommitIndexKeeps, AbandonKeeps, BeginImportKeeps,
     CheckInputKeeps, CheckDocumentKeeps, ParseDocumentKeeps, CommitImportKeeps,
     BeginQueryKeeps, CompareFileKeeps, AnswerKeeps, EndQueryKeeps, EditKeeps, StutterKeeps
  DEF Next
<1> QED
  BY InitInv, <1>1, PTL DEF Spec

(***************************************************************************)
(* The tables, the transaction under way and the open query are what the   *)
(* schema (store.rs:281) and the request types allow; a new row always     *)
(* finds an id.                                                            *)
(***************************************************************************)
THEOREM TypeCorrectness == Spec => []TypeOK
<1>1. IInv => TypeOK
  BY DEF IInv
<1> QED
  BY <1>1, Invariance, PTL

(***************************************************************************)
(* No overlay row (semantic_calls, store.rs:328) ever speaks of another    *)
(* call or definition than the one it was built for, although the ids of   *)
(* deleted rows are given to new ones.                                     *)
(***************************************************************************)
THEOREM OverlayNamesWhatItMeant == Spec => []CallsMeanWhatTheyDid
<1>1. IInv => CallsMeanWhatTheyDid
  BY DEF IInv, Sound, CallsAreMeant, CallsMeanWhatTheyDid
<1> QED
  BY <1>1, Invariance, PTL

(***************************************************************************)
(* An overlay that counts as current was joined with an index of the bytes *)
(* of its documents (scip.rs:283), whatever was indexed or edited since    *)
(* the documents were checked.                                             *)
(***************************************************************************)
THEOREM OverlayIsOfIndexedBytes == Spec => []OverlayOfIndexedBytes
<1>1. IInv => OverlayOfIndexedBytes
  BY DEF IInv, DocumentsIndexed, OverlayOfIndexedBytes
<1> QED
  BY <1>1, Invariance, PTL

(***************************************************************************)
(* In a combined answer no call of a file the artifact covers falls back   *)
(* to the AST's guess (scip/calls.rs:366).                                 *)
(***************************************************************************)
THEOREM CombinedAnswersNeverFallBack == Spec => []NoFallback
<1>1. IInv => NoFallback
  <2> SUFFICES ASSUME IInv, query.phase = "answered", query.kind = "combined"
               PROVE  NoFallback
    BY DEF NoFallback
  <2>1. query # NoQuery
    BY DEF NoQuery
  <2> QED
    BY <2>1 DEF IInv, QueryInv, EveryCallDecided, CurrentOverlay, NoFallback
<1> QED
  BY <1>1, Invariance, PTL

(***************************************************************************)
(* Every file an answer depends on held its recorded content at a moment   *)
(* of the query (scip.rs:460), however the tree was edited during it.      *)
(***************************************************************************)
THEOREM AnswersMatched == Spec => []AnswersMatchTheTree
<1>1. IInv => AnswersMatchTheTree
  <2> SUFFICES ASSUME IInv, query.phase = "answered"
               PROVE  AnswersMatchTheTree
    BY DEF AnswersMatchTheTree
  <2>1. query # NoQuery
    BY DEF NoQuery
  <2> QED
    BY <2>1 DEF IInv, QueryInv, AnswersMatchTheTree
<1> QED
  BY <1>1, Invariance, PTL

(***************************************************************************)
(* A supported import of this executable's validator leaves an overlay     *)
(* that the queries following it accept (scip.rs:368).                     *)
(***************************************************************************)
THEOREM ImportsUsable == Spec => ImportsAreUsable
<1>1. ASSUME IInv, [Next]_vars, work.kind = "import", db' # db,
             db'.supported, db'.callFingerprint = Validator
      PROVE  CurrentOverlay(db')
  <2>1. CommitImport
    BY <1>1 DEF Next, vars, BeginIndex, IndexFile, CommitIndex, Abandon, BeginImport, CheckInput,
                CheckDocument, ParseDocument, BeginQuery, CompareFile, Answer, EndQuery, Edit
  <2>2. db \in Tables
    BY <1>1 DEF IInv, TypeOK
  <2>3. db'.callGen = db'.gen
    BY <2>1, <2>2 DEF CommitImport, BumpThenPersist, Tables
  <2> QED
    BY <1>1, <2>3 DEF CurrentOverlay
<1>2. IInv /\ [Next]_vars =>
        [work.kind = "import" /\ db' # db /\ db'.supported /\ db'.callFingerprint = Validator
         => CurrentOverlay(db')]_vars
  BY <1>1
<1> QED
  BY <1>2, Invariance, PTL DEF Spec, ImportsAreUsable
=============================================================================
