------------------------------ MODULE IndexPass ------------------------------
(***************************************************************************)
(* The indexing pass and the freshness check of src/index.rs over the      *)
(* database of src/store.rs and its snapshots in src/store/history.rs.     *)
(*                                                                         *)
(* A process takes the writer lock, walks the tree one entry at a time,    *)
(* reads every candidate and commits one SQLite transaction, while the     *)
(* tree is edited under it and other processes try the same.  A read or a  *)
(* part of the walk may fail, and the process may fail or be killed at any *)
(* step.  The budgets of the walk and of the reads are failures that may   *)
(* happen at any entry.                                                    *)
(***************************************************************************)
EXTENDS Naturals

CONSTANTS Proc,      \* indexing processes
          Root,      \* canonical root directories
          Path,      \* root-relative source paths
          Content,   \* what a source file can hold (its hash and its text)
          Layout,    \* project markers and go.mod files of a tree
          Policy,    \* exclusion policies: sets of excluded paths
          OptionsOf, \* the options each process may be started with
          RootOf,    \* the root each process was started on
          Trees,     \* what a root may hold at first
          OldBases,  \* rows, modules and resolver a database of an older release may hold
          None,      \* "no file", "no row", "never recorded"
          MaxGen,    \* bound: index generations
          MaxEdits   \* bound: edits of the trees

VARIABLES disk,     \* [Root -> Image]: the trees
          db,       \* the committed database
          lock,     \* holder of the writer lock, or None
          pass,     \* [Proc -> what the process is doing]
          edits,    \* edits so far
          checked   \* history: what the tree was since the check that is recorded began

vars == <<disk, db, lock, pass, edits, checked>>
-----------------------------------------------------------------------------
Image == [files : [Path -> Content \cup {None}], layout : Layout]
Executable == [parser : Nat, resolver : Nat]   \* extraction and resolution fingerprints

\* A row of "files" with the symbols and references extracted from that content.
Row == [content : Content, parser : Nat, project : Layout]
Rows == [Path -> Row \cup {None}]
NoRows == [f \in Path |-> None]

\* The edges stored in "refs" are a function of these inputs (imports::resolve, resolve_all).
Basis(rows, mods, resolver) == [rows |-> rows, mods |-> mods, resolver |-> resolver]
BasisType == [rows : Rows, mods : Layout \cup {None}, resolver : Nat \cup {None}]

ASSUME ConstantsAssumption ==
  /\ Path # {}
  /\ RootOf \in [Proc -> Root]
  /\ Policy \subseteq SUBSET Path
  /\ {} \in Policy
  /\ OptionsOf \in [Proc -> SUBSET [policy : Policy, force : BOOLEAN, exe : Executable]]
  /\ Trees \subseteq Image
  /\ OldBases \subseteq BasisType
  /\ None \notin Proc \cup Root \cup Content \cup Layout \cup Policy \cup Nat
               \cup Row \cup [root : Root, seen : SUBSET Image] \cup {"fresh_at_check"}
  /\ MaxGen \in Nat /\ MaxEdits \in Nat

Snapshot == [gen : Nat, complete : BOOLEAN, rows : Rows, basis : BasisType]

EmptyDb ==
  [root |-> None, gen |-> 0, rows |-> NoRows, mods |-> None, resolver |-> None,
   basis |-> Basis(NoRows, None, None), policy |-> None, tracked |-> FALSE,
   complete |-> FALSE, verdict |-> None, snaps |-> {}]

Idle ==
  [phase |-> "idle", kind |-> "index", opts |-> None, todo |-> {}, cands |-> {},
   complete |-> TRUE, mods |-> None, rows |-> NoRows, changed |-> FALSE,
   recompute |-> FALSE, rescoped |-> FALSE, seen |-> {}]

\* Mutant: no default for a database that recorded no options.
StoredPolicyUnwrapped == db.policy

\* IndexOptions::default excludes nothing.
StoredPolicy == IF db.policy = None THEN {} ELSE db.policy

Tree(p) == disk[RootOf[p]]

Becomes(p, activity) == pass' = [pass EXCEPT ![p] = activity]
-----------------------------------------------------------------------------
\* Mutant: the root is only compared when the engine opens, not again under the lock.
CanStartUnderAnyRoot(p) == pass[p] = Idle /\ lock = None

\* write_lock, then require_root again under it; either refusal changes nothing.
CanStart(p) ==
  /\ pass[p] = Idle
  /\ lock = None
  /\ db.root \in {None, RootOf[p]}

Start(p, kind, opts) ==
  /\ CanStart(p)
  /\ lock' = p
  /\ Becomes(p, [Idle EXCEPT !.phase = "walk", !.kind = kind, !.opts = opts,
                              !.todo = Path, !.seen = {Tree(p)}])
  /\ UNCHANGED <<disk, db, edits, checked>>

StartIndex(p) ==
  /\ db.gen < MaxGen
  /\ \E o \in OptionsOf[p] : Start(p, "index", o)

\* A freshness query needs an index and scans with the options of the last pass.
StartCheck(p) ==
  /\ db.root # None
  /\ \E o \in OptionsOf[p] : Start(p, "check", [o EXCEPT !.policy = StoredPolicy])

\* collect_candidates: one entry of the walk.
WalkEntry(p, f) ==
  /\ pass[p].phase = "walk"
  /\ f \in pass[p].todo
  /\ Becomes(p, [pass[p] EXCEPT !.todo = @ \ {f},
       !.cands = IF Tree(p).files[f] # None /\ f \notin pass[p].opts.policy
                 THEN @ \cup {f} ELSE @])
  /\ UNCHANGED <<disk, db, lock, edits, checked>>

\* A traversal, metadata or probe error, an oversized file, or a spent budget.
WalkFail(p, f) ==
  /\ pass[p].phase = "walk"
  /\ f \in pass[p].todo
  /\ f \notin pass[p].opts.policy
  /\ Becomes(p, [pass[p] EXCEPT !.todo = @ \ {f}, !.complete = FALSE])
  /\ UNCHANGED <<disk, db, lock, edits, checked>>
-----------------------------------------------------------------------------
\* go_modules: a module file that cannot be read is left out, and the scan is incomplete.
ModulesRead(p, readable) == IF readable THEN Tree(p).layout ELSE None

\* Rows whose path a complete walk did not meet.
Vanished(cands) == {f \in Path : db.rows[f] # None /\ f \notin cands}

Rescoped(policy) ==
  \/ db.root # None /\ ~db.tracked
  \/ db.policy # None /\ db.policy # policy

\* The transaction begins with the removal of vanished rows.
PlanIndex(p) ==
  /\ pass[p].phase = "walk" /\ pass[p].kind = "index" /\ pass[p].todo = {}
  /\ \E readable \in BOOLEAN :
       LET s == pass[p]
           complete == s.complete /\ readable
           mods == ModulesRead(p, readable)
           gone == IF complete THEN Vanished(s.cands) ELSE {}
       IN  Becomes(p,
             [s EXCEPT !.phase = "read", !.todo = s.cands, !.complete = complete,
                !.mods = mods,
                !.rows = [f \in Path |-> IF f \in gone THEN None ELSE db.rows[f]],
                !.changed = gone # {},
                !.recompute = db.resolver # s.opts.exe.resolver \/ db.mods # mods,
                !.rescoped = Rescoped(s.opts.policy)])
  /\ UNCHANGED <<disk, db, lock, edits, checked>>

\* Only the same bytes under the same parser keep the extracted symbols.
Unchanged(row, content, opts) ==
  /\ row # None
  /\ ~opts.force
  /\ row.content = content
  /\ row.parser = opts.exe.parser

\* index_one replaces the file's symbols and references and reads the boundary again.
IndexFile(p, f) ==
  LET s == pass[p]
      content == Tree(p).files[f]
      project == Tree(p).layout
      keep == Unchanged(s.rows[f], content, s.opts)
  IN  /\ s.phase = "read" /\ s.kind = "index" /\ f \in s.todo
      /\ content # None
      /\ Becomes(p,
           [s EXCEPT !.todo = @ \ {f},
              !.rows = [@ EXCEPT ![f] = [content |-> content, parser |-> s.opts.exe.parser,
                                         project |-> project]],
              !.changed = @ \/ ~keep,
              !.recompute = @ \/ (keep /\ s.rows[f].project # project)])
      /\ UNCHANGED <<disk, db, lock, edits, checked>>

\* A failed read or parse keeps the row; a file gone since the walk fails too.
IndexFail(p, f) ==
  /\ pass[p].phase = "read" /\ pass[p].kind = "index"
  /\ f \in pass[p].todo
  /\ Becomes(p, [pass[p] EXCEPT !.todo = @ \ {f}, !.complete = FALSE])
  /\ UNCHANGED <<disk, db, lock, edits, checked>>
-----------------------------------------------------------------------------
\* Mutant: an incomplete scan may publish a changed exclusion policy.
NeverRefused(s) == FALSE

\* A changed exclusion policy is only published by a complete scan.
Refused(s) == s.rescoped /\ ~s.complete

\* Mutant: changed project boundaries, modules and resolvers are forgotten.
ResolvesOnNewRowsOnly(s) == s.changed

Resolves(s) == s.changed \/ s.recompute

\* DELETE ... NOT IN (the two newest): at most one retained snapshot is newer.
NewestTwo(snaps) ==
  {s \in snaps : \A t, u \in snaps : t.gen > s.gen /\ u.gen > s.gen => t.gen = u.gen}

\* Mutant: only new or removed rows are thought to need a snapshot.
SnapshotsOfNewRowsOnly(s, gen, basis) ==
  LET kept == IF s.rescoped THEN {} ELSE db.snaps
      new == [gen |-> gen, complete |-> s.complete, rows |-> s.rows, basis |-> basis]
  IN  IF s.rescoped \/ s.changed \/ gen = 1 THEN NewestTwo(kept \cup {new}) ELSE kept

\* discard_snapshots, then save_snapshot when names or edges may have changed.
SnapshotsAfter(s, gen, basis) ==
  LET kept == IF s.rescoped THEN {} ELSE db.snaps
      new == [gen |-> gen, complete |-> s.complete, rows |-> s.rows, basis |-> basis]
  IN  IF s.rescoped \/ Resolves(s) \/ gen = 1 THEN NewestTwo(kept \cup {new}) ELSE kept

Committed(p) ==
  LET s == pass[p]
      gen == db.gen + 1
      basis == IF Resolves(s) THEN Basis(s.rows, s.mods, s.opts.exe.resolver) ELSE db.basis
  IN  [root |-> RootOf[p], gen |-> gen, rows |-> s.rows, mods |-> s.mods,
       resolver |-> s.opts.exe.resolver, basis |-> basis, policy |-> s.opts.policy,
       tracked |-> TRUE, complete |-> s.complete, verdict |-> None,
       snaps |-> SnapshotsAfter(s, gen, basis)]

\* Leaving index() or freshness() drops the flock.
Release(p) ==
  /\ lock' = None
  /\ Becomes(p, Idle)

Commit(p) ==
  /\ pass[p].phase = "read" /\ pass[p].kind = "index" /\ pass[p].todo = {}
  /\ ~Refused(pass[p])
  /\ db' = Committed(p)
  /\ Release(p)
  /\ checked' = {}
  /\ UNCHANGED <<disk, edits>>

\* An error return, the refusal of an incomplete rescoping, the index size
\* budget, or a kill: SQLite rolls back and the kernel drops the flock.
Abandon(p) ==
  /\ pass[p].phase # "idle"
  /\ Release(p)
  /\ UNCHANGED <<disk, db, edits, checked>>
-----------------------------------------------------------------------------
\* check_freshness reads the module files, then compares every candidate's bytes.
PlanCheck(p) ==
  /\ pass[p].phase = "walk" /\ pass[p].kind = "check" /\ pass[p].todo = {}
  /\ \E readable \in BOOLEAN :
       Becomes(p, [pass[p] EXCEPT !.phase = "read", !.todo = pass[p].cands,
                     !.complete = @ /\ readable, !.mods = ModulesRead(p, readable)])
  /\ UNCHANGED <<disk, db, lock, edits, checked>>

Matches(p, f) ==
  db.rows[f] = [content |-> Tree(p).files[f], parser |-> pass[p].opts.exe.parser,
                project |-> Tree(p).layout]

CheckFile(p, f) ==
  /\ pass[p].phase = "read" /\ pass[p].kind = "check"
  /\ f \in pass[p].todo
  /\ Tree(p).files[f] # None
  /\ Becomes(p, [pass[p] EXCEPT !.todo = @ \ {f}, !.changed = @ \/ ~Matches(p, f)])
  /\ UNCHANGED <<disk, db, lock, edits, checked>>

CheckFail(p, f) ==
  /\ pass[p].phase = "read" /\ pass[p].kind = "check"
  /\ f \in pass[p].todo
  /\ Becomes(p, [pass[p] EXCEPT !.todo = @ \ {f}, !.complete = FALSE, !.changed = TRUE])
  /\ UNCHANGED <<disk, db, lock, edits, checked>>

\* Mutant: only files that are still there are compared.
VerdictOfPresentFiles(s) ==
  IF s.changed \/ db.resolver # s.opts.exe.resolver \/ db.mods # s.mods
  THEN "stale"
  ELSE IF s.complete /\ db.complete THEN "fresh_at_check" ELSE "incomplete"

Verdict(s) ==
  IF \/ s.changed
     \/ s.complete /\ Vanished(s.cands) # {}
     \/ db.resolver # s.opts.exe.resolver
     \/ db.mods # s.mods
  THEN "stale"
  ELSE IF s.complete /\ db.complete THEN "fresh_at_check" ELSE "incomplete"

\* The verdict is stored beside the index it is about.
RecordCheck(p) ==
  /\ pass[p].phase = "read" /\ pass[p].kind = "check" /\ pass[p].todo = {}
  /\ db' = [db EXCEPT !.verdict = Verdict(pass[p])]
  /\ checked' = pass[p].seen
  /\ Release(p)
  /\ UNCHANGED <<disk, edits>>
-----------------------------------------------------------------------------
\* One file or the layout of a tree changes; a running pass may see it.
Edit(r, image) ==
  /\ edits < MaxEdits
  /\ image # disk[r]
  /\ edits' = edits + 1
  /\ disk' = [disk EXCEPT ![r] = image]
  /\ pass' = [p \in Proc |->
       IF pass[p].phase # "idle" /\ RootOf[p] = r
       THEN [pass[p] EXCEPT !.seen = @ \cup {image}] ELSE pass[p]]
  /\ UNCHANGED <<db, lock, checked>>

EditTree(r) ==
  \/ \E f \in Path, c \in Content \cup {None} : Edit(r, [disk[r] EXCEPT !.files[f] = c])
  \/ \E l \in Layout : Edit(r, [disk[r] EXCEPT !.layout = l])
-----------------------------------------------------------------------------
(***************************************************************************)
(* A database written before exclusions were tracked: its rows and its     *)
(* snapshot obey no recorded policy, and its edges belong to its rows.     *)
(***************************************************************************)
Legacy(r, basis) ==
  [EmptyDb EXCEPT
     !.root = r, !.gen = 1, !.rows = basis.rows, !.mods = basis.mods,
     !.resolver = basis.resolver, !.basis = basis, !.complete = TRUE,
     !.snaps = {[gen |-> 1, complete |-> TRUE, rows |-> basis.rows, basis |-> basis]}]

Init ==
  /\ disk \in [Root -> Trees]
  /\ \/ db = EmptyDb
     \/ \E r \in Root, basis \in OldBases : db = Legacy(r, basis)
  /\ lock = None
  /\ pass = [p \in Proc |-> Idle]
  /\ edits = 0
  /\ checked = {}

Step(p) ==
  \/ \E f \in Path : \/ WalkEntry(p, f) \/ WalkFail(p, f)
                     \/ IndexFile(p, f) \/ IndexFail(p, f)
                     \/ CheckFile(p, f) \/ CheckFail(p, f)
  \/ PlanIndex(p) \/ PlanCheck(p)
  \/ Commit(p) \/ RecordCheck(p) \/ Abandon(p)

Next ==
  \/ \E p \in Proc : StartIndex(p) \/ StartCheck(p) \/ Step(p)
  \/ \E r \in Root : EditTree(r)

Spec == Init /\ [][Next]_vars
=============================================================================
