-------------------------- MODULE IndexPassProofs --------------------------
(***************************************************************************)
(* The safety of the indexing pass for any number of processes, roots,     *)
(* paths, contents and policies, without the bounds of the TLC runs.       *)
(***************************************************************************)
EXTENDS IndexPassProps, TLAPS

(***************************************************************************)
(* The inductive invariant.  Whoever is busy holds the lock, so only its   *)
(* own commit can change the database it planned against.                  *)
(***************************************************************************)
LockInv ==
  \A p \in Proc : IF lock = p THEN pass[p].phase # "idle" ELSE pass[p] = Idle

\* The candidates of a walk obey its policy; a check walks under the stored one.
Candidate(s) ==
  /\ \A f \in s.cands : f \notin s.opts.policy
  /\ s.phase = "read" => s.todo \subseteq s.cands

\* A pending transaction differs from the database only where the pass worked.
Pending(s) ==
  /\ s.rescoped = Rescoped(s.opts.policy)
  /\ \A f \in Path : f \notin s.cands =>
       s.rows[f] = None \/ (~s.complete /\ s.rows[f] = db.rows[f])
  /\ ~s.changed /\ ~s.recompute =>
       s.rows = db.rows /\ s.mods = db.mods /\ s.opts.exe.resolver = db.resolver

IndexReading(s) == s.phase = "read" /\ s.kind = "index"

PassInv ==
  \A p \in Proc : /\ Candidate(pass[p])
                  /\ IndexReading(pass[p]) => Pending(pass[p])

\* No retained snapshot is of a later generation than the database.
SnapshotAgeInv == \A s \in db.snaps : s.gen <= db.gen

\* What an empty, never indexed database looks like to the rescoping test.
UnindexedInv ==
  db.root = None =>
    /\ db.policy = None /\ db.rows = NoRows /\ db.resolver = None
    /\ ~db.tracked /\ db.gen = 0 /\ db.snaps = {}

\* What an indexed one has recorded.
TrackedInv ==
  /\ db.tracked => db.root # None /\ db.policy # None
  /\ db.root # None => db.gen # 0

\* What holds of the committed database alone.
DbInv ==
  /\ SnapshotAgeInv
  /\ UnindexedInv
  /\ TrackedInv
  /\ PolicyRespected
  /\ EdgesCurrent
  /\ NewestSnapshotCurrent

IInv ==
  /\ TypeOK
  /\ LockInv
  /\ PassInv
  /\ DbInv
-----------------------------------------------------------------------------
(* Type correctness. *)

LEMMA IdleType == Idle \in Activity
  BY DEF Idle, Activity, NoRows, Rows

\* The stored policy is one of the policies.
LEMMA StoredPolicyType ==
  ASSUME TypeOK PROVE StoredPolicy \in Policy
  BY ConstantsAssumption DEF TypeOK, StoredPolicy, Database

\* A well-typed activity with options keeps the processes well typed.
LEMMA BecomesType ==
  ASSUME TypeOK, NEW p \in Proc, NEW a \in Activity,
         a.phase # "idle" => a.opts \in Started,
         Becomes(p, a)
  PROVE  /\ pass' \in [Proc -> Activity]
         /\ \A q \in Proc : pass'[q].phase # "idle" => pass'[q].opts \in Started
  BY DEF TypeOK, Becomes

LEMMA ReleaseType ==
  ASSUME TypeOK, NEW p \in Proc, Release(p)
  PROVE  /\ lock' \in Proc \cup {None}
         /\ pass' \in [Proc -> Activity]
         /\ \A q \in Proc : pass'[q].phase # "idle" => pass'[q].opts \in Started
<1>1. Idle \in Activity /\ Idle.phase = "idle"
  BY IdleType DEF Idle
<1>. QED
  BY <1>1, BecomesType DEF Release

LEMMA InitType == Init => TypeOK
<1>1. EmptyDb \in Database
  BY DEF EmptyDb, Database, NoRows, Rows, Basis, BasisType
<1>2. ASSUME NEW r \in Root, NEW basis \in OldBases
      PROVE  Legacy(r, basis) \in Database
  <2>1. basis \in BasisType
    BY ConstantsAssumption
  <2>2. /\ basis.rows \in Rows /\ basis.mods \in Layout \cup {None}
        /\ basis.resolver \in Nat \cup {None}
    BY <2>1 DEF BasisType
  <2>3. [gen |-> 1, complete |-> TRUE, rows |-> basis.rows, basis |-> basis] \in Snapshot
    BY <2>1, <2>2 DEF Snapshot
  <2>. QED
    BY <2>1, <2>2, <2>3, <1>1 DEF Legacy, EmptyDb, Database
<1>3. Idle.phase = "idle"
  BY DEF Idle
<1>. SUFFICES ASSUME Init PROVE TypeOK
  OBVIOUS
<1>4. db \in Database
  BY <1>1, <1>2 DEF Init
<1>5. disk \in [Root -> Image]
  BY ConstantsAssumption DEF Init
<1>6. /\ pass \in [Proc -> Activity]
      /\ \A p \in Proc : pass[p].phase # "idle" => pass[p].opts \in Started
  BY <1>3, IdleType DEF Init
<1>. QED
  BY <1>4, <1>5, <1>6 DEF Init, TypeOK

\* The steps of an activity that only touch the process that takes them.
LEMMA OwnStepType ==
  ASSUME TypeOK, NEW p \in Proc, NEW a \in Activity,
         a.phase # "idle" => a.opts \in Started,
         Becomes(p, a), lock' \in {lock, p},
         UNCHANGED <<disk, db, edits, checked>>
  PROVE  TypeOK'
  BY BecomesType DEF TypeOK

LEMMA StartType ==
  ASSUME TypeOK, NEW p \in Proc, NEW kind \in {"index", "check"}, NEW opts \in Started,
         Start(p, kind, opts)
  PROVE  TypeOK'
<1>. DEFINE a == [Idle EXCEPT !.phase = "walk", !.kind = kind, !.opts = opts,
                              !.todo = Path, !.seen = {Tree(p)}]
<1>1. Tree(p) \in Image
  BY ConstantsAssumption DEF TypeOK, Tree
<1>2. a \in Activity /\ (a.phase # "idle" => a.opts \in Started)
  BY <1>1, IdleType DEF Idle, Activity
<1>3. Becomes(p, a) /\ lock' \in {lock, p} /\ UNCHANGED <<disk, db, edits, checked>>
  BY DEF Start
<1>. HIDE DEF a
<1>. QED
  BY <1>2, <1>3, OwnStepType

LEMMA WalkType ==
  ASSUME TypeOK, NEW p \in Proc, NEW f \in Path, WalkEntry(p, f) \/ WalkFail(p, f)
  PROVE  TypeOK'
<1>1. pass[p] \in Activity /\ (pass[p].phase # "idle" => pass[p].opts \in Started)
  BY DEF TypeOK
<1>2. CASE WalkEntry(p, f)
  <2>. DEFINE cands == IF Tree(p).files[f] # None /\ f \notin pass[p].opts.policy
                       THEN pass[p].cands \cup {f} ELSE pass[p].cands
              a == [pass[p] EXCEPT !.todo = @ \ {f}, !.cands = cands]
  <2>1. cands \in SUBSET Path
    BY <1>1 DEF Activity
  <2>2. a \in Activity /\ (a.phase # "idle" => a.opts \in Started)
    BY <1>1, <2>1 DEF Activity
  <2>3. Becomes(p, a) /\ lock' \in {lock, p} /\ UNCHANGED <<disk, db, edits, checked>>
    BY <1>2 DEF WalkEntry
  <2>. HIDE DEF a
  <2>. QED
    BY <2>2, <2>3, OwnStepType
<1>3. CASE WalkFail(p, f)
  <2>. DEFINE a == [pass[p] EXCEPT !.todo = @ \ {f}, !.complete = FALSE]
  <2>1. a \in Activity /\ (a.phase # "idle" => a.opts \in Started)
    BY <1>1 DEF Activity
  <2>2. Becomes(p, a) /\ lock' \in {lock, p} /\ UNCHANGED <<disk, db, edits, checked>>
    BY <1>3 DEF WalkFail
  <2>. HIDE DEF a
  <2>. QED
    BY <2>1, <2>2, OwnStepType
<1>. QED
  BY <1>2, <1>3
\* What a process reads of its tree and of the modules has the right type.
LEMMA ReadTypes ==
  ASSUME TypeOK, NEW p \in Proc
  PROVE  /\ Tree(p) \in Image
         /\ \A readable \in BOOLEAN : ModulesRead(p, readable) \in Layout \cup {None}
  BY ConstantsAssumption DEF TypeOK, Tree, Image, ModulesRead

\* What PlanIndex makes of the walk s, in terms of what it computes from it.
Planned(s, complete, mods, rows, changed, recompute, rescoped) ==
  [s EXCEPT !.phase = "read", !.todo = s.cands, !.complete = complete, !.mods = mods,
            !.rows = rows, !.changed = changed, !.recompute = recompute,
            !.rescoped = rescoped]

\* The plan of a transaction is an activity, whatever the walk found.
LEMMA PlannedType ==
  ASSUME NEW s \in Activity, s.opts \in Started, NEW complete \in BOOLEAN,
         NEW mods \in Layout \cup {None}, NEW rows \in Rows, NEW changed \in BOOLEAN,
         NEW recompute \in BOOLEAN, NEW rescoped \in BOOLEAN
  PROVE  /\ Planned(s, complete, mods, rows, changed, recompute, rescoped) \in Activity
         /\ Planned(s, complete, mods, rows, changed, recompute, rescoped).opts \in Started
<1>1. s.cands \in SUBSET Path
  BY DEF Activity
<1>. DEFINE b == [s EXCEPT !.phase = "read", !.todo = s.cands, !.complete = complete,
                    !.mods = mods]
            c == [b EXCEPT !.rows = rows, !.changed = changed, !.recompute = recompute,
                    !.rescoped = rescoped]
<1>2. b \in Activity /\ b.opts = s.opts
  BY <1>1 DEF Activity
<1>. HIDE DEF b
<1>3. c.opts = b.opts
  BY <1>2 DEF Activity
<1>4. c \in Activity
  BY <1>2 DEF Activity
<1>. QED
  BY <1>2, <1>3, <1>4 DEF Planned, b

\* The plan, with the values the transaction starts from.
LEMMA PlanIndexPlans ==
  ASSUME NEW p \in Proc, PlanIndex(p)
  PROVE  \E readable \in BOOLEAN :
           LET complete == pass[p].complete /\ readable
               mods == ModulesRead(p, readable)
               gone == IF complete THEN Vanished(pass[p].cands) ELSE {}
           IN  Becomes(p, Planned(pass[p], complete, mods,
                            [f \in Path |-> IF f \in gone THEN None ELSE db.rows[f]],
                            gone # {},
                            db.resolver # pass[p].opts.exe.resolver \/ db.mods # mods,
                            Rescoped(pass[p].opts.policy)))
  BY DEF PlanIndex, Planned

LEMMA PlanType ==
  ASSUME TypeOK, NEW p \in Proc, PlanIndex(p) \/ PlanCheck(p)
  PROVE  TypeOK'
<1>1. pass[p] \in Activity /\ (pass[p].phase # "idle" => pass[p].opts \in Started)
  BY DEF TypeOK
<1>2. CASE PlanIndex(p)
  <2>. DEFINE complete(readable) == pass[p].complete /\ readable
              mods(readable) == ModulesRead(p, readable)
              gone(readable) == IF complete(readable) THEN Vanished(pass[p].cands) ELSE {}
              rows(readable) == [f \in Path |-> IF f \in gone(readable) THEN None
                                                ELSE db.rows[f]]
              changed(readable) == gone(readable) # {}
              recompute(readable) == \/ db.resolver # pass[p].opts.exe.resolver
                                     \/ db.mods # mods(readable)
              rescoped == Rescoped(pass[p].opts.policy)
              a(readable) == Planned(pass[p], complete(readable), mods(readable),
                               rows(readable), changed(readable), recompute(readable), rescoped)
  <2>1. PICK readable \in BOOLEAN : Becomes(p, a(readable))
    BY <1>2, PlanIndexPlans
  <2>2. rows(readable) \in Rows
    BY DEF TypeOK, Database, Rows
  <2>3. /\ complete(readable) \in BOOLEAN /\ changed(readable) \in BOOLEAN
        /\ recompute(readable) \in BOOLEAN /\ rescoped \in BOOLEAN
    BY <1>1 DEF Activity, Rescoped
  <2>4. mods(readable) \in Layout \cup {None}
    BY ReadTypes
  <2>5. pass[p].opts \in Started
    BY <1>1, <1>2 DEF PlanIndex
  <2>. HIDE DEF complete, mods, gone, rows, changed, recompute, rescoped
  <2>6. a(readable) \in Activity /\ a(readable).opts \in Started
    BY <1>1, <2>2, <2>3, <2>4, <2>5, PlannedType
  <2>7. lock' \in {lock, p} /\ UNCHANGED <<disk, db, edits, checked>>
    BY <1>2 DEF PlanIndex
  <2>. HIDE DEF a
  <2>. QED
    BY <2>1, <2>6, <2>7, OwnStepType
<1>3. CASE PlanCheck(p)
  <2>. PICK readable \in BOOLEAN :
         Becomes(p, [pass[p] EXCEPT !.phase = "read", !.todo = pass[p].cands,
                       !.complete = @ /\ readable, !.mods = ModulesRead(p, readable)])
    BY <1>3 DEF PlanCheck
  <2>. DEFINE a == [pass[p] EXCEPT !.phase = "read", !.todo = pass[p].cands,
                      !.complete = @ /\ readable, !.mods = ModulesRead(p, readable)]
  <2>1. pass[p].opts \in Started
    BY <1>1, <1>3 DEF PlanCheck
  <2>2. a \in Activity /\ (a.phase # "idle" => a.opts \in Started)
    BY <1>1, <2>1, ReadTypes DEF Activity
  <2>3. Becomes(p, a) /\ lock' \in {lock, p} /\ UNCHANGED <<disk, db, edits, checked>>
    BY <1>3 DEF PlanCheck
  <2>. HIDE DEF a
  <2>. QED
    BY <2>2, <2>3, OwnStepType
<1>. QED
  BY <1>2, <1>3

LEMMA FileType ==
  ASSUME TypeOK, NEW p \in Proc, NEW f \in Path,
         \/ IndexFile(p, f) \/ IndexFail(p, f)
         \/ CheckFile(p, f) \/ CheckFail(p, f)
  PROVE  TypeOK'
<1>1. pass[p] \in Activity /\ (pass[p].phase # "idle" => pass[p].opts \in Started)
  BY DEF TypeOK
<1>2. CASE IndexFile(p, f)
  <2>. DEFINE row == [content |-> Tree(p).files[f], parser |-> pass[p].opts.exe.parser,
                      project |-> Tree(p).layout]
              keep == Unchanged(pass[p].rows[f], Tree(p).files[f], pass[p].opts)
              a == [pass[p] EXCEPT !.todo = @ \ {f}, !.rows = [@ EXCEPT ![f] = row],
                      !.changed = @ \/ ~keep,
                      !.recompute = @ \/ (keep /\ pass[p].rows[f].project # Tree(p).layout)]
  <2>1. pass[p].opts \in Started
    BY <1>1, <1>2 DEF IndexFile
  <2>2. row \in Row
    BY <1>2, <2>1, ReadTypes DEF IndexFile, Row, Image, Started, Executable
  <2>3. [pass[p].rows EXCEPT ![f] = row] \in Rows
    BY <1>1, <2>2 DEF Activity, Rows
  <2>4. keep \in BOOLEAN
    BY DEF Unchanged
  <2>. HIDE DEF row, keep
  <2>5. a \in Activity /\ (a.phase # "idle" => a.opts \in Started)
    BY <1>1, <2>1, <2>3, <2>4 DEF Activity
  <2>6. Becomes(p, a) /\ lock' \in {lock, p} /\ UNCHANGED <<disk, db, edits, checked>>
    BY <1>2 DEF IndexFile, row, keep
  <2>. HIDE DEF a
  <2>. QED
    BY <2>5, <2>6, OwnStepType
<1>3. CASE IndexFail(p, f)
  <2>. DEFINE a == [pass[p] EXCEPT !.todo = @ \ {f}, !.complete = FALSE]
  <2>1. a \in Activity /\ (a.phase # "idle" => a.opts \in Started)
    BY <1>1 DEF Activity
  <2>2. Becomes(p, a) /\ lock' \in {lock, p} /\ UNCHANGED <<disk, db, edits, checked>>
    BY <1>3 DEF IndexFail
  <2>. HIDE DEF a
  <2>. QED
    BY <2>1, <2>2, OwnStepType
<1>4. CASE CheckFile(p, f)
  <2>. DEFINE a == [pass[p] EXCEPT !.todo = @ \ {f}, !.changed = @ \/ ~Matches(p, f)]
  <2>1. a \in Activity /\ (a.phase # "idle" => a.opts \in Started)
    BY <1>1 DEF Activity, Matches
  <2>2. Becomes(p, a) /\ lock' \in {lock, p} /\ UNCHANGED <<disk, db, edits, checked>>
    BY <1>4 DEF CheckFile
  <2>. HIDE DEF a
  <2>. QED
    BY <2>1, <2>2, OwnStepType
<1>5. CASE CheckFail(p, f)
  <2>. DEFINE a == [pass[p] EXCEPT !.todo = @ \ {f}, !.complete = FALSE, !.changed = TRUE]
  <2>1. a \in Activity /\ (a.phase # "idle" => a.opts \in Started)
    BY <1>1 DEF Activity
  <2>2. Becomes(p, a) /\ lock' \in {lock, p} /\ UNCHANGED <<disk, db, edits, checked>>
    BY <1>5 DEF CheckFail
  <2>. HIDE DEF a
  <2>. QED
    BY <2>1, <2>2, OwnStepType
<1>. QED
  BY <1>2, <1>3, <1>4, <1>5

\* What a commit writes is a database.
LEMMA CommittedType ==
  ASSUME TypeOK, NEW p \in Proc, pass[p].opts \in Started
  PROVE  Committed(p) \in Database
<1>. DEFINE s == pass[p]
            gen == db.gen + 1
            basis == IF Resolves(s) THEN Basis(s.rows, s.mods, s.opts.exe.resolver)
                     ELSE db.basis
            new == [gen |-> gen, complete |-> s.complete, rows |-> s.rows, basis |-> basis]
            kept == IF s.rescoped THEN {} ELSE db.snaps
<1>1. /\ s \in Activity /\ s.opts.policy \in Policy /\ s.opts.exe.resolver \in Nat
      /\ s.rows \in Rows /\ s.mods \in Layout \cup {None} /\ s.complete \in BOOLEAN
  BY DEF TypeOK, Activity, Started, Executable
<1>2. gen \in Nat /\ db.basis \in BasisType /\ db.snaps \in SUBSET Snapshot
  BY DEF TypeOK, Database
<1>. HIDE DEF s, gen
<1>3. basis \in BasisType
  BY <1>1, <1>2 DEF Basis, BasisType
<1>. HIDE DEF basis
<1>4. new \in Snapshot
  BY <1>1, <1>2, <1>3 DEF Snapshot
<1>. HIDE DEF new
<1>5. kept \cup {new} \subseteq Snapshot
  BY <1>2, <1>4
<1>. HIDE DEF kept
<1>6. SnapshotsAfter(s, gen, basis) \in SUBSET Snapshot
  <2>1. NewestTwo(kept \cup {new}) \subseteq kept \cup {new}
    BY DEF NewestTwo
  <2>. QED
    BY <1>5, <2>1 DEF SnapshotsAfter, kept, new
<1>7. RootOf[p] \in Root
  BY ConstantsAssumption
<1>8. Committed(p) =
        [root |-> RootOf[p], gen |-> gen, rows |-> s.rows, mods |-> s.mods,
         resolver |-> s.opts.exe.resolver, basis |-> basis, policy |-> s.opts.policy,
         tracked |-> TRUE, complete |-> s.complete, verdict |-> None,
         snaps |-> SnapshotsAfter(s, gen, basis)]
  BY DEF Committed, s, gen, basis
<1>. QED
  BY <1>1, <1>2, <1>3, <1>6, <1>7, <1>8 DEF Database

LEMMA EndType ==
  ASSUME TypeOK, NEW p \in Proc, Commit(p) \/ RecordCheck(p) \/ Abandon(p)
  PROVE  TypeOK'
<1>1. Release(p) /\ disk' = disk /\ edits' = edits
  BY DEF Commit, RecordCheck, Abandon
<1>2. /\ lock' \in Proc \cup {None}
      /\ pass' \in [Proc -> Activity]
      /\ \A q \in Proc : pass'[q].phase # "idle" => pass'[q].opts \in Started
  BY <1>1, ReleaseType
<1>3. db' \in Database /\ checked' \in SUBSET Image
  <2>1. CASE Commit(p)
    <3>1. pass[p].opts \in Started
      BY <2>1 DEF TypeOK, Commit
    <3>. QED
      BY <2>1, <3>1, CommittedType DEF TypeOK, Commit
  <2>2. CASE RecordCheck(p)
    <3>1. Verdict(pass[p]) \in {"stale", "incomplete", "fresh_at_check", None}
      BY DEF Verdict
    <3>2. pass[p].seen \in SUBSET Image
      BY DEF TypeOK, Activity
    <3>3. db' \in Database
      BY <2>2, <3>1 DEF TypeOK, Database, RecordCheck
    <3>. QED
      BY <2>2, <3>2, <3>3 DEF RecordCheck
  <2>3. CASE Abandon(p)
    BY <2>3 DEF TypeOK, Abandon
  <2>. QED
    BY <2>1, <2>2, <2>3
<1>. QED
  BY <1>1, <1>2, <1>3 DEF TypeOK

LEMMA EditType ==
  ASSUME TypeOK, NEW r \in Root, EditTree(r)
  PROVE  TypeOK'
<1>1. PICK image \in Image : Edit(r, image)
  <2>1. disk[r] \in Image
    BY DEF TypeOK
  <2>2. \A f \in Path, c \in Content \cup {None} : [disk[r] EXCEPT !.files[f] = c] \in Image
    BY <2>1 DEF Image
  <2>3. \A l \in Layout : [disk[r] EXCEPT !.layout = l] \in Image
    BY <2>1 DEF Image
  <2>. QED
    BY <2>2, <2>3 DEF EditTree
<1>2. \A p \in Proc : /\ pass'[p] \in Activity
                      /\ pass'[p].phase = pass[p].phase /\ pass'[p].opts = pass[p].opts
  <2>. TAKE p \in Proc
  <2>1. pass[p] \in Activity
    BY DEF TypeOK
  <2>2. [pass[p] EXCEPT !.seen = @ \cup {image}] \in Activity
    BY <2>1 DEF Activity
  <2>3. /\ [pass[p] EXCEPT !.seen = @ \cup {image}].phase = pass[p].phase
        /\ [pass[p] EXCEPT !.seen = @ \cup {image}].opts = pass[p].opts
    BY <2>1 DEF Activity
  <2>. QED
    BY <1>1, <2>1, <2>2, <2>3 DEF Edit
<1>3. pass' \in [Proc -> Activity]
  BY <1>1, <1>2 DEF Edit
<1>4. disk' \in [Root -> Image] /\ edits' \in Nat /\ checked' \in SUBSET Image
  BY <1>1 DEF TypeOK, Edit
<1>. QED
  BY <1>1, <1>2, <1>3, <1>4 DEF TypeOK, Edit

LEMMA StepType == TypeOK /\ [Next]_vars => TypeOK'
<1>. SUFFICES ASSUME TypeOK, [Next]_vars PROVE TypeOK'
  OBVIOUS
<1>1. CASE UNCHANGED vars
  BY <1>1 DEF vars, TypeOK
<1>2. ASSUME NEW p \in Proc, StartIndex(p) PROVE TypeOK'
  <2>1. PICK o \in OptionsOf[p] : Start(p, "index", o)
    BY <1>2 DEF StartIndex
  <2>2. o \in Started
    BY ConstantsAssumption DEF Started
  <2>. QED
    BY <2>1, <2>2, StartType
<1>3. ASSUME NEW p \in Proc, StartCheck(p) PROVE TypeOK'
  <2>1. PICK o \in OptionsOf[p] : Start(p, "check", [o EXCEPT !.policy = StoredPolicy])
    BY <1>3 DEF StartCheck
  <2>2. o \in Started
    BY ConstantsAssumption DEF Started
  <2>3. [o EXCEPT !.policy = StoredPolicy] \in Started
    BY <2>2, StoredPolicyType DEF Started
  <2>. QED
    BY <2>1, <2>3, StartType
<1>4. ASSUME NEW p \in Proc, Step(p) PROVE TypeOK'
  BY <1>4, WalkType, FileType, PlanType, EndType DEF Step
<1>5. ASSUME NEW r \in Root, EditTree(r) PROVE TypeOK'
  BY <1>5, EditType
<1>. QED
  BY <1>1, <1>2, <1>3, <1>4, <1>5 DEF Next

(***************************************************************************)
(* Whatever the interleaving of passes, checks, edits, failures and kills, *)
(* the database and every process stay well typed.                         *)
(***************************************************************************)
THEOREM TypeCorrect == Spec => []TypeOK
  BY InitType, StepType, PTL DEF Spec
-----------------------------------------------------------------------------
(* The inductive invariant. *)

LEMMA InitInvariant == Init => IInv
<1>. SUFFICES ASSUME Init PROVE IInv
  OBVIOUS
<1>1. TypeOK
  BY InitType
<1>2. LockInv /\ PassInv
  BY ConstantsAssumption DEF Init, LockInv, PassInv, Candidate, IndexReading, Idle
<1>3. CASE db = EmptyDb
  <2>1. DbInv
    BY <1>3 DEF EmptyDb, NoRows, DbInv, SnapshotAgeInv, UnindexedInv, TrackedInv,
                PolicyRespected, EdgesCurrent, NewestSnapshotCurrent
  <2>. QED
    BY <1>1, <1>2, <2>1 DEF IInv
<1>4. ASSUME NEW r \in Root, NEW basis \in OldBases, db = Legacy(r, basis) PROVE IInv
  <2>. DEFINE old == [gen |-> 1, complete |-> TRUE, rows |-> basis.rows, basis |-> basis]
  <2>1. basis \in BasisType
    BY ConstantsAssumption
  <2>2. /\ db.root = r /\ db.root # None /\ db.gen = 1 /\ ~db.tracked /\ db.snaps = {old}
        /\ db.basis = basis /\ db.rows = basis.rows /\ db.mods = basis.mods
        /\ db.resolver = basis.resolver
    BY <1>4, ConstantsAssumption DEF Legacy, EmptyDb
  <2>3. basis = Basis(basis.rows, basis.mods, basis.resolver)
    BY <2>1 DEF BasisType, Basis
  <2>4. DbInv
    BY <2>2, <2>3 DEF DbInv, SnapshotAgeInv, UnindexedInv, TrackedInv,
                      PolicyRespected, EdgesCurrent, NewestSnapshotCurrent
  <2>. QED
    BY <1>1, <1>2, <2>4 DEF IInv
<1>. QED
  BY <1>3, <1>4 DEF Init

\* A step that leaves the database alone, taken by the process that has the lock.
LEMMA OwnStepInvariant ==
  ASSUME IInv, TypeOK', NEW p \in Proc, NEW a, Becomes(p, a), lock \in {None, p}, lock' = p,
         a.phase # "idle", db' = db,
         Candidate(a), IndexReading(a) => Pending(a)
  PROVE  IInv'
<1>1. pass'[p] = a /\ \A q \in Proc : q # p => pass'[q] = pass[q]
  BY DEF IInv, TypeOK, Becomes
<1>2. \A q \in Proc : q # p => pass[q] = Idle
  BY ConstantsAssumption DEF IInv, LockInv
<1>3. LockInv'
  BY <1>1, <1>2 DEF LockInv
<1>4. \A s : Pending(s) <=> Pending(s)'
  BY DEF Pending, Rescoped
<1>5. PassInv'
  <2>. SUFFICES ASSUME NEW q \in Proc
                PROVE  /\ Candidate(pass'[q])
                       /\ IndexReading(pass'[q]) => Pending(pass[q])'
    BY DEF PassInv, Candidate, IndexReading
  <2>1. CASE q = p
    BY <2>1, <1>1 DEF Pending, Rescoped
  <2>2. CASE q # p
    BY <2>2, <1>1, <1>2 DEF IInv, PassInv, IndexReading, Idle
  <2>. QED
    BY <2>1, <2>2
<1>6. DbInv'
  BY DEF IInv, DbInv, SnapshotAgeInv, UnindexedInv, TrackedInv, PolicyRespected,
         EdgesCurrent, NewestSnapshotCurrent
<1>. QED
  BY <1>3, <1>5, <1>6 DEF IInv

\* A busy process is the one that holds the lock.
LEMMA BusyHolds ==
  ASSUME IInv, NEW p \in Proc, pass[p].phase # "idle"
  PROVE  lock = p
  BY DEF IInv, LockInv, Idle

LEMMA StartInvariant ==
  ASSUME IInv, TypeOK', NEW p \in Proc, NEW kind \in {"index", "check"}, NEW opts \in Started,
         Start(p, kind, opts)
  PROVE  IInv'
<1>. DEFINE a == [Idle EXCEPT !.phase = "walk", !.kind = kind, !.opts = opts,
                              !.todo = Path, !.seen = {Tree(p)}]
<1>1. a.phase = "walk" /\ a.cands = {}
  BY DEF Idle
<1>2. Becomes(p, a) /\ lock = None /\ lock' = p /\ db' = db
  BY DEF Start, CanStart
<1>. HIDE DEF a
<1>3. Candidate(a) /\ ~IndexReading(a)
  BY <1>1 DEF Candidate, IndexReading
<1>. QED
  BY <1>1, <1>2, <1>3, OwnStepInvariant

LEMMA WalkInvariant ==
  ASSUME IInv, TypeOK', NEW p \in Proc, NEW f \in Path, WalkEntry(p, f) \/ WalkFail(p, f)
  PROVE  IInv'
<1>1. pass[p] \in Activity /\ pass[p].phase = "walk" /\ Candidate(pass[p])
  BY DEF IInv, TypeOK, PassInv, WalkEntry, WalkFail
<1>2. lock = p /\ lock' = p /\ db' = db
  BY <1>1, BusyHolds DEF WalkEntry, WalkFail
<1>3. CASE WalkEntry(p, f)
  <2>. DEFINE cands == IF Tree(p).files[f] # None /\ f \notin pass[p].opts.policy
                       THEN pass[p].cands \cup {f} ELSE pass[p].cands
              a == [pass[p] EXCEPT !.todo = @ \ {f}, !.cands = cands]
  <2>1. a.phase = "walk" /\ a.cands = cands /\ a.opts = pass[p].opts
    BY <1>1 DEF Activity
  <2>2. Becomes(p, a)
    BY <1>3 DEF WalkEntry
  <2>3. \A g \in cands : g \notin pass[p].opts.policy
    BY <1>1 DEF Candidate
  <2>. HIDE DEF a, cands
  <2>4. Candidate(a) /\ ~IndexReading(a)
    BY <2>1, <2>3 DEF Candidate, IndexReading
  <2>. QED
    BY <1>2, <2>1, <2>2, <2>4, OwnStepInvariant
<1>4. CASE WalkFail(p, f)
  <2>. DEFINE a == [pass[p] EXCEPT !.todo = @ \ {f}, !.complete = FALSE]
  <2>1. a.phase = "walk" /\ a.cands = pass[p].cands /\ a.opts = pass[p].opts
    BY <1>1 DEF Activity
  <2>2. Becomes(p, a)
    BY <1>4 DEF WalkFail
  <2>. HIDE DEF a
  <2>3. Candidate(a) /\ ~IndexReading(a)
    BY <1>1, <2>1 DEF Candidate, IndexReading
  <2>. QED
    BY <1>2, <2>1, <2>2, <2>3, OwnStepInvariant
<1>. QED
  BY <1>3, <1>4

\* The parts of a pending transaction, for the steps that establish them one by one.
LEMMA PendingParts ==
  ASSUME NEW s,
         s.rescoped = Rescoped(s.opts.policy),
         \A f \in Path : f \notin s.cands =>
           s.rows[f] = None \/ (~s.complete /\ s.rows[f] = db.rows[f]),
         ~s.changed /\ ~s.recompute =>
           s.rows = db.rows /\ s.mods = db.mods /\ s.opts.exe.resolver = db.resolver
  PROVE  Pending(s)
  BY DEF Pending

LEMMA PlanInvariant ==
  ASSUME IInv, TypeOK', NEW p \in Proc, PlanIndex(p) \/ PlanCheck(p)
  PROVE  IInv'
<1>1. pass[p] \in Activity /\ pass[p].phase = "walk" /\ Candidate(pass[p])
  BY DEF IInv, TypeOK, PassInv, PlanIndex, PlanCheck
<1>2. lock = p /\ lock' = p /\ db' = db
  BY <1>1, BusyHolds DEF PlanIndex, PlanCheck
<1>3. CASE PlanIndex(p)
  <2>. DEFINE complete(readable) == pass[p].complete /\ readable
              mods(readable) == ModulesRead(p, readable)
              gone(readable) == IF complete(readable) THEN Vanished(pass[p].cands) ELSE {}
              rows(readable) == [f \in Path |-> IF f \in gone(readable) THEN None
                                                ELSE db.rows[f]]
              recompute(readable) == \/ db.resolver # pass[p].opts.exe.resolver
                                     \/ db.mods # mods(readable)
              rescoped == Rescoped(pass[p].opts.policy)
              a(readable) == Planned(pass[p], complete(readable), mods(readable),
                               rows(readable), gone(readable) # {}, recompute(readable),
                               rescoped)
  <2>1. PICK readable \in BOOLEAN : Becomes(p, a(readable))
    BY <1>3, PlanIndexPlans
  <2>2. /\ a(readable).phase = "read" /\ a(readable).cands = pass[p].cands
        /\ a(readable).todo = pass[p].cands /\ a(readable).opts = pass[p].opts
        /\ a(readable).complete = complete(readable) /\ a(readable).mods = mods(readable)
        /\ a(readable).rows = rows(readable) /\ a(readable).changed = (gone(readable) # {})
        /\ a(readable).recompute = recompute(readable) /\ a(readable).rescoped = rescoped
    BY <1>1 DEF Planned, Activity
  <2>3. ASSUME NEW f \in Path, f \notin pass[p].cands
        PROVE  \/ rows(readable)[f] = None
               \/ ~complete(readable) /\ rows(readable)[f] = db.rows[f]
    BY <2>3 DEF Vanished
  <2>4. gone(readable) = {} => rows(readable) = db.rows
    BY DEF IInv, TypeOK, Database, Rows
  <2>5. ~recompute(readable) =>
          mods(readable) = db.mods /\ pass[p].opts.exe.resolver = db.resolver
    OBVIOUS
  <2>. HIDE DEF a, complete, mods, gone, rows, recompute
  <2>6. Candidate(a(readable))
    BY <1>1, <2>2 DEF Candidate
  <2>7. Pending(a(readable))
    <3>. DEFINE s == a(readable)
    <3>1. s.rescoped = Rescoped(s.opts.policy)
      BY <2>2
    <3>2. \A f \in Path : f \notin s.cands =>
            s.rows[f] = None \/ (~s.complete /\ s.rows[f] = db.rows[f])
      BY <2>2, <2>3
    <3>3. ~s.changed /\ ~s.recompute =>
            s.rows = db.rows /\ s.mods = db.mods /\ s.opts.exe.resolver = db.resolver
      BY <2>2, <2>4, <2>5
    <3>. HIDE DEF s
    <3>4. Pending(s)
      BY <3>1, <3>2, <3>3, PendingParts
    <3>. QED
      BY <3>4 DEF s
  <2>. QED
    BY <1>2, <2>1, <2>2, <2>6, <2>7, OwnStepInvariant
<1>4. CASE PlanCheck(p)
  <2>1. PICK readable \in BOOLEAN :
          Becomes(p, [pass[p] EXCEPT !.phase = "read", !.todo = pass[p].cands,
                        !.complete = @ /\ readable, !.mods = ModulesRead(p, readable)])
    BY <1>4 DEF PlanCheck
  <2>. DEFINE a == [pass[p] EXCEPT !.phase = "read", !.todo = pass[p].cands,
                      !.complete = @ /\ readable, !.mods = ModulesRead(p, readable)]
  <2>2. /\ a.phase = "read" /\ a.kind = "check" /\ a.todo = pass[p].cands
        /\ a.cands = pass[p].cands /\ a.opts = pass[p].opts
    BY <1>1, <1>4 DEF Activity, PlanCheck
  <2>. HIDE DEF a
  <2>3. Candidate(a) /\ ~IndexReading(a)
    BY <1>1, <2>2 DEF Candidate, IndexReading
  <2>. QED
    BY <1>2, <2>1, <2>2, <2>3, OwnStepInvariant DEF a
<1>. QED
  BY <1>3, <1>4

LEMMA IndexFileInvariant ==
  ASSUME IInv, TypeOK', NEW p \in Proc, NEW f \in Path, IndexFile(p, f)
  PROVE  IInv'
<1>. DEFINE s == pass[p]
            content == Tree(p).files[f]
            project == Tree(p).layout
            row == [content |-> content, parser |-> s.opts.exe.parser, project |-> project]
            keep == Unchanged(s.rows[f], content, s.opts)
            moved == keep /\ s.rows[f].project # project
            a == [s EXCEPT !.todo = @ \ {f}, !.rows = [@ EXCEPT ![f] = row],
                           !.changed = @ \/ ~keep, !.recompute = @ \/ moved]
<1>1. /\ s \in Activity /\ s.rows \in [Path -> Row \cup {None}] /\ IndexReading(s)
      /\ Candidate(s) /\ Pending(s) /\ f \in s.todo
  BY DEF IInv, TypeOK, PassInv, IndexFile, IndexReading, Activity, Rows
<1>2. lock = p /\ lock' = p /\ db' = db /\ Becomes(p, a)
  BY <1>1, BusyHolds DEF IndexFile, IndexReading
<1>3. keep /\ ~moved => s.rows[f] = row
  BY <1>1 DEF Unchanged, Row
<1>4. keep /\ ~moved => [s.rows EXCEPT ![f] = row] = s.rows
  BY <1>1, <1>3
<1>5. /\ a.phase = "read" /\ a.kind = "index" /\ a.opts = s.opts /\ a.cands = s.cands
      /\ a.todo = s.todo \ {f} /\ a.complete = s.complete /\ a.mods = s.mods
      /\ a.rescoped = s.rescoped /\ a.rows = [s.rows EXCEPT ![f] = row]
      /\ a.changed = (s.changed \/ ~keep) /\ a.recompute = (s.recompute \/ moved)
  BY <1>1 DEF Activity, IndexReading
<1>6. f \in s.cands
  BY <1>1 DEF Candidate, IndexReading
<1>. HIDE DEF a, s, row, keep, moved
<1>7. Candidate(a)
  BY <1>1, <1>5 DEF Candidate, IndexReading
<1>8. Pending(a)
  <2>1. a.rescoped = Rescoped(a.opts.policy)
    BY <1>1, <1>5 DEF Pending
  <2>2. ASSUME NEW g \in Path, g \notin a.cands
        PROVE  a.rows[g] = None \/ (~a.complete /\ a.rows[g] = db.rows[g])
    BY <1>1, <1>5, <1>6, <2>2 DEF Pending
  <2>3. ASSUME ~a.changed, ~a.recompute
        PROVE  a.rows = db.rows /\ a.mods = db.mods /\ a.opts.exe.resolver = db.resolver
    BY <1>1, <1>4, <1>5, <2>3 DEF Pending
  <2>. QED
    BY <2>1, <2>2, <2>3, PendingParts
<1>. QED
  BY <1>2, <1>5, <1>7, <1>8, OwnStepInvariant

LEMMA IndexFailInvariant ==
  ASSUME IInv, TypeOK', NEW p \in Proc, NEW f \in Path, IndexFail(p, f)
  PROVE  IInv'
<1>. DEFINE s == pass[p]
            a == [s EXCEPT !.todo = @ \ {f}, !.complete = FALSE]
<1>1. s \in Activity /\ IndexReading(s) /\ Candidate(s) /\ Pending(s)
  BY DEF IInv, TypeOK, PassInv, IndexFail, IndexReading
<1>2. lock = p /\ lock' = p /\ db' = db /\ Becomes(p, a)
  BY <1>1, BusyHolds DEF IndexFail, IndexReading
<1>3. /\ a.phase = "read" /\ a.opts = s.opts /\ a.cands = s.cands
      /\ a.todo = s.todo \ {f} /\ a.complete = FALSE /\ a.mods = s.mods
      /\ a.rescoped = s.rescoped /\ a.rows = s.rows
      /\ a.changed = s.changed /\ a.recompute = s.recompute
  BY <1>1 DEF Activity, IndexReading
<1>. HIDE DEF a, s
<1>4. Candidate(a)
  BY <1>1, <1>3 DEF Candidate, IndexReading
<1>5. Pending(a)
  BY <1>1, <1>3, PendingParts DEF Pending
<1>. QED
  BY <1>2, <1>3, <1>4, <1>5, OwnStepInvariant

LEMMA CheckStepInvariant ==
  ASSUME IInv, TypeOK', NEW p \in Proc, NEW f \in Path, CheckFile(p, f) \/ CheckFail(p, f)
  PROVE  IInv'
<1>. DEFINE s == pass[p]
<1>1. s \in Activity /\ s.phase = "read" /\ s.kind = "check" /\ Candidate(s)
  BY DEF IInv, TypeOK, PassInv, CheckFile, CheckFail
<1>2. lock = p /\ lock' = p /\ db' = db
  BY <1>1, BusyHolds DEF CheckFile, CheckFail
<1>3. PICK a : /\ Becomes(p, a) /\ a.phase = "read" /\ a.kind = "check"
               /\ a.opts = s.opts /\ a.cands = s.cands /\ a.todo = s.todo \ {f}
  <2>1. CASE CheckFile(p, f)
    <3>. DEFINE a == [s EXCEPT !.todo = @ \ {f}, !.changed = @ \/ ~Matches(p, f)]
    <3>1. /\ a.phase = "read" /\ a.kind = "check" /\ a.opts = s.opts
          /\ a.cands = s.cands /\ a.todo = s.todo \ {f}
      BY <1>1 DEF Activity
    <3>2. Becomes(p, a)
      BY <2>1 DEF CheckFile
    <3>. QED
      BY <3>1, <3>2
  <2>2. CASE CheckFail(p, f)
    <3>. DEFINE a == [s EXCEPT !.todo = @ \ {f}, !.complete = FALSE, !.changed = TRUE]
    <3>1. /\ a.phase = "read" /\ a.kind = "check" /\ a.opts = s.opts
          /\ a.cands = s.cands /\ a.todo = s.todo \ {f}
      BY <1>1 DEF Activity
    <3>2. Becomes(p, a)
      BY <2>2 DEF CheckFail
    <3>. QED
      BY <3>1, <3>2
  <2>. QED
    BY <2>1, <2>2
<1>4. Candidate(a) /\ ~IndexReading(a)
  BY <1>1, <1>3 DEF Candidate, IndexReading
<1>. QED
  BY <1>2, <1>3, <1>4, OwnStepInvariant

\* When the holder leaves, every process is idle.
LEMMA ReleaseInvariant ==
  ASSUME IInv, TypeOK', NEW p \in Proc, pass[p].phase # "idle", Release(p)
  PROVE  LockInv' /\ PassInv'
<1>1. lock = p
  BY BusyHolds
<1>2. \A q \in Proc : pass'[q] = Idle
  BY <1>1 DEF IInv, TypeOK, LockInv, Release, Becomes
<1>3. lock' \notin Proc
  BY ConstantsAssumption DEF Release
<1>4. Idle.phase = "idle" /\ Idle.cands = {}
  BY DEF Idle
<1>5. LockInv'
  BY <1>2, <1>3 DEF LockInv
<1>6. PassInv'
  BY <1>2, <1>4 DEF PassInv, Candidate, IndexReading
<1>. QED
  BY <1>5, <1>6

(***************************************************************************)
(* A commit.  If the policy changed, the scan was complete: every row is   *)
(* of a candidate, and the old snapshots are gone.  If it did not, the     *)
(* rows the pass kept obeyed it already.                                   *)
(***************************************************************************)
LEMMA CommitInvariant ==
  ASSUME IInv, TypeOK', NEW p \in Proc, Commit(p)
  PROVE  DbInv'
<1>. DEFINE s == pass[p]
            gen == db.gen + 1
            resolver == s.opts.exe.resolver
            policy == s.opts.policy
            basis == IF Resolves(s) THEN Basis(s.rows, s.mods, resolver) ELSE db.basis
            new == [gen |-> gen, complete |-> s.complete, rows |-> s.rows, basis |-> basis]
            kept == IF s.rescoped THEN {} ELSE db.snaps
            snaps == SnapshotsAfter(s, gen, basis)
<1>1. /\ s \in Activity /\ s.opts \in Started /\ IndexReading(s) /\ s.todo = {}
      /\ Candidate(s) /\ Pending(s) /\ ~Refused(s)
  BY DEF IInv, TypeOK, PassInv, Commit, IndexReading
<1>2. /\ policy \in Policy /\ policy # None /\ resolver \in Nat /\ resolver # None
      /\ RootOf[p] # None
  BY <1>1, ConstantsAssumption DEF Started, Executable
<1>3. /\ db \in Database /\ db.gen \in Nat /\ db.snaps \subseteq Snapshot
      /\ gen \in Nat /\ gen > db.gen /\ gen # 0
  BY DEF IInv, TypeOK, Database
<1>4. /\ db'.root = RootOf[p] /\ db'.gen = gen /\ db'.rows = s.rows /\ db'.mods = s.mods
      /\ db'.resolver = resolver /\ db'.basis = basis /\ db'.policy = policy
      /\ db'.tracked /\ db'.snaps = snaps
  BY DEF Commit, Committed
<1>5. snaps = IF s.rescoped \/ Resolves(s) \/ gen = 1 THEN NewestTwo(kept \cup {new}) ELSE kept
  BY DEF SnapshotsAfter
<1>6. new.gen = gen /\ new.rows = s.rows /\ new.basis = basis
  OBVIOUS
<1>. HIDE DEF s, gen, resolver, policy, basis, new, snaps
<1>7. \A t \in kept : t.gen \in Nat /\ t.gen < gen
  BY <1>3 DEF IInv, DbInv, SnapshotAgeInv, Snapshot, gen
<1>8. snaps \subseteq kept \cup {new}
  BY <1>5 DEF NewestTwo
<1>9. SnapshotAgeInv'
  BY <1>3, <1>4, <1>6, <1>7, <1>8 DEF SnapshotAgeInv
<1>10. UnindexedInv' /\ TrackedInv'
  BY <1>2, <1>3, <1>4 DEF UnindexedInv, TrackedInv
<1>11. ~s.rescoped => db.root = None \/ (db.tracked /\ db.policy = policy)
  BY <1>1 DEF Pending, Rescoped, IInv, DbInv, TrackedInv, policy
<1>12. ASSUME NEW f \in Path, f \in policy
       PROVE  s.rows[f] = None /\ \A t \in kept : t.rows[f] = None
  <2>1. f \notin s.cands
    BY <1>1, <1>12 DEF Candidate, policy
  <2>2. CASE s.rescoped
    BY <1>1, <2>1, <2>2 DEF Refused, Pending, kept
  <2>3. CASE ~s.rescoped /\ db.root = None
    <3>1. db.rows[f] = None /\ db.snaps = {}
      BY <2>3 DEF IInv, DbInv, UnindexedInv, NoRows
    <3>. QED
      BY <1>1, <2>1, <2>3, <3>1 DEF Pending, kept
  <2>4. CASE ~s.rescoped /\ db.tracked /\ db.policy = policy
    <3>1. db.rows[f] = None /\ \A t \in db.snaps : t.rows[f] = None
      BY <1>12, <2>4 DEF IInv, DbInv, PolicyRespected
    <3>. QED
      BY <1>1, <2>1, <2>4, <3>1 DEF Pending, kept
  <2>. QED
    BY <1>11, <2>2, <2>3, <2>4
<1>13. PolicyRespected'
  BY <1>4, <1>6, <1>8, <1>12 DEF PolicyRespected
<1>14. ASSUME ~Resolves(s)
       PROVE  /\ db.root # None /\ s.rows = db.rows /\ s.mods = db.mods
              /\ resolver = db.resolver /\ basis = db.basis
  <2>1. s.rows = db.rows /\ s.mods = db.mods /\ resolver = db.resolver
    BY <1>1, <1>14 DEF Resolves, Pending, resolver
  <2>2. db.root # None
    BY <1>2, <2>1 DEF IInv, DbInv, UnindexedInv
  <2>. QED
    BY <1>14, <2>1, <2>2 DEF basis
<1>15. basis = Basis(s.rows, s.mods, resolver)
  BY <1>14 DEF basis, IInv, DbInv, EdgesCurrent
<1>16. EdgesCurrent'
  BY <1>4, <1>15 DEF EdgesCurrent
<1>17. NewestSnapshotCurrent'
  <2>1. CASE s.rescoped \/ Resolves(s) \/ gen = 1
    <3>1. new \in NewestTwo(kept \cup {new})
      BY <1>3, <1>6, <1>7 DEF NewestTwo
    <3>2. \A t \in snaps : t.gen <= new.gen
      BY <1>3, <1>6, <1>7, <1>8
    <3>. QED
      BY <1>4, <1>5, <1>6, <2>1, <3>1, <3>2 DEF NewestSnapshotCurrent
  <2>2. CASE ~s.rescoped /\ ~Resolves(s) /\ gen # 1
    <3>1. db.tracked
      BY <1>11, <1>14, <2>2
    <3>2. snaps = db.snaps
      BY <1>5, <2>2 DEF kept
    <3>3. s.rows = db.rows /\ basis = db.basis
      BY <1>14, <2>2
    <3>. QED
      BY <1>4, <3>1, <3>2, <3>3 DEF IInv, DbInv, NewestSnapshotCurrent
  <2>. QED
    BY <2>1, <2>2
<1>. QED
  BY <1>9, <1>10, <1>13, <1>16, <1>17 DEF DbInv

\* Recording a verdict touches nothing else of the database.
LEMMA EndInvariant ==
  ASSUME IInv, TypeOK', NEW p \in Proc, Commit(p) \/ RecordCheck(p) \/ Abandon(p)
  PROVE  IInv'
<1>1. LockInv' /\ PassInv'
  BY ReleaseInvariant DEF Commit, RecordCheck, Abandon
<1>2. CASE Commit(p)
  BY <1>1, <1>2, CommitInvariant DEF IInv
<1>3. CASE RecordCheck(p)
  <2>1. /\ db'.root = db.root /\ db'.gen = db.gen /\ db'.rows = db.rows
        /\ db'.mods = db.mods /\ db'.resolver = db.resolver /\ db'.basis = db.basis
        /\ db'.policy = db.policy /\ db'.tracked = db.tracked /\ db'.snaps = db.snaps
    BY <1>3 DEF RecordCheck, IInv, TypeOK, Database
  <2>2. DbInv'
    BY <2>1 DEF IInv, DbInv, SnapshotAgeInv, UnindexedInv, TrackedInv, PolicyRespected,
                EdgesCurrent, NewestSnapshotCurrent
  <2>. QED
    BY <1>1, <2>2 DEF IInv
<1>4. CASE Abandon(p)
  <2>1. DbInv'
    BY <1>4 DEF Abandon, IInv, DbInv, SnapshotAgeInv, UnindexedInv, TrackedInv,
                PolicyRespected, EdgesCurrent, NewestSnapshotCurrent
  <2>. QED
    BY <1>1, <2>1 DEF IInv
<1>. QED
  BY <1>2, <1>3, <1>4

LEMMA EditInvariant ==
  ASSUME IInv, TypeOK', NEW r \in Root, EditTree(r)
  PROVE  IInv'
<1>1. PICK image : Edit(r, image)
  BY DEF EditTree
<1>2. db' = db /\ lock' = lock
  BY <1>1 DEF Edit
<1>3. \A q \in Proc :
        \/ pass'[q] = pass[q]
        \/ /\ pass[q].phase # "idle"
           /\ pass'[q] = [pass[q] EXCEPT !.seen = @ \cup {image}]
  BY <1>1 DEF Edit
<1>4. LockInv'
  <2>1. \A q \in Proc : pass'[q].phase = pass[q].phase
    BY <1>3 DEF IInv, TypeOK, Activity
  <2>2. Idle.phase = "idle"
    BY DEF Idle
  <2>. QED
    BY <1>2, <1>3, <2>1, <2>2 DEF IInv, LockInv
<1>5. \A s : Pending(s) <=> Pending(s)'
  BY <1>2 DEF Pending, Rescoped
<1>6. ASSUME NEW q \in Proc
      PROVE  /\ Candidate(pass'[q])
             /\ IndexReading(pass'[q]) => Pending(pass[q])'
  <2>. DEFINE s == pass[q]
              t == [s EXCEPT !.seen = @ \cup {image}]
  <2>1. s \in Activity /\ Candidate(s) /\ (IndexReading(s) => Pending(s))
    BY DEF IInv, TypeOK, PassInv
  <2>2. CASE pass'[q] = s
    BY <1>2, <2>1, <2>2 DEF Pending, Rescoped
  <2>3. CASE pass'[q] = t
    <3>1. /\ t.phase = s.phase /\ t.kind = s.kind /\ t.cands = s.cands /\ t.todo = s.todo
          /\ t.opts = s.opts /\ t.rescoped = s.rescoped /\ t.rows = s.rows
          /\ t.complete = s.complete /\ t.changed = s.changed /\ t.recompute = s.recompute
          /\ t.mods = s.mods
      BY <2>1 DEF Activity
    <3>2. Candidate(t)
      <4>. HIDE DEF t, s
      <4>. QED
        BY <2>1, <3>1 DEF Candidate
    <3>3. IndexReading(t) => Pending(t)
      <4>. HIDE DEF t, s
      <4>. QED
        BY <2>1, <3>1, PendingParts DEF IndexReading, Pending
    <3>. QED
      BY <1>2, <2>3, <3>2, <3>3 DEF Pending, Rescoped
  <2>. QED
    BY <1>3, <2>2, <2>3
<1>7. PassInv'
  BY <1>6 DEF PassInv, Candidate, IndexReading
<1>8. DbInv'
  BY <1>2 DEF IInv, DbInv, SnapshotAgeInv, UnindexedInv, TrackedInv, PolicyRespected,
              EdgesCurrent, NewestSnapshotCurrent
<1>. QED
  BY <1>4, <1>7, <1>8 DEF IInv

LEMMA StepInvariant == IInv /\ [Next]_vars => IInv'
<1>. SUFFICES ASSUME IInv, [Next]_vars PROVE IInv'
  OBVIOUS
<1>1. TypeOK'
  BY StepType DEF IInv
<1>2. CASE UNCHANGED vars
  BY <1>1, <1>2 DEF vars, IInv, LockInv, PassInv, Candidate, IndexReading, Pending,
       Rescoped, DbInv, SnapshotAgeInv, UnindexedInv, TrackedInv, PolicyRespected,
       EdgesCurrent, NewestSnapshotCurrent
<1>3. ASSUME NEW p \in Proc, StartIndex(p) PROVE IInv'
  <2>1. PICK o \in OptionsOf[p] : Start(p, "index", o)
    BY <1>3 DEF StartIndex
  <2>2. o \in Started
    BY ConstantsAssumption DEF Started
  <2>. QED
    BY <1>1, <2>1, <2>2, StartInvariant
<1>4. ASSUME NEW p \in Proc, StartCheck(p) PROVE IInv'
  <2>1. PICK o \in OptionsOf[p] : Start(p, "check", [o EXCEPT !.policy = StoredPolicy])
    BY <1>4 DEF StartCheck
  <2>2. o \in Started
    BY ConstantsAssumption DEF Started
  <2>3. [o EXCEPT !.policy = StoredPolicy] \in Started
    BY <2>2, StoredPolicyType DEF Started, IInv
  <2>. QED
    BY <1>1, <2>1, <2>3, StartInvariant
<1>5. ASSUME NEW p \in Proc, Step(p) PROVE IInv'
  BY <1>1, <1>5, WalkInvariant, IndexFileInvariant, IndexFailInvariant,
     CheckStepInvariant, PlanInvariant, EndInvariant DEF Step
<1>6. ASSUME NEW r \in Root, EditTree(r) PROVE IInv'
  BY <1>1, <1>6, EditInvariant
<1>. QED
  BY <1>2, <1>3, <1>4, <1>5, <1>6 DEF Next

(***************************************************************************)
(* No path the recorded policy excludes is in the index or in a retained   *)
(* snapshot (store/history.rs:15, index.rs:210).                           *)
(***************************************************************************)
THEOREM PolicyHolds == Spec => []PolicyRespected
<1>1. IInv => PolicyRespected
  BY DEF IInv, DbInv
<1>. QED
  BY <1>1, InitInvariant, StepInvariant, PTL DEF Spec

(***************************************************************************)
(* Skipping the resolution of an unchanged index is sound (index.rs:214).  *)
(***************************************************************************)
THEOREM EdgesHold == Spec => []EdgesCurrent
<1>1. IInv => EdgesCurrent
  BY DEF IInv, DbInv
<1>. QED
  BY <1>1, InitInvariant, StepInvariant, PTL DEF Spec

(***************************************************************************)
(* Skipping the snapshot of an unchanged index is sound (index.rs:229).    *)
(***************************************************************************)
THEOREM NewestSnapshotHolds == Spec => []NewestSnapshotCurrent
<1>1. IInv => NewestSnapshotCurrent
  BY DEF IInv, DbInv
<1>. QED
  BY <1>1, InitInvariant, StepInvariant, PTL DEF Spec
-----------------------------------------------------------------------------
(***************************************************************************)
(* What a scan has seen.  The tree is edited while it is walked and read,  *)
(* so everything a scan concludes is about the images the tree had since   *)
(* the scan began, one path at a time.                                     *)
(***************************************************************************)
SeenAs(s, f) == {i.files[f] : i \in s.seen}

Passed(s, f) == s.phase = "walk" => f \notin s.todo

\* A path that a complete walk has passed without keeping it is excluded, or
\* was not there at some moment.
Visited(s) ==
  s.complete => \A f \in Path : Passed(s, f) =>
                  f \in s.cands \/ f \in s.opts.policy \/ None \in SeenAs(s, f)

\* A row of the transaction is the old one, or what was seen; of a complete
\* scan, what was read last is what was seen.
RowSeen(s, f) == s.rows[f] # None /\ s.rows[f].content \in SeenAs(s, f)

RowsSeen(s) ==
  \A f \in Path :
    /\ \/ s.rows[f] = db.rows[f]
       \/ RowSeen(s, f)
       \/ s.rows[f] = None /\ (f \in s.opts.policy \/ None \in SeenAs(s, f))
    /\ s.complete /\ f \in s.cands \ s.todo => RowSeen(s, f)

\* A row that a check found equal to what it read.
RowMatched(s, f) ==
  /\ db.rows[f] # None
  /\ \E image \in s.seen : image.files[f] = db.rows[f].content
  /\ \E image \in s.seen : image.layout = db.rows[f].project

\* What a check has read so far: the module files, and the candidates' rows.
Compared(s) ==
  s.phase = "read" =>
    /\ s.complete => \E image \in s.seen : image.layout = s.mods
    /\ \A f \in s.cands \ s.todo : s.changed \/ RowMatched(s, f)

Scanning(p, s) ==
  /\ Tree(p) \in s.seen
  /\ db.root \in {None, RootOf[p]}
  /\ Visited(s)
  /\ IndexReading(s) => RowsSeen(s)
  /\ s.kind = "check" =>
       /\ s.opts.policy = StoredPolicy
       /\ db.root = RootOf[p]
       /\ Compared(s)

ScanInv == \A p \in Proc : pass[p].phase # "idle" => Scanning(p, pass[p])

\* Only an indexed database is checked.
VerdictInv == db.verdict # None => db.root # None

FreshInv ==
  /\ IInv
  /\ ScanInv
  /\ VerdictInv
  /\ FreshIsTrue

\* A step of the scanning process: only its own activity is at stake.
LEMMA OwnStepScans ==
  ASSUME FreshInv, IInv', NEW p \in Proc, NEW a, Becomes(p, a), lock \in {None, p},
         UNCHANGED <<disk, db, checked>>, Scanning(p, a)
  PROVE  FreshInv'
<1>1. pass'[p] = a /\ \A q \in Proc : q # p => pass'[q] = Idle
  <2>1. \A q \in Proc : q # p => pass[q] = Idle
    BY ConstantsAssumption DEF FreshInv, IInv, LockInv
  <2>. QED
    BY <2>1 DEF FreshInv, IInv, TypeOK, Becomes
<1>2. Idle.phase = "idle"
  BY DEF Idle
<1>3. Scanning(p, pass[p])'
  BY <1>1 DEF Scanning, Tree, Visited, Passed, SeenAs, IndexReading, RowsSeen, RowSeen, StoredPolicy,
              Compared, RowMatched
<1>4. ScanInv'
  BY <1>1, <1>2, <1>3 DEF ScanInv
<1>5. FreshIsTrue' /\ VerdictInv'
  BY DEF FreshInv, FreshIsTrue, VerdictInv, Confirmed, StoredPolicy
<1>. QED
  BY <1>4, <1>5 DEF FreshInv

LEMMA StartScans ==
  ASSUME FreshInv, IInv', NEW p \in Proc, StartIndex(p) \/ StartCheck(p)
  PROVE  FreshInv'
<1>1. PICK kind \in {"index", "check"}, opts \in Started :
        /\ Start(p, kind, opts)
        /\ kind = "check" => db.root # None /\ opts.policy = StoredPolicy
  <2>1. CASE StartIndex(p)
    <3>1. PICK o \in OptionsOf[p] : Start(p, "index", o)
      BY <2>1 DEF StartIndex
    <3>2. o \in Started
      BY ConstantsAssumption DEF Started
    <3>. QED
      BY <3>1, <3>2
  <2>2. CASE StartCheck(p)
    <3>1. PICK o \in OptionsOf[p] : Start(p, "check", [o EXCEPT !.policy = StoredPolicy])
      BY <2>2 DEF StartCheck
    <3>2. o \in Started /\ StoredPolicy \in Policy
      BY ConstantsAssumption, StoredPolicyType DEF Started, FreshInv, IInv
    <3>3. /\ [o EXCEPT !.policy = StoredPolicy] \in Started
          /\ [o EXCEPT !.policy = StoredPolicy].policy = StoredPolicy
      BY <3>2 DEF Started
    <3>4. db.root # None
      BY <2>2 DEF StartCheck
    <3>. QED
      BY <3>1, <3>3, <3>4
  <2>. QED
    BY <2>1, <2>2
<1>. DEFINE a == [Idle EXCEPT !.phase = "walk", !.kind = kind, !.opts = opts,
                              !.todo = Path, !.seen = {Tree(p)}]
<1>2. /\ a.phase = "walk" /\ a.kind = kind /\ a.opts = opts /\ a.todo = Path
      /\ a.seen = {Tree(p)} /\ a.cands = {}
  BY DEF Idle
<1>3. /\ Becomes(p, a) /\ lock = None /\ UNCHANGED <<disk, db, checked>>
      /\ db.root \in {None, RootOf[p]}
  BY <1>1 DEF Start, CanStart
<1>. HIDE DEF a
<1>4. Visited(a) /\ ~IndexReading(a)
  BY <1>2 DEF Visited, Passed, IndexReading
<1>5. Compared(a)
  BY <1>2 DEF Compared
<1>6. Scanning(p, a)
  BY <1>1, <1>2, <1>3, <1>4, <1>5 DEF Scanning
<1>. QED
  BY <1>3, <1>6, OwnStepScans

LEMMA WalkScans ==
  ASSUME FreshInv, IInv', NEW p \in Proc, NEW f \in Path, WalkEntry(p, f) \/ WalkFail(p, f)
  PROVE  FreshInv'
<1>. DEFINE s == pass[p]
            tree == Tree(p)
<1>1. /\ s \in Activity /\ s.phase = "walk" /\ f \in s.todo /\ lock = p
      /\ UNCHANGED <<disk, db, checked>> /\ Scanning(p, s)
  BY BusyHolds DEF FreshInv, ScanInv, IInv, TypeOK, WalkEntry, WalkFail
<1>2. CASE WalkEntry(p, f)
  <2>. DEFINE cands == IF tree.files[f] # None /\ f \notin s.opts.policy
                       THEN s.cands \cup {f} ELSE s.cands
              a == [s EXCEPT !.todo = @ \ {f}, !.cands = cands]
  <2>1. /\ a.phase = "walk" /\ a.kind = s.kind /\ a.opts = s.opts /\ a.todo = s.todo \ {f}
        /\ a.cands = cands /\ a.complete = s.complete /\ a.seen = s.seen
    BY <1>1 DEF Activity
  <2>2. Becomes(p, a)
    BY <1>2 DEF WalkEntry
  <2>3. tree \in s.seen
    BY <1>1 DEF Scanning
  <2>. HIDE DEF a, s, tree
  <2>4. Visited(a)
    <3>1. tree.files[f] = None => None \in SeenAs(a, f)
      BY <2>1, <2>3 DEF SeenAs
    <3>2. \A g \in Path : SeenAs(a, g) = SeenAs(s, g)
      BY <2>1 DEF SeenAs
    <3>. QED
      BY <1>1, <2>1, <3>1, <3>2 DEF Scanning, Visited, Passed
  <2>5. Compared(a)
    BY <2>1 DEF Compared
  <2>6. Scanning(p, a)
    BY <1>1, <2>1, <2>4, <2>5 DEF Scanning, IndexReading, tree
  <2>. QED
    BY <1>1, <2>2, <2>6, OwnStepScans DEF s
<1>3. CASE WalkFail(p, f)
  <2>. DEFINE a == [s EXCEPT !.todo = @ \ {f}, !.complete = FALSE]
  <2>1. /\ a.phase = "walk" /\ a.kind = s.kind /\ a.opts = s.opts
        /\ a.cands = s.cands /\ a.complete = FALSE /\ a.seen = s.seen
    BY <1>1 DEF Activity
  <2>2. Becomes(p, a)
    BY <1>3 DEF WalkFail
  <2>. HIDE DEF a, s, tree
  <2>3. Compared(a)
    BY <2>1 DEF Compared
  <2>4. Scanning(p, a)
    BY <1>1, <2>1, <2>3 DEF Scanning, IndexReading, Visited, tree
  <2>. QED
    BY <1>1, <2>2, <2>4, OwnStepScans DEF s
<1>. QED
  BY <1>2, <1>3

\* A complete walk has met every path: what vanished was seen absent.
LEMMA PlanScans ==
  ASSUME FreshInv, IInv', NEW p \in Proc, PlanIndex(p) \/ PlanCheck(p)
  PROVE  FreshInv'
<1>. DEFINE s == pass[p]
            tree == Tree(p)
<1>1. /\ s \in Activity /\ s.phase = "walk" /\ s.todo = {} /\ lock = p
      /\ UNCHANGED <<disk, db, checked>> /\ Scanning(p, s)
  BY BusyHolds DEF FreshInv, ScanInv, IInv, TypeOK, PlanIndex, PlanCheck
<1>2. CASE PlanIndex(p)
  <2>. DEFINE complete(readable) == s.complete /\ readable
              gone(readable) == IF complete(readable) THEN Vanished(s.cands) ELSE {}
              rows(readable) == [f \in Path |-> IF f \in gone(readable) THEN None ELSE db.rows[f]]
              mods(readable) == ModulesRead(p, readable)
              a(readable) == Planned(s, complete(readable), mods(readable), rows(readable),
                               gone(readable) # {},
                               db.resolver # s.opts.exe.resolver \/ db.mods # mods(readable),
                               Rescoped(s.opts.policy))
  <2>1. PICK readable \in BOOLEAN : Becomes(p, a(readable))
    BY <1>2, PlanIndexPlans
  <2>2. /\ a(readable).phase = "read" /\ a(readable).kind = s.kind
        /\ a(readable).opts = s.opts /\ a(readable).todo = s.cands
        /\ a(readable).cands = s.cands /\ a(readable).complete = complete(readable)
        /\ a(readable).seen = s.seen /\ a(readable).rows = rows(readable)
    BY <1>1 DEF Planned, Activity
  <2>3. s.kind = "index"
    BY <1>2 DEF PlanIndex
  <2>. PICK t : t = a(readable)
    OBVIOUS
  <2>. HIDE DEF a
  <2>4. \A f \in Path : SeenAs(t, f) = SeenAs(s, f)
    BY <2>2 DEF SeenAs
  <2>5. Visited(t)
    <3>. HIDE DEF s
    <3>. QED
      BY <1>1, <2>2, <2>4 DEF Scanning, Visited, Passed
  <2>6. RowsSeen(t)
    <3>1. ASSUME NEW f \in Path
          PROVE  t.rows[f] = db.rows[f] \/ (t.rows[f] = None /\ (f \in s.opts.policy \/ None \in SeenAs(s, f)))
      <4>1. CASE f \in gone(readable)
        <5>1. s.complete /\ f \notin s.cands
          BY <4>1 DEF Vanished
        <5>2. f \in s.opts.policy \/ None \in SeenAs(s, f)
          BY <1>1, <5>1 DEF Scanning, Visited, Passed
        <5>. QED
          BY <2>2, <4>1, <5>2
      <4>2. CASE f \notin gone(readable)
        BY <2>2, <4>2
      <4>. QED
        BY <4>1, <4>2
    <3>2. t.cands \ t.todo = {} /\ t.opts = s.opts
      BY <2>2
    <3>. HIDE DEF s
    <3>. QED
      BY <2>4, <3>1, <3>2 DEF RowsSeen
  <2>7. Scanning(p, t)
    <3>1. t.seen = s.seen /\ t.kind = "index"
      BY <2>2, <2>3
    <3>. HIDE DEF s
    <3>. QED
      BY <1>1, <2>5, <2>6, <3>1 DEF Scanning
  <2>. QED
    BY <1>1, <2>1, <2>7, OwnStepScans
<1>3. CASE PlanCheck(p)
  <2>1. PICK readable \in BOOLEAN :
          Becomes(p, [s EXCEPT !.phase = "read", !.todo = s.cands,
                        !.complete = @ /\ readable, !.mods = ModulesRead(p, readable)])
    BY <1>3 DEF PlanCheck
  <2>. DEFINE a == [s EXCEPT !.phase = "read", !.todo = s.cands,
                      !.complete = @ /\ readable, !.mods = ModulesRead(p, readable)]
  <2>2. /\ a.phase = "read" /\ a.kind = "check" /\ a.opts = s.opts /\ a.todo = s.cands
        /\ a.cands = s.cands /\ a.complete = (s.complete /\ readable) /\ a.seen = s.seen
        /\ a.mods = ModulesRead(p, readable) /\ s.kind = "check"
    BY <1>1, <1>3 DEF Activity, PlanCheck
  <2>3. readable => ModulesRead(p, readable) = tree.layout
    BY DEF ModulesRead
  <2>4. Becomes(p, a)
    BY <2>1
  <2>. HIDE DEF a, s, tree
  <2>5. Visited(a) /\ ~IndexReading(a)
    BY <1>1, <2>2 DEF Scanning, Visited, Passed, SeenAs, IndexReading
  <2>6. Compared(a)
    BY <1>1, <2>2, <2>3 DEF Scanning, Compared, tree
  <2>7. Scanning(p, a)
    BY <1>1, <2>2, <2>5, <2>6 DEF Scanning, tree
  <2>. QED
    BY <1>1, <2>4, <2>7, OwnStepScans
<1>. QED
  BY <1>2, <1>3

LEMMA IndexFileScans ==
  ASSUME FreshInv, IInv', NEW p \in Proc, NEW f \in Path, IndexFile(p, f)
  PROVE  FreshInv'
<1>. DEFINE s == pass[p]
            tree == Tree(p)
            row == [content |-> tree.files[f], parser |-> s.opts.exe.parser, project |-> tree.layout]
            keep == Unchanged(s.rows[f], tree.files[f], s.opts)
            a == [s EXCEPT !.todo = @ \ {f}, !.rows = [@ EXCEPT ![f] = row],
                           !.changed = @ \/ ~keep,
                           !.recompute = @ \/ (keep /\ s.rows[f].project # tree.layout)]
<1>1. /\ s \in Activity /\ s.rows \in [Path -> Row \cup {None}] /\ IndexReading(s) /\ lock = p
      /\ UNCHANGED <<disk, db, checked>> /\ Scanning(p, s) /\ s.opts \in Started
      /\ tree \in Image /\ tree.files[f] # None
  BY BusyHolds, ConstantsAssumption
     DEF FreshInv, ScanInv, IInv, TypeOK, IndexFile, IndexReading, Activity, Rows, Tree
<1>2. /\ a.phase = "read" /\ a.kind = "index" /\ a.opts = s.opts /\ a.todo = s.todo \ {f}
      /\ a.cands = s.cands /\ a.complete = s.complete /\ a.seen = s.seen
      /\ a.rows = [s.rows EXCEPT ![f] = row]
  BY <1>1 DEF Activity, IndexReading
<1>3. Becomes(p, a)
  BY DEF IndexFile
<1>4. row \in Row /\ row # None /\ row.content = tree.files[f]
  BY <1>1, ConstantsAssumption DEF Image, Row, Started, Executable
<1>. HIDE DEF a, s, tree, row
<1>5. tree \in s.seen /\ Visited(s) /\ RowsSeen(s)
  BY <1>1 DEF Scanning, tree
<1>6. \A g \in Path : SeenAs(a, g) = SeenAs(s, g)
  BY <1>2 DEF SeenAs
<1>7. Visited(a)
  BY <1>1, <1>2, <1>5, <1>6 DEF Visited, Passed, IndexReading
<1>8. RowsSeen(a)
  <2>1. a.rows[f] = row /\ RowSeen(a, f)
    BY <1>1, <1>2, <1>4, <1>5, <1>6 DEF RowSeen, SeenAs
  <2>2. \A g \in Path : g # f => a.rows[g] = s.rows[g] /\ (RowSeen(s, g) <=> RowSeen(a, g))
    BY <1>1, <1>2, <1>6 DEF RowSeen
  <2>. QED
    BY <1>2, <1>5, <1>6, <2>1, <2>2 DEF RowsSeen
<1>9. Scanning(p, a)
  BY <1>1, <1>2, <1>7, <1>8 DEF Scanning
<1>. QED
  BY <1>1, <1>3, <1>9, OwnStepScans

LEMMA IndexFailScans ==
  ASSUME FreshInv, IInv', NEW p \in Proc, NEW f \in Path, IndexFail(p, f)
  PROVE  FreshInv'
<1>. DEFINE s == pass[p]
            a == [s EXCEPT !.todo = @ \ {f}, !.complete = FALSE]
<1>1. /\ s \in Activity /\ IndexReading(s) /\ lock = p
      /\ UNCHANGED <<disk, db, checked>> /\ Scanning(p, s)
  BY BusyHolds DEF FreshInv, ScanInv, IInv, TypeOK, IndexFail, IndexReading
<1>2. /\ a.phase = "read" /\ a.kind = "index" /\ a.opts = s.opts /\ a.cands = s.cands
      /\ a.complete = FALSE /\ a.seen = s.seen /\ a.rows = s.rows
  BY <1>1 DEF Activity, IndexReading
<1>3. Becomes(p, a)
  BY DEF IndexFail
<1>. HIDE DEF a, s
<1>4. Visited(a) /\ RowsSeen(a)
  BY <1>1, <1>2 DEF Scanning, Visited, RowsSeen, RowSeen, SeenAs
<1>5. Scanning(p, a)
  BY <1>1, <1>2, <1>4 DEF Scanning
<1>. QED
  BY <1>1, <1>3, <1>5, OwnStepScans

LEMMA CheckScans ==
  ASSUME FreshInv, IInv', NEW p \in Proc, NEW f \in Path, CheckFile(p, f) \/ CheckFail(p, f)
  PROVE  FreshInv'
<1>. DEFINE s == pass[p]
            tree == Tree(p)
<1>1. /\ s \in Activity /\ s.phase = "read" /\ s.kind = "check" /\ lock = p
      /\ UNCHANGED <<disk, db, checked>> /\ Scanning(p, s)
  BY BusyHolds DEF FreshInv, ScanInv, IInv, TypeOK, CheckFile, CheckFail
<1>2. PICK a : /\ Becomes(p, a) /\ a.phase = "read" /\ a.kind = "check" /\ a.opts = s.opts
               /\ a.todo = s.todo \ {f} /\ a.cands = s.cands /\ a.seen = s.seen /\ a.mods = s.mods
               /\ a.complete => s.complete
               /\ s.changed => a.changed
               /\ a.changed \/ RowMatched(s, f)
  <2>1. CASE CheckFile(p, f)
    <3>. DEFINE a == [s EXCEPT !.todo = @ \ {f}, !.changed = @ \/ ~Matches(p, f)]
    <3>1. /\ a.phase = "read" /\ a.kind = "check" /\ a.opts = s.opts /\ a.todo = s.todo \ {f}
          /\ a.cands = s.cands /\ a.seen = s.seen /\ a.mods = s.mods /\ a.complete = s.complete
          /\ a.changed = (s.changed \/ ~Matches(p, f))
      BY <1>1 DEF Activity
    <3>2. Becomes(p, a)
      BY <2>1 DEF CheckFile
    <3>3. Matches(p, f) => RowMatched(s, f)
      <4>1. SUFFICES ASSUME Matches(p, f) PROVE RowMatched(s, f)
        OBVIOUS
      <4>2. tree \in Image /\ tree.files[f] \in Content /\ s.opts.exe.parser \in Nat
        BY <1>1, <2>1, ConstantsAssumption
           DEF CheckFile, Tree, FreshInv, IInv, TypeOK, Image, Started, Executable
      <4>3. db.rows[f] = [content |-> tree.files[f], parser |-> s.opts.exe.parser,
                          project |-> tree.layout]
        BY <4>1 DEF Matches
      <4>4. db.rows[f] \in Row
        BY <4>2, <4>3 DEF Row, Image
      <4>5. tree \in s.seen
        BY <1>1 DEF Scanning
      <4>. HIDE DEF s, tree
      <4>. QED
        BY <4>3, <4>4, <4>5, ConstantsAssumption DEF RowMatched
    <3>. HIDE DEF a, s, tree
    <3>. QED
      BY <3>1, <3>2, <3>3
  <2>2. CASE CheckFail(p, f)
    <3>. DEFINE a == [s EXCEPT !.todo = @ \ {f}, !.complete = FALSE, !.changed = TRUE]
    <3>1. /\ a.phase = "read" /\ a.kind = "check" /\ a.opts = s.opts /\ a.todo = s.todo \ {f}
          /\ a.cands = s.cands /\ a.seen = s.seen /\ a.mods = s.mods /\ ~a.complete /\ a.changed
      BY <1>1 DEF Activity
    <3>2. Becomes(p, a)
      BY <2>2 DEF CheckFail
    <3>. HIDE DEF a, s, tree
    <3>. QED
      BY <3>1, <3>2
  <2>. QED
    BY <2>1, <2>2
<1>. HIDE DEF s, tree
<1>3. Visited(a) /\ ~IndexReading(a)
  BY <1>1, <1>2 DEF Scanning, Visited, Passed, SeenAs, IndexReading
<1>4. Compared(a)
  <2>1. Compared(s)
    BY <1>1 DEF Scanning
  <2>2. \A g : RowMatched(a, g) <=> RowMatched(s, g)
    BY <1>2 DEF RowMatched
  <2>. QED
    BY <1>1, <1>2, <2>1, <2>2 DEF Compared
<1>5. Scanning(p, a)
  BY <1>1, <1>2, <1>3, <1>4 DEF Scanning, tree
<1>. QED
  BY <1>1, <1>2, <1>5, OwnStepScans

\* After a release nobody scans.
LEMMA ReleaseScans ==
  ASSUME FreshInv, NEW p \in Proc, pass[p].phase # "idle", Release(p)
  PROVE  ScanInv'
<1>1. lock = p
  BY BusyHolds DEF FreshInv
<1>2. \A q \in Proc : pass'[q] = Idle
  BY <1>1 DEF FreshInv, IInv, TypeOK, LockInv, Release, Becomes
<1>3. Idle.phase = "idle"
  BY DEF Idle
<1>. QED
  BY <1>2, <1>3 DEF ScanInv

(***************************************************************************)
(* A verdict.  Each candidate was compared with its row, no other row      *)
(* exists, and whatever is no candidate is excluded or was seen absent.    *)
(***************************************************************************)
LEMMA VerdictScans ==
  ASSUME FreshInv, IInv', NEW p \in Proc, RecordCheck(p)
  PROVE  FreshInv'
<1>. DEFINE s == pass[p]
            tree == Tree(p)
<1>1. /\ s \in Activity /\ s.phase = "read" /\ s.kind = "check" /\ s.todo = {} /\ lock = p
      /\ Scanning(p, s) /\ s.opts \in Started
  BY BusyHolds DEF FreshInv, ScanInv, IInv, TypeOK, RecordCheck
<1>2. ScanInv'
  BY <1>1, ReleaseScans DEF RecordCheck
<1>3. /\ db'.verdict = Verdict(s) /\ checked' = s.seen
      /\ db'.root = db.root /\ db'.rows = db.rows /\ db'.mods = db.mods /\ db'.policy = db.policy
  BY DEF RecordCheck, FreshInv, IInv, TypeOK, Database
<1>4. ASSUME db'.verdict = "fresh_at_check"
      PROVE  /\ \A f \in Path : Confirmed(f)'
             /\ \E image \in s.seen : image.layout = db.mods
  <2>1. /\ s.complete /\ ~s.changed /\ Vanished(s.cands) = {} /\ db.mods = s.mods
    BY <1>3, <1>4 DEF Verdict
  <2>2. s.opts.policy = StoredPolicy /\ Compared(s) /\ Visited(s) /\ StoredPolicy' = StoredPolicy
    BY <1>1, <1>3 DEF Scanning, StoredPolicy
  <2>3. Candidate(s)
    BY DEF FreshInv, IInv, PassInv
  <2>. HIDE DEF s
  <2>4. ASSUME NEW f \in Path PROVE Confirmed(f)'
    <3>1. CASE f \in s.cands
      <4>1. RowMatched(s, f)
        BY <1>1, <2>1, <2>2, <3>1 DEF Compared
      <4>2. f \notin StoredPolicy
        BY <2>2, <2>3, <3>1 DEF Candidate
      <4>. QED
        BY <1>3, <2>2, <4>1, <4>2 DEF Confirmed, RowMatched
    <3>2. CASE f \notin s.cands
      <4>1. db.rows[f] = None
        BY <2>1, <3>2 DEF Vanished
      <4>2. f \in StoredPolicy \/ None \in SeenAs(s, f)
        BY <1>1, <2>1, <2>2, <3>2 DEF Visited, Passed
      <4>3. None \in SeenAs(s, f) => \E image \in s.seen : image.files[f] = None
        BY DEF SeenAs
      <4>. QED
        BY <1>3, <2>2, <4>1, <4>2, <4>3 DEF Confirmed
    <3>. QED
      BY <3>1, <3>2
  <2>. QED
    BY <1>1, <2>1, <2>2, <2>4 DEF Compared
<1>6. FreshIsTrue'
  BY <1>3, <1>4 DEF FreshIsTrue
<1>7. VerdictInv'
  BY <1>1, <1>3, ConstantsAssumption DEF Scanning, VerdictInv
<1>. QED
  BY <1>2, <1>6, <1>7 DEF FreshInv

LEMMA LeaveScans ==
  ASSUME FreshInv, IInv', NEW p \in Proc, Commit(p) \/ Abandon(p)
  PROVE  FreshInv'
<1>1. ScanInv'
  BY ReleaseScans DEF Commit, Abandon
<1>2. CASE Commit(p)
  <2>1. db'.verdict = None
    BY <1>2 DEF Commit, Committed
  <2>2. None # "fresh_at_check"
    BY ConstantsAssumption
  <2>. QED
    BY <1>1, <2>1, <2>2 DEF FreshInv, FreshIsTrue, VerdictInv
<1>3. CASE Abandon(p)
  BY <1>1, <1>3 DEF Abandon, FreshInv, FreshIsTrue, VerdictInv, Confirmed, StoredPolicy
<1>. QED
  BY <1>2, <1>3

\* An edit during a scan is seen; a verdict is about what was seen before it.
LEMMA EditScans ==
  ASSUME FreshInv, IInv', NEW r \in Root, EditTree(r)
  PROVE  FreshInv'
<1>1. PICK image : Edit(r, image)
  BY DEF EditTree
<1>2. /\ image # disk[r] /\ disk' = [disk EXCEPT ![r] = image] /\ db' = db /\ lock' = lock
      /\ checked' = checked
  BY <1>1 DEF Edit
<1>3. /\ disk \in [Root -> Image] /\ pass \in [Proc -> Activity] /\ db.root \in Root \cup {None}
      /\ RootOf \in [Proc -> Root]
  BY ConstantsAssumption DEF FreshInv, IInv, TypeOK, Database
<1>4. ASSUME NEW q \in Proc, pass'[q].phase # "idle"
      PROVE  Scanning(q, pass[q])'
  <2>. DEFINE s == pass[q]
              t == [s EXCEPT !.seen = @ \cup {image}]
  <2>1. /\ pass'[q] = IF s.phase # "idle" /\ RootOf[q] = r THEN t ELSE s
        /\ t.phase = s.phase /\ t.kind = s.kind /\ t.cands = s.cands /\ t.todo = s.todo
        /\ t.opts = s.opts /\ t.rows = s.rows /\ t.complete = s.complete
        /\ t.seen = s.seen \cup {image}
    BY <1>1, <1>3 DEF Edit, Activity
  <2>2. s.phase # "idle" /\ Scanning(q, s)
    BY <1>4, <2>1 DEF FreshInv, ScanInv
  <2>3. CASE RootOf[q] = r
    <3>1. pass'[q] = t /\ disk'[RootOf[q]] = image /\ Tree(q) \in s.seen /\ Tree(q) = disk[r]
      BY <1>2, <1>3, <2>1, <2>2, <2>3 DEF Scanning, Tree
    <3>. HIDE DEF t, s
    <3>2. \A f : SeenAs(s, f) \subseteq SeenAs(t, f)
      BY <2>1 DEF SeenAs
    <3>3. Visited(t)
      BY <2>1, <2>2, <3>2 DEF Scanning, Visited, Passed
    <3>4. IndexReading(t) => RowsSeen(t)
      BY <2>1, <2>2, <3>2 DEF Scanning, RowsSeen, RowSeen, IndexReading
    <3>5. image \in t.seen /\ (t.kind = "check" => Compared(t))
      <4>1. s.kind = "check" => Compared(s)
        BY <2>2 DEF Scanning
      <4>2. \A f : RowMatched(s, f) => RowMatched(t, f)
        BY <2>1 DEF RowMatched
      <4>3. /\ t.kind = s.kind /\ t.phase = s.phase /\ t.complete = s.complete
            /\ t.changed = s.changed /\ t.mods = s.mods
        BY <1>3 DEF t, s, Activity
      <4>. QED
        BY <2>1, <4>1, <4>2, <4>3 DEF Compared
    <3>6. t.kind = "check" => t.opts.policy = StoredPolicy /\ db.root = RootOf[q]
      BY <2>1, <2>2 DEF Scanning
    <3>. QED
      BY <1>2, <2>2, <3>1, <3>3, <3>4, <3>5, <3>6
         DEF Scanning, Tree, Visited, Passed, SeenAs, RowsSeen, RowSeen, IndexReading, StoredPolicy,
             Compared, RowMatched
  <2>4. CASE RootOf[q] # r
    <3>1. pass'[q] = s /\ disk'[RootOf[q]] = disk[RootOf[q]]
      BY <1>2, <1>3, <2>1, <2>4
    <3>. HIDE DEF t
    <3>2. Tree(q)' = Tree(q)
      BY <3>1 DEF Tree
    <3>3. PICK u : u = s
      OBVIOUS
    <3>4. Scanning(q, u)
      BY <2>2, <3>3
    <3>. HIDE DEF s
    <3>5. Scanning(q, u)'
      BY <1>2, <3>2, <3>4
         DEF Scanning, Visited, Passed, SeenAs, RowsSeen, RowSeen, IndexReading, StoredPolicy,
             Compared, RowMatched
    <3>. QED
      BY <3>1, <3>3, <3>5
  <2>. QED
    BY <2>3, <2>4
<1>5. ScanInv'
  BY <1>4 DEF ScanInv
<1>6. VerdictInv'
  BY <1>2 DEF FreshInv, VerdictInv
<1>7. FreshIsTrue'
  BY <1>2 DEF FreshInv, FreshIsTrue, Confirmed, StoredPolicy
<1>. QED
  BY <1>5, <1>6, <1>7 DEF FreshInv

LEMMA InitFresh == Init => FreshInv
<1>. SUFFICES ASSUME Init PROVE FreshInv
  OBVIOUS
<1>1. IInv
  BY InitInvariant
<1>2. Idle.phase = "idle"
  BY DEF Idle
<1>3. ScanInv
  BY <1>2 DEF Init, ScanInv
<1>4. db.verdict = None
  <2>1. EmptyDb.verdict = None
    BY DEF EmptyDb
  <2>2. ASSUME NEW r, NEW basis PROVE Legacy(r, basis).verdict = None
    BY DEF EmptyDb, Legacy
  <2>. QED
    BY <2>1, <2>2 DEF Init
<1>5. None # "fresh_at_check"
  BY ConstantsAssumption
<1>. QED
  BY <1>1, <1>3, <1>4, <1>5 DEF FreshInv, FreshIsTrue, VerdictInv

LEMMA StepFresh == FreshInv /\ [Next]_vars => FreshInv'
<1>. SUFFICES ASSUME FreshInv, [Next]_vars PROVE FreshInv'
  OBVIOUS
<1>1. IInv'
  BY StepInvariant DEF FreshInv
<1>2. CASE UNCHANGED vars
  BY <1>1, <1>2 DEF vars, FreshInv, ScanInv, Scanning, Tree, Visited, Passed, SeenAs, RowsSeen,
       RowSeen, IndexReading, StoredPolicy, Compared, RowMatched, VerdictInv, FreshIsTrue,
       Confirmed
<1>3. ASSUME NEW p \in Proc, StartIndex(p) \/ StartCheck(p) PROVE FreshInv'
  BY <1>1, <1>3, StartScans
<1>4. ASSUME NEW p \in Proc, Step(p) PROVE FreshInv'
  BY <1>1, <1>4, WalkScans, IndexFileScans, IndexFailScans, CheckScans, PlanScans,
     VerdictScans, LeaveScans DEF Step
<1>5. ASSUME NEW r \in Root, EditTree(r) PROVE FreshInv'
  BY <1>1, <1>5, EditScans
<1>. QED
  BY <1>2, <1>3, <1>4, <1>5 DEF Next

(***************************************************************************)
(* fresh_at_check means what it says (index.rs:676), whatever is edited    *)
(* during the check: every row and every absence of a row was true at some *)
(* moment of it.                                                           *)
(***************************************************************************)
THEOREM FreshHolds == Spec => []FreshIsTrue
<1>1. FreshInv => FreshIsTrue
  BY DEF FreshInv
<1>. QED
  BY <1>1, InitFresh, StepFresh, PTL DEF Spec
-----------------------------------------------------------------------------
(***************************************************************************)
(* The pass implements the contract: a scan is what holds the lock, with   *)
(* the images its tree had since; a publication is a commit.               *)
(***************************************************************************)
Scan == IF lock = None THEN None ELSE [root |-> RootOf[lock], seen |-> pass[lock].seen]

ContentAt(rows, f) == IF rows[f] = None THEN None ELSE rows[f].content

LEMMA ContentOfRows ==
  ASSUME NEW rows, NEW f \in Path
  PROVE  ContentOf(rows)[f] = ContentAt(rows, f)
  BY DEF ContentOf, ContentAt

\* A step inside a scan shows neither in the index nor in what was seen.
LEMMA InnerStepMaps ==
  ASSUME FreshInv, NEW p \in Proc, NEW f \in Path,
         \/ WalkEntry(p, f) \/ WalkFail(p, f) \/ IndexFile(p, f) \/ IndexFail(p, f)
         \/ CheckFile(p, f) \/ CheckFail(p, f) \/ PlanIndex(p) \/ PlanCheck(p)
  PROVE  UNCHANGED Contract!contractVars
<1>1. UNCHANGED <<disk, db, lock>> /\ pass \in [Proc -> Activity] /\ lock = p
  BY BusyHolds DEF FreshInv, IInv, TypeOK, WalkEntry, WalkFail, IndexFile, IndexFail, CheckFile,
     CheckFail, PlanIndex, PlanCheck
<1>2. PICK a : Becomes(p, a) /\ a.seen = pass[p].seen
  <2>. DEFINE s == pass[p]
  <2>0. s \in Activity
    BY <1>1
  <2>1. CASE WalkEntry(p, f)
    <3>. DEFINE a == [s EXCEPT !.todo = @ \ {f},
                    !.cands = IF Tree(p).files[f] # None /\ f \notin s.opts.policy
                              THEN @ \cup {f} ELSE @]
    <3>1. a.seen = s.seen /\ Becomes(p, a)
      BY <2>0, <2>1 DEF WalkEntry, Activity
    <3>. QED
      BY <3>1
  <2>2. CASE WalkFail(p, f)
    <3>. DEFINE a == [s EXCEPT !.todo = @ \ {f}, !.complete = FALSE]
    <3>1. a.seen = s.seen /\ Becomes(p, a)
      BY <2>0, <2>2 DEF WalkFail, Activity
    <3>. QED
      BY <3>1
  <2>3. CASE IndexFile(p, f)
    <3>. DEFINE a == [s EXCEPT !.todo = @ \ {f},
                    !.rows = [@ EXCEPT ![f] = [content |-> Tree(p).files[f],
                                               parser |-> s.opts.exe.parser,
                                               project |-> Tree(p).layout]],
                    !.changed = @ \/ ~Unchanged(s.rows[f], Tree(p).files[f], s.opts),
                    !.recompute = @ \/ (/\ Unchanged(s.rows[f], Tree(p).files[f], s.opts)
                                        /\ s.rows[f].project # Tree(p).layout)]
    <3>1. a.seen = s.seen /\ Becomes(p, a)
      BY <2>0, <2>3 DEF IndexFile, Activity
    <3>. QED
      BY <3>1
  <2>4. CASE IndexFail(p, f)
    <3>. DEFINE a == [s EXCEPT !.todo = @ \ {f}, !.complete = FALSE]
    <3>1. a.seen = s.seen /\ Becomes(p, a)
      BY <2>0, <2>4 DEF IndexFail, Activity
    <3>. QED
      BY <3>1
  <2>5. CASE CheckFile(p, f)
    <3>. DEFINE a == [s EXCEPT !.todo = @ \ {f}, !.changed = @ \/ ~Matches(p, f)]
    <3>1. a.seen = s.seen /\ Becomes(p, a)
      BY <2>0, <2>5 DEF CheckFile, Activity
    <3>. QED
      BY <3>1
  <2>6. CASE CheckFail(p, f)
    <3>. DEFINE a == [s EXCEPT !.todo = @ \ {f}, !.complete = FALSE, !.changed = TRUE]
    <3>1. a.seen = s.seen /\ Becomes(p, a)
      BY <2>0, <2>6 DEF CheckFail, Activity
    <3>. QED
      BY <3>1
  <2>7. CASE PlanIndex(p)
    <3>1. \A complete, mods, rows, changed, recompute, rescoped :
            Planned(s, complete, mods, rows, changed, recompute, rescoped).seen = s.seen
      BY <2>0 DEF Planned, Activity
    <3>2. PICK complete, mods, rows, changed, recompute, rescoped :
            Becomes(p, Planned(s, complete, mods, rows, changed, recompute, rescoped))
      BY <2>7, PlanIndexPlans
    <3>. QED
      BY <3>1, <3>2
  <2>8. CASE PlanCheck(p)
    <3>1. PICK readable \in BOOLEAN :
            Becomes(p, [s EXCEPT !.phase = "read", !.todo = s.cands,
                          !.complete = @ /\ readable, !.mods = ModulesRead(p, readable)])
      BY <2>8 DEF PlanCheck
    <3>. DEFINE a == [s EXCEPT !.phase = "read", !.todo = s.cands,
                        !.complete = @ /\ readable, !.mods = ModulesRead(p, readable)]
    <3>2. a.seen = s.seen /\ Becomes(p, a)
      BY <2>0, <3>1 DEF Activity
    <3>. QED
      BY <3>2
  <2>. QED
    BY <2>1, <2>2, <2>3, <2>4, <2>5, <2>6, <2>7, <2>8
<1>3. pass'[p].seen = pass[p].seen
  BY <1>1, <1>2 DEF Becomes
<1>4. Scan' = Scan /\ PublishedIndex' = PublishedIndex
  BY <1>1, <1>3 DEF Scan, PublishedIndex, ContentOf
<1>. QED
  BY <1>1, <1>4 DEF Contract!contractVars, Scan

LEMMA StartMaps ==
  ASSUME FreshInv, NEW p \in Proc, StartIndex(p) \/ StartCheck(p)
  PROVE  Contract!Next
<1>1. PICK kind, opts : Start(p, kind, opts)
  BY DEF StartIndex, StartCheck
<1>2. /\ lock = None /\ lock' = p /\ disk' = disk /\ db' = db
      /\ pass \in [Proc -> Activity] /\ RootOf[p] \in Root /\ p # None
  BY <1>1, ConstantsAssumption DEF Start, CanStart, FreshInv, IInv, TypeOK
<1>3. pass'[p].seen = {disk[RootOf[p]]}
  BY <1>1, <1>2 DEF Start, Becomes, Idle, Tree
<1>4. Scan = None /\ Scan' = [root |-> RootOf[p], seen |-> {disk[RootOf[p]]}]
  BY <1>2, <1>3 DEF Scan
<1>5. PublishedIndex' = PublishedIndex
  BY <1>2 DEF PublishedIndex
<1>6. Contract!Begin(RootOf[p])
  BY <1>2, <1>4, <1>5 DEF Contract!Begin, Scan
<1>. QED
  BY <1>2, <1>6 DEF Contract!Next

\* While somebody scans there is a scan, and after it none.
LEMMA ReleaseMaps ==
  ASSUME FreshInv, NEW p \in Proc, pass[p].phase # "idle", Release(p)
  PROVE  /\ lock = p /\ Scan' = None
         /\ Scan = [root |-> RootOf[p], seen |-> pass[p].seen] /\ Scan # None
<1>1. lock = p /\ lock' = None /\ p # None
  BY BusyHolds, ConstantsAssumption DEF FreshInv, Release
<1>2. Scan = [root |-> RootOf[p], seen |-> pass[p].seen] /\ Scan' = None
  BY <1>1 DEF Scan
<1>3. RootOf[p] \in Root /\ pass[p].seen \in SUBSET Image
  BY ConstantsAssumption DEF FreshInv, IInv, TypeOK, Activity
<1>4. Scan \in [root : Root, seen : SUBSET Image]
  BY <1>2, <1>3
<1>5. None \notin [root : Root, seen : SUBSET Image]
  BY ConstantsAssumption
<1>. QED
  BY <1>1, <1>2, <1>4, <1>5

LEMMA LeaveMaps ==
  ASSUME FreshInv, NEW p \in Proc, RecordCheck(p) \/ Abandon(p)
  PROVE  Contract!Next
<1>1. Scan # None /\ Scan' = None /\ disk' = disk
  BY ReleaseMaps DEF RecordCheck, Abandon
<1>2. PublishedIndex' = PublishedIndex
  <2>1. CASE RecordCheck(p)
    <3>1. /\ db'.root = db.root /\ db'.gen = db.gen /\ db'.rows = db.rows
          /\ db'.policy = db.policy /\ db'.complete = db.complete
          /\ db'.tracked = db.tracked /\ db'.snaps = db.snaps
      BY <2>1 DEF RecordCheck, FreshInv, IInv, TypeOK, Database
    <3>. QED
      BY <3>1 DEF PublishedIndex
  <2>2. CASE Abandon(p)
    BY <2>2 DEF Abandon, PublishedIndex
  <2>. QED
    BY <2>1, <2>2
<1>. QED
  BY <1>1, <1>2 DEF Contract!Next, Contract!End, Scan

LEMMA EditMaps ==
  ASSUME FreshInv, NEW r \in Root, EditTree(r)
  PROVE  Contract!Next
<1>1. PICK image : Edit(r, image)
  BY DEF EditTree
<1>2. /\ disk' = [disk EXCEPT ![r] = image] /\ db' = db /\ lock' = lock
      /\ disk \in [Root -> Image] /\ pass \in [Proc -> Activity] /\ lock \in Proc \cup {None}
  BY <1>1 DEF Edit, FreshInv, IInv, TypeOK
<1>3. PublishedIndex' = PublishedIndex /\ \A q \in Root \ {r} : disk'[q] = disk[q]
  BY <1>2 DEF PublishedIndex
<1>4. disk'[r] = image
  BY <1>2
<1>5. CASE lock # None /\ RootOf[lock] = r
  <2>1. lock \in Proc /\ pass[lock] \in Activity /\ pass[lock].phase # "idle"
    BY <1>2, <1>5 DEF FreshInv, IInv, LockInv
  <2>2. pass'[lock] = [pass[lock] EXCEPT !.seen = @ \cup {image}]
    BY <1>1, <1>5, <2>1 DEF Edit
  <2>3. pass'[lock].seen = pass[lock].seen \cup {image}
    BY <2>1, <2>2 DEF Activity
  <2>4. Scan = [root |-> r, seen |-> pass[lock].seen]
    BY <1>5 DEF Scan
  <2>5. Scan' = [Scan EXCEPT !.seen = @ \cup {disk'[r]}]
    BY <1>2, <1>4, <1>5, <2>3, <2>4 DEF Scan
  <2>6. Scan # None
    <3>1. Scan \in [root : Root, seen : SUBSET Image]
      BY <2>1, <2>4 DEF Activity
    <3>. QED
      BY <3>1, ConstantsAssumption
  <2>. QED
    BY <1>3, <2>4, <2>5, <2>6 DEF Contract!Next, Contract!Edit, Scan
<1>6. CASE lock = None \/ RootOf[lock] # r
  <2>1. lock # None => lock \in Proc /\ pass'[lock] = pass[lock]
    BY <1>1, <1>2, <1>6 DEF Edit
  <2>2. Scan' = Scan
    BY <1>2, <2>1 DEF Scan
  <2>. QED
    BY <1>3, <2>2 DEF Contract!Next, Contract!Edit, Scan
<1>. QED
  BY <1>5, <1>6

(***************************************************************************)
(* A publication.  Each row is the old one or was seen; a complete one was *)
(* read or was seen absent, path by path.                                  *)
(***************************************************************************)
LEMMA CommitMaps ==
  ASSUME FreshInv, FreshInv', NEW p \in Proc, Commit(p)
  PROVE  Contract!Next
<1>. DEFINE s == pass[p]
            old == PublishedIndex
            new == PublishedIndex'
            scan == [root |-> RootOf[p], seen |-> s.seen]
            basis == IF Resolves(s) THEN Basis(s.rows, s.mods, s.opts.exe.resolver) ELSE db.basis
            snap == [gen |-> db.gen + 1, complete |-> s.complete, rows |-> s.rows, basis |-> basis]
            Summary(t) == [gen |-> t.gen, complete |-> t.complete, content |-> ContentOf(t.rows)]
<1>1. /\ s \in Activity /\ s.opts \in Started /\ IndexReading(s) /\ s.todo = {} /\ ~Refused(s)
      /\ Candidate(s) /\ Pending(s) /\ Scanning(p, s)
  BY DEF FreshInv, ScanInv, IInv, TypeOK, PassInv, Commit, IndexReading
<1>2. Scan = scan /\ Scan # None /\ Scan' = None /\ disk' = disk
  BY ReleaseMaps DEF Commit
<1>3. /\ db'.root = RootOf[p] /\ db'.gen = db.gen + 1 /\ db'.rows = s.rows
      /\ db'.policy = s.opts.policy /\ db'.complete = s.complete /\ db'.tracked
      /\ db'.snaps = SnapshotsAfter(s, db.gen + 1, basis)
  BY DEF Commit, Committed
<1>4. /\ new.root = RootOf[p] /\ new.gen = old.gen + 1 /\ new.content = ContentOf(s.rows)
      /\ new.policy = s.opts.policy /\ new.complete = s.complete /\ new.tracked
      /\ new.snaps = {Summary(t) : t \in SnapshotsAfter(s, db.gen + 1, basis)}
  BY <1>3 DEF PublishedIndex
<1>5. /\ old.root = db.root /\ old.gen = db.gen /\ old.content = ContentOf(db.rows)
      /\ old.policy = db.policy /\ old.tracked = db.tracked
      /\ old.snaps = {Summary(t) : t \in db.snaps}
  BY DEF PublishedIndex
<1>6. db.root \in {None, RootOf[p]} /\ Visited(s) /\ RowsSeen(s)
  BY <1>1 DEF Scanning
<1>7. SnapshotsAfter(s, db.gen + 1, basis) \subseteq (IF s.rescoped THEN {} ELSE db.snaps) \cup {snap}
  BY DEF SnapshotsAfter, NewestTwo
<1>8. ~s.rescoped => db.root = None \/ (db.tracked /\ db.policy = s.opts.policy)
  BY <1>1 DEF Pending, Rescoped, FreshInv, IInv, DbInv, TrackedInv
<1>9. db.root = None => db.snaps = {}
  BY DEF FreshInv, IInv, DbInv, UnindexedInv
<1>. DEFINE content == ContentOf(s.rows)
<1>10. \A f \in Path : /\ content[f] = ContentAt(s.rows, f)
                       /\ ContentOf(db.rows)[f] = ContentAt(db.rows, f)
  BY ContentOfRows
<1>11. \A f \in Path : db.rows[f] # None => db.rows[f].content # None
  <2>1. \A f \in Path : db.rows[f] \in Row \cup {None}
    BY DEF FreshInv, IInv, TypeOK, Database, Rows
  <2>2. None \notin Content
    BY ConstantsAssumption
  <2>. QED
    BY <2>1, <2>2 DEF Row
<1>. HIDE DEF s, basis, content
<1>12. ASSUME NEW f \in Path
       PROVE  \/ content[f] # None /\ content[f] = ContentOf(db.rows)[f]
              \/ content[f] \in SeenAs(s, f)
              \/ content[f] = None /\ (ContentOf(db.rows)[f] = None \/ f \in s.opts.policy)
  BY <1>6, <1>10, <1>11 DEF RowsSeen, RowSeen, ContentAt
<1>13. ASSUME s.complete, NEW f \in Path
       PROVE  IF f \in s.opts.policy THEN content[f] = None ELSE content[f] \in SeenAs(s, f)
  <2>1. CASE f \in s.cands
    <3>1. RowSeen(s, f) /\ f \notin s.opts.policy
      BY <1>1, <1>6, <1>13, <2>1 DEF RowsSeen, Candidate
    <3>. QED
      BY <1>10, <3>1 DEF RowSeen, ContentAt
  <2>2. CASE f \notin s.cands
    <3>1. s.rows[f] = None
      BY <1>1, <1>13, <2>2 DEF Pending
    <3>2. f \in s.opts.policy \/ None \in SeenAs(s, f)
      BY <1>1, <1>6, <1>13, <2>2 DEF Visited, Passed
    <3>. QED
      BY <1>10, <3>1, <3>2 DEF ContentAt
  <2>. QED
    BY <2>1, <2>2
<1>14. ASSUME db.root # None, ~(db.tracked /\ db.policy = s.opts.policy) PROVE s.complete
  BY <1>1, <1>8, <1>14 DEF Refused
<1>15. ASSUME NEW t \in new.snaps
       PROVE  \/ t \in old.snaps /\ db.tracked /\ db.policy = s.opts.policy
              \/ t = [gen |-> db.gen + 1, complete |-> s.complete, content |-> content]
  <2>1. PICK u \in SnapshotsAfter(s, db.gen + 1, basis) : t = Summary(u)
    BY <1>4
  <2>2. CASE u = snap
    BY <2>1, <2>2 DEF content
  <2>3. CASE ~s.rescoped /\ u \in db.snaps
    BY <1>5, <1>8, <1>9, <2>1, <2>3
  <2>. QED
    BY <1>7, <2>2, <2>3
<1>16. \A f \in Path : Contract!Held(f) = SeenAs(s, f)
  <2>1. Scan.seen = s.seen
    BY <1>2
  <2>. QED
    BY <2>1 DEF Contract!Held, SeenAs, Scan
<1>. HIDE DEF new, old
<1>17. \A f \in Path : Contract!Sourced(new, f)
  BY <1>4, <1>5, <1>12, <1>16 DEF Contract!Sourced, content, old
<1>18. new.complete => \A f \in Path : Contract!Covered(new, f)
  BY <1>4, <1>13, <1>16 DEF Contract!Covered, content
<1>19. Contract!SameScope(new) <=> db.tracked /\ db.policy = s.opts.policy
  BY <1>4, <1>5 DEF Contract!SameScope, old
<1>20. Contract!Publication(new)
  BY <1>2, <1>4, <1>5, <1>6, <1>14, <1>15, <1>17, <1>18, <1>19
     DEF Contract!Publication, Scan, content, old
<1>21. Contract!Publish
  BY <1>2, <1>20 DEF Contract!Publish, Scan, new
<1>. QED
  BY <1>21 DEF Contract!Next

LEMMA StepMaps ==
  ASSUME FreshInv, FreshInv', [Next]_vars
  PROVE  [Contract!Next]_(Contract!contractVars)
<1>1. CASE UNCHANGED vars
  <2>1. Scan' = Scan /\ PublishedIndex' = PublishedIndex /\ disk' = disk
    BY <1>1 DEF vars, Scan, PublishedIndex
  <2>. QED
    BY <2>1 DEF Contract!contractVars, Scan
<1>2. ASSUME NEW p \in Proc, StartIndex(p) \/ StartCheck(p) PROVE Contract!Next
  BY <1>2, StartMaps
<1>3. ASSUME NEW p \in Proc, Step(p) PROVE Contract!Next \/ UNCHANGED Contract!contractVars
  <2>1. Path # {}
    BY ConstantsAssumption
  <2>. QED
    BY <1>3, <2>1, InnerStepMaps, CommitMaps, LeaveMaps DEF Step
<1>4. ASSUME NEW r \in Root, EditTree(r) PROVE Contract!Next
  BY <1>4, EditMaps
<1>. QED
  BY <1>1, <1>2, <1>3, <1>4 DEF Next

LEMMA InitMaps == Init => Contract!Init
  BY DEF Init, Contract!Init

(***************************************************************************)
(* Every behaviour of the passes, checks, edits, failures and kills is one *)
(* of IndexContract: a reader sees whole publications of one root, each    *)
(* row of which the disk showed during the pass that published it.         *)
(***************************************************************************)
THEOREM Implements == Spec => ImplementsContract
<1>1. FreshInv /\ FreshInv' /\ [Next]_vars => [Contract!Next]_(Contract!contractVars)
  BY StepMaps
<1>. QED
  BY <1>1, InitMaps, InitFresh, StepFresh, PTL DEF Spec, ImplementsContract, Contract!Spec
=============================================================================
