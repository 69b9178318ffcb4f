--------------------------- MODULE IndexPassProps ---------------------------
(***************************************************************************)
(* What the indexing pass, its freshness check and its snapshots promise.  *)
(***************************************************************************)
EXTENDS IndexPass

MaybeRow == Row \cup {None}

Database ==
  [root : Root \cup {None}, gen : Nat, rows : Rows, mods : Layout \cup {None},
   resolver : Nat \cup {None}, basis : BasisType, policy : Policy \cup {None},
   tracked : BOOLEAN, complete : BOOLEAN,
   verdict : {"stale", "incomplete", "fresh_at_check", None}, snaps : SUBSET Snapshot]

Started == [policy : Policy, force : BOOLEAN, exe : Executable]

Activity ==
  [phase : {"idle", "walk", "read"}, kind : {"index", "check"}, opts : Started \cup {None},
   todo : SUBSET Path, cands : SUBSET Path, complete : BOOLEAN, mods : Layout \cup {None},
   rows : Rows, changed : BOOLEAN, recompute : BOOLEAN, rescoped : BOOLEAN,
   seen : SUBSET Image]

\* The types of the variables; a process that is not idle has its options.
TypeOK ==
  /\ disk \in [Root -> Image]
  /\ db \in Database
  /\ lock \in Proc \cup {None}
  /\ pass \in [Proc -> Activity]
  /\ \A p \in Proc : pass[p].phase # "idle" => pass[p].opts \in Started
  /\ edits \in Nat
  /\ checked \in SUBSET Image
-----------------------------------------------------------------------------
(***************************************************************************)
(* "Retained names must not cross an exclusion-policy change"              *)
(* (store/history.rs:15): once exclusions are tracked, neither a row nor a *)
(* retained snapshot holds anything of a path the policy in force          *)
(* excludes, however passes with other policies, failures and kills        *)
(* interleave.                                                             *)
(***************************************************************************)
PolicyRespected ==
  db.tracked =>
    \A f \in Path : f \in db.policy =>
      /\ db.rows[f] = None
      /\ \A s \in db.snaps : s.rows[f] = None

(***************************************************************************)
(* A pass that finds nothing to do skips import and call resolution        *)
(* (index.rs:214); the edges it leaves are still those a full resolution   *)
(* of the committed rows, module files and resolver would give.            *)
(***************************************************************************)
EdgesCurrent ==
  db.root # None => db.basis = Basis(db.rows, db.mods, db.resolver)

(***************************************************************************)
(* A pass that changes nothing saves no snapshot (index.rs:229); the       *)
(* newest retained one still holds the committed symbols and edges, so the *)
(* "current" side of diff and changes is the index that queries see.       *)
(***************************************************************************)
NewestSnapshotCurrent ==
  db.tracked =>
    \E s \in db.snaps :
      /\ \A t \in db.snaps : t.gen <= s.gen
      /\ s.rows = db.rows
      /\ s.basis = db.basis

(***************************************************************************)
(* fresh_at_check means what it says (index.rs:676), also when the tree is *)
(* edited while it is walked and read: for every path there is a moment of *)
(* the check at which its file was what its row holds, and one at which it *)
(* lay in the project of the row; a path without a row is excluded or was  *)
(* missing at one; and the module files were those the edges rest on.  The *)
(* moments may differ, so a tree that was edited need never have been the  *)
(* indexed one; a tree that was not is.                                    *)
(***************************************************************************)
Confirmed(f) ==
  IF db.rows[f] = None
  THEN f \in StoredPolicy \/ \E image \in checked : image.files[f] = None
  ELSE /\ f \notin StoredPolicy
       /\ \E image \in checked : image.files[f] = db.rows[f].content
       /\ \E image \in checked : image.layout = db.rows[f].project

FreshIsTrue ==
  db.verdict = "fresh_at_check" =>
    /\ \A f \in Path : Confirmed(f)
    /\ \E image \in checked : image.layout = db.mods
-----------------------------------------------------------------------------
(***************************************************************************)
(* The pass implements the contract: every publication is whole, sourced   *)
(* from what the tree showed, bound to one root and, when it claims to be  *)
(* complete, accounts for every path.                                      *)
(***************************************************************************)
ContentOf(rows) == [f \in Path |-> IF rows[f] = None THEN None ELSE rows[f].content]

PublishedIndex ==
  [root |-> db.root, gen |-> db.gen, content |-> ContentOf(db.rows), policy |-> db.policy,
   complete |-> db.complete, tracked |-> db.tracked,
   snaps |-> {[gen |-> s.gen, complete |-> s.complete, content |-> ContentOf(s.rows)] :
                s \in db.snaps}]

Contract ==
  INSTANCE IndexContract WITH
    scan <- IF lock = None THEN None
            ELSE [root |-> RootOf[lock], seen |-> pass[lock].seen],
    index <- PublishedIndex

ImplementsContract == Contract!Spec
=============================================================================
