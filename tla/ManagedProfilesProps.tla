-------------------------- MODULE ManagedProfilesProps --------------------------
(***************************************************************************)
(* What managed profiles promise to those who query them.                  *)
(***************************************************************************)
EXTENDS ManagedProfiles

Phase == {"idle", "compare", "current", "capture", "produce", "recapture", "confirm"}

Traversal == [todo : SUBSET Input, got : [Input -> Content \cup {None}]]

Image == [Input -> Content]

Cursor ==
  [identity : Identity, gen : Nat, evidence : {"ast", "combined"}, db : Database]

Refreshing ==
  [phase : Phase, identity : Identity \cup {None}, option : Option \cup {None},
   unread : BOOLEAN, candidate : Database \cup {None}, files : [Input -> Content \cup {None}],
   walk : Traversal]

Asking ==
  [phase : {"idle", "compare", "answer"}, identity : Identity \cup {None},
   db : Database \cup {None}, evidence : {"ast", "combined", None},
   from : Cursor \cup {None}, walk : Traversal]

(***************************************************************************)
(* The types of the variables.  The base lock is held by the one runner    *)
(* that refreshes, and by nobody else (profiles.rs:219).                   *)
(***************************************************************************)
TypeOK ==
  /\ tree \in Image
  /\ published \in [Identity -> Database \cup {None}]
  /\ {p \in Runner : run[p] # NoRun} = {lock} \ {None}
  /\ run \in [Runner -> Refreshing]
  /\ ask \in [Reader -> Asking]
  /\ cursor \in [Reader -> Cursor \cup {None}]
  /\ refreshes \in 0 .. MaxRefreshes
  /\ edits \in 0 .. MaxEdits
  /\ moments \in [Runner \cup Reader -> Seq(Image)]
-----------------------------------------------------------------------------
(***************************************************************************)
(* "Preserve normal query errors and project/profile in cursor             *)
(* fingerprints" (profiles.rs:172): the page that continues a cursor is    *)
(* taken from the very publication the cursor came from, although each     *)
(* publication is another database with generations of its own.            *)
(***************************************************************************)
PagesOfOnePublication ==
  \A r \in Reader : ask[r].from # None => ask[r].from.db = ask[r].db

\* The trees there were since the comparison of a process began.
Images(q) == {moments[q][k] : k \in DOMAIN moments[q]}

\* At one moment of the comparison, all of the tree was what the evidence rests on.
WasWhole(q, db) == \E image \in Images(q) : db.basis = View(db.option, image)

\* During the comparison an input that differed was set to what the evidence rests on.
CameBack(q, db) ==
  \E f \in Covers[db.option] : \E k, l \in DOMAIN moments[q] :
    /\ k < l
    /\ moments[q][k][f] # db.basis[f]
    /\ moments[q][l][f] = db.basis[f]

MatchedTheTree(q, db) ==
  /\ \A f \in Covers[db.option] : \E image \in Images(q) : db.basis[f] = image[f]
  /\ WasWhole(q, db) \/ CameBack(q, db)

(***************************************************************************)
(* "stale evidence still cannot answer combined queries" (README.md:400),  *)
(* and Outcome::Current is no guess: "all artifact documents and manifest  *)
(* inputs matched current bytes at query time" (scip.rs:458).              *)
(*                                                                         *)
(* The inputs are read one by one while they change, and their hashes are  *)
(* compared.  So each input had the recorded bytes at a moment of its own  *)
(* during the comparison, and the evidence may be a mixture that the tree  *)
(* never was; but only where an input came back, while it was compared, to *)
(* the recorded bytes (an undo, a checkout).  Otherwise the tree as a      *)
(* whole was at one moment of the comparison what the producer saw.        *)
(***************************************************************************)
EvidenceMatched ==
  /\ \A r \in Reader :
       ask[r].phase = "answer" /\ ask[r].evidence = "combined" => MatchedTheTree(r, ask[r].db)
  /\ \A p \in Runner :
       run[p].phase = "current" => MatchedTheTree(p, published[run[p].identity])

(***************************************************************************)
(* "Unchanged, fully validated inputs skip the compiler" (README.md:397):  *)
(* a producer runs only if nothing usable was published for its options,   *)
(* the tree differed from it during this refresh, or it could not be       *)
(* compared.                                                               *)
(***************************************************************************)
ProducerRunsForAReason ==
  \A p \in Runner : run[p].phase = "produce" =>
    LET db == published[run[p].identity]
    IN  \/ run[p].unread
        \/ db = None
        \/ db.schema # VersionOf[p]
        \/ db.option # run[p].option
        \/ \E image \in Images(p) : db.basis # View(db.option, image)

(***************************************************************************)
(* The abstract specification: a publication replaces the old one at once, *)
(* has a higher generation and no older schema, and rests on contents that *)
(* every input had at some moment after the artifact was complete; nothing *)
(* else changes what is published, neither failures nor kills.             *)
(***************************************************************************)
Contract == INSTANCE ProfileContract WITH
  validation <- IF lock = None THEN {} ELSE Images(lock)

ImplementsContract == Contract!Spec
=============================================================================
