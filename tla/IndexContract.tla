---------------------------- MODULE IndexContract ----------------------------
(***************************************************************************)
(* What a reader of the index may rely on, whatever the indexing pass does *)
(* inside: an index changes only by whole publications, and a publication  *)
(* says nothing about a path that the disk did not show while the pass     *)
(* that publishes it ran.                                                  *)
(*                                                                         *)
(* IndexPass implements this specification step by step.                   *)
(***************************************************************************)
EXTENDS Naturals

CONSTANTS Root,     \* canonical root directories
          Path,     \* root-relative source paths
          Content,  \* what a file can hold
          None      \* "no file", "no row", "never recorded"

VARIABLES disk,   \* [Root -> image]: what each root holds now
          scan,   \* None, or the root being scanned and the images it held since
          index   \* the published index

contractVars == <<disk, scan, index>>

\* A path's contents the scan may have seen: those of the images held since it began.
Held(f) == {i.files[f] : i \in scan.seen}

(***************************************************************************)
(* One publication.  Nothing of another root is ever mixed in; a path      *)
(* keeps its row, or gets a content it held during the scan, or loses its  *)
(* row because the scan saw no file there or the policy excludes it.       *)
(***************************************************************************)
Sourced(new, f) ==
  \/ new.content[f] # None /\ new.content[f] = index.content[f]
  \/ new.content[f] \in Held(f)
  \/ new.content[f] = None /\ (index.content[f] = None \/ f \in new.policy)

\* A complete publication accounts for every path: its row is what the scan saw.
Covered(new, f) ==
  IF f \in new.policy THEN new.content[f] = None ELSE new.content[f] \in Held(f)

\* Retained snapshots never cross an exclusion-policy change.
SameScope(new) == index.tracked /\ index.policy = new.policy

Publication(new) ==
  /\ index.root \in {None, scan.root}
  /\ new.root = scan.root
  /\ new.gen = index.gen + 1
  /\ new.tracked
  /\ \A f \in Path : Sourced(new, f)
  /\ new.complete => \A f \in Path : Covered(new, f)
  /\ index.root # None /\ ~SameScope(new) => new.complete
  /\ \A s \in new.snaps :
       \/ s \in index.snaps /\ SameScope(new)
       \/ s = [gen |-> new.gen, complete |-> new.complete, content |-> new.content]

-----------------------------------------------------------------------------
Init == scan = None

\* The tree changes under the scan, which may or may not notice.
Edit(r) ==
  /\ \A q \in Root \ {r} : disk'[q] = disk[q]
  /\ \/ scan' = scan
     \/ /\ scan # None
        /\ scan.root = r
        /\ scan' = [scan EXCEPT !.seen = @ \cup {disk'[r]}]
  /\ UNCHANGED index

Begin(r) ==
  /\ scan = None
  /\ scan' = [root |-> r, seen |-> {disk[r]}]
  /\ UNCHANGED <<disk, index>>

\* An abandoned pass and a freshness check leave the index as it was.
End ==
  /\ scan # None
  /\ scan' = None
  /\ UNCHANGED <<disk, index>>

Publish ==
  /\ scan # None
  /\ scan' = None
  /\ Publication(index')
  /\ UNCHANGED disk

Next ==
  \/ \E r \in Root : Edit(r) \/ Begin(r)
  \/ End
  \/ Publish

Spec == Init /\ [][Next]_contractVars
=============================================================================
