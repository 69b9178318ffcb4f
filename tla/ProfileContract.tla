---------------------------- MODULE ProfileContract ----------------------------
(***************************************************************************)
(* What a reader of a managed profile may rely on: "Changed inputs build a *)
(* disposable candidate, retain monotonic generations and atomically       *)
(* replace the database only after validation" (README.md:398).            *)
(*                                                                         *)
(* ManagedProfiles implements this specification step by step.             *)
(***************************************************************************)
EXTENDS Naturals

CONSTANTS Identity, \* a canonical project and a language profile
          Input,    \* the files a producer may read
          Option,   \* dependencies and exclusions
          Covers,   \* [Option -> the inputs it selects]
          None

VARIABLES tree,      \* [Input -> content]
          published, \* [Identity -> the published database, or None]
          validation \* the images the tree has had since a validation began; none if it ended

contractVars == <<tree, published, validation>>

\* What a producer that was given these options sees of a tree.
View(o, image) == [f \in Input |-> IF f \in Covers[o] THEN image[f] ELSE None]

Succeeds(new, old) == old # None => new.gen > old.gen /\ new.schema >= old.schema

\* Every input had the recorded content at some moment of the validation, each its own.
Validated(new) ==
  \A f \in Input : \E image \in validation : new.basis[f] = View(new.option, image)[f]

-----------------------------------------------------------------------------
Init == published = [i \in Identity |-> None] /\ validation = {}

Edit ==
  /\ tree' # tree
  /\ validation' = IF validation = {} THEN {} ELSE validation \cup {tree'}
  /\ UNCHANGED published

BeginValidation ==
  /\ validation' = {tree}
  /\ UNCHANGED <<tree, published>>

\* A refresh that finds nothing to do, fails or is killed changes nothing.
EndValidation ==
  /\ validation' = {}
  /\ UNCHANGED <<tree, published>>

Publish(i) ==
  /\ validation # {}
  /\ published'[i] # None
  /\ \A j \in Identity \ {i} : published'[j] = published[j]
  /\ Succeeds(published'[i], published[i])
  /\ Validated(published'[i])
  /\ validation' = {}
  /\ UNCHANGED tree

Next ==
  \/ Edit \/ BeginValidation \/ EndValidation
  \/ \E i \in Identity : Publish(i)

Spec == Init /\ [][Next]_contractVars
=============================================================================
