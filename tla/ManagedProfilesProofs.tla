------------------------- MODULE ManagedProfilesProofs -------------------------
(***************************************************************************)
(* Pages of one publication, evidence that matched the tree, and the       *)
(* contract of publications, for any processes, inputs, contents, options  *)
(* and bounds.                                                             *)
(*                                                                         *)
(* The heart is Observed: what a comparison has read of an input, the tree *)
(* held at a moment since it began.  An edit may restore any content, so   *)
(* nothing more can be said of a comparison that is under way.             *)
(***************************************************************************)
EXTENDS ManagedProfilesProps, TLAPS

\* Contents are recorded for exactly the selected inputs.
Shaped(o, basis) == \A f \in Input : basis[f] # None <=> f \in Covers[o]

Recorded(db) == db \in Database /\ Shaped(db.option, db.basis)

\* How far a traversal is.
Underway(o, walk) ==
  /\ o \in Option
  /\ walk.todo \subseteq Covers[o]
  /\ \A f \in Input : walk.got[f] # None <=> f \in Covers[o] \ walk.todo

\* The trees since the comparison began, the present one among them, show what it read.
Observed(q, o, walk) ==
  /\ tree \in Images(q)
  /\ \A f \in Covers[o] \ walk.todo : \E image \in Images(q) : walk.got[f] = image[f]

\* A database that a reader or a cursor may still hold.
Kept(i, db) ==
  /\ published[i] # None
  /\ db.gen <= published[i].gen
  /\ db.gen = published[i].gen => db = published[i]

PublishedIsRecorded == \A i \in Identity : published[i] # None => Recorded(published[i])

RunOK(p) ==
  LET r == run[p]
      db == published[r.identity]
  IN  /\ r.phase = "idle" => r = NoRun
      /\ r.phase # "idle" => r.identity \in Identity /\ r.option \in Option
      /\ r.phase = "compare" =>
           /\ db # None /\ db.option = r.option
           /\ Underway(r.option, r.walk)
           /\ Observed(p, r.option, r.walk)
      /\ r.phase = "current" => db # None /\ MatchedTheTree(p, db)
      /\ r.phase \in {"capture", "produce", "recapture"} => r.candidate = db
      /\ r.phase = "capture" => Underway(r.option, r.walk)
      /\ r.phase \in {"produce", "recapture"} => Shaped(r.option, r.files)
      /\ r.phase = "confirm" =>
           /\ r.candidate # None /\ Recorded(r.candidate) /\ r.candidate.option = r.option
           /\ db # None => r.candidate.gen > db.gen /\ r.candidate.schema >= db.schema
           /\ Underway(r.option, r.walk)
           /\ Observed(p, r.option, r.walk)

AskOK(r) ==
  LET a == ask[r]
  IN  /\ a.phase = "idle" => a = NoAsk
      /\ a.phase # "idle" =>
           /\ a.identity \in Identity /\ a.evidence \in {"ast", "combined"}
           /\ a.db # None /\ Kept(a.identity, a.db)
      /\ a.phase = "compare" =>
           /\ Recorded(a.db)
           /\ Underway(a.db.option, a.walk)
           /\ Observed(r, a.db.option, a.walk)
      /\ a.phase = "answer" /\ a.evidence = "combined" => MatchedTheTree(r, a.db)
      /\ a.from # None => a.phase # "idle" /\ a.from.db = a.db

CursorOK(r) ==
  cursor[r] # None =>
    /\ cursor[r].gen = cursor[r].db.gen
    /\ Kept(cursor[r].identity, cursor[r].db)

IInv ==
  /\ TypeOK
  /\ PublishedIsRecorded
  /\ \A p \in Runner : RunOK(p)
  /\ \A r \in Reader : AskOK(r) /\ CursorOK(r)

-----------------------------------------------------------------------------
LEMMA BlankTyped ==
  /\ Blank \in [Input -> Content \cup {None}]
  /\ \A f \in Input : Blank[f] = None
  /\ NoRun \in Refreshing /\ NoRun.phase = "idle"
  /\ NoAsk \in Asking /\ NoAsk.phase = "idle" /\ NoAsk.from = None
  /\ \A o \in Option : Walk(o) \in Traversal
<1>1. Blank \in [Input -> Content \cup {None}] /\ \A f \in Input : Blank[f] = None
  BY DEF Blank
<1>2. [todo |-> {}, got |-> Blank] \in Traversal
  BY <1>1 DEF Traversal
<1>3. \A o \in Option : Walk(o) \in Traversal
  BY <1>1, ConstantsAssumption DEF Walk, Traversal, ConstantsAssumption
<1>4. NoRun \in Refreshing /\ NoRun.phase = "idle"
  BY <1>1, <1>2 DEF NoRun, Refreshing, Phase
<1>5. NoAsk \in Asking /\ NoAsk.phase = "idle" /\ NoAsk.from = None
  BY <1>2 DEF NoAsk, Asking
<1> QED
  BY <1>1, <1>3, <1>4, <1>5

\* The refresh that starts over.
LEMMA Prepared ==
  ASSUME published \in [Identity -> Database \cup {None}], NEW i \in Identity, NEW o \in Option
  PROVE  /\ Prepare(i, o) \in Refreshing
         /\ Prepare(i, o).phase = "capture"
         /\ Prepare(i, o).identity = i /\ Prepare(i, o).option = o
         /\ Prepare(i, o).walk = Walk(o) /\ Prepare(i, o).candidate = published[i]
<1>1. /\ NoRun \in Refreshing /\ Walk(o) \in Traversal /\ "capture" \in Phase
      /\ published[i] \in Database \cup {None}
  BY BlankTyped DEF Phase
<1>2. Prepare(i, o) \in Refreshing
  BY <1>1 DEF Prepare, Copied, Refreshing
<1> QED
  BY <1>1, <1>2 DEF Prepare, Copied, NoRun

LEMMA Initially == Init => IInv
<1> SUFFICES ASSUME Init PROVE IInv
  OBVIOUS
<1>1. TypeOK
  <2>1. MaxEdits \in Nat /\ MaxRefreshes \in Nat
    BY ConstantsAssumption DEF ConstantsAssumption
  <2>2. tree \in Image /\ refreshes \in 0 .. MaxRefreshes /\ edits \in 0 .. MaxEdits
    BY <2>1 DEF Init, Image
  <2>3. /\ published \in [Identity -> Database \cup {None}]
        /\ cursor \in [Reader -> Cursor \cup {None}]
        /\ moments \in [Runner \cup Reader -> Seq(Image)]
    BY DEF Init
  <2>4. run \in [Runner -> Refreshing] /\ ask \in [Reader -> Asking]
    BY BlankTyped DEF Init
  <2>5. {p \in Runner : run[p] # NoRun} = {lock} \ {None}
    BY DEF Init
  <2> QED
    BY <2>2, <2>3, <2>4, <2>5 DEF TypeOK
<1>2. PublishedIsRecorded
  BY DEF Init, PublishedIsRecorded
<1>3. \A p \in Runner : RunOK(p)
  BY BlankTyped DEF Init, RunOK
<1>4. \A r \in Reader : AskOK(r) /\ CursorOK(r)
  BY BlankTyped DEF Init, AskOK, CursorOK
<1> QED
  BY <1>1, <1>2, <1>3, <1>4 DEF IInv

(***************************************************************************)
(* What was observed stays so while the history does not change.           *)
(***************************************************************************)
LEMMA SameMoments ==
  ASSUME NEW q, moments'[q] = moments[q], tree' = tree
  PROVE  /\ Images(q)' = Images(q)
         /\ \A db : MatchedTheTree(q, db)' <=> MatchedTheTree(q, db)
         /\ \A o, walk : Observed(q, o, walk)' <=> Observed(q, o, walk)
<1>1. Images(q)' = Images(q)
  BY DEF Images
<1>2. ASSUME NEW db PROVE MatchedTheTree(q, db)' <=> MatchedTheTree(q, db)
  <2>1. WasWhole(q, db)' <=> WasWhole(q, db)
    BY <1>1 DEF WasWhole, View
  <2>2. CameBack(q, db)' <=> CameBack(q, db)
    BY DEF CameBack
  <2> QED
    BY <1>1, <2>1, <2>2 DEF MatchedTheTree
<1>3. ASSUME NEW o, NEW walk PROVE Observed(q, o, walk)' <=> Observed(q, o, walk)
  BY <1>1 DEF Observed
<1> QED
  BY <1>1, <1>2, <1>3

LEMMA Stuttering == IInv /\ UNCHANGED vars => IInv'
<1> SUFFICES ASSUME IInv, UNCHANGED vars PROVE IInv'
  OBVIOUS
<1>1. UNCHANGED <<tree, published, lock, run, ask, cursor, refreshes, edits, moments>>
  BY DEF vars
<1>2. TypeOK'
  BY <1>1 DEF IInv, TypeOK
<1>3. PublishedIsRecorded'
  BY <1>1 DEF IInv, PublishedIsRecorded, Recorded, Shaped
<1>4. ASSUME NEW p \in Runner PROVE RunOK(p)'
  <2>1. RunOK(p)
    BY DEF IInv
  <2> QED
    BY <1>1, <2>1, SameMoments DEF RunOK, Recorded, Shaped, Underway
<1>5. ASSUME NEW r \in Reader PROVE AskOK(r)' /\ CursorOK(r)'
  <2>1. AskOK(r) /\ CursorOK(r)
    BY DEF IInv
  <2> QED
    BY <1>1, <2>1, SameMoments DEF AskOK, CursorOK, Recorded, Shaped, Underway, Kept
<1> QED
  BY <1>2, <1>3, <1>4, <1>5 DEF IInv

(***************************************************************************)
(* A step of one reader, whose own record and cursor are known to be right.*)
(***************************************************************************)
LEMMA ReaderStep ==
  ASSUME IInv, NEW r \in Reader, NEW n \in Asking, NEW c \in Cursor \cup {None}, NEW s,
         ask' = [ask EXCEPT ![r] = n], cursor' = [cursor EXCEPT ![r] = c],
         moments' = [moments EXCEPT ![r] = s], s \in {moments[r], <<tree>>, <<>>},
         UNCHANGED <<tree, published, lock, run, refreshes, edits>>,
         AskOK(r)', CursorOK(r)'
  PROVE  IInv'
<1>0. r \notin Runner
  BY ConstantsAssumption DEF ConstantsAssumption
<1>a. s \in Seq(Image)
  <2>1. tree \in Image /\ moments \in [Runner \cup Reader -> Seq(Image)]
    BY DEF IInv, TypeOK
  <2>2. <<tree>> \in Seq(Image) /\ <<>> \in Seq(Image)
    BY <2>1
  <2> QED
    BY <2>1, <2>2
<1>1. /\ moments' \in [Runner \cup Reader -> Seq(Image)]
      /\ ask' \in [Reader -> Asking] /\ cursor' \in [Reader -> Cursor \cup {None}]
  BY <1>a DEF IInv, TypeOK
<1>2. TypeOK'
  BY <1>1 DEF IInv, TypeOK
<1>4. PublishedIsRecorded'
  BY DEF IInv, PublishedIsRecorded, Recorded
<1>5. \A p \in Runner : RunOK(p)'
  <2> SUFFICES ASSUME NEW p \in Runner PROVE RunOK(p)'
    OBVIOUS
  <2>1. moments'[p] = moments[p] /\ RunOK(p)
    BY <1>0 DEF IInv, TypeOK
  <2> QED
    BY <2>1, SameMoments DEF RunOK, Recorded, Underway
<1>6. \A q \in Reader : AskOK(q)' /\ CursorOK(q)'
  <2> SUFFICES ASSUME NEW q \in Reader, q # r PROVE AskOK(q)' /\ CursorOK(q)'
    OBVIOUS
  <2>1. /\ moments'[q] = moments[q] /\ ask'[q] = ask[q] /\ cursor'[q] = cursor[q]
        /\ AskOK(q) /\ CursorOK(q)
    BY DEF IInv, TypeOK
  <2> QED
    BY <2>1, SameMoments DEF AskOK, CursorOK, Recorded, Underway, Kept
<1> QED
  BY <1>2, <1>4, <1>5, <1>6 DEF IInv

(***************************************************************************)
(* A step of one runner that publishes nothing; its new record is right.   *)
(***************************************************************************)
LEMMA RunnerStep ==
  ASSUME IInv, NEW p \in Runner, NEW n \in Refreshing, NEW s,
         run' = [run EXCEPT ![p] = n], lock \in {None, p},
         lock' = IF n = NoRun THEN None ELSE p,
         moments' = [moments EXCEPT ![p] = s], s \in {moments[p], <<tree>>, <<>>},
         refreshes' \in 0 .. MaxRefreshes,
         UNCHANGED <<tree, published, ask, cursor, edits>>,
         RunOK(p)'
  PROVE  IInv'
<1>0. Runner \cap Reader = {} /\ None \notin Runner
  BY ConstantsAssumption DEF ConstantsAssumption
<1>a. s \in Seq(Image)
  <2>1. tree \in Image /\ moments \in [Runner \cup Reader -> Seq(Image)]
    BY DEF IInv, TypeOK
  <2>2. <<tree>> \in Seq(Image) /\ <<>> \in Seq(Image)
    BY <2>1
  <2> QED
    BY <2>1, <2>2
<1>1. /\ moments' \in [Runner \cup Reader -> Seq(Image)]
      /\ run' \in [Runner -> Refreshing]
  BY <1>a DEF IInv, TypeOK
<1>2. \A q \in Runner : q # p => run[q] = NoRun /\ run'[q] = NoRun
  BY <1>0 DEF IInv, TypeOK
<1>3. {q \in Runner : run'[q] # NoRun} = {lock'} \ {None}
  BY <1>0, <1>2 DEF IInv, TypeOK
<1>4. TypeOK'
  BY <1>1, <1>3 DEF IInv, TypeOK
<1>6. PublishedIsRecorded'
  BY DEF IInv, PublishedIsRecorded, Recorded
<1>7. \A q \in Runner : RunOK(q)'
  BY <1>2, BlankTyped DEF RunOK
<1>8. \A q \in Reader : AskOK(q)' /\ CursorOK(q)'
  <2> SUFFICES ASSUME NEW q \in Reader PROVE AskOK(q)' /\ CursorOK(q)'
    OBVIOUS
  <2>1. moments'[q] = moments[q] /\ AskOK(q) /\ CursorOK(q)
    BY <1>0 DEF IInv, TypeOK
  <2> QED
    BY <2>1, SameMoments DEF AskOK, CursorOK, Recorded, Underway, Kept
<1> QED
  BY <1>4, <1>6, <1>7, <1>8 DEF IInv
-----------------------------------------------------------------------------
\* A file of the tree has a content, and None is none.
LEMMA Contents ==
  ASSUME TypeOK
  PROVE  /\ tree \in [Input -> Content] /\ None \notin Content
         /\ Covers \in [Option -> SUBSET Input]
BY ConstantsAssumption DEF ConstantsAssumption, TypeOK, Image

\* The images of a history, when it begins and when it is dropped.
LEMMA ImagesOf ==
  ASSUME TypeOK, NEW q \in Runner \cup Reader
  PROVE  /\ Images(q) \subseteq Image
         /\ moments' = [moments EXCEPT ![q] = <<tree>>] => Images(q)' = {tree}
         /\ moments' = [moments EXCEPT ![q] = <<>>] => Images(q)' = {}
<1>1. moments[q] \in Seq(Image)
  BY DEF TypeOK
<1>2. Images(q) \subseteq Image
  BY <1>1 DEF Images
<1>3. ASSUME moments' = [moments EXCEPT ![q] = <<tree>>] PROVE Images(q)' = {tree}
  <2>1. moments'[q] = <<tree>>
    BY <1>3 DEF TypeOK
  <2>2. DOMAIN <<tree>> = {1} /\ <<tree>>[1] = tree
    OBVIOUS
  <2> QED
    BY <2>1, <2>2 DEF Images
<1>4. ASSUME moments' = [moments EXCEPT ![q] = <<>>] PROVE Images(q)' = {}
  <2>1. moments'[q] = <<>>
    BY <1>4 DEF TypeOK
  <2> QED
    BY <2>1 DEF Images
<1> QED
  BY <1>2, <1>3, <1>4

\* A traversal that begins has read nothing.
LEMMA WalkBegins ==
  ASSUME TypeOK, NEW o \in Option
  PROVE  Underway(o, Walk(o)) /\ Underway(o, Walk(o))'
<1>1. /\ Walk(o).todo = Covers[o] /\ \A f \in Input : Walk(o).got[f] = None
  BY BlankTyped DEF Walk
<1> QED
  BY <1>1 DEF Underway

\* A comparison that begins has the tree of that moment for its history.
LEMMA ComparisonBegins ==
  ASSUME TypeOK, NEW o \in Option, NEW q \in Runner \cup Reader, Compares(q), tree' = tree
  PROVE  Observed(q, o, Walk(o))'
<1>1. Images(q)' = {tree}
  BY ImagesOf DEF Compares
<1>2. Covers[o] \ Walk(o).todo = {}
  BY DEF Walk
<1> QED
  BY <1>1, <1>2 DEF Observed, Walk

\* Reading one more input: the tree of this moment is in the history.
LEMMA ReadingContinues ==
  ASSUME TypeOK, NEW o \in Option, NEW walk \in Traversal, NEW f \in walk.todo,
         Underway(o, walk)
  PROVE  /\ Visit(walk, f) \in Traversal
         /\ Underway(o, Visit(walk, f))
         /\ \A q \in Runner \cup Reader :
              Observed(q, o, walk) => Observed(q, o, Visit(walk, f))
<1> DEFINE w == Visit(walk, f)
<1>1. /\ walk.todo \in SUBSET Input /\ walk.got \in [Input -> Content \cup {None}]
      /\ f \in Input
  BY DEF Traversal
<1>2. w.todo = walk.todo \ {f} /\ w.got = [walk.got EXCEPT ![f] = tree[f]]
  BY DEF Visit
<1>3. w.got \in [Input -> Content \cup {None}]
  BY <1>1, <1>2, Contents
<1>4. w \in Traversal
  BY <1>1, <1>3 DEF Visit, Traversal
<1>5. \A g \in Input : w.got[g] = IF g = f THEN tree[f] ELSE walk.got[g]
  BY <1>1, <1>2
<1>6. Underway(o, w)
  <2>1. w.todo \subseteq Covers[o] /\ f \in Covers[o]
    BY <1>2 DEF Underway
  <2>2. \A g \in Input : w.got[g] # None <=> g \in Covers[o] \ w.todo
    BY <1>2, <1>5, <2>1, Contents DEF Underway
  <2> QED
    BY <2>1, <2>2 DEF Underway
<1>7. ASSUME NEW q \in Runner \cup Reader, Observed(q, o, walk)
      PROVE  Observed(q, o, w)
  <2>1. tree \in Images(q)
    BY <1>7 DEF Observed
  <2>2. ASSUME NEW g \in Covers[o] \ w.todo PROVE \E image \in Images(q) : w.got[g] = image[g]
    <3>1. g \in Input /\ (g = f \/ g \in Covers[o] \ walk.todo)
      BY <1>2, Contents
    <3> QED
      BY <1>5, <1>7, <2>1, <3>1 DEF Observed
  <2> QED
    BY <2>1, <2>2 DEF Observed
<1> QED
  BY <1>4, <1>6, <1>7

(***************************************************************************)
(* A finished comparison that found no difference: the tree held each of   *)
(* the recorded contents, and all of them when the comparison began unless *)
(* one was restored since.                                                 *)
(***************************************************************************)
LEMMA EqualityMatches ==
  ASSUME TypeOK, NEW db \in Database, NEW q \in Runner \cup Reader, NEW walk \in Traversal,
         Shaped(db.option, db.basis), walk.todo = {},
         Observed(q, db.option, walk), walk.got = db.basis
  PROVE  MatchedTheTree(q, db)
<1>1. /\ db.option \in Option /\ db.basis \in [Input -> Content \cup {None}]
      /\ Covers[db.option] \subseteq Input /\ moments[q] \in Seq(Image)
  BY Contents DEF Database, TypeOK
<1>2. \A f \in Covers[db.option] : \E image \in Images(q) : db.basis[f] = image[f]
  BY DEF Observed
<1>3. ASSUME ~CameBack(q, db) PROVE WasWhole(q, db)
  <2>1. 1 \in DOMAIN moments[q]
    <3>1. Images(q) # {}
      BY DEF Observed
    <3>2. DOMAIN moments[q] = 1 .. Len(moments[q]) /\ Len(moments[q]) \in Nat
      BY <1>1
    <3>3. DOMAIN moments[q] # {}
      BY <3>1 DEF Images
    <3> QED
      BY <3>2, <3>3
  <2>2. ASSUME NEW f \in Covers[db.option] PROVE moments[q][1][f] = db.basis[f]
    <3>1. PICK l \in DOMAIN moments[q] : moments[q][l][f] = db.basis[f]
      BY <1>2 DEF Images
    <3>2. l = 1 \/ 1 < l
      BY <1>1
    <3> QED
      BY <1>3, <2>1, <3>1, <3>2 DEF CameBack
  <2>3. PICK image \in Images(q) : image = moments[q][1]
    BY <2>1 DEF Images
  <2>4. \A f \in Input : db.basis[f] = IF f \in Covers[db.option] THEN image[f] ELSE None
    BY <2>2, <2>3 DEF Shaped
  <2>5. db.basis = View(db.option, image)
    BY <1>1, <2>4 DEF View
  <2> QED
    BY <2>5 DEF WasWhole
<1> QED
  BY <1>2, <1>3 DEF MatchedTheTree
-----------------------------------------------------------------------------
\* An edit adds the new tree to every history that is kept.
LEMMA EditExtends ==
  ASSUME TypeOK, NEW f \in Input, Edit(f), NEW q \in Runner \cup Reader
  PROVE  /\ Images(q) \subseteq Images(q)'
         /\ Images(q) = {} <=> Images(q)' = {}
         /\ Images(q) # {} => Images(q)' = Images(q) \cup {tree'}
         /\ DOMAIN moments[q] \subseteq DOMAIN moments'[q]
         /\ \A k \in DOMAIN moments[q] : moments'[q][k] = moments[q][k]
<1> DEFINE m == moments[q]
           n == moments'[q]
<1>1. m \in Seq(Image) /\ n = IF m = <<>> THEN <<>> ELSE Append(m, tree')
  BY DEF TypeOK, Edit
<1>2. CASE m = <<>>
  BY <1>1, <1>2 DEF Images
<1>3. CASE m # <<>>
  <2>1. /\ DOMAIN m = 1 .. Len(m) /\ Len(m) \in Nat \ {0}
        /\ DOMAIN n = 1 .. Len(m) + 1
        /\ \A k \in 1 .. Len(m) : n[k] = m[k]
        /\ n[Len(m) + 1] = tree'
    <3>1. tree' \in Image
      BY DEF Edit, TypeOK, Image
    <3>2. n = Append(m, tree')
      BY <1>1, <1>3
    <3> HIDE DEF m, n
    <3> QED
      BY <1>1, <1>3, <3>1, <3>2
  <2>2. Images(q)' = {n[k] : k \in DOMAIN n} /\ Images(q) = {m[k] : k \in DOMAIN m}
    BY DEF Images
  <2> HIDE DEF m, n
  <2>3. \A k \in DOMAIN n : k \in DOMAIN m \/ k = Len(m) + 1
    BY <2>1
  <2>4. DOMAIN m \subseteq DOMAIN n /\ Len(m) + 1 \in DOMAIN n /\ 1 \in DOMAIN m
    BY <2>1
  <2>5. Images(q)' = Images(q) \cup {tree'}
    BY <2>1, <2>2, <2>3, <2>4
  <2>6. Images(q) # {}
    BY <2>2, <2>4
  <2> QED
    BY <2>1, <2>4, <2>5, <2>6 DEF m, n
<1> QED
  BY <1>2, <1>3

\* Nothing an edit does takes back what a comparison has seen.
LEMMA EditKeepsEvidence ==
  ASSUME TypeOK, NEW f \in Input, Edit(f), NEW q \in Runner \cup Reader
  PROVE  /\ \A o, walk : Observed(q, o, walk) => Observed(q, o, walk)'
         /\ \A db : MatchedTheTree(q, db) => MatchedTheTree(q, db)'
<1>1. /\ Images(q) \subseteq Images(q)'
      /\ Images(q) # {} => tree' \in Images(q)'
      /\ DOMAIN moments[q] \subseteq DOMAIN moments'[q]
      /\ \A k \in DOMAIN moments[q] : moments'[q][k] = moments[q][k]
  BY EditExtends
<1>2. ASSUME NEW o, NEW walk, Observed(q, o, walk) PROVE Observed(q, o, walk)'
  <2>1. tree' \in Images(q)'
    BY <1>1, <1>2 DEF Observed
  <2> QED
    BY <1>1, <1>2, <2>1 DEF Observed
<1>3. ASSUME NEW db, MatchedTheTree(q, db) PROVE MatchedTheTree(q, db)'
  <2>1. WasWhole(q, db) => WasWhole(q, db)'
    BY <1>1 DEF WasWhole, View
  <2>2. CameBack(q, db) => CameBack(q, db)'
    BY <1>1 DEF CameBack
  <2> QED
    BY <1>1, <1>3, <2>1, <2>2 DEF MatchedTheTree
<1> QED
  BY <1>2, <1>3

LEMMA EditPreserves ==
  ASSUME IInv, NEW f \in Input, Edit(f)
  PROVE  IInv'
<1>0. TypeOK /\ MaxEdits \in Nat
  BY ConstantsAssumption DEF IInv, ConstantsAssumption
<1>1. tree' \in Image /\ edits' \in 0 .. MaxEdits
  BY <1>0 DEF Edit, TypeOK, Image
<1>2. moments' \in [Runner \cup Reader -> Seq(Image)]
  <2>1. \A q \in Runner \cup Reader : moments[q] \in Seq(Image)
    BY <1>0 DEF TypeOK
  <2> QED
    BY <1>1, <2>1 DEF Edit
<1>3. TypeOK'
  BY <1>0, <1>1, <1>2 DEF Edit, TypeOK
<1>4. PublishedIsRecorded'
  BY DEF IInv, PublishedIsRecorded, Recorded, Shaped, Edit
<1>5. \A p \in Runner : RunOK(p)'
  <2> SUFFICES ASSUME NEW p \in Runner PROVE RunOK(p)'
    OBVIOUS
  <2>1. RunOK(p) /\ UNCHANGED <<run, published>>
    BY DEF IInv, Edit
  <2> QED
    BY <1>0, <2>1, EditKeepsEvidence DEF RunOK, Recorded, Shaped, Underway
<1>6. \A r \in Reader : AskOK(r)' /\ CursorOK(r)'
  <2> SUFFICES ASSUME NEW r \in Reader PROVE AskOK(r)' /\ CursorOK(r)'
    OBVIOUS
  <2>1. AskOK(r) /\ CursorOK(r) /\ UNCHANGED <<ask, cursor, published>>
    BY DEF IInv, Edit
  <2>2. CursorOK(r)'
    BY <2>1 DEF CursorOK, Kept
  <2>3. AskOK(r)'
    BY <1>0, <2>1, EditKeepsEvidence DEF AskOK, Kept, Recorded, Shaped, Underway
  <2> QED
    BY <2>2, <2>3
<1> QED
  BY <1>3, <1>4, <1>5, <1>6 DEF IInv
-----------------------------------------------------------------------------
LEMMA BeginPreserves ==
  ASSUME IInv, NEW p \in Runner, NEW i \in Identity, NEW o \in OptionsOf[p],
         BeginRefresh(p, i, o)
  PROVE  IInv'
<1>0. /\ TypeOK /\ o \in Option /\ lock = None /\ lock' = p
      /\ UNCHANGED <<tree, published, ask, cursor, edits>>
      /\ moments' = [moments EXCEPT ![p] = <<tree>>] /\ Compares(p)
  BY ConstantsAssumption DEF IInv, ConstantsAssumption, BeginRefresh, LockFree, Compares
<1>1. refreshes' \in 0 .. MaxRefreshes
  <2>1. MaxRefreshes \in Nat
    BY ConstantsAssumption DEF ConstantsAssumption
  <2> QED
    BY <2>1, <1>0 DEF BeginRefresh, TypeOK
<1>2. published'[i] = published[i] /\ published[i] \in Database \cup {None}
  BY <1>0 DEF TypeOK
<1>3. CASE Comparable(p, published[i], o)
  <2> DEFINE n == [NoRun EXCEPT !.phase = "compare", !.identity = i, !.option = o, !.walk = Walk(o)]
  <2>1. /\ n \in Refreshing /\ n.phase = "compare" /\ n.identity = i /\ n.option = o
        /\ n.walk = Walk(o)
    BY <1>0, BlankTyped DEF Refreshing, Phase, NoRun
  <2>2. run' = [run EXCEPT ![p] = n]
    BY <1>3 DEF BeginRefresh
  <2>3. run'[p] = n /\ n # NoRun
    BY <1>0, <2>1, <2>2, BlankTyped DEF TypeOK
  <2>4. published[i] # None /\ published[i].option = o /\ Recorded(published[i])
    BY <1>3 DEF Comparable, IInv, PublishedIsRecorded
  <2>5. Observed(p, o, Walk(o))'
    <3> HIDE DEF n
    <3> QED
      BY <1>0, ComparisonBegins
  <2>6. RunOK(p)'
    <3> HIDE DEF n
    <3> QED
      BY <1>0, <1>2, <2>1, <2>3, <2>4, <2>5, WalkBegins DEF RunOK
  <2> HIDE DEF n
  <2> QED
    BY <1>0, <1>1, <2>1, <2>2, <2>3, <2>6, RunnerStep
<1>4. CASE ~Comparable(p, published[i], o)
  <2> DEFINE n == Prepare(i, o)
  <2>1. /\ n \in Refreshing /\ n.phase = "capture" /\ n.identity = i /\ n.option = o
        /\ n.walk = Walk(o) /\ n.candidate = published[i]
    BY <1>0, <1>2, BlankTyped DEF Refreshing, Phase, NoRun, Prepare, Copied
  <2>2. run' = [run EXCEPT ![p] = n]
    BY <1>4 DEF BeginRefresh
  <2>3. run'[p] = n /\ n # NoRun
    BY <1>0, <2>1, <2>2, BlankTyped DEF TypeOK
  <2>6. RunOK(p)'
    <3> HIDE DEF n
    <3> QED
      BY <1>0, <1>2, <2>1, <2>3, WalkBegins DEF RunOK
  <2> HIDE DEF n
  <2> QED
    BY <1>0, <1>1, <2>1, <2>2, <2>3, <2>6, RunnerStep
<1> QED
  BY <1>3, <1>4

\* Who refreshes holds the lock, and its record is that of a refresh.
LEMMA Refreshes ==
  ASSUME IInv, NEW p \in Runner, run[p].phase # "idle"
  PROVE  /\ TypeOK /\ lock = p /\ run[p] # NoRun
         /\ run[p] \in Refreshing /\ run[p].walk \in Traversal
         /\ run[p].identity \in Identity /\ run[p].option \in Option
         /\ published[run[p].identity] \in Database \cup {None}
         /\ RunOK(p)
<1>1. run[p] # NoRun
  BY BlankTyped
<1>2. TypeOK /\ RunOK(p) /\ run[p] \in Refreshing
  BY DEF IInv, TypeOK
<1>3. lock = p
  BY <1>1, <1>2 DEF TypeOK
<1>4. run[p].identity \in Identity /\ run[p].option \in Option /\ run[p].walk \in Traversal
  BY <1>2 DEF RunOK, Refreshing
<1> QED
  BY <1>1, <1>2, <1>3, <1>4 DEF TypeOK

LEMMA ReadPreserves ==
  ASSUME IInv, NEW p \in Runner, ReadInput(p)
  PROVE  IInv'
<1> DEFINE r == run[p]
<1>1. PICK f \in r.walk.todo : run' = [run EXCEPT ![p].walk = Visit(@, f)]
  BY DEF ReadInput
<1>2. TypeOK /\ r \in Refreshing /\ RunOK(p) /\ r.walk \in Traversal
  BY DEF IInv, TypeOK, Refreshing
<1>3. r # NoRun
  BY <1>1 DEF NoRun
<1>4. lock = p
  BY <1>2, <1>3 DEF TypeOK, IInv
<1>0. PICK w : w = Visit(r.walk, f)
  OBVIOUS
<1> DEFINE n == [r EXCEPT !.walk = w]
<1>5. run' = [run EXCEPT ![p] = n]
  BY <1>1, <1>0
<1>6. \A o \in Option : Underway(o, r.walk) =>
        /\ Underway(o, w)
        /\ \A q \in Runner \cup Reader : Observed(q, o, r.walk) => Observed(q, o, w)
  BY <1>2, <1>0, ReadingContinues
<1>7. w \in Traversal
  <2>1. r.walk.todo \in SUBSET Input /\ r.walk.got \in [Input -> Content \cup {None}]
    BY <1>2 DEF Traversal
  <2> QED
    BY <1>2, <1>0, <2>1, Contents DEF Visit, Traversal
<1>8. /\ n \in Refreshing /\ n.phase = r.phase /\ n.identity = r.identity
      /\ n.option = r.option /\ n.candidate = r.candidate /\ n.files = r.files /\ n.walk = w
  BY <1>2, <1>7 DEF Refreshing
<1>9. UNCHANGED <<tree, published, lock, ask, cursor, refreshes, edits, moments>>
  BY DEF ReadInput
<1>10. run'[p] = n
  BY <1>2, <1>5 DEF TypeOK
<1>11. r.phase # "idle" /\ n # NoRun
  <2>1. r.phase # "idle"
    BY <1>2, <1>3 DEF RunOK
  <2> QED
    BY <1>8, <2>1, BlankTyped
<1>12. RunOK(p)'
  <2>1. r.option \in Option /\ r.walk.todo # {}
    BY <1>1, <1>2, <1>11 DEF RunOK
  <2>2. ASSUME NEW o \in Option, Underway(o, r.walk) PROVE Underway(o, w)'
    BY <1>6, <1>9, <2>2 DEF Underway
  <2>3. ASSUME NEW o \in Option, Underway(o, r.walk), Observed(p, o, r.walk)
        PROVE  Observed(p, o, w)'
    BY <1>6, <1>9, <2>3, SameMoments
  <2>4. \A db : MatchedTheTree(p, db) => MatchedTheTree(p, db)'
    BY <1>9, SameMoments
  <2> HIDE DEF n
  <2> QED
    BY <1>2, <1>8, <1>9, <1>10, <1>11, <2>1, <2>2, <2>3, <2>4
    DEF RunOK, Recorded, Shaped
<1>13. moments' = [moments EXCEPT ![p] = moments[p]] /\ refreshes' \in 0 .. MaxRefreshes
  BY <1>2, <1>9 DEF TypeOK
<1> HIDE DEF n
<1> QED
  BY <1>4, <1>5, <1>8, <1>9, <1>11, <1>12, <1>13, RunnerStep

\* FindCurrent, FindStale, FailToCompare, StartProducer, FinishProducer, Import.
LEMMA PhasePreserves ==
  ASSUME IInv, NEW p \in Runner,
         \/ FindCurrent(p) \/ FindStale(p) \/ FailToCompare(p)
         \/ StartProducer(p) \/ FinishProducer(p) \/ Import(p)
  PROVE  IInv'
<1> DEFINE r == run[p]
           i == r.identity
           o == r.option
           db == published[i]
<1>0. /\ r.phase # "idle" /\ UNCHANGED <<tree, published, lock, ask, cursor, refreshes, edits>>
  BY DEF FindCurrent, FindStale, FailToCompare, StartProducer, FinishProducer, Import, Collected
<1>1. /\ TypeOK /\ lock = p /\ r # NoRun /\ r \in Refreshing /\ r.walk \in Traversal
      /\ i \in Identity /\ o \in Option /\ db \in Database \cup {None}
      /\ r.files \in [Input -> Content \cup {None}] /\ RunOK(p)
  BY <1>0, Refreshes DEF Refreshing
<1>2. moments = [moments EXCEPT ![p] = moments[p]] /\ refreshes' \in 0 .. MaxRefreshes
  BY <1>0, <1>1 DEF TypeOK
<1>3. db # None => Recorded(db)
  BY <1>1 DEF IInv, PublishedIsRecorded
<1>4. ASSUME NEW n \in Refreshing, n.phase # "idle", run' = [run EXCEPT ![p] = n]
      PROVE  run'[p] = n /\ n # NoRun
  BY <1>1, <1>4, BlankTyped DEF TypeOK
<1>5. CASE FindCurrent(p)
  <2>0. PICK n : n = [r EXCEPT !.phase = "current"]
    OBVIOUS
  <2>1. /\ n \in Refreshing /\ n.phase = "current" /\ n.identity = i /\ n.option = o
        /\ run' = [run EXCEPT ![p] = n] /\ moments' = moments
    BY <1>1, <1>5, <2>0 DEF FindCurrent, Refreshing, Phase
  <2>2. r.phase = "compare" /\ r.walk.todo = {} /\ r.walk.got = db.basis
    BY <1>5 DEF FindCurrent, Collected, Same
  <2>3. db # None /\ MatchedTheTree(p, db)
    <3>1. db # None /\ db.option = o /\ Observed(p, o, r.walk)
      BY <1>1, <2>2 DEF RunOK
    <3> QED
      BY <1>1, <1>3, <2>2, <3>1, EqualityMatches DEF Recorded
  <2>4. RunOK(p)'
    <3>1. run'[p] = n
      BY <1>4, <2>1
    <3> QED
      BY <1>0, <1>1, <2>1, <2>3, <3>1, SameMoments DEF RunOK
  <2> QED
    BY <1>0, <1>1, <1>2, <1>4, <2>1, <2>4, RunnerStep
<1>6. CASE FindStale(p)
  <2>0. PICK n : n = Prepare(i, o)
    OBVIOUS
  <2>1. /\ n \in Refreshing /\ n.phase = "capture" /\ n.identity = i /\ n.option = o
        /\ n.walk = Walk(o) /\ n.candidate = db
    <3>1. published \in [Identity -> Database \cup {None}]
      BY <1>1 DEF TypeOK
    <3> QED
      BY <1>1, <2>0, <3>1, Prepared
  <2>2. run' = [run EXCEPT ![p] = n] /\ moments' = moments
    BY <1>6, <2>0 DEF FindStale
  <2>3. RunOK(p)'
    <3>1. run'[p] = n
      BY <1>4, <2>1, <2>2
    <3> QED
      BY <1>0, <1>1, <2>1, <3>1, WalkBegins DEF RunOK
  <2> QED
    BY <1>0, <1>1, <1>2, <1>4, <2>1, <2>2, <2>3, RunnerStep
<1>7. CASE StartProducer(p)
  <2>0. PICK n : n = [r EXCEPT !.phase = "produce", !.files = r.walk.got]
    OBVIOUS
  <2>1. /\ n \in Refreshing /\ n.phase = "produce" /\ n.identity = i /\ n.option = o
        /\ n.candidate = r.candidate /\ n.files = r.walk.got
    BY <1>1, <2>0 DEF Refreshing, Phase, Traversal
  <2>2. run' = [run EXCEPT ![p] = n] /\ moments' = moments
    BY <1>7, <2>0 DEF StartProducer
  <2>3. Shaped(o, r.walk.got) /\ r.candidate = db
    BY <1>1, <1>7 DEF StartProducer, Collected, RunOK, Underway, Shaped
  <2>4. RunOK(p)'
    <3>1. run'[p] = n
      BY <1>4, <2>1, <2>2
    <3> QED
      BY <1>0, <1>1, <2>1, <2>3, <3>1 DEF RunOK, Shaped
  <2> QED
    BY <1>0, <1>1, <1>2, <1>4, <2>1, <2>2, <2>4, RunnerStep
<1>8. CASE FinishProducer(p)
  <2>0. PICK n : n = [r EXCEPT !.phase = "recapture", !.unread = FALSE, !.walk = Walk(o)]
    OBVIOUS
  <2>1. /\ n \in Refreshing /\ n.phase = "recapture" /\ n.identity = i /\ n.option = o
        /\ n.candidate = r.candidate /\ n.files = r.files
    BY <1>1, <2>0, BlankTyped DEF Refreshing, Phase
  <2>2. run' = [run EXCEPT ![p] = n] /\ moments' = [moments EXCEPT ![p] = <<>>]
    BY <1>8, <2>0 DEF FinishProducer, Forgets
  <2>3. Shaped(o, r.files) /\ r.candidate = db
    BY <1>1, <1>8 DEF FinishProducer, RunOK
  <2>4. RunOK(p)'
    <3>1. run'[p] = n
      BY <1>4, <2>1, <2>2
    <3> QED
      BY <1>0, <1>1, <2>1, <2>3, <3>1 DEF RunOK, Shaped
  <2> QED
    BY <1>0, <1>1, <1>2, <1>4, <2>1, <2>2, <2>4, RunnerStep
<1>9. CASE Import(p)
  <2>1. /\ r.phase = "recapture" /\ r.candidate = db
        /\ Shaped(o, r.files)
    BY <1>1, <1>9 DEF Import, Collected, RunOK
  <2>2. PICK new : new = [gen |-> (IF db = None THEN 0 ELSE db.gen) + 2,
                          schema |-> VersionOf[p], option |-> o, basis |-> r.files]
    OBVIOUS
  <2>3. /\ new \in Database /\ new # None
        /\ new.gen = (IF db = None THEN 0 ELSE db.gen) + 2
        /\ new.schema = VersionOf[p] /\ new.option = o /\ new.basis = r.files
    <3>1. VersionOf[p] \in Nat /\ None \notin Database
      BY ConstantsAssumption DEF ConstantsAssumption
    <3> QED
      BY <1>1, <2>2, <3>1 DEF Database
  <2>4. db # None => new.gen > db.gen /\ new.schema >= db.schema
    <3>1. VersionOf[p] \in Nat
      BY ConstantsAssumption DEF ConstantsAssumption
    <3>2. db # None => db.schema <= VersionOf[p] /\ db.gen \in Nat /\ db.schema \in Nat
      BY <1>1, <1>9, <2>1 DEF Import, Database
    <3> QED
      BY <2>3, <3>1, <3>2
  <2>5. PICK n : n = [r EXCEPT !.phase = "confirm", !.candidate = new, !.walk = Walk(o)]
    OBVIOUS
  <2>6. /\ n \in Refreshing /\ n.phase = "confirm" /\ n.identity = i /\ n.option = o
        /\ n.candidate = new /\ n.walk = Walk(o)
    BY <1>1, <2>3, <2>5, BlankTyped DEF Refreshing, Phase
  <2>7. run' = [run EXCEPT ![p] = n] /\ moments' = [moments EXCEPT ![p] = <<tree>>] /\ Compares(p)
    BY <1>9, <2>1, <2>2, <2>5 DEF Import, Compares
  <2>8. RunOK(p)'
    <3>1. run'[p] = n
      BY <1>4, <2>6, <2>7
    <3>2. Recorded(new)'
      BY <1>0, <2>1, <2>3 DEF Recorded, Shaped
    <3>3. PICK opt \in Option : opt = o
      BY <1>1
    <3>4. Observed(p, opt, Walk(opt))'
      BY <1>0, <1>1, <2>7, <3>3, ComparisonBegins
    <3>5. Underway(opt, Walk(opt))'
      BY <1>1, WalkBegins
    <3> QED
      BY <1>0, <1>1, <2>3, <2>4, <2>6, <3>1, <3>2, <3>3, <3>4, <3>5 DEF RunOK
  <2> QED
    BY <1>0, <1>1, <1>2, <1>4, <2>6, <2>7, <2>8, RunnerStep
<1>10. CASE FailToCompare(p)
  <2>p. PICK m : m = Prepare(i, o)
    OBVIOUS
  <2>0. PICK n : n = [m EXCEPT !.unread = TRUE]
    OBVIOUS
  <2>1. /\ n \in Refreshing /\ n.phase = "capture" /\ n.identity = i /\ n.option = o
        /\ n.walk = Walk(o) /\ n.candidate = db
    <3>1. published \in [Identity -> Database \cup {None}]
      BY <1>1 DEF TypeOK
    <3>2. /\ m \in Refreshing /\ m.phase = "capture" /\ m.identity = i /\ m.option = o
          /\ m.walk = Walk(o) /\ m.candidate = db
      BY <1>1, <2>p, <3>1, Prepared
    <3>3. /\ n \in Refreshing /\ n.phase = m.phase /\ n.identity = m.identity
          /\ n.option = m.option /\ n.walk = m.walk /\ n.candidate = m.candidate
      BY <2>0, <3>2 DEF Refreshing
    <3> QED
      BY <3>2, <3>3
  <2>2. run' = [run EXCEPT ![p] = n] /\ moments' = moments
    BY <1>10, <2>p, <2>0 DEF FailToCompare
  <2>3. RunOK(p)'
    <3>1. run'[p] = n
      BY <1>4, <2>1, <2>2
    <3> QED
      BY <1>0, <1>1, <2>1, <3>1, WalkBegins DEF RunOK
  <2> QED
    BY <1>0, <1>1, <1>2, <1>4, <2>1, <2>2, <2>3, RunnerStep
<1> QED
  BY <1>5, <1>6, <1>7, <1>8, <1>9, <1>10

LEMMA EndPreserves ==
  ASSUME IInv, NEW p \in Runner, EndRefresh(p)
  PROVE  IInv'
<1>1. TypeOK /\ lock = p
  BY DEF IInv, TypeOK, EndRefresh
<1>2. /\ run' = [run EXCEPT ![p] = NoRun] /\ lock' = None
      /\ moments' = [moments EXCEPT ![p] = <<>>] /\ refreshes' \in 0 .. MaxRefreshes
      /\ UNCHANGED <<tree, published, ask, cursor, edits>>
  BY <1>1 DEF EndRefresh, DropGuard, Forgets, TypeOK
<1>3. RunOK(p)'
  <2>1. run'[p] = NoRun
    BY <1>1, <1>2 DEF TypeOK
  <2> QED
    BY <2>1, BlankTyped DEF RunOK
<1> QED
  BY <1>1, <1>2, <1>3, BlankTyped, RunnerStep

\* What a runner may publish: newer than what is published, and matched by the tree.
LEMMA CandidateIsGood ==
  ASSUME IInv, NEW p \in Runner, Confirmed(p)
  PROVE  LET r == run[p]
             db == published[r.identity]
         IN  /\ lock = p /\ r.identity \in Identity
             /\ r.candidate \in Database /\ r.candidate # None
             /\ Recorded(r.candidate) /\ MatchedTheTree(p, r.candidate)
             /\ Images(p) # {}
             /\ db # None => r.candidate.gen > db.gen /\ r.candidate.schema >= db.schema
<1> DEFINE r == run[p]
<1>1. r.phase = "confirm" /\ r.walk.todo = {} /\ r.walk.got = r.candidate.basis
  BY DEF Confirmed, Collected, Same
<1>2. /\ TypeOK /\ lock = p /\ r \in Refreshing /\ r.walk \in Traversal
      /\ r.identity \in Identity /\ RunOK(p)
  BY <1>1, Refreshes
<1>3. /\ r.candidate # None /\ Recorded(r.candidate) /\ r.candidate.option = r.option
      /\ Observed(p, r.option, r.walk)
      /\ LET db == published[r.identity]
         IN  db # None => r.candidate.gen > db.gen /\ r.candidate.schema >= db.schema
  BY <1>1, <1>2 DEF RunOK
<1>4. r.candidate \in Database /\ Shaped(r.candidate.option, r.candidate.basis)
  BY <1>3 DEF Recorded
<1>5. MatchedTheTree(p, r.candidate) /\ Images(p) # {}
  BY <1>1, <1>2, <1>3, <1>4, EqualityMatches DEF Observed
<1> QED
  BY <1>2, <1>3, <1>4, <1>5

(***************************************************************************)
(* The rename.  What readers and cursors hold is still older than what is  *)
(* published, since the new generation is higher.                          *)
(***************************************************************************)
LEMMA PublishPreserves ==
  ASSUME IInv, NEW p \in Runner, Publish(p)
  PROVE  IInv'
<1>0. Runner \cap Reader = {} /\ None \notin Runner
  BY ConstantsAssumption DEF ConstantsAssumption
<1>1. PICK i \in Identity, new \in Database :
        /\ i = run[p].identity /\ new = run[p].candidate
        /\ lock = p /\ new # None /\ Recorded(new)
        /\ published[i] # None => new.gen > published[i].gen
  BY CandidateIsGood DEF Publish
<1>2. /\ TypeOK /\ published' = [published EXCEPT ![i] = new]
      /\ run' = [run EXCEPT ![p] = NoRun] /\ lock' = None
      /\ moments' = [moments EXCEPT ![p] = <<>>]
      /\ UNCHANGED <<tree, ask, cursor, refreshes, edits>>
  BY <1>1 DEF IInv, Publish, DropGuard, Forgets
<1>3. /\ published' \in [Identity -> Database \cup {None}] /\ run' \in [Runner -> Refreshing]
      /\ moments' \in [Runner \cup Reader -> Seq(Image)]
      /\ \A q \in Runner : run'[q] = NoRun
      /\ \A q \in Reader : moments'[q] = moments[q]
  BY <1>0, <1>1, <1>2, BlankTyped DEF TypeOK
<1>4. TypeOK'
  BY <1>0, <1>2, <1>3 DEF TypeOK
<1>6. PublishedIsRecorded'
  BY <1>1, <1>2 DEF IInv, TypeOK, PublishedIsRecorded, Recorded
<1>7. \A q \in Runner : RunOK(q)'
  BY <1>3, BlankTyped DEF RunOK
<1>8. \A j \in Identity, db \in Database : Kept(j, db) => Kept(j, db)'
  <2> SUFFICES ASSUME NEW j \in Identity, NEW db \in Database, Kept(j, db)
               PROVE  Kept(j, db)'
    OBVIOUS
  <2>1. CASE j # i
    BY <2>1, <1>2 DEF Kept, TypeOK
  <2>2. CASE j = i
    <3>1. published'[j] = new /\ published[j] \in Database
      BY <2>2, <1>1, <1>2 DEF Kept, TypeOK
    <3>2. db.gen \in Nat /\ published[j].gen \in Nat /\ new.gen \in Nat
      BY <3>1 DEF Database
    <3> QED
      BY <2>2, <3>1, <3>2, <1>1 DEF Kept
  <2> QED
    BY <2>1, <2>2
<1>9. \A q \in Reader : AskOK(q)' /\ CursorOK(q)'
  <2> SUFFICES ASSUME NEW q \in Reader PROVE AskOK(q)' /\ CursorOK(q)'
    OBVIOUS
  <2>1. ask[q] \in Asking /\ cursor[q] \in Cursor \cup {None} /\ AskOK(q) /\ CursorOK(q)
    BY DEF IInv, TypeOK
  <2>2. AskOK(q)'
    <3>1. ask[q].db \in Database \cup {None}
      BY <2>1 DEF Asking
    <3> QED
      BY <2>1, <3>1, <1>2, <1>3, <1>8, SameMoments DEF AskOK, Recorded, Shaped, Underway
  <2>3. CursorOK(q)'
    BY <2>1, <1>2, <1>8 DEF CursorOK, Cursor
  <2> QED
    BY <2>2, <2>3
<1> QED
  BY <1>4, <1>6, <1>7, <1>9 DEF IInv
-----------------------------------------------------------------------------
\* A query that ends leaves no record and no moments behind.
LEMMA QueryEnds ==
  ASSUME IInv, NEW r \in Reader, NEW c \in Cursor \cup {None},
         ask' = [ask EXCEPT ![r] = NoAsk], cursor' = [cursor EXCEPT ![r] = c], Forgets(r),
         UNCHANGED <<tree, published, lock, run, refreshes, edits>>, CursorOK(r)'
  PROVE  IInv'
<1>1. moments' = [moments EXCEPT ![r] = <<>>]
  BY DEF Forgets
<1>2. AskOK(r)'
  <2>1. ask'[r] = NoAsk
    BY DEF IInv, TypeOK
  <2> QED
    BY <2>1, BlankTyped DEF AskOK
<1> QED
  BY <1>1, <1>2, BlankTyped, ReaderStep

LEMMA AskPreserves ==
  ASSUME IInv, NEW r \in Reader, NEW i \in Identity, Ask(r, i)
  PROVE  IInv'
<1>0. /\ TypeOK /\ UNCHANGED <<tree, published, lock, run, cursor, refreshes, edits>>
      /\ CursorOK(r)
  BY DEF IInv, Ask
<1>1. PICK db \in Database : db = published[i] /\ Recorded(db) /\ db # None
  BY <1>0 DEF IInv, TypeOK, PublishedIsRecorded, Ask
<1>2. PICK evidence \in {"ast", "combined"}, c \in {None, cursor[r]} :
        /\ c # None => Accepts(c, i, db, evidence)
        /\ ask' = [ask EXCEPT ![r] =
             [phase |-> IF evidence = "ast" THEN "answer" ELSE "compare",
              identity |-> i, db |-> db, evidence |-> evidence, from |-> c,
              walk |-> IF evidence = "ast" THEN NoAsk.walk ELSE Walk(db.option)]]
        /\ IF evidence = "ast" THEN UNCHANGED moments ELSE Compares(r)
  BY <1>1 DEF Ask
<1>3. PICK n : n = [phase |-> IF evidence = "ast" THEN "answer" ELSE "compare",
                    identity |-> i, db |-> db, evidence |-> evidence, from |-> c,
                    walk |-> IF evidence = "ast" THEN NoAsk.walk ELSE Walk(db.option)]
  OBVIOUS
<1>4. db.option \in Option /\ Shaped(db.option, db.basis)
  BY <1>1 DEF Recorded, Database
<1>5. n \in Asking
  <2>1. NoAsk.walk \in Traversal
    BY BlankTyped DEF Asking
  <2>2. c \in Cursor \cup {None}
    BY <1>0, <1>2 DEF TypeOK
  <2> QED
    BY <1>1, <1>2, <1>3, <1>4, <2>1, <2>2, BlankTyped DEF Asking
<1>6. /\ ask' = [ask EXCEPT ![r] = n] /\ ask'[r] = n
  BY <1>0, <1>2, <1>3 DEF TypeOK
<1>7. Kept(i, db)' /\ Recorded(db)'
  <2>1. db.gen \in Nat
    BY DEF Database
  <2> QED
    BY <1>0, <1>1, <2>1 DEF Kept, Recorded
<1>8. c # None => c.db = db
  <2>1. c # None => c.gen = c.db.gen /\ Kept(i, c.db) /\ c.gen = db.gen
    BY <1>0, <1>2 DEF CursorOK, Accepts
  <2> QED
    BY <1>1, <2>1 DEF Kept
<1>9. /\ Underway(db.option, Walk(db.option))'
      /\ evidence # "ast" => Observed(r, db.option, Walk(db.option))'
  BY <1>0, <1>2, <1>4, WalkBegins, ComparisonBegins
<1>10. AskOK(r)'
  <2>1. /\ n.phase = IF evidence = "ast" THEN "answer" ELSE "compare"
        /\ n.identity = i /\ n.db = db /\ n.evidence = evidence /\ n.from = c
        /\ n.walk = IF evidence = "ast" THEN NoAsk.walk ELSE Walk(db.option)
    BY <1>3
  <2>2. n.phase # "idle" /\ n.evidence \in {"ast", "combined"} /\ n.db # None
    BY <1>1, <1>2, <2>1
  <2>3. n.phase = "compare" => n.walk = Walk(db.option) /\ evidence # "ast"
    BY <2>1
  <2>4. ~(n.phase = "answer" /\ n.evidence = "combined")
    BY <2>1
  <2> QED
    BY <1>6, <1>7, <1>8, <1>9, <2>1, <2>2, <2>3, <2>4 DEF AskOK
<1>11. CursorOK(r)' /\ cursor' = [cursor EXCEPT ![r] = cursor[r]]
       /\ cursor[r] \in Cursor \cup {None}
  BY <1>0 DEF CursorOK, Kept, TypeOK
<1>12. \E s \in {moments[r], <<tree>>, <<>>} : moments' = [moments EXCEPT ![r] = s]
  <2>1. moments = [moments EXCEPT ![r] = moments[r]]
    BY <1>0 DEF TypeOK
  <2> QED
    BY <1>2, <2>1 DEF Compares
<1> QED
  BY <1>0, <1>5, <1>6, <1>10, <1>11, <1>12, ReaderStep

LEMMA ReadForAnswerPreserves ==
  ASSUME IInv, NEW r \in Reader, ReadForAnswer(r)
  PROVE  IInv'
<1> DEFINE a == ask[r]
<1>0. /\ TypeOK /\ a \in Asking /\ a.walk \in Traversal /\ AskOK(r) /\ CursorOK(r)
      /\ UNCHANGED <<tree, published, lock, run, cursor, refreshes, edits, moments>>
  BY DEF IInv, TypeOK, Asking, ReadForAnswer
<1>1. PICK f \in a.walk.todo : ask' = [ask EXCEPT ![r].walk = Visit(@, f)]
  BY DEF ReadForAnswer
<1>2. PICK w : w = Visit(a.walk, f)
  OBVIOUS
<1>3. PICK n : n = [a EXCEPT !.walk = w]
  OBVIOUS
<1>4. w \in Traversal
  <2>1. a.walk.todo \in SUBSET Input /\ a.walk.got \in [Input -> Content \cup {None}]
    BY <1>0 DEF Traversal
  <2> QED
    BY <1>0, <1>2, <2>1, Contents DEF Visit, Traversal
<1>5. /\ n \in Asking /\ n.phase = a.phase /\ n.identity = a.identity /\ n.db = a.db
      /\ n.evidence = a.evidence /\ n.from = a.from /\ n.walk = w
  BY <1>0, <1>3, <1>4 DEF Asking
<1>6. ask' = [ask EXCEPT ![r] = n] /\ ask'[r] = n
  BY <1>0, <1>1, <1>2, <1>3 DEF TypeOK
<1>7. a.phase # "idle"
  <2>1. NoAsk.walk.todo = {}
    BY DEF NoAsk
  <2> QED
    BY <1>0, <1>1, <2>1 DEF AskOK
<1>8. PICK db \in Database : db = a.db
  BY <1>0, <1>7 DEF AskOK, Asking
<1>9. a.phase = "compare" =>
        Recorded(db)' /\ Underway(db.option, w)' /\ Observed(r, db.option, w)'
  <2> SUFFICES ASSUME a.phase = "compare"
               PROVE  Recorded(db)' /\ Underway(db.option, w)' /\ Observed(r, db.option, w)'
    OBVIOUS
  <2>1. /\ Recorded(db) /\ db.option \in Option
        /\ Underway(db.option, a.walk) /\ Observed(r, db.option, a.walk)
    BY <1>0, <1>8 DEF AskOK, Database
  <2>2. Underway(db.option, w) /\ Observed(r, db.option, w)
    BY <1>0, <1>2, <2>1, ReadingContinues
  <2> QED
    BY <1>0, <2>1, <2>2, SameMoments DEF Recorded, Underway
<1>10. AskOK(r)'
  BY <1>0, <1>5, <1>6, <1>7, <1>8, <1>9, SameMoments DEF AskOK, Kept
<1>11. /\ CursorOK(r)' /\ cursor' = [cursor EXCEPT ![r] = cursor[r]]
       /\ cursor[r] \in Cursor \cup {None} /\ moments' = [moments EXCEPT ![r] = moments[r]]
  BY <1>0 DEF CursorOK, Kept, TypeOK
<1> QED
  BY <1>0, <1>5, <1>6, <1>10, <1>11, ReaderStep

LEMMA DecidePreserves ==
  ASSUME IInv, NEW r \in Reader, Decide(r)
  PROVE  IInv'
<1> DEFINE a == ask[r]
<1>0. /\ TypeOK /\ a \in Asking /\ a.walk \in Traversal /\ AskOK(r) /\ CursorOK(r)
      /\ a.phase = "compare" /\ a.walk.todo = {}
      /\ UNCHANGED <<tree, published, lock, run, cursor, refreshes, edits>>
  BY DEF IInv, TypeOK, Asking, Decide
<1>1. CursorOK(r)' /\ cursor' = [cursor EXCEPT ![r] = cursor[r]]
       /\ cursor[r] \in Cursor \cup {None}
  BY <1>0 DEF CursorOK, Kept, TypeOK
<1>2. CASE Same(a.walk.got, a.db.basis)
  <2>1. UNCHANGED moments /\ ask' = [ask EXCEPT ![r].phase = "answer"]
    BY <1>2 DEF Decide
  <2>2. PICK n : n = [a EXCEPT !.phase = "answer"]
    OBVIOUS
  <2>3. /\ n \in Asking /\ n.phase = "answer" /\ n.identity = a.identity /\ n.db = a.db
        /\ n.evidence = a.evidence /\ n.from = a.from
    BY <1>0, <2>2 DEF Asking
  <2>4. ask' = [ask EXCEPT ![r] = n] /\ ask'[r] = n
    BY <1>0, <2>1, <2>2 DEF TypeOK
  <2>5. MatchedTheTree(r, a.db)
    <3>1. a.db \in Database /\ Recorded(a.db) /\ Observed(r, a.db.option, a.walk)
      BY <1>0 DEF AskOK, Recorded
    <3> QED
      BY <1>0, <1>2, <3>1, EqualityMatches DEF Recorded, Same
  <2>6. AskOK(r)'
    BY <1>0, <2>1, <2>3, <2>4, <2>5, SameMoments DEF AskOK, Kept
  <2>7. moments' = [moments EXCEPT ![r] = moments[r]]
    BY <1>0, <2>1 DEF TypeOK
  <2> QED
    BY <1>0, <1>1, <2>3, <2>4, <2>6, <2>7, ReaderStep
<1>3. CASE ~Same(a.walk.got, a.db.basis)
  BY <1>0, <1>1, <1>3, QueryEnds DEF Decide
<1> QED
  BY <1>2, <1>3

LEMMA AnswerPreserves ==
  ASSUME IInv, NEW r \in Reader, Answer(r)
  PROVE  IInv'
<1>0. /\ TypeOK /\ AskOK(r) /\ ask[r] \in Asking /\ ask[r].phase = "answer"
      /\ UNCHANGED <<tree, published, lock, run, refreshes, edits>>
  BY DEF IInv, TypeOK, Answer
<1>1. PICK c \in {None, [identity |-> ask[r].identity, gen |-> ask[r].db.gen,
                         evidence |-> ask[r].evidence, db |-> ask[r].db]} :
        cursor' = [cursor EXCEPT ![r] = c]
  BY DEF Answer
<1>2. ask[r].identity \in Identity /\ ask[r].db \in Database /\ Kept(ask[r].identity, ask[r].db)
  BY <1>0 DEF AskOK, Asking
<1>3. ask[r].evidence \in {"ast", "combined"} => c \in Cursor \cup {None}
  BY <1>1, <1>2 DEF Cursor, Database
<1>4. cursor'[r] = c
  BY <1>0, <1>1 DEF TypeOK
<1>5. CursorOK(r)'
  BY <1>0, <1>1, <1>2, <1>4 DEF CursorOK, Kept
<1> QED
  BY <1>0, <1>1, <1>3, <1>5, QueryEnds DEF Answer, AskOK

LEMMA GiveUpPreserves ==
  ASSUME IInv, NEW r \in Reader, GiveUp(r)
  PROVE  IInv'
<1>1. /\ TypeOK /\ CursorOK(r) /\ ask' = [ask EXCEPT ![r] = NoAsk] /\ Forgets(r)
      /\ UNCHANGED <<tree, published, lock, run, cursor, refreshes, edits>>
  BY DEF IInv, GiveUp
<1>2. /\ CursorOK(r)' /\ cursor' = [cursor EXCEPT ![r] = cursor[r]]
      /\ cursor[r] \in Cursor \cup {None}
  BY <1>1 DEF TypeOK, CursorOK, Kept
<1> QED
  BY <1>1, <1>2, QueryEnds
-----------------------------------------------------------------------------
LEMMA RefreshPreserves ==
  ASSUME IInv, NEW p \in Runner, Refresh(p)
  PROVE  IInv'
<1>1. CASE \E i \in Identity, o \in OptionsOf[p] : BeginRefresh(p, i, o)
  BY <1>1, BeginPreserves
<1>2. CASE ReadInput(p)
  BY <1>2, ReadPreserves
<1>3. CASE \/ FindCurrent(p) \/ FindStale(p) \/ FailToCompare(p)
           \/ StartProducer(p) \/ FinishProducer(p) \/ Import(p)
  BY <1>3, PhasePreserves
<1>4. CASE Publish(p)
  BY <1>4, PublishPreserves
<1>5. CASE EndRefresh(p)
  BY <1>5, EndPreserves
<1> QED
  BY <1>1, <1>2, <1>3, <1>4, <1>5 DEF Refresh

LEMMA QueryPreserves ==
  ASSUME IInv, NEW r \in Reader, Query(r)
  PROVE  IInv'
BY AskPreserves, ReadForAnswerPreserves, DecidePreserves, AnswerPreserves, GiveUpPreserves
DEF Query

THEOREM Inductive == Spec => []IInv
<1>1. IInv /\ [Next]_vars => IInv'
  BY RefreshPreserves, QueryPreserves, EditPreserves, Stuttering DEF Next
<1> QED
  BY <1>1, Initially, PTL DEF Spec

\* The types, and the base lock: who refreshes holds it (profiles.rs:219).
THEOREM TypeCorrect == Spec => []TypeOK
<1>1. IInv => TypeOK
  BY DEF IInv
<1> QED
  BY <1>1, Inductive, PTL

(***************************************************************************)
(* The page that continues a cursor comes from the cursor's publication    *)
(* (profiles.rs:172): generations of one identity never recur, because a   *)
(* candidate starts as a copy of what it replaces.                         *)
(***************************************************************************)
THEOREM PagesAgree == Spec => []PagesOfOnePublication
<1>1. IInv => PagesOfOnePublication
  BY DEF IInv, AskOK, PagesOfOnePublication
<1> QED
  BY <1>1, Inductive, PTL

(***************************************************************************)
(* Evidence that answers a combined query, or lets a refresh skip the      *)
(* compiler: each of its inputs was what the producer saw at a moment of   *)
(* the comparison (scip.rs:458), and all of them were at one moment unless *)
(* an edit restored one of them meanwhile (README.md:400).                 *)
(***************************************************************************)
THEOREM EvidenceHolds == Spec => []EvidenceMatched
<1>1. IInv => EvidenceMatched
  <2> SUFFICES ASSUME IInv PROVE EvidenceMatched
    OBVIOUS
  <2>1. ASSUME NEW p \in Runner, run[p].phase = "current"
        PROVE  MatchedTheTree(p, published[run[p].identity])
    BY <2>1 DEF IInv, RunOK
  <2>2. ASSUME NEW r \in Reader, ask[r].phase = "answer", ask[r].evidence = "combined"
        PROVE  MatchedTheTree(r, ask[r].db)
    BY <2>2 DEF IInv, AskOK
  <2> QED
    BY <2>1, <2>2 DEF EvidenceMatched
<1> QED
  BY <1>1, Inductive, PTL
-----------------------------------------------------------------------------
\* What the abstract specification sees of a state.
Validation == IF lock = None THEN {} ELSE Images(lock)

LEMMA InitMaps == Init => Contract!Init
BY DEF Init, Contract!Init

LEMMA EditMaps ==
  ASSUME IInv, NEW f \in Input, Edit(f)
  PROVE  Contract!Edit
<1>1. TypeOK
  BY DEF IInv
<1>2. tree' # tree
  <2>1. PICK content \in Content \ {tree[f]} : tree' = [tree EXCEPT ![f] = content]
    BY DEF Edit
  <2>2. tree'[f] = content
    BY <1>1, <2>1 DEF TypeOK, Image
  <2> QED
    BY <2>1, <2>2
<1>3. lock # None => lock \in Runner \cup Reader
  BY <1>1 DEF TypeOK
<1>4. Validation' = IF Validation = {} THEN {} ELSE Validation \cup {tree'}
  <2>1. lock' = lock
    BY DEF Edit
  <2>2. CASE lock = None
    BY <2>1, <2>2 DEF Validation
  <2>3. CASE lock # None
    <3>1. PICK q \in Runner \cup Reader : q = lock
      BY <1>3, <2>3
    <3>2. /\ Images(q) = {} <=> Images(q)' = {}
          /\ Images(q) # {} => Images(q)' = Images(q) \cup {tree'}
      BY <1>1, EditExtends
    <3>3. Validation = Images(q) /\ Validation' = Images(q)'
      BY <2>1, <2>3, <3>1 DEF Validation, Images
    <3> QED
      BY <3>2, <3>3
  <2> QED
    BY <2>2, <2>3
<1> QED
  BY <1>2, <1>4 DEF Edit, Contract!Edit, Validation

\* A reader's step: no refresh notices.
LEMMA QueryMaps ==
  ASSUME IInv, NEW r \in Reader, Query(r)
  PROVE  UNCHANGED Contract!contractVars
<1>1. TypeOK /\ Runner \cap Reader = {}
  BY ConstantsAssumption DEF IInv, ConstantsAssumption
<1>2. UNCHANGED <<tree, published, lock>>
  BY DEF Query, Ask, ReadForAnswer, Decide, Answer, GiveUp
<1>3. \E s : moments' = [moments EXCEPT ![r] = s]
  <2>1. moments = [moments EXCEPT ![r] = moments[r]]
    BY <1>1 DEF TypeOK
  <2> QED
    BY <2>1 DEF Query, Ask, ReadForAnswer, Decide, Answer, GiveUp, Compares, Forgets
<1>4. lock # None => lock \in Runner /\ lock # r
  BY <1>1 DEF TypeOK
<1>5. Validation' = Validation
  <2>1. CASE lock = None
    BY <1>2, <2>1 DEF Validation
  <2>2. CASE lock # None
    <3>1. moments'[lock] = moments[lock]
      BY <1>1, <1>3, <1>4, <2>2 DEF TypeOK
    <3> QED
      BY <1>2, <2>2, <3>1 DEF Validation, Images
  <2> QED
    BY <2>1, <2>2
<1> QED
  BY <1>2, <1>5 DEF Contract!contractVars, Validation

LEMMA PublishMaps ==
  ASSUME IInv, NEW p \in Runner, Publish(p)
  PROVE  \E i \in Identity : Contract!Publish(i)
<1>1. PICK i \in Identity, new \in Database :
        /\ i = run[p].identity /\ new = run[p].candidate
        /\ lock = p /\ new # None /\ Recorded(new) /\ MatchedTheTree(p, new)
        /\ published[i] # None => new.gen > published[i].gen /\ new.schema >= published[i].schema
  BY CandidateIsGood DEF Publish
<1>2. TypeOK /\ None \notin Runner
  BY ConstantsAssumption DEF IInv, ConstantsAssumption
<1>3. /\ published' = [published EXCEPT ![i] = new] /\ lock' = None /\ UNCHANGED tree
  BY <1>1 DEF Publish, DropGuard
<1>4. published'[i] = new /\ \A j \in Identity \ {i} : published'[j] = published[j]
  BY <1>2, <1>3 DEF TypeOK
<1>5. Validation = Images(p) /\ Validation' = {}
  BY <1>1, <1>2, <1>3 DEF Validation
<1>6. /\ \A f \in Covers[new.option] : \E image \in Images(p) : new.basis[f] = image[f]
      /\ \A f \in Input : new.basis[f] # None <=> f \in Covers[new.option]
  BY <1>1 DEF MatchedTheTree, Recorded, Shaped
<1>i. Validation # {}
  <2>1. Images(p) # {}
    BY <1>1, CandidateIsGood DEF Publish, Observed
  <2> QED
    BY <1>5, <2>1
<1>7. Contract!Validated(published'[i])
  <2>1. ASSUME NEW f \in Input
        PROVE  \E image \in Validation : new.basis[f] = Contract!View(new.option, image)[f]
    <3>1. CASE f \in Covers[new.option]
      BY <1>5, <1>6, <3>1 DEF Contract!View
    <3>2. CASE f \notin Covers[new.option]
      BY <1>6, <1>i, <3>2 DEF Contract!View
    <3> QED
      BY <3>1, <3>2
  <2> QED
    BY <1>4, <2>1 DEF Contract!Validated, Validation
<1>8. Contract!Succeeds(published'[i], published[i])
  BY <1>1, <1>4 DEF Contract!Succeeds
<1>9. Contract!Publish(i)
  BY <1>1, <1>3, <1>4, <1>5, <1>i, <1>7, <1>8 DEF Contract!Publish, Validation
<1> QED
  BY <1>9

LEMMA RefreshMaps ==
  ASSUME IInv, NEW p \in Runner, Refresh(p)
  PROVE  Contract!Next \/ UNCHANGED Contract!contractVars
<1>1. TypeOK /\ None \notin Runner
  BY ConstantsAssumption DEF IInv, ConstantsAssumption
<1>2. CASE \E i \in Identity, o \in OptionsOf[p] : BeginRefresh(p, i, o)
  <2>1. lock' = p /\ moments' = [moments EXCEPT ![p] = <<tree>>] /\ UNCHANGED <<tree, published>>
    BY <1>2 DEF BeginRefresh, Compares
  <2>2. Validation' = {tree}
    BY <1>1, <2>1, ImagesOf DEF Validation, Images
  <2> QED
    BY <2>1, <2>2 DEF Contract!Next, Contract!BeginValidation, Validation
<1>3. CASE Import(p)
  <2>1. lock = p
    BY <1>3, Refreshes DEF Import, Collected
  <2>2. lock' = p /\ moments' = [moments EXCEPT ![p] = <<tree>>] /\ UNCHANGED <<tree, published>>
    BY <1>3, <2>1 DEF Import, Compares
  <2>3. Validation' = {tree}
    BY <1>1, <2>2, ImagesOf DEF Validation, Images
  <2> QED
    BY <2>2, <2>3 DEF Contract!Next, Contract!BeginValidation, Validation
<1>4. CASE \/ ReadInput(p) \/ FindCurrent(p) \/ FindStale(p) \/ FailToCompare(p)
           \/ StartProducer(p)
  <2>1. UNCHANGED <<tree, published, lock, moments>>
    BY <1>4 DEF ReadInput, FindCurrent, FindStale, FailToCompare, StartProducer
  <2>2. Validation' = Validation
    BY <2>1 DEF Validation, Images
  <2> QED
    BY <2>1, <2>2 DEF Contract!contractVars, Validation
<1>f. CASE FinishProducer(p)
  <2>1. lock = p
    BY <1>f, Refreshes DEF FinishProducer
  <2>2. /\ lock' = p /\ moments' = [moments EXCEPT ![p] = <<>>] /\ UNCHANGED <<tree, published>>
    BY <1>f, <2>1 DEF FinishProducer, Forgets
  <2>3. Validation' = {}
    <3>1. Images(p)' = {}
      BY <1>1, <2>2, ImagesOf
    <3> QED
      BY <1>1, <2>2, <3>1 DEF Validation, Images
  <2> QED
    BY <2>2, <2>3 DEF Contract!Next, Contract!EndValidation, Validation
<1>5. CASE EndRefresh(p)
  <2>1. lock = p
    BY <1>1, <1>5 DEF EndRefresh, TypeOK
  <2>2. Validation' = {} /\ UNCHANGED <<tree, published>>
    BY <1>5, <2>1 DEF EndRefresh, DropGuard, Validation
  <2> QED
    BY <2>2 DEF Contract!Next, Contract!EndValidation, Validation
<1>6. CASE Publish(p)
  BY <1>6, PublishMaps DEF Contract!Next
<1> QED
  BY <1>2, <1>3, <1>4, <1>f, <1>5, <1>6 DEF Refresh

(***************************************************************************)
(* Refreshes of any number of processes, failures and kills included,      *)
(* implement the contract of README.md:398.                                *)
(***************************************************************************)
THEOREM Implements == Spec => ImplementsContract
<1>1. IInv /\ [Next]_vars => [Contract!Next]_(Contract!contractVars)
  <2> SUFFICES ASSUME IInv, [Next]_vars PROVE [Contract!Next]_(Contract!contractVars)
    OBVIOUS
  <2>1. CASE UNCHANGED vars
    <3>1. UNCHANGED <<tree, published, lock, moments>>
      BY <2>1 DEF vars
    <3>2. Validation' = Validation
      BY <3>1 DEF Validation, Images
    <3> QED
      BY <3>1, <3>2 DEF Contract!contractVars, Validation
  <2>2. ASSUME NEW p \in Runner, Refresh(p) PROVE [Contract!Next]_(Contract!contractVars)
    BY <2>2, RefreshMaps
  <2>3. ASSUME NEW r \in Reader, Query(r) PROVE [Contract!Next]_(Contract!contractVars)
    BY <2>3, QueryMaps
  <2>4. ASSUME NEW f \in Input, Edit(f) PROVE [Contract!Next]_(Contract!contractVars)
    BY <2>4, EditMaps DEF Contract!Next
  <2> QED
    BY <2>1, <2>2, <2>3, <2>4 DEF Next
<1> QED
  BY <1>1, InitMaps, Inductive, PTL DEF Spec, ImplementsContract, Contract!Spec
-----------------------------------------------------------------------------
Reason(p) ==
  LET r == run[p]
      db == published[r.identity]
  IN  r.phase \in {"capture", "produce"} =>
        \/ r.unread
        \/ db = None
        \/ db.schema # VersionOf[p]
        \/ db.option # r.option
        \/ \E image \in Images(p) : db.basis # View(db.option, image)

Justified == \A p \in Runner : Reason(p)

\* A step that leaves a refresh alone, edits included.
LEMMA Unmoved ==
  ASSUME NEW p \in Runner, run'[p] = run[p], UNCHANGED published,
         Images(p) \subseteq Images(p)', Reason(p)
  PROVE  Reason(p)'
BY DEF Reason, View

\* Nobody else refreshes while a runner takes a step.
LEMMA Alone ==
  ASSUME IInv, NEW p \in Runner, Refresh(p), NEW q \in Runner \ {p}
  PROVE  Reason(q)'
<1>1. TypeOK /\ None \notin Runner
  BY ConstantsAssumption DEF IInv, ConstantsAssumption
<1>2. run'[q] = run[q]
  BY <1>1 DEF Refresh, BeginRefresh, ReadInput, FindCurrent, FindStale, FailToCompare,
              StartProducer, FinishProducer, Import, Publish, EndRefresh, TypeOK
<1>3. run[q] = NoRun
  <2>1. CASE lock = None
    BY <1>1, <2>1 DEF TypeOK
  <2>2. CASE lock # None
    <3>1. ~ \E i \in Identity, o \in OptionsOf[p] : BeginRefresh(p, i, o)
      BY <2>2 DEF BeginRefresh, LockFree
    <3>2. run[p] # NoRun
      <4>1. NoRun.phase = "idle" /\ NoRun.walk.todo = {}
        BY DEF NoRun
      <4> QED
        BY <3>1, <4>1 DEF Refresh, ReadInput, FindCurrent, FindStale, FailToCompare, StartProducer,
                          FinishProducer, Import, Publish, Confirmed, Collected, EndRefresh
    <3> QED
      BY <1>1, <3>2 DEF TypeOK
  <2> QED
    BY <2>1, <2>2
<1> QED
  BY <1>2, <1>3, BlankTyped DEF Reason

\* A finished comparison that found a difference names an image that differs.
LEMMA StaleNamesAnImage ==
  ASSUME IInv, NEW p \in Runner, FindStale(p)
  PROVE  LET db == published[run[p].identity]
         IN  \E image \in Images(p) : db.basis # View(db.option, image)
<1> DEFINE r == run[p]
           db == published[r.identity]
<1>1. r.phase = "compare" /\ r.walk.todo = {} /\ r.walk.got # db.basis
  BY DEF FindStale, Collected, Same
<1>2. /\ TypeOK /\ r.walk \in Traversal /\ r.identity \in Identity /\ RunOK(p)
  BY <1>1, Refreshes DEF IInv
<1>3. db \in Database /\ db.option = r.option /\ Recorded(db) /\ Underway(r.option, r.walk)
  BY <1>1, <1>2 DEF RunOK, TypeOK, IInv, PublishedIsRecorded, Recorded
<1>4. /\ db.basis \in [Input -> Content \cup {None}]
      /\ r.walk.got \in [Input -> Content \cup {None}]
  BY <1>2, <1>3 DEF Database, Traversal
<1>5. PICK f \in Input : r.walk.got[f] # db.basis[f]
  BY <1>1, <1>4
<1>6. f \in Covers[r.option]
  BY <1>1, <1>3, <1>5 DEF Recorded, Shaped, Underway
<1>7. PICK image \in Images(p) : r.walk.got[f] = image[f]
  BY <1>1, <1>2, <1>6 DEF RunOK, Observed
<1>8. View(db.option, image)[f] = image[f]
  BY <1>3, <1>6 DEF View
<1> QED
  BY <1>5, <1>7, <1>8

LEMMA RefreshJustified ==
  ASSUME IInv, NEW p \in Runner, Refresh(p), Reason(p)
  PROVE  Reason(p)'
<1>1. TypeOK /\ RunOK(p) /\ run[p] \in Refreshing
  BY DEF IInv, TypeOK
<1>2. ASSUME NEW i \in Identity, NEW o \in OptionsOf[p], BeginRefresh(p, i, o)
      PROVE  Reason(p)'
  <2>1. UNCHANGED <<tree, published>>
    BY <1>1, <1>2 DEF BeginRefresh, Compares, TypeOK
  <2>2. CASE Comparable(p, published[i], o)
    <3>1. run'[p] = [NoRun EXCEPT !.phase = "compare", !.identity = i, !.option = o,
                                  !.walk = Walk(o)]
      BY <1>1, <1>2, <2>2 DEF BeginRefresh, TypeOK
    <3>2. run'[p].phase = "compare" /\ run'[p].option = o /\ run'[p].walk.todo = Covers[o]
      BY <3>1 DEF NoRun, Walk
    <3> QED
      BY <2>1, <3>2 DEF Reason
  <2>3. CASE ~Comparable(p, published[i], o)
    <3>1. run'[p] = Prepare(i, o)
      BY <1>1, <1>2, <2>3 DEF BeginRefresh, TypeOK
    <3>2. run'[p].phase = "capture" /\ run'[p].identity = i /\ run'[p].option = o
      BY <3>1 DEF Prepare, NoRun
    <3> QED
      BY <2>1, <2>3, <3>2 DEF Reason, Comparable
  <2> QED
    BY <2>2, <2>3
<1>3. CASE ReadInput(p)
  <2>1. PICK f \in run[p].walk.todo : run' = [run EXCEPT ![p].walk = Visit(@, f)]
    BY <1>3 DEF ReadInput
  <2>2. UNCHANGED <<tree, published, moments>>
    BY <1>3 DEF ReadInput
  <2>3. PICK w : w = Visit(run[p].walk, f)
    OBVIOUS
  <2>4. /\ run'[p].phase = run[p].phase /\ run'[p].identity = run[p].identity
        /\ run'[p].option = run[p].option /\ run'[p].unread = run[p].unread
    BY <1>1, <2>1, <2>3 DEF Refreshing, TypeOK
  <2>5. Images(p)' = Images(p) /\ \A o, image : View(o, image)' = View(o, image)
    BY <2>2 DEF Images, View
  <2> QED
    BY <2>2, <2>4, <2>5 DEF Reason
<1>4. CASE FindStale(p)
  <2>1. run'[p] = Prepare(run[p].identity, run[p].option) /\ UNCHANGED <<published, moments>>
    BY <1>1, <1>4 DEF FindStale, TypeOK
  <2>2. run'[p].phase = "capture" /\ run'[p].identity = run[p].identity
    <3>1. run[p].identity \in Identity /\ run[p].option \in Option
      BY <1>1, <1>4 DEF RunOK, FindStale, Collected
    <3>2. published \in [Identity -> Database \cup {None}]
      BY <1>1 DEF TypeOK
    <3> QED
      BY <2>1, <3>1, <3>2, Prepared
  <2>3. PICK image \in Images(p) :
          LET db == published[run[p].identity] IN db.basis # View(db.option, image)
    BY <1>4, StaleNamesAnImage
  <2>4. Reason(p)'
    <3>1. PICK db : db = published[run[p].identity]
      OBVIOUS
    <3>2. published'[run'[p].identity] = db /\ db.basis # View(db.option, image)
      BY <2>1, <2>2, <2>3, <3>1
    <3>3. View(db.option, image)' = View(db.option, image)
      BY DEF View
    <3>4. /\ image \in Images(p)'
            /\ LET now == published[run[p].identity]
               IN  (now.basis # View(now.option, image))'
      BY <2>1, <3>2, <3>3 DEF Images
    <3> QED
      BY <3>4 DEF Reason
  <2> QED
    BY <2>4
<1>5. CASE StartProducer(p)
  <2>1. /\ run[p].phase = "capture" /\ run'[p].phase = "produce"
        /\ run'[p].identity = run[p].identity /\ run'[p].option = run[p].option
        /\ run'[p].unread = run[p].unread /\ UNCHANGED <<published, moments>>
    BY <1>1, <1>5 DEF StartProducer, Collected, TypeOK, Refreshing
  <2>2. Images(p)' = Images(p) /\ \A o, image : View(o, image)' = View(o, image)
    BY <2>1 DEF Images, View
  <2> QED
    BY <2>1, <2>2 DEF Reason
<1>6. CASE FindCurrent(p) \/ FinishProducer(p) \/ Import(p) \/ Publish(p) \/ EndRefresh(p)
  <2>a. run \in [Runner -> Refreshing]
    BY <1>1 DEF TypeOK
  <2>1. run'[p].phase \in {"current", "recapture", "confirm", "idle"}
    <3>1. FindCurrent(p) => run'[p].phase = "current"
      BY <1>1, <2>a DEF FindCurrent, Refreshing
    <3>2. FinishProducer(p) => run'[p].phase = "recapture"
      BY <1>1, <2>a DEF FinishProducer, Refreshing
    <3>3. Import(p) => run'[p].phase = "confirm"
      BY <1>1, <2>a DEF Import, Refreshing
    <3>4. Publish(p) \/ EndRefresh(p) => run'[p].phase = "idle"
      BY <2>a, BlankTyped DEF Publish, EndRefresh
    <3> QED
      BY <1>6, <3>1, <3>2, <3>3, <3>4
  <2> QED
    BY <2>1 DEF Reason
<1>7. CASE FailToCompare(p)
  <2>p. PICK n : n = Prepare(run[p].identity, run[p].option)
    OBVIOUS
  <2>1. PICK u : u = [n EXCEPT !.unread = TRUE]
    OBVIOUS
  <2>2. run'[p].phase = "capture" /\ run'[p].unread
    <3>1. run[p].identity \in Identity /\ run[p].option \in Option
      BY <1>1, <1>7 DEF RunOK, FailToCompare
    <3>2. published \in [Identity -> Database \cup {None}]
      BY <1>1 DEF TypeOK
    <3>3. n \in Refreshing /\ n.phase = "capture"
      BY <2>p, <3>1, <3>2, Prepared
    <3>4. u.phase = n.phase /\ u.unread
      BY <2>1, <3>3 DEF Refreshing
    <3>5. run'[p] = u
      BY <1>1, <1>7, <2>p, <2>1 DEF FailToCompare, TypeOK
    <3> QED
      BY <3>3, <3>4, <3>5
  <2> QED
    BY <2>2 DEF Reason
<1> QED
  BY <1>2, <1>3, <1>4, <1>5, <1>6, <1>7 DEF Refresh

(***************************************************************************)
(* The compiler runs only if nothing comparable was published or an input  *)
(* differed from it during this refresh (README.md:397).                   *)
(***************************************************************************)
THEOREM ProducersRunForAReason == Spec => []ProducerRunsForAReason
<1>1. Init => Justified
  BY BlankTyped DEF Init, Justified, Reason
<1>2. IInv /\ Justified /\ [Next]_vars => Justified'
  <2> SUFFICES ASSUME IInv, Justified, [Next]_vars, NEW p \in Runner
               PROVE  Reason(p)'
    BY DEF Justified
  <2>1. TypeOK /\ Runner \cap Reader = {} /\ Reason(p)
    BY ConstantsAssumption DEF IInv, ConstantsAssumption, Justified
  <2>2. CASE UNCHANGED vars
    BY <2>1, <2>2, Unmoved DEF vars, Images
  <2>3. ASSUME NEW q \in Runner, Refresh(q) PROVE Reason(p)'
    BY <2>1, <2>3, Alone, RefreshJustified
  <2>4. ASSUME NEW q \in Reader, Query(q) PROVE Reason(p)'
    <3>1. UNCHANGED <<published, run>> /\ moments'[p] = moments[p]
      BY <2>1, <2>4 DEF Query, Ask, ReadForAnswer, Decide, Answer, GiveUp, Compares, Forgets, TypeOK
    <3> QED
      BY <2>1, <3>1, Unmoved DEF Images
  <2>5. ASSUME NEW f \in Input, Edit(f) PROVE Reason(p)'
    <3>1. UNCHANGED <<published, run>> /\ Images(p) \subseteq Images(p)'
      BY <2>1, <2>5, EditExtends DEF Edit
    <3> QED
      BY <2>1, <3>1, Unmoved
  <2> QED
    BY <2>2, <2>3, <2>4, <2>5 DEF Next
<1>3. Justified => ProducerRunsForAReason
  BY DEF Justified, Reason, ProducerRunsForAReason
<1> QED
  BY <1>1, <1>2, <1>3, Inductive, PTL DEF Spec
=============================================================================
