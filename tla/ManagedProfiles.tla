---------------------------- MODULE ManagedProfiles ----------------------------
(***************************************************************************)
(* Managed semantic profiles: refresh and query of src/profiles.rs, with   *)
(* the steps of Snapshot::new and Snapshot::import of src/producer.rs that *)
(* touch shared state.                                                     *)
(*                                                                         *)
(* A refresh builds a whole database in a directory of its own and renames *)
(* it over the published one.  Readers take no lock.  The sources change   *)
(* meanwhile, and a refresh may fail or be killed at any point.            *)
(***************************************************************************)
EXTENDS Naturals, Sequences

CONSTANTS Runner,       \* processes that refresh
          Reader,       \* query services
          Identity,     \* a canonical project and a language profile
          Input,        \* the files of the project a producer may read
          Content,      \* what an input may be: its bytes, or that it is absent
          Option,       \* dependencies and exclusions
          Covers,       \* [Option -> the inputs it selects]
          ScopeOf,      \* [Option -> its exclusion policy]
          ReaderScope,  \* the exclusion policy of the query services
          VersionOf,    \* SCHEMA_VERSION of each process's executable
          OptionsOf,    \* [Runner -> the options it may be run with]
          None,
          MaxRefreshes, \* bound: refreshes begun
          MaxEdits      \* bound: edits

VARIABLES tree,      \* [Input -> content]
          published, \* [Identity -> the database at <state>/index.sqlite, or None]
          lock,      \* holder of <base>/refresh.lock
          run,       \* [Runner -> its refresh]
          ask,       \* [Reader -> its query]
          cursor,    \* [Reader -> the cursor its client holds, or None]
          refreshes, \* refreshes begun
          edits,     \* edits made
          moments    \* history: [process -> the trees there were since its comparison began]

vars == <<tree, published, lock, run, ask, cursor, refreshes, edits, moments>>

View(o, image) == [f \in Input |-> IF f \in Covers[o] THEN image[f] ELSE None]
Blank == [f \in Input |-> None]

\* The semantic inventory and inputs of a database, its generation and schema version.
Database ==
  [gen : Nat \ {0}, schema : Nat, option : Option, basis : [Input -> Content \cup {None}]]

ASSUME ConstantsAssumption ==
  /\ Covers \in [Option -> SUBSET Input]
  /\ Option \subseteq DOMAIN ScopeOf
  /\ VersionOf \in [Runner \cup Reader -> Nat]
  /\ OptionsOf \in [Runner -> SUBSET Option]
  /\ Runner \cap Reader = {}
  /\ None \notin Runner \cup Identity \cup Option \cup Nat \cup Content \cup Database
  /\ MaxRefreshes \in Nat /\ MaxEdits \in Nat

\* One traversal of the inputs: those still to read, and what was read.
Walk(o) == [todo |-> Covers[o], got |-> Blank]

Visit(walk, f) == [todo |-> walk.todo \ {f}, got |-> [walk.got EXCEPT ![f] = tree[f]]]

NoRun ==
  [phase |-> "idle", identity |-> None, option |-> None, unread |-> FALSE,
   candidate |-> None, files |-> Blank, walk |-> [todo |-> {}, got |-> Blank]]

NoAsk ==
  [phase |-> "idle", identity |-> None, db |-> None, evidence |-> None,
   from |-> None, walk |-> [todo |-> {}, got |-> Blank]]

Compares(p) == moments' = [moments EXCEPT ![p] = <<tree>>]
Forgets(p) == moments' = [moments EXCEPT ![p] = <<>>]
-----------------------------------------------------------------------------
\* Flock::lock(.., LockExclusiveNonblock)
LockFree == lock = None

\* Mutant: the candidate starts empty although a database is published.
CopiedNothing(i) == None

\* fs::copy of the published database, generations included.
Copied(i) == published[i]

\* The candidate directory, and the traversal of Snapshot::new.
Prepare(i, o) ==
  [NoRun EXCEPT !.phase = "capture", !.identity = i, !.option = o,
                !.candidate = Copied(i), !.walk = Walk(o)]

\* Mutant: only a database that has to be migrated is looked at.
ComparableIfOlder(p, db, o) == db # None /\ db.schema < VersionOf[p] /\ db.option = o

\* existing() opens only its own schema version; current() wants the same inventory.
Comparable(p, db, o) == db # None /\ db.schema = VersionOf[p] /\ db.option = o

BeginRefresh(p, i, o) ==
  /\ run[p] = NoRun
  /\ refreshes < MaxRefreshes
  /\ LockFree
  /\ lock' = p
  /\ refreshes' = refreshes + 1
  /\ run' = [run EXCEPT ![p] =
       IF Comparable(p, published[i], o)
       THEN [NoRun EXCEPT !.phase = "compare", !.identity = i, !.option = o, !.walk = Walk(o)]
       ELSE Prepare(i, o)]
  /\ Compares(p)
  /\ UNCHANGED <<tree, published, ask, cursor, edits>>

\* Inventory::capture reads the selected inputs one after the other.
ReadInput(p) ==
  /\ \E f \in run[p].walk.todo : run' = [run EXCEPT ![p].walk = Visit(@, f)]
  /\ UNCHANGED <<tree, published, lock, ask, cursor, refreshes, edits, moments>>

Collected(p, phase) == run[p].phase = phase /\ run[p].walk.todo = {}

\* Mutant: it is enough that the same inputs are selected.
SameNames(got, basis) == \A f \in Input : got[f] = None <=> basis[f] = None

\* stale_files, and the comparison of Snapshot::import.
Same(got, basis) == got = basis
\* require_current holds: Outcome::Current.
FindCurrent(p) ==
  /\ Collected(p, "compare")
  /\ Same(run[p].walk.got, published[run[p].identity].basis)
  /\ run' = [run EXCEPT ![p].phase = "current"]
  /\ UNCHANGED <<tree, published, lock, ask, cursor, refreshes, edits, moments>>

FindStale(p) ==
  /\ Collected(p, "compare")
  /\ ~Same(run[p].walk.got, published[run[p].identity].basis)
  /\ run' = [run EXCEPT ![p] = Prepare(run[p].identity, run[p].option)]
  /\ UNCHANGED <<tree, published, lock, ask, cursor, refreshes, edits, moments>>

\* The published database cannot be opened, or an input cannot be read: current() is
\* false for these as well.  unread is a history field until the producer has run.
FailToCompare(p) ==
  /\ run[p].phase = "compare"
  /\ run' = [run EXCEPT ![p] =
       [Prepare(run[p].identity, run[p].option) EXCEPT !.unread = TRUE]]
  /\ UNCHANGED <<tree, published, lock, ask, cursor, refreshes, edits, moments>>

\* The private copies are written and the producer starts on them.
StartProducer(p) ==
  /\ Collected(p, "capture")
  /\ run' = [run EXCEPT ![p].phase = "produce", ![p].files = run[p].walk.got]
  /\ UNCHANGED <<tree, published, lock, ask, cursor, refreshes, edits, moments>>

\* It has written one artifact; the inputs are captured again.
FinishProducer(p) ==
  /\ run[p].phase = "produce"
  /\ run' = [run EXCEPT ![p].phase = "recapture", ![p].unread = FALSE,
                         ![p].walk = Walk(run[p].option)]
  /\ Forgets(p)
  /\ UNCHANGED <<tree, published, lock, ask, cursor, refreshes, edits>>

\* The candidate is opened, migrated if it is older, indexed and imported into.
Import(p) ==
  /\ Collected(p, "recapture")
  /\ Same(run[p].walk.got, run[p].files)
  /\ LET old == run[p].candidate
     IN  /\ old # None => old.schema <= VersionOf[p]
         /\ run' = [run EXCEPT
              ![p].phase = "confirm",
              ![p].candidate = [gen |-> (IF old = None THEN 0 ELSE old.gen) + 2,
                                schema |-> VersionOf[p], option |-> run[p].option,
                                basis |-> run[p].files],
              ![p].walk = Walk(run[p].option)]
  /\ Compares(p)
  /\ UNCHANGED <<tree, published, lock, ask, cursor, refreshes, edits>>

\* Mutant: the candidate is not compared with the sources again.
ConfirmedAnyway(p) == run[p].phase = "confirm"

\* current() holds for the candidate.
Confirmed(p) ==
  Collected(p, "confirm") /\ Same(run[p].walk.got, run[p].candidate.basis)

\* Mutant: the lock file stays locked after a refresh.
KeepLock(p) == lock' = lock

\* _guard and the candidate directory are dropped.
DropGuard(p) == lock' = IF lock = p THEN None ELSE lock

\* rename of the finished candidate over the published database: Outcome::Updated.
Publish(p) ==
  /\ Confirmed(p)
  /\ published' = [published EXCEPT ![run[p].identity] = run[p].candidate]
  /\ run' = [run EXCEPT ![p] = NoRun]
  /\ DropGuard(p)
  /\ Forgets(p)
  /\ UNCHANGED <<tree, ask, cursor, refreshes, edits>>

\* Outcome::Current, an error at any point, a producer that failed, or a kill.
EndRefresh(p) ==
  /\ run[p] # NoRun
  /\ run' = [run EXCEPT ![p] = NoRun]
  /\ DropGuard(p)
  /\ Forgets(p)
  /\ UNCHANGED <<tree, published, ask, cursor, refreshes, edits>>
-----------------------------------------------------------------------------
\* Query::window: the generation, and the fingerprint of the query it continues.
Accepts(c, i, db, evidence) ==
  c.identity = i /\ c.evidence = evidence /\ c.gen = db.gen

\* One open read-only file: whatever is renamed later, this database stays the same.
Ask(r, i) ==
  /\ ask[r] = NoAsk
  /\ published[i] # None
  /\ published[i].schema = VersionOf[r]
  /\ ScopeOf[published[i].option] = ReaderScope
  /\ \E evidence \in {"ast", "combined"}, c \in {None, cursor[r]} :
       /\ c # None => Accepts(c, i, published[i], evidence)
       /\ ask' = [ask EXCEPT ![r] =
            [phase |-> IF evidence = "ast" THEN "answer" ELSE "compare",
             identity |-> i, db |-> published[i], evidence |-> evidence, from |-> c,
             walk |-> IF evidence = "ast" THEN NoAsk.walk ELSE Walk(published[i].option)]]
       /\ IF evidence = "ast" THEN UNCHANGED moments ELSE Compares(r)
  /\ UNCHANGED <<tree, published, lock, run, cursor, refreshes, edits>>

ReadForAnswer(r) ==
  /\ \E f \in ask[r].walk.todo : ask' = [ask EXCEPT ![r].walk = Visit(@, f)]
  /\ UNCHANGED <<tree, published, lock, run, cursor, refreshes, edits, moments>>

\* require_current: stale evidence answers nothing.
Decide(r) ==
  /\ ask[r].phase = "compare" /\ ask[r].walk.todo = {}
  /\ \/ /\ Same(ask[r].walk.got, ask[r].db.basis)
        /\ ask' = [ask EXCEPT ![r].phase = "answer"]
        /\ UNCHANGED moments
     \/ /\ ~Same(ask[r].walk.got, ask[r].db.basis)
        /\ ask' = [ask EXCEPT ![r] = NoAsk]
        /\ Forgets(r)
  /\ UNCHANGED <<tree, published, lock, run, cursor, refreshes, edits>>

\* The last page, or one with a cursor to the next.
Answer(r) ==
  /\ ask[r].phase = "answer"
  /\ \E next \in {None, [identity |-> ask[r].identity, gen |-> ask[r].db.gen,
                         evidence |-> ask[r].evidence, db |-> ask[r].db]} :
       cursor' = [cursor EXCEPT ![r] = next]
  /\ ask' = [ask EXCEPT ![r] = NoAsk]
  /\ Forgets(r)
  /\ UNCHANGED <<tree, published, lock, run, refreshes, edits>>

\* A capture that fails, a query error, a client that goes away.
GiveUp(r) ==
  /\ ask[r] # NoAsk
  /\ ask' = [ask EXCEPT ![r] = NoAsk]
  /\ Forgets(r)
  /\ UNCHANGED <<tree, published, lock, run, cursor, refreshes, edits>>
-----------------------------------------------------------------------------
\* An editor saves an input, or a checkout or an undo restores what it was before.
Edit(f) ==
  /\ edits < MaxEdits
  /\ edits' = edits + 1
  /\ \E content \in Content \ {tree[f]} : tree' = [tree EXCEPT ![f] = content]
  /\ moments' = [p \in Runner \cup Reader |->
       IF moments[p] = <<>> THEN <<>> ELSE Append(moments[p], tree')]
  /\ UNCHANGED <<published, lock, run, ask, cursor, refreshes>>

Init ==
  /\ tree \in [Input -> Content]
  /\ published = [i \in Identity |-> None]
  /\ lock = None
  /\ run = [p \in Runner |-> NoRun]
  /\ ask = [r \in Reader |-> NoAsk]
  /\ cursor = [r \in Reader |-> None]
  /\ refreshes = 0 /\ edits = 0
  /\ moments = [p \in Runner \cup Reader |-> <<>>]

Refresh(p) ==
  \/ \E i \in Identity, o \in OptionsOf[p] : BeginRefresh(p, i, o)
  \/ ReadInput(p) \/ FindCurrent(p) \/ FindStale(p) \/ FailToCompare(p)
  \/ StartProducer(p) \/ FinishProducer(p) \/ Import(p)
  \/ Publish(p) \/ EndRefresh(p)

Query(r) ==
  \/ \E i \in Identity : Ask(r, i)
  \/ ReadForAnswer(r) \/ Decide(r) \/ Answer(r) \/ GiveUp(r)

Next ==
  \/ \E p \in Runner : Refresh(p)
  \/ \E r \in Reader : Query(r)
  \/ \E f \in Input : Edit(f)

Spec == Init /\ [][Next]_vars
=============================================================================
