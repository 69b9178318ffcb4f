----------------------------- MODULE ServiceStart -----------------------------
(***************************************************************************)
(* The life of an ast-index process up to serving: Store::open with the    *)
(* schema check and migration (src/store.rs), Engine::open with the root   *)
(* check (src/engine.rs), the index command or "serve --index", and the    *)
(* start of the socket service (src/serve.rs run_socket).                  *)
(*                                                                         *)
(* Processes share a database, lock files and socket paths.  Each reads    *)
(* them at one moment and acts at another; each may be killed in between,  *)
(* and its name started again.  Other programs put files of their own at   *)
(* free paths, also between a look and the act that relies on it.          *)
(***************************************************************************)
EXTENDS Naturals

CONSTANTS Process,
          Root,       \* canonical root directories
          SocketPath,
          LockPath,   \* listener lock files
          VersionOf,  \* SCHEMA_VERSION of the executable of each process
          RootOf,
          Commands,   \* the commands each process may be started with
          SocketOf,   \* --socket of each process
          LockOf,     \* its --lock, or the default next to the socket
          None,
          MaxStarts   \* bound: processes started

VARIABLES db,      \* schema version and root recorded in the database
          writer,  \* holder of the database writer lock
          flock,   \* [LockPath -> holder]
          sock,    \* [SocketPath -> what the path names]
          proc,    \* [Process -> how far it is]
          starts   \* processes started so far

vars == <<db, writer, flock, sock, proc, starts>>

\* A path names nothing, some other file, a dead socket, or a process's live socket.
SocketFile == {None, "other", "stale"} \cup Process

ASSUME ConstantsAssumption ==
  /\ VersionOf \in [Process -> Nat \ {0}]
  /\ RootOf \in [Process -> Root]
  /\ Commands \in [Process -> SUBSET {"index", "serve", "serve --index"}]
  /\ SocketOf \in [Process -> SocketPath]
  /\ LockOf \in [Process -> LockPath]
  /\ {None, "other", "stale"} \cap Process = {}
  /\ None \notin Root \cup Nat /\ None \notin {"other", "stale"}
  /\ MaxStarts \in Nat

Database == [version : Nat \cup {None}, root : Root \cup {None}]

Idle == [phase |-> "idle", command |-> None]

At(p, phase) == proc[p].phase = phase

Goto(p, phase) == proc' = [proc EXCEPT ![p].phase = phase]
-----------------------------------------------------------------------------
(***************************************************************************)
(* The end of a process, by an error return or a kill: the kernel drops    *)
(* its locks and closes its listener; the socket file stays behind.        *)
(***************************************************************************)
Exit(p) ==
  /\ ~At(p, "idle")
  /\ proc' = [proc EXCEPT ![p] = Idle]
  /\ writer' = IF writer = p THEN None ELSE writer
  /\ flock' = [l \in LockPath |-> IF flock[l] = p THEN None ELSE flock[l]]
  /\ sock' = [s \in SocketPath |-> IF sock[s] = p THEN "stale" ELSE sock[s]]
  /\ UNCHANGED <<db, starts>>

\* Store::open reads the version, without a lock, and refuses a newer one.
Open(p) ==
  /\ At(p, "idle")
  /\ starts < MaxStarts
  /\ starts' = starts + 1
  /\ db.version # None => db.version <= VersionOf[p]
  /\ \E c \in Commands[p] :
       proc' = [proc EXCEPT ![p] =
         [phase |-> IF db.version = VersionOf[p] THEN "opened" ELSE "migrate", command |-> c]]
  /\ UNCHANGED <<db, writer, flock, sock>>

\* Mutant: the lock is shared, so it never finds another holder.
DatabaseFreeToShare == TRUE

DatabaseFree == writer = None

\* write_lock is nonblocking: when it is busy the process exits.
LockDatabase(p, from, to) ==
  /\ At(p, from)
  /\ DatabaseFree
  /\ writer' = p
  /\ Goto(p, to)
  /\ UNCHANGED <<db, flock, sock, starts>>

\* Mutant: the guard of a mutation lives as long as the Store.
GuardKept(p) == writer' = p

\* The guard is a local of Store::open and of index::index.
DropGuard(p) == writer' = None

LockToMigrate(p) == LockDatabase(p, "migrate", "migrating")

\* init_schema: additive, then records its own version.
Migrate(p) ==
  /\ At(p, "migrating")
  /\ db' = [db EXCEPT !.version = VersionOf[p]]
  /\ DropGuard(p)
  /\ Goto(p, "opened")
  /\ UNCHANGED <<flock, sock, starts>>

OwnRoot(p) == db.root \in {None, RootOf[p]}

\* Engine::open compares the root; "index" and "serve --index" then run a pass.
BindRoot(p) ==
  /\ At(p, "opened")
  /\ OwnRoot(p)
  /\ Goto(p, IF proc[p].command = "serve" THEN "listen" ELSE "index")
  /\ UNCHANGED <<db, writer, flock, sock, starts>>

LockToIndex(p) == LockDatabase(p, "index", "indexing")

\* index::index compares the root before it collects and reads the files.
CheckRoot(p) ==
  /\ At(p, "indexing")
  /\ OwnRoot(p)
  /\ Goto(p, "publishing")
  /\ UNCHANGED <<db, writer, flock, sock, starts>>

\* Its transaction records its root and schema version and does not compare again.
Publish(p) ==
  /\ At(p, "publishing")
  /\ db' = [version |-> VersionOf[p], root |-> RootOf[p]]
  /\ DropGuard(p)
  /\ proc' = [proc EXCEPT ![p] =
       IF @.command = "index" THEN Idle ELSE [@ EXCEPT !.phase = "listen"]]
  /\ UNCHANGED <<flock, sock, starts>>
-----------------------------------------------------------------------------
\* Mutant: the listener lock is shared, or taken after the socket is bound.
ListenerFreeUnlocked(p) == TRUE

ListenerFree(p) == flock[LockOf[p]] = None

\* run_socket: a nonblocking flock, held until the process ends.
LockListener(p) ==
  /\ At(p, "listen")
  /\ ListenerFree(p)
  /\ flock' = [flock EXCEPT ![LockOf[p]] = p]
  /\ Goto(p, "probe")
  /\ UNCHANGED <<db, writer, sock, starts>>

IsSocket(file) == file \notin {None, "other"}

\* options.socket.exists(), and then only a socket may be replaced.
Probe(p) ==
  /\ At(p, "probe")
  /\ \/ /\ sock[SocketOf[p]] = None
        /\ Goto(p, "bind")
     \/ /\ IsSocket(sock[SocketOf[p]])
        /\ Goto(p, "unlink")
  /\ UNCHANGED <<db, writer, flock, sock, starts>>

\* remove_file of whatever the path names by now; it fails if that is nothing.
Unlink(p) ==
  /\ At(p, "unlink")
  /\ sock[SocketOf[p]] # None
  /\ sock' = [sock EXCEPT ![SocketOf[p]] = None]
  /\ Goto(p, "bind")
  /\ UNCHANGED <<db, writer, flock, starts>>

\* bind fails if the path exists.
Bind(p) ==
  /\ At(p, "bind")
  /\ sock[SocketOf[p]] = None
  /\ sock' = [sock EXCEPT ![SocketOf[p]] = p]
  /\ Goto(p, "serving")
  /\ UNCHANGED <<db, writer, flock, starts>>
-----------------------------------------------------------------------------
\* Another program puts a file of its own at a path that names nothing.
PlaceFile(s) ==
  /\ sock[s] = None
  /\ sock' = [sock EXCEPT ![s] = "other"]
  /\ UNCHANGED <<db, writer, flock, proc, starts>>

Init ==
  /\ db = [version |-> None, root |-> None]
  /\ writer = None
  /\ flock = [l \in LockPath |-> None]
  /\ sock \in [SocketPath -> {None, "other", "stale"}]
  /\ proc = [p \in Process |-> Idle]
  /\ starts = 0

Step(p) ==
  \/ Open(p) \/ LockToMigrate(p) \/ Migrate(p)
  \/ BindRoot(p) \/ LockToIndex(p) \/ CheckRoot(p) \/ Publish(p)
  \/ LockListener(p) \/ Probe(p) \/ Unlink(p) \/ Bind(p)
  \/ Exit(p)

Next == (\E p \in Process : Step(p)) \/ (\E s \in SocketPath : PlaceFile(s))

Spec == Init /\ [][Next]_vars
=============================================================================
