--------------------------- MODULE ServiceStartProps ---------------------------
(***************************************************************************)
(* What the start of a process promises to those that already run.         *)
(***************************************************************************)
EXTENDS ServiceStart

Phase ==
  {"idle", "opened", "migrate", "migrating", "index", "indexing",
   "publishing", "listen", "probe", "unlink", "bind", "serving"}

Started == [phase : Phase, command : {"index", "serve", "serve --index", None}]

Writing(p) == proc[p].phase \in {"migrating", "indexing", "publishing"}
Listening(p) == proc[p].phase \in {"probe", "unlink", "bind", "serving"}

(***************************************************************************)
(* The types of the variables.  A lock has a holder only while the holder  *)
(* does what it protects: "Database locks cover mutations and are released *)
(* on exit", "query services do not monopolize the writer"                 *)
(* (docs/development.md:136).                                              *)
(***************************************************************************)
TypeOK ==
  /\ db \in Database
  /\ writer \in {p \in Process : Writing(p)} \cup {None}
  /\ flock \in [LockPath -> {p \in Process : Listening(p)} \cup {None}]
  /\ sock \in [SocketPath -> SocketFile]
  /\ proc \in [Process -> Started]
  /\ starts \in 0 .. MaxStarts
-----------------------------------------------------------------------------
(***************************************************************************)
(* "Only a socket without a lock holder may be replaced" (serve.rs:139):   *)
(* the file a starting service is about to remove is no running service's. *)
(***************************************************************************)
OnlyDeadSocketsAreReplaced ==
  \A p \in Process : At(p, "unlink") => sock[SocketOf[p]] = "stale"

(***************************************************************************)
(* Clients reach a service that runs: its socket path names its listener   *)
(* until it ends, whatever other services start and die meanwhile.         *)
(***************************************************************************)
RunningServicesAreReachable ==
  \A p \in Process : At(p, "serving") => sock[SocketOf[p]] = p

(***************************************************************************)
(* "refusing to replace a non-socket path" (serve.rs:136): a file that is  *)
(* no socket outlives every start, also one that another program puts at   *)
(* a path while services start there.  A start removes what the path names *)
(* after it looked, so a second start that removed the dead socket in      *)
(* between would make the first one remove that program's file: the        *)
(* property rests on the listener lock, held from the look to the bind.    *)
(* (The other program is one that takes a free path; one that itself       *)
(* replaces a dead socket between the look and the removal loses its file.)*)
(***************************************************************************)
OtherFilesSurvive ==
  [][\A s \in SocketPath : sock[s] = "other" => sock'[s] = "other"]_vars

(***************************************************************************)
(* "An existing database is bound to its indexed root"                     *)
(* (docs/architecture.md:51), although processes open it for several roots *)
(* before anything is indexed, and an index pass compares the root when it *)
(* begins (index.rs:94) and writes it when it commits: the writer lock     *)
(* keeps every other pass out for as long as the pass between them lasts.  *)
(***************************************************************************)
RootIsBound == [][db.root # None => db'.root = db.root]_vars

(***************************************************************************)
(* "Unknown newer schemas are rejected" (docs/architecture.md:51): no      *)
(* executable writes to a database of a newer schema than its own.         *)
(***************************************************************************)
NewerSchemasAreRejected ==
  [][\A p \in Process :
       db' # db /\ writer = p /\ db.version # None => db.version <= VersionOf[p]]_vars
=============================================================================
