--------------------------- MODULE ServiceStartProofs ---------------------------
(***************************************************************************)
(* For any processes, executables, roots, socket and lock paths: locks     *)
(* follow what they protect, and where services of one socket use one lock *)
(* file, as they do by default, a running service keeps its socket and     *)
(* none but dead sockets are replaced.                                     *)
(***************************************************************************)
EXTENDS ServiceStartProps, TLAPS

\* "options.lock ... unwrap_or_else(|| options.socket.with_extension("lock"))".
OneLockPerSocket ==
  \A p, q \in Process : SocketOf[p] = SocketOf[q] => LockOf[p] = LockOf[q]

\* A process holds the locks its phase needs, so no other is in such a phase.
HoldsLocks ==
  \A p \in Process :
    /\ Writing(p) => writer = p
    /\ Listening(p) => flock[LockOf[p]] = p

\* What a listening process knows of its socket path.
KnowsItsSocket ==
  \A p \in Process :
    /\ At(p, "unlink") => sock[SocketOf[p]] = "stale"
    /\ At(p, "bind") => sock[SocketOf[p]] \in {None, "other"}
    /\ At(p, "serving") => sock[SocketOf[p]] = p

\* A live socket is that of a process serving there.
LiveSocketsAreServed ==
  \A s \in SocketPath : sock[s] \in Process =>
    At(sock[s], "serving") /\ SocketOf[sock[s]] = s

IInv == TypeOK /\ HoldsLocks /\ KnowsItsSocket /\ LiveSocketsAreServed

LEMMA Initially == Init => IInv
<1> SUFFICES ASSUME Init PROVE IInv
  OBVIOUS
<1>1. TypeOK
  <2>1. db \in Database /\ writer = None
    BY DEF Init, Database
  <2>4. starts \in 0 .. MaxStarts
    <3>1. MaxStarts \in Nat
      BY ConstantsAssumption DEF ConstantsAssumption
    <3> QED
      BY <3>1 DEF Init
  <2>2. flock \in [LockPath -> {None}] /\ sock \in [SocketPath -> SocketFile]
    BY DEF Init, SocketFile
  <2>3. proc \in [Process -> Started]
    BY DEF Init, Idle, Started, Phase
  <2> QED
    BY <2>1, <2>2, <2>3, <2>4 DEF TypeOK
<1>2. HoldsLocks /\ KnowsItsSocket
  BY DEF Init, HoldsLocks, KnowsItsSocket, Writing, Listening, At, Idle
<1>3. LiveSocketsAreServed
  BY ConstantsAssumption DEF Init, LiveSocketsAreServed
<1> QED
  BY <1>1, <1>2, <1>3 DEF IInv

LEMMA Stuttering == IInv /\ UNCHANGED vars => IInv'
BY DEF IInv, vars, TypeOK, HoldsLocks, KnowsItsSocket, LiveSocketsAreServed,
       Writing, Listening, At

\* A process that moves to a phase keeps its command.
LEMMA Moved ==
  ASSUME TypeOK, NEW p \in Process, NEW to \in Phase
  PROVE  /\ [proc[p] EXCEPT !.phase = to] \in Started
         /\ [proc[p] EXCEPT !.phase = to].phase = to
         /\ Goto(p, to) => proc' = [proc EXCEPT ![p] = [proc[p] EXCEPT !.phase = to]]
<1>1. proc[p] \in Started
  BY DEF TypeOK
<1>2. [proc[p] EXCEPT !.phase = to] \in Started /\ [proc[p] EXCEPT !.phase = to].phase = to
  BY <1>1 DEF Started
<1> QED
  BY <1>2 DEF Goto

LEMMA PhaseAfter ==
  ASSUME TypeOK, NEW p \in Process, NEW to, Goto(p, to)
  PROVE  \A q \in Process : proc'[q].phase = IF q = p THEN to ELSE proc[q].phase
<1>1. proc \in [Process -> Started]
  BY DEF TypeOK
<1> QED
  BY <1>1 DEF Goto, Started

\* The end of a process releases what it held and leaves its socket file dead.
LEMMA ExitPreserves ==
  ASSUME IInv, NEW p \in Process, Exit(p)
  PROVE  IInv'
<1> USE ConstantsAssumption
<1>1. TypeOK'
  BY DEF IInv, Exit, TypeOK, Idle, Started, Phase, SocketFile, Database, Writing, Listening, At
<1>2. HoldsLocks'
  BY DEF IInv, Exit, TypeOK, HoldsLocks, Idle, Writing, Listening, At
<1>3. KnowsItsSocket'
  BY DEF IInv, Exit, TypeOK, KnowsItsSocket, Idle, At
<1>4. LiveSocketsAreServed'
  BY DEF IInv, Exit, TypeOK, LiveSocketsAreServed, Idle, At, SocketFile
<1> QED
  BY <1>1, <1>2, <1>3, <1>4 DEF IInv

\* A file at a free path is nobody's socket.
LEMMA PlacingPreserves ==
  ASSUME IInv, NEW s \in SocketPath, PlaceFile(s)
  PROVE  IInv'
<1> USE ConstantsAssumption
<1>1. TypeOK'
  BY DEF IInv, PlaceFile, TypeOK, SocketFile, Writing, Listening, At
<1>2. HoldsLocks'
  BY DEF IInv, PlaceFile, HoldsLocks, Writing, Listening, At
<1>3. KnowsItsSocket'
  BY DEF IInv, PlaceFile, TypeOK, KnowsItsSocket, At
<1>4. LiveSocketsAreServed'
  BY DEF IInv, PlaceFile, TypeOK, LiveSocketsAreServed, At
<1> QED
  BY <1>1, <1>2, <1>3, <1>4 DEF IInv

(***************************************************************************)
(* A process that is not listening moves on and neither listens nor ends:  *)
(* sockets and listener locks are as before.                               *)
(***************************************************************************)
LEMMA QuietStep ==
  ASSUME IInv, NEW p \in Process, NEW s \in Started,
         ~Listening(p), s.phase \notin {"probe", "unlink", "bind", "serving"},
         proc' = [proc EXCEPT ![p] = s],
         UNCHANGED <<flock, sock>>,
         db' \in Database, starts' \in 0 .. MaxStarts,
         IF s.phase \in {"migrating", "indexing", "publishing"}
         THEN writer' = p /\ writer \in {None, p}
         ELSE writer' = IF writer = p THEN None ELSE writer
  PROVE  IInv'
<1> USE ConstantsAssumption
<1>1. TypeOK'
  <2>1. /\ proc' \in [Process -> Started]
        /\ sock' \in [SocketPath -> SocketFile]
    BY DEF IInv, TypeOK
  <2>2. writer' \in {q \in Process : Writing(q)'} \cup {None}
    BY DEF IInv, TypeOK, Writing, At
  <2>3. flock' \in [LockPath -> {q \in Process : Listening(q)'} \cup {None}]
    BY DEF IInv, TypeOK, Listening
  <2> QED
    BY <2>1, <2>2, <2>3 DEF TypeOK
<1>2. HoldsLocks'
  <2> SUFFICES ASSUME NEW q \in Process
               PROVE  /\ Writing(q)' => writer' = q
                      /\ Listening(q)' => flock'[LockOf[q]] = q
    BY DEF HoldsLocks
  <2>1. CASE q = p
    BY <2>1 DEF IInv, TypeOK, Writing, Listening, At
  <2>2. CASE q # p
    BY <2>2 DEF IInv, TypeOK, HoldsLocks, Writing, Listening, At
  <2> QED
    BY <2>1, <2>2
<1>3. KnowsItsSocket'
  BY DEF IInv, TypeOK, KnowsItsSocket, At
<1>4. LiveSocketsAreServed'
  <2> SUFFICES ASSUME NEW t \in SocketPath, sock[t] \in Process
               PROVE  proc'[sock[t]].phase = "serving" /\ SocketOf[sock[t]] = t
    BY DEF LiveSocketsAreServed, At
  <2>1. proc[sock[t]].phase = "serving" /\ SocketOf[sock[t]] = t
    BY DEF IInv, LiveSocketsAreServed, At
  <2>2. sock[t] # p
    BY <2>1 DEF Listening
  <2> QED
    BY <2>1, <2>2 DEF IInv, TypeOK
<1> QED
  BY <1>1, <1>2, <1>3, <1>4 DEF IInv

\* Opening, migrating, indexing: what happens before a process listens.
LEMMA PreparingPreserves ==
  ASSUME IInv, NEW p \in Process,
         \/ Open(p) \/ LockToMigrate(p) \/ Migrate(p)
         \/ BindRoot(p) \/ LockToIndex(p) \/ CheckRoot(p) \/ Publish(p)
  PROVE  IInv'
<1>1. TypeOK
  BY DEF IInv
<1>2. writer = p => Writing(p)
  BY <1>1, ConstantsAssumption DEF ConstantsAssumption, TypeOK
<1>8. CASE CheckRoot(p)
  <2> DEFINE s == [proc[p] EXCEPT !.phase = "publishing"]
  <2>1. s \in Started /\ s.phase = "publishing" /\ proc' = [proc EXCEPT ![p] = s]
    BY <1>1, <1>8, Moved DEF CheckRoot, Phase
  <2>2. writer = p
    BY <1>8 DEF IInv, CheckRoot, HoldsLocks, Writing, At
  <2>3. ~Listening(p) /\ db' \in Database /\ starts' \in 0 .. MaxStarts
    BY <1>1, <1>8 DEF CheckRoot, At, Listening, TypeOK
  <2> QED
    BY <1>8, <2>1, <2>2, <2>3, QuietStep DEF CheckRoot
<1>3. CASE Open(p)
  <2>1. PICK c \in Commands[p] :
          proc' = [proc EXCEPT ![p] =
            [phase |-> IF db.version = VersionOf[p] THEN "opened" ELSE "migrate",
             command |-> c]]
    BY <1>3 DEF Open
  <2> DEFINE s == [phase |-> IF db.version = VersionOf[p] THEN "opened" ELSE "migrate",
                   command |-> c]
  <2>2. s \in Started /\ s.phase \in {"opened", "migrate"}
    <3>1. c \in {"index", "serve", "serve --index"}
      BY ConstantsAssumption DEF ConstantsAssumption
    <3> QED
      BY <3>1 DEF Started, Phase
  <2>3. writer # p /\ ~Listening(p)
    BY <1>2, <1>3 DEF Open, At, Writing, Listening
  <2>4. starts' \in 0 .. MaxStarts
    <3>1. starts \in 0 .. MaxStarts
      BY <1>1 DEF TypeOK
    <3>2. starts < MaxStarts /\ starts' = starts + 1
      BY <1>3 DEF Open
    <3>3. MaxStarts \in Nat
      BY ConstantsAssumption DEF ConstantsAssumption
    <3> QED
      BY <3>1, <3>2, <3>3
  <2>5. db' \in Database
    BY <1>1, <1>3 DEF Open, TypeOK
  <2> QED
    BY <1>3, <2>1, <2>2, <2>3, <2>4, <2>5, QuietStep DEF Open
<1>4. CASE LockToMigrate(p) \/ LockToIndex(p)
  <2>1. PICK to \in {"migrating", "indexing"} :
          /\ At(p, "migrate") \/ At(p, "index")
          /\ writer = None /\ writer' = p
          /\ Goto(p, to)
          /\ UNCHANGED <<db, flock, sock, starts>>
    BY <1>4 DEF LockToMigrate, LockToIndex, LockDatabase, DatabaseFree
  <2> DEFINE s == [proc[p] EXCEPT !.phase = to]
  <2>2. s \in Started /\ s.phase = to /\ proc' = [proc EXCEPT ![p] = s]
    <3>1. to \in Phase
      BY DEF Phase
    <3> QED
      BY <1>1, <2>1, <3>1, Moved
  <2>3. ~Listening(p) /\ db' \in Database /\ starts' \in 0 .. MaxStarts
    BY <1>1, <2>1 DEF At, Listening, TypeOK
  <2> QED
    BY <2>1, <2>2, <2>3, QuietStep
<1>5. CASE Migrate(p)
  <2> DEFINE s == [proc[p] EXCEPT !.phase = "opened"]
  <2>1. s \in Started /\ s.phase = "opened" /\ proc' = [proc EXCEPT ![p] = s]
    BY <1>1, <1>5, Moved DEF Migrate, Phase
  <2>2. writer = p /\ writer' = None
    BY <1>5 DEF IInv, Migrate, DropGuard, HoldsLocks, Writing, At
  <2>3. ~Listening(p) /\ db' \in Database /\ starts' \in 0 .. MaxStarts
    BY <1>1, <1>5, ConstantsAssumption
    DEF ConstantsAssumption, Migrate, At, Listening, TypeOK, Database
  <2> QED
    BY <1>5, <2>1, <2>2, <2>3, QuietStep DEF Migrate
<1>6. CASE BindRoot(p)
  <2>1. PICK to \in {"listen", "index"} : Goto(p, to)
    BY <1>6 DEF BindRoot
  <2> DEFINE s == [proc[p] EXCEPT !.phase = to]
  <2>2. s \in Started /\ s.phase = to /\ proc' = [proc EXCEPT ![p] = s]
    <3>1. to \in Phase
      BY DEF Phase
    <3> QED
      BY <1>1, <2>1, <3>1, Moved
  <2>3. writer # p /\ ~Listening(p) /\ db' \in Database /\ starts' \in 0 .. MaxStarts
    BY <1>1, <1>2, <1>6 DEF BindRoot, At, Writing, Listening, TypeOK
  <2> QED
    BY <1>6, <2>1, <2>2, <2>3, QuietStep DEF BindRoot
<1>7. CASE Publish(p)
  <2>1. PICK s \in Started : proc' = [proc EXCEPT ![p] = s] /\ s.phase \in {"idle", "listen"}
    <3>1. Idle \in Started /\ Idle.phase = "idle"
      BY DEF Idle, Started, Phase
    <3>2. /\ [proc[p] EXCEPT !.phase = "listen"] \in Started
          /\ [proc[p] EXCEPT !.phase = "listen"].phase = "listen"
      BY <1>1, Moved DEF Phase
    <3>3. proc' = [proc EXCEPT ![p] = IF proc[p].command = "index" THEN Idle
                                       ELSE [proc[p] EXCEPT !.phase = "listen"]]
      BY <1>7 DEF Publish
    <3> QED
      BY <3>1, <3>2, <3>3
  <2>2. writer = p /\ writer' = None
    BY <1>7 DEF IInv, Publish, DropGuard, HoldsLocks, Writing, At
  <2>3. ~Listening(p) /\ db' \in Database /\ starts' \in 0 .. MaxStarts
    BY <1>1, <1>7, ConstantsAssumption
    DEF ConstantsAssumption, Publish, At, Listening, TypeOK, Database
  <2> QED
    BY <1>7, <2>1, <2>2, <2>3, QuietStep DEF Publish
<1> QED
  BY <1>3, <1>4, <1>5, <1>6, <1>7, <1>8

(***************************************************************************)
(* Starting to listen.  The lock of the socket excludes every other        *)
(* process from its path, if the processes agree on the lock.              *)
(***************************************************************************)
LEMMA ListenersAgree ==
  ASSUME IInv, OneLockPerSocket, NEW p \in Process, NEW q \in Process,
         Listening(p), Listening(q), SocketOf[p] = SocketOf[q]
  PROVE  p = q
BY DEF IInv, OneLockPerSocket, HoldsLocks

LEMMA ListeningPreserves ==
  ASSUME IInv, OneLockPerSocket, NEW p \in Process,
         LockListener(p) \/ Probe(p) \/ Unlink(p) \/ Bind(p)
  PROVE  IInv'
<1>1. /\ TypeOK /\ HoldsLocks /\ KnowsItsSocket /\ LiveSocketsAreServed
      /\ SocketOf[p] \in SocketPath /\ LockOf[p] \in LockPath
      /\ None \notin Process /\ "stale" \notin Process
      /\ sock \in [SocketPath -> SocketFile]
  BY ConstantsAssumption DEF ConstantsAssumption, IInv, TypeOK
<1>2. PICK to \in {"probe", "bind", "unlink", "serving"} :
        /\ Goto(p, to)
        /\ to = "probe" <=> LockListener(p)
  BY DEF LockListener, Probe, Unlink, Bind, At, Goto
<1>3. ~Writing(p) /\ UNCHANGED <<db, writer, starts>>
  BY DEF LockListener, Probe, Unlink, Bind, At, Writing
<1>4. TypeOK'
  <2>1. proc' \in [Process -> Started]
    <3>1. to \in Phase
      BY DEF Phase
    <3>2. /\ [proc[p] EXCEPT !.phase = to] \in Started
          /\ proc' = [proc EXCEPT ![p] = [proc[p] EXCEPT !.phase = to]]
      BY <1>1, <1>2, <3>1, Moved
    <3>3. proc \in [Process -> Started]
      BY <1>1 DEF TypeOK
    <3> QED
      BY <3>2, <3>3
  <2>2. \A q \in Process : /\ Writing(q) => Writing(q)'
                           /\ Listening(q) => Listening(q)'
    BY <1>1, <1>2, <1>3 DEF Goto, TypeOK, Writing, Listening, At
  <2>3. Listening(p)'
    BY <1>1, <1>2 DEF Goto, TypeOK, Listening
  <2>4. flock' \in [LockPath -> {q \in Process : Listening(q)'} \cup {None}]
    <3>1. flock' = flock \/ flock' = [flock EXCEPT ![LockOf[p]] = p]
      BY DEF LockListener, Probe, Unlink, Bind
    <3> QED
      BY <1>1, <2>2, <2>3, <3>1 DEF TypeOK
  <2>5. sock' \in [SocketPath -> SocketFile]
    <3>1. \/ sock' = sock
          \/ sock' = [sock EXCEPT ![SocketOf[p]] = None]
          \/ sock' = [sock EXCEPT ![SocketOf[p]] = p]
      BY DEF LockListener, Probe, Unlink, Bind
    <3> QED
      BY <1>1, <3>1 DEF TypeOK, SocketFile
  <2>6. writer' \in {q \in Process : Writing(q)'} \cup {None}
    BY <1>1, <1>3, <2>2 DEF TypeOK
  <2>7. db' \in Database /\ starts' \in 0 .. MaxStarts
    BY <1>1, <1>3 DEF TypeOK
  <2> QED
    BY <2>1, <2>4, <2>5, <2>6, <2>7 DEF TypeOK
<1>5. HoldsLocks'
  <2> SUFFICES ASSUME NEW q \in Process
               PROVE  /\ Writing(q)' => writer' = q
                      /\ Listening(q)' => flock'[LockOf[q]] = q
    BY DEF HoldsLocks
  <2>1. Writing(q)' => writer' = q
    BY <1>1, <1>2, <1>3 DEF Goto, TypeOK, HoldsLocks, Writing, At
  <2>2. CASE LockListener(p) /\ Listening(q)'
    <3>1. /\ proc'[q].phase = IF q = p THEN "probe" ELSE proc[q].phase
          /\ flock[LockOf[p]] = None
          /\ flock' = [flock EXCEPT ![LockOf[p]] = p]
      BY <1>1, <2>2, PhaseAfter DEF LockListener, ListenerFree
    <3>2. LockOf[q] \in LockPath /\ DOMAIN flock = LockPath
      BY <1>1, ConstantsAssumption DEF ConstantsAssumption, TypeOK
    <3>3. q # p => Listening(q) /\ flock[LockOf[q]] = q
      BY <1>1, <2>2, <3>1 DEF Listening, HoldsLocks
    <3> QED
      BY <1>1, <2>1, <3>1, <3>2, <3>3
  <2>3. CASE ~LockListener(p) /\ Listening(q)'
    <3>1. flock' = flock /\ Listening(p)
      BY <2>3 DEF Probe, Unlink, Bind, Listening, At
    <3>2. Listening(q)
      BY <1>1, <1>2, <2>3, <3>1, PhaseAfter DEF Listening
    <3> QED
      BY <1>1, <2>1, <3>1, <3>2 DEF HoldsLocks
  <2> QED
    BY <2>1, <2>2, <2>3
<1>6. CASE LockListener(p)
  <2>3. /\ \A q \in Process : proc'[q].phase = IF q = p THEN "probe" ELSE proc[q].phase
        /\ proc[p].phase = "listen" /\ sock' = sock
    BY <1>1, <1>6, PhaseAfter DEF LockListener, At
  <2>1. KnowsItsSocket'
    BY <1>1, <2>3 DEF At, KnowsItsSocket
  <2>2. LiveSocketsAreServed'
    BY <1>1, <2>3 DEF At, LiveSocketsAreServed
  <2> QED
    BY <1>4, <1>5, <2>1, <2>2 DEF IInv
<1>7. CASE Probe(p)
  <2>1. sock[SocketOf[p]] \notin Process
    <3> SUFFICES ASSUME sock[SocketOf[p]] \in Process PROVE FALSE
      OBVIOUS
    <3> DEFINE q == sock[SocketOf[p]]
    <3>1. At(q, "serving") /\ SocketOf[q] = SocketOf[p]
      BY <1>1 DEF LiveSocketsAreServed
    <3>2. Listening(q) /\ Listening(p) /\ ~At(p, "serving")
      BY <1>7, <3>1 DEF Probe, At, Listening
    <3> QED
      BY <3>1, <3>2, ListenersAgree
  <2>2. \/ sock[SocketOf[p]] = None /\ Goto(p, "bind")
        \/ sock[SocketOf[p]] = "stale" /\ Goto(p, "unlink")
    BY <1>1, <1>7, <2>1 DEF Probe, IsSocket, TypeOK, SocketFile
  <2>5. PICK next \in {"bind", "unlink"} :
          /\ \A q \in Process : proc'[q].phase = IF q = p THEN next ELSE proc[q].phase
          /\ next = "bind" => sock[SocketOf[p]] \in {None, "other"}
          /\ next = "unlink" => sock[SocketOf[p]] = "stale"
    BY <1>1, <2>2, PhaseAfter
  <2>6. proc[p].phase = "probe" /\ sock' = sock
    BY <1>7 DEF Probe, At
  <2>3. KnowsItsSocket'
    BY <1>1, <2>5, <2>6 DEF At, KnowsItsSocket
  <2>4. LiveSocketsAreServed'
    BY <1>1, <2>5, <2>6 DEF At, LiveSocketsAreServed
  <2> QED
    BY <1>4, <1>5, <2>3, <2>4 DEF IInv
<1>8. CASE Unlink(p) \/ Bind(p)
  <2>1. Listening(p) /\ ~At(p, "serving")
    BY <1>8 DEF Unlink, Bind, At, Listening
  <2>2. \A q \in Process \ {p} : Listening(q) => SocketOf[q] # SocketOf[p]
    BY <2>1, ListenersAgree
  <2>3. sock[SocketOf[p]] \notin Process
    BY <1>1, <1>8 DEF Unlink, Bind, KnowsItsSocket
  <2>4. \/ sock' = [sock EXCEPT ![SocketOf[p]] = None] /\ Goto(p, "bind")
        \/ sock' = [sock EXCEPT ![SocketOf[p]] = p] /\ Goto(p, "serving")
    BY <1>8 DEF Unlink, Bind
  <2>7. PICK next \in {"bind", "serving"}, file \in {None, p} :
          /\ \A q \in Process : proc'[q].phase = IF q = p THEN next ELSE proc[q].phase
          /\ \A s \in SocketPath : sock'[s] = IF s = SocketOf[p] THEN file ELSE sock[s]
          /\ next = "bind" => file = None
          /\ next = "serving" => file = p
    <3>1. CASE sock' = [sock EXCEPT ![SocketOf[p]] = None] /\ Goto(p, "bind")
      BY <1>1, <3>1, PhaseAfter
    <3>2. CASE sock' = [sock EXCEPT ![SocketOf[p]] = p] /\ Goto(p, "serving")
      BY <1>1, <3>2, PhaseAfter
    <3> QED
      BY <2>4, <3>1, <3>2
  <2>8. \A q \in Process : SocketOf[q] \in SocketPath
    BY ConstantsAssumption DEF ConstantsAssumption
  <2>5. KnowsItsSocket'
    <3> SUFFICES ASSUME NEW q \in Process
                 PROVE  /\ At(q, "unlink")' => sock'[SocketOf[q]] = "stale"
                        /\ At(q, "bind")' => sock'[SocketOf[q]] \in {None, "other"}
                        /\ At(q, "serving")' => sock'[SocketOf[q]] = q
      BY DEF KnowsItsSocket
    <3>1. CASE q = p
      BY <2>7, <2>8, <3>1 DEF At
    <3>2. CASE q # p /\ Listening(q)
      BY <1>1, <2>2, <2>7, <2>8, <3>2 DEF At, KnowsItsSocket
    <3>3. CASE q # p /\ ~Listening(q)
      BY <2>7, <3>3 DEF At, Listening
    <3> QED
      BY <3>1, <3>2, <3>3
  <2>6. LiveSocketsAreServed'
    <3> SUFFICES ASSUME NEW s \in SocketPath, sock'[s] \in Process
                 PROVE  proc'[sock'[s]].phase = "serving" /\ SocketOf[sock'[s]] = s
      BY DEF LiveSocketsAreServed, At
    <3>1. CASE s = SocketOf[p]
      BY <1>1, <2>7, <3>1 DEF At
    <3>2. CASE s # SocketOf[p]
      BY <1>1, <2>1, <2>7, <3>2 DEF At, LiveSocketsAreServed
    <3> QED
      BY <3>1, <3>2
  <2> QED
    BY <1>4, <1>5, <2>5, <2>6 DEF IInv
<1> QED
  BY <1>6, <1>7, <1>8

\* No step breaks the invariant where one socket has one lock.
THEOREM Inductive == ASSUME OneLockPerSocket PROVE Spec => []IInv
<1>1. IInv /\ [Next]_vars => IInv'
  <2> SUFFICES ASSUME IInv, [Next]_vars PROVE IInv'
    OBVIOUS
  <2>1. CASE UNCHANGED vars
    BY <2>1, Stuttering
  <2>2. CASE Next
    <3>1. CASE \E p \in Process : Step(p)
      BY <3>1, ExitPreserves, PreparingPreserves, ListeningPreserves DEF Step
    <3>2. CASE \E s \in SocketPath : PlaceFile(s)
      BY <3>2, PlacingPreserves
    <3> QED
      BY <2>2, <3>1, <3>2 DEF Next
  <2> QED
    BY <2>1, <2>2
<1> QED
  BY <1>1, Initially, PTL DEF Spec
-----------------------------------------------------------------------------
(***************************************************************************)
(* Locks have a holder only while it does what they protect                *)
(* (docs/development.md:136).                                              *)
(***************************************************************************)
THEOREM LocksFollowPhases == ASSUME OneLockPerSocket PROVE Spec => []TypeOK
<1>1. IInv => TypeOK
  BY DEF IInv
<1> QED
  BY <1>1, Inductive, PTL

(***************************************************************************)
(* "Only a socket without a lock holder may be replaced" (serve.rs:139)    *)
(* holds where one socket has one lock.                                    *)
(***************************************************************************)
THEOREM DeadSocketsOnly ==
  ASSUME OneLockPerSocket PROVE Spec => []OnlyDeadSocketsAreReplaced
<1>1. IInv => OnlyDeadSocketsAreReplaced
  BY DEF IInv, KnowsItsSocket, OnlyDeadSocketsAreReplaced
<1> QED
  BY <1>1, Inductive, PTL

\* Then a running service is the one its socket path names.
THEOREM ServicesStayReachable ==
  ASSUME OneLockPerSocket PROVE Spec => []RunningServicesAreReachable
<1>1. IInv => RunningServicesAreReachable
  BY DEF IInv, KnowsItsSocket, RunningServicesAreReachable
<1> QED
  BY <1>1, Inductive, PTL

(***************************************************************************)
(* "refusing to replace a non-socket path" (serve.rs:136).  A start looks  *)
(* and removes at two moments, and another program may take the path when  *)
(* it is free; yet what is removed is the dead socket that was seen, since *)
(* the listener lock, held at both moments, keeps every other start from   *)
(* removing it first.  So a file that is no socket outlives every start.   *)
(***************************************************************************)
THEOREM FilesOutliveStarts ==
  ASSUME OneLockPerSocket PROVE Spec => OtherFilesSurvive
<1>1. IInv /\ [Next]_vars => [\A s \in SocketPath : sock[s] = "other" => sock'[s] = "other"]_vars
  <2> SUFFICES ASSUME IInv, [Next]_vars, vars' # vars, NEW s \in SocketPath, sock[s] = "other"
               PROVE  sock'[s] = "other"
    OBVIOUS
  <2>0. CASE \E t \in SocketPath : PlaceFile(t)
    BY <2>0, ConstantsAssumption DEF PlaceFile, IInv, TypeOK
  <2>1. SUFFICES ASSUME NEW p \in Process, Step(p) PROVE sock'[s] = "other"
    BY <2>0 DEF Next
  <2>2. sock \in [SocketPath -> SocketFile] /\ SocketOf[p] \in SocketPath /\ None # "other"
    BY ConstantsAssumption DEF IInv, TypeOK
  <2>3. CASE Exit(p)
    BY <2>2, <2>3, ConstantsAssumption DEF Exit
  <2>4. CASE Unlink(p)
    <3>1. sock[SocketOf[p]] = "stale"
      BY <2>4 DEF Unlink, IInv, KnowsItsSocket
    <3> QED
      BY <2>2, <2>4, <3>1 DEF Unlink
  <2>5. CASE Bind(p)
    BY <2>2, <2>5 DEF Bind
  <2>6. CASE ~Exit(p) /\ ~Unlink(p) /\ ~Bind(p)
    BY <2>1, <2>6 DEF Step, Open, LockToMigrate, Migrate, BindRoot, LockToIndex, LockDatabase, CheckRoot,
                      Publish, LockListener, Probe
  <2> QED
    BY <2>3, <2>4, <2>5, <2>6
<1> QED
  BY <1>1, Inductive, PTL DEF Spec, OtherFilesSurvive
-----------------------------------------------------------------------------
(***************************************************************************)
(* The pass of a process runs under the writer lock from the comparison of *)
(* the root to the commit, and what it compared is still so.  This does    *)
(* not need one lock per socket.                                           *)
(***************************************************************************)
RootIsHeld ==
  /\ proc \in [Process -> Started]
  /\ \A p \in Process : /\ Writing(p) => writer = p
                        /\ At(p, "publishing") => OwnRoot(p)

LEMMA RootIsHeldAtFirst == Init => RootIsHeld
BY DEF Init, RootIsHeld, Idle, Started, Phase, Writing, At

\* A process that was killed holds nothing and publishes nothing.
LEMMA RootIsHeldByExit ==
  ASSUME RootIsHeld, NEW p \in Process, Exit(p)
  PROVE  RootIsHeld'
BY DEF Exit, RootIsHeld, Idle, Started, Phase, Writing, At, OwnRoot

\* The command of a process does not matter to the lock.
LEMMA RootIsHeldByMove ==
  ASSUME RootIsHeld, NEW p \in Process, NEW s \in Started,
         proc' = [proc EXCEPT ![p] = s],
         s.phase \in {"migrating", "indexing", "publishing"}
           => writer \in {None, p} /\ writer' = p,
         s.phase \notin {"migrating", "indexing", "publishing"}
           => writer' = writer \/ writer = p,
         s.phase = "publishing" => OwnRoot(p),
         db' = db \/ (writer = p /\ s.phase # "publishing")
  PROVE  RootIsHeld'
<1>1. proc' \in [Process -> Started] /\ proc'[p] = s
  BY DEF RootIsHeld
<1>2. ASSUME NEW q \in Process
      PROVE  /\ Writing(q)' => writer' = q
             /\ At(q, "publishing")' => OwnRoot(q)'
  <2>1. CASE q = p
    BY <1>1, <2>1 DEF RootIsHeld, Writing, At, OwnRoot
  <2>2. CASE q # p
    <3>1. proc'[q] = proc[q]
      BY <2>2 DEF RootIsHeld
    <3>2. Writing(q) => writer = q /\ q # None
      BY ConstantsAssumption DEF ConstantsAssumption, RootIsHeld
    <3>3. At(q, "publishing") => Writing(q) /\ OwnRoot(q)
      BY DEF RootIsHeld, At, Writing
    <3> QED
      BY <2>2, <3>1, <3>2, <3>3 DEF Writing, At, OwnRoot
  <2> QED
    BY <2>1, <2>2
<1> QED
  BY <1>1, <1>2 DEF RootIsHeld

LEMMA MovedPhase ==
  ASSUME RootIsHeld, NEW p \in Process, NEW to \in Phase, Goto(p, to)
  PROVE  \E s \in Started : s.phase = to /\ proc' = [proc EXCEPT ![p] = s]
<1>1. proc[p] \in Started
  BY DEF RootIsHeld
<1>2. [proc[p] EXCEPT !.phase = to] \in Started /\ [proc[p] EXCEPT !.phase = to].phase = to
  BY <1>1 DEF Started
<1> QED
  BY <1>2 DEF Goto

LEMMA RootIsHeldByStep ==
  ASSUME RootIsHeld, NEW p \in Process, Step(p)
  PROVE  RootIsHeld'
<1>1. CASE Exit(p)
  BY <1>1, RootIsHeldByExit
<1>2. CASE Open(p)
  <2>1. PICK c \in Commands[p] :
          proc' = [proc EXCEPT ![p] =
            [phase |-> IF db.version = VersionOf[p] THEN "opened" ELSE "migrate",
             command |-> c]]
    BY <1>2 DEF Open
  <2>2. c \in {"index", "serve", "serve --index"}
    BY ConstantsAssumption DEF ConstantsAssumption
  <2>3. PICK to \in {"opened", "migrate"} :
          proc' = [proc EXCEPT ![p] = [phase |-> to, command |-> c]]
    BY <2>1
  <2>4. [phase |-> to, command |-> c] \in Started
    BY <2>2 DEF Started, Phase
  <2> QED
    BY <1>2, <2>3, <2>4, RootIsHeldByMove DEF Open
<1>3. CASE LockToMigrate(p) \/ LockToIndex(p)
  <2>1. PICK to \in {"migrating", "indexing"} :
          Goto(p, to) /\ writer = None /\ writer' = p /\ db' = db
    BY <1>3 DEF LockToMigrate, LockToIndex, LockDatabase, DatabaseFree
  <2>2. PICK s \in Started : s.phase = to /\ proc' = [proc EXCEPT ![p] = s]
    BY <2>1, MovedPhase DEF Phase
  <2> QED
    BY <2>1, <2>2, RootIsHeldByMove
<1>4. CASE Migrate(p)
  <2>1. writer = p
    BY <1>4 DEF Migrate, RootIsHeld, Writing, At
  <2>2. PICK s \in Started : s.phase = "opened" /\ proc' = [proc EXCEPT ![p] = s]
    BY <1>4, MovedPhase DEF Migrate, Phase
  <2> QED
    BY <2>1, <2>2, RootIsHeldByMove
<1>5. CASE BindRoot(p)
  <2>1. PICK to \in {"listen", "index"} : Goto(p, to)
    BY <1>5 DEF BindRoot
  <2>2. PICK s \in Started : s.phase = to /\ proc' = [proc EXCEPT ![p] = s]
    BY <2>1, MovedPhase DEF Phase
  <2> QED
    BY <1>5, <2>2, RootIsHeldByMove DEF BindRoot
<1>6. CASE CheckRoot(p)
  <2>1. writer = p
    BY <1>6 DEF CheckRoot, RootIsHeld, Writing, At
  <2>2. PICK s \in Started : s.phase = "publishing" /\ proc' = [proc EXCEPT ![p] = s]
    BY <1>6, MovedPhase DEF CheckRoot, Phase
  <2> QED
    BY <1>6, <2>1, <2>2, RootIsHeldByMove DEF CheckRoot
<1>7. CASE Publish(p)
  <2>1. writer = p
    BY <1>7 DEF Publish, RootIsHeld, Writing, At
  <2>2. PICK s \in Started : s.phase \in {"idle", "listen"} /\ proc' = [proc EXCEPT ![p] = s]
    <3>1. Idle \in Started /\ Idle.phase = "idle"
      BY DEF Idle, Started, Phase
    <3>2. proc[p] \in Started
      BY DEF RootIsHeld
    <3>3. /\ [proc[p] EXCEPT !.phase = "listen"] \in Started
          /\ [proc[p] EXCEPT !.phase = "listen"].phase = "listen"
      BY <3>2 DEF Started, Phase
    <3>4. proc' = [proc EXCEPT ![p] = IF proc[p].command = "index" THEN Idle
                                       ELSE [proc[p] EXCEPT !.phase = "listen"]]
      BY <1>7 DEF Publish
    <3> QED
      BY <3>1, <3>3, <3>4
  <2> QED
    BY <2>1, <2>2, RootIsHeldByMove
<1>8. CASE LockListener(p) \/ Probe(p) \/ Unlink(p) \/ Bind(p)
  <2>1. PICK to \in {"probe", "bind", "unlink", "serving"} : Goto(p, to)
    BY <1>8 DEF LockListener, Probe, Unlink, Bind
  <2>2. PICK s \in Started : s.phase = to /\ proc' = [proc EXCEPT ![p] = s]
    BY <2>1, MovedPhase DEF Phase
  <2>3. db' = db /\ writer' = writer
    BY <1>8 DEF LockListener, Probe, Unlink, Bind
  <2> QED
    BY <2>2, <2>3, RootIsHeldByMove
<1> QED
  BY <1>1, <1>2, <1>3, <1>4, <1>5, <1>6, <1>7, <1>8 DEF Step

(***************************************************************************)
(* "An existing database is bound to its indexed root"                     *)
(* (docs/architecture.md:51): the commit, which does not compare, writes   *)
(* the root that the pass compared when it began, because no other process *)
(* held the writer lock in between.                                        *)
(***************************************************************************)
THEOREM RootStaysBound == Spec => RootIsBound
<1>1. RootIsHeld /\ [Next]_vars => RootIsHeld'
  <2> SUFFICES ASSUME RootIsHeld, [Next]_vars PROVE RootIsHeld'
    OBVIOUS
  <2>1. CASE UNCHANGED vars \/ (\E s \in SocketPath : PlaceFile(s))
    BY <2>1 DEF vars, PlaceFile, RootIsHeld, Writing, At, OwnRoot
  <2>2. CASE \E p \in Process : Step(p)
    BY <2>2, RootIsHeldByStep
  <2> QED
    BY <2>1, <2>2 DEF Next
<1>2. RootIsHeld /\ [Next]_vars => [db.root # None => db'.root = db.root]_vars
  <2> SUFFICES ASSUME RootIsHeld, [Next]_vars, vars' # vars, db.root # None
               PROVE  db'.root = db.root
    OBVIOUS
  <2>1. CASE \E s \in SocketPath : PlaceFile(s)
    BY <2>1 DEF PlaceFile
  <2>2. SUFFICES ASSUME NEW p \in Process, Step(p) PROVE db'.root = db.root
    BY <2>1 DEF Next
  <2>3. CASE Publish(p)
    <3>1. OwnRoot(p)
      BY <2>3 DEF Publish, RootIsHeld
    <3> QED
      BY <2>3, <3>1 DEF Publish, OwnRoot
  <2>4. CASE Migrate(p)
    BY <2>4 DEF Migrate
  <2>5. CASE ~Publish(p) /\ ~Migrate(p)
    BY <2>2, <2>5 DEF Step, Exit, Open, LockToMigrate, LockToIndex, LockDatabase, BindRoot,
                      CheckRoot, LockListener, Probe, Unlink, Bind
  <2> QED
    BY <2>3, <2>4, <2>5
<1> QED
  BY <1>1, <1>2, RootIsHeldAtFirst, PTL DEF Spec, RootIsBound
=============================================================================
