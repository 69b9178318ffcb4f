-------------------------- MODULE ServiceConnections --------------------------
(***************************************************************************)
(* Harnesses that talk to one socket service through a proxy each:         *)
(* run_proxy, the accept loop of run_socket and serve_connection of        *)
(* src/serve.rs, with RpcServer::handle_line of src/rpc.rs behind the      *)
(* mutex that all connection threads share.                                *)
(*                                                                         *)
(* Each direction of a socket holds a bounded number of frames, and some   *)
(* harnesses never read, so a writer may wait forever for its reader.  A   *)
(* handler may panic, the service may be stopped and a proxy killed at any *)
(* moment.                                                                 *)
(***************************************************************************)
EXTENDS Naturals, SequencesExt

CONSTANTS Client,    \* a harness with its proxy
          Reader,    \* those that read their answers
          Mortal,    \* those whose proxy may be killed
          ScriptsOf, \* what each client may send before it closes stdin: kinds of frames
          Capacity,  \* frames a direction of a socket holds
          None

VARIABLES script,   \* [Client -> what it sends], fixed from the start
          sent,     \* [Client -> frames its proxy has read from stdin]
          queue,    \* [Client -> the frames in both directions of its socket]
          ended,    \* [Client -> the directions whose writing end is closed]
          input,    \* [Client -> main thread of the proxy: stdin to socket]
          output,   \* [Client -> output thread of the proxy: socket to stdout]
          conn,     \* [Client -> connection thread of the service]
          mutex,    \* the connection that holds the server, or None
          poisoned, \* a handler panicked while it held the mutex
          running,  \* the service has not been stopped
          got       \* [Client -> answers its harness has read from stdout]

vars == <<script, sent, queue, ended, input, output, conn, mutex, poisoned, running, got>>

(***************************************************************************)
(* A request gets an answer, also if it is malformed or oversized; a       *)
(* notification and an empty line get none; a frame that is not UTF-8 ends *)
(* the connection; a fatal one makes the handler panic.                    *)
(***************************************************************************)
Kind == {"request", "silent", "garbled", "fatal"}

ASSUME ConstantsAssumption ==
  /\ Reader \subseteq Client
  /\ Mortal \subseteq Client
  /\ ScriptsOf \in [Client -> SUBSET Seq(Kind)]
  /\ Capacity \in Nat \ {0}
  /\ None \notin Client \cup Nat

\* A frame is its position in the script; an answer is the position of its request.
KindOf(c, frame) == script[c][frame]

Hands == [at |-> "copy", hand |-> None]

HasRoom(c, q) == Len(queue[c][q]) < Capacity

Put(c, q, frame) == queue' = [queue EXCEPT ![c][q] = Append(@, frame)]

Take(c, q) == queue' = [queue EXCEPT ![c][q] = Tail(@)]

AtEof(c, q) == queue[c][q] = <<>> /\ q \in ended[c]

Close(c, q) == ended' = [ended EXCEPT ![c] = @ \cup {q}]
-----------------------------------------------------------------------------
\* The service end of the socket is closed.
HungUp(c) == conn[c].at \in {"closed", "broken"}

ProxyRead(c) ==
  /\ input[c] = Hands
  /\ sent[c] < Len(script[c])
  /\ sent' = [sent EXCEPT ![c] = @ + 1]
  /\ input' = [input EXCEPT ![c].hand = sent[c] + 1]
  /\ UNCHANGED <<script, queue, ended, output, conn, mutex, poisoned, running, got>>

ProxyWrite(c) ==
  /\ input[c].at = "copy" /\ input[c].hand # None
  /\ ~HungUp(c)
  /\ HasRoom(c, "up")
  /\ Put(c, "up", input[c].hand)
  /\ input' = [input EXCEPT ![c] = Hands]
  /\ UNCHANGED <<script, sent, ended, output, conn, mutex, poisoned, running, got>>

\* Mutant: the service is not told that stdin has ended.
NoShutdown(c) == ended' = ended

\* writer.shutdown(Shutdown::Write)
Shutdown(c) == Close(c, "up")

\* stdin has ended, or the write failed: the copy is over either way.
ProxyFinishInput(c) ==
  /\ input[c].at = "copy"
  /\ \/ input[c].hand = None /\ sent[c] = Len(script[c])
     \/ input[c].hand # None /\ HungUp(c)
  /\ input' = [input EXCEPT ![c] = [at |-> "join", hand |-> None]]
  /\ Shutdown(c)
  /\ UNCHANGED <<script, sent, queue, output, conn, mutex, poisoned, running, got>>

\* Mutant: the proxy exits without joining its output thread.
NotJoined(c) == TRUE

Joined(c) == output[c].at = "done"

ProxyExit(c) ==
  /\ input[c].at = "join"
  /\ Joined(c)
  /\ input' = [input EXCEPT ![c].at = "done"]
  /\ output' = [output EXCEPT ![c] = [at |-> "done", hand |-> None]]
  /\ UNCHANGED <<script, sent, queue, ended, conn, mutex, poisoned, running, got>>

OutputRead(c) ==
  /\ output[c] = Hands
  /\ queue[c].down # <<>>
  /\ output' = [output EXCEPT ![c].hand = Head(queue[c].down)]
  /\ Take(c, "down")
  /\ UNCHANGED <<script, sent, ended, input, conn, mutex, poisoned, running, got>>

\* The write to stdout waits for the harness to read it.
OutputWrite(c) ==
  /\ output[c].at = "copy" /\ output[c].hand # None
  /\ c \in Reader
  /\ got' = [got EXCEPT ![c] = Append(@, output[c].hand)]
  /\ output' = [output EXCEPT ![c] = Hands]
  /\ UNCHANGED <<script, sent, queue, ended, input, conn, mutex, poisoned, running>>

OutputEof(c) ==
  /\ output[c] = Hands
  /\ AtEof(c, "down")
  /\ output' = [output EXCEPT ![c].at = "done"]
  /\ UNCHANGED <<script, sent, queue, ended, input, conn, mutex, poisoned, running, got>>

\* A signal: the kernel closes the proxy's end of the socket and of the pipes.
ProxyKilled(c) ==
  /\ c \in Mortal
  /\ input[c].at \in {"copy", "join"}
  /\ input' = [input EXCEPT ![c] = [at |-> "killed", hand |-> None]]
  /\ output' = [output EXCEPT ![c] = [at |-> "done", hand |-> None]]
  /\ Close(c, "up")
  /\ UNCHANGED <<script, sent, queue, conn, mutex, poisoned, running, got>>
-----------------------------------------------------------------------------
Become(c, at, hand) == conn' = [conn EXCEPT ![c] = [at |-> at, hand |-> hand]]

\* Leaving serve_connection drops both handles of the stream.
HangUp(c, how) == Become(c, how, None) /\ Close(c, "down")

Accept(c) ==
  /\ running
  /\ conn[c].at = "queued"
  /\ Become(c, "read", None)
  /\ UNCHANGED <<script, sent, queue, ended, input, output, mutex, poisoned, running, got>>

\* read_frame: a frame, an encoding error, or the end of the stream.
ConnRead(c) ==
  /\ conn[c].at = "read"
  /\ queue[c].up # <<>>
  /\ LET frame == Head(queue[c].up)
     IN  IF KindOf(c, frame) = "garbled"
         THEN HangUp(c, "broken")
         ELSE Become(c, "wait", frame) /\ UNCHANGED ended
  /\ Take(c, "up")
  /\ UNCHANGED <<script, sent, input, output, mutex, poisoned, running, got>>

ConnEof(c) ==
  /\ conn[c].at = "read"
  /\ AtEof(c, "up")
  /\ HangUp(c, "closed")
  /\ UNCHANGED <<script, sent, queue, input, output, mutex, poisoned, running, got>>

\* server.lock(): waits for the holder; a poisoned mutex ends the connection.
Lock(c) ==
  /\ conn[c].at = "wait"
  /\ mutex = None
  /\ IF poisoned
     THEN HangUp(c, "broken") /\ UNCHANGED mutex
     ELSE Become(c, "handle", conn[c].hand) /\ mutex' = c /\ UNCHANGED ended
  /\ UNCHANGED <<script, sent, queue, input, output, poisoned, running, got>>

\* Mutant: notifications and empty lines are answered.
AnsweredAnyway(kind) == kind \in {"request", "silent"}

\* handle_line, frame_response
Answered(kind) == kind = "request"

\* Mutant: the answer is written before the server is released.
HandleAndWrite(c) ==
  /\ conn[c].at = "handle"
  /\ KindOf(c, conn[c].hand) # "fatal"
  /\ HasRoom(c, "down")
  /\ mutex' = None
  /\ IF Answered(KindOf(c, conn[c].hand))
     THEN Put(c, "down", conn[c].hand) ELSE UNCHANGED queue
  /\ Become(c, "read", None)
  /\ UNCHANGED <<script, sent, ended, input, output, poisoned, running, got>>

\* The guard lives only in the block that computes the response.
Handle(c) ==
  /\ conn[c].at = "handle"
  /\ KindOf(c, conn[c].hand) # "fatal"
  /\ mutex' = None
  /\ IF Answered(KindOf(c, conn[c].hand))
     THEN Become(c, "write", conn[c].hand) ELSE Become(c, "read", None)
  /\ UNCHANGED <<script, sent, queue, ended, input, output, poisoned, running, got>>

\* Mutant: a panic does not give the mutex back.
PanicKeepsMutex(c) ==
  /\ conn[c].at = "handle"
  /\ KindOf(c, conn[c].hand) = "fatal"
  /\ poisoned' = TRUE
  /\ HangUp(c, "broken")
  /\ UNCHANGED <<script, sent, queue, input, output, mutex, running, got>>

\* Unwinding poisons and releases the mutex and drops the stream; only the thread dies.
Panic(c) ==
  /\ conn[c].at = "handle"
  /\ KindOf(c, conn[c].hand) = "fatal"
  /\ mutex' = None
  /\ poisoned' = TRUE
  /\ HangUp(c, "broken")
  /\ UNCHANGED <<script, sent, queue, input, output, running, got>>

\* The answer and its newline; writing to a proxy that is gone fails.
ConnWrite(c) ==
  /\ conn[c].at = "write"
  /\ \/ /\ output[c].at # "done"
        /\ HasRoom(c, "down")
        /\ Put(c, "down", conn[c].hand)
        /\ Become(c, "read", None)
        /\ UNCHANGED ended
     \/ /\ output[c].at = "done"
        /\ HangUp(c, "broken")
        /\ UNCHANGED queue
  /\ UNCHANGED <<script, sent, input, output, mutex, poisoned, running, got>>

\* The service process ends, with every connection, accepted or not.
Stop ==
  /\ running
  /\ running' = FALSE
  /\ mutex' = None
  /\ conn' = [c \in Client |->
       IF HungUp(c) THEN conn[c] ELSE [at |-> "broken", hand |-> None]]
  /\ ended' = [c \in Client |-> ended[c] \cup {"down"}]
  /\ UNCHANGED <<script, sent, queue, input, output, poisoned, got>>
-----------------------------------------------------------------------------
Init ==
  /\ script \in {s \in [Client -> UNION {ScriptsOf[c] : c \in Client}] :
                  \A c \in Client : s[c] \in ScriptsOf[c]}
  /\ sent = [c \in Client |-> 0]
  /\ queue = [c \in Client |-> [up |-> <<>>, down |-> <<>>]]
  /\ ended = [c \in Client |-> {}]
  /\ input = [c \in Client |-> Hands]
  /\ output = [c \in Client |-> Hands]
  /\ conn = [c \in Client |-> [at |-> "queued", hand |-> None]]
  /\ mutex = None
  /\ poisoned = FALSE
  /\ running = TRUE
  /\ got = [c \in Client |-> <<>>]

InputStep(c) == ProxyRead(c) \/ ProxyWrite(c) \/ ProxyFinishInput(c) \/ ProxyExit(c)
OutputStep(c) == OutputRead(c) \/ OutputWrite(c) \/ OutputEof(c)
ConnStep(c) ==
  ConnRead(c) \/ ConnEof(c) \/ Lock(c) \/ Handle(c) \/ Panic(c) \/ ConnWrite(c)

Next ==
  \/ \E c \in Client :
       \/ InputStep(c) \/ OutputStep(c) \/ ProxyKilled(c)
       \/ Accept(c) \/ ConnStep(c)
  \/ Stop

(***************************************************************************)
(* Every thread runs when it can.  A harness sends its script, closes      *)
(* stdin and, if it is a reader, reads at the same time as it writes.  The *)
(* mutex need not be fair: every other connection stops asking for it once *)
(* its script is through.                                                  *)
(***************************************************************************)
Fairness ==
  \A c \in Client :
    /\ WF_vars(InputStep(c))
    /\ WF_vars(OutputStep(c))
    /\ WF_vars(Accept(c))
    /\ WF_vars(ConnStep(c))

Spec == Init /\ [][Next]_vars /\ Fairness
=============================================================================
