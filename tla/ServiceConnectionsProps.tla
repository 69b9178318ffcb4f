------------------------ MODULE ServiceConnectionsProps ------------------------
(***************************************************************************)
(* What the clients of a shared socket service are promised.               *)
(***************************************************************************)
EXTENDS ServiceConnections, Framing

CONSTANT Spellings \* [Kind -> lines that are frames of that kind]

ASSUME SpellingsAssumption == \A kind \in Kind : Spellings[kind] \subseteq Seq(Byte)

SocketQueues == [up : Seq(Nat), down : Seq(Nat)]

Connecting ==
  [at : {"queued", "read", "wait", "handle", "write", "closed", "broken"}, hand : Nat \cup {None}]

\* The frames of a client's script.
Frame(c) == DOMAIN script[c]

(***************************************************************************)
(* The types of the variables.  Whoever handles a frame holds the mutex,   *)
(* so at most one connection does.                                         *)
(***************************************************************************)
TypeOK ==
  /\ queue \in [Client -> SocketQueues]
  /\ ended \in [Client -> SUBSET {"up", "down"}]
  /\ input \in [Client -> [at : {"copy", "join", "done", "killed"}, hand : Nat \cup {None}]]
  /\ output \in [Client -> [at : {"copy", "done"}, hand : Nat \cup {None}]]
  /\ conn \in [Client -> Connecting]
  /\ sent \in [Client -> Nat] /\ got \in [Client -> Seq(Nat)]
  /\ \A c \in Client :
       /\ script[c] \in ScriptsOf[c]
       /\ sent[c] \in Frame(c) \cup {0}
       /\ \A s \in {queue[c].up, queue[c].down, got[c]} : ToSet(s) \subseteq Frame(c)
       /\ \A q \in {"up", "down"} : Len(queue[c][q]) <= Capacity
       /\ {input[c].hand, output[c].hand, conn[c].hand} \subseteq Frame(c) \cup {None}
       /\ conn[c].at = "handle" <=> mutex = c
  /\ mutex \in Client \cup {None}
  /\ poisoned \in BOOLEAN /\ running \in BOOLEAN
-----------------------------------------------------------------------------
\* A sequence that consists of the elements of a set of numbers in their order.
IsListing(s, S) ==
  /\ ToSet(s) = S
  /\ \A j, k \in DOMAIN s : j < k => s[j] < s[k]

\* The requests among the frames after the m-th up to the n-th.
Requests(c, m, n) == {i \in Frame(c) : m < i /\ i <= n /\ KindOf(c, i) = "request"}

AllAnswered(c) == IsListing(got[c], Requests(c, 0, Len(script[c])))

(***************************************************************************)
(* Each request is answered once, in the order of the requests, and a      *)
(* notification never (rpc.rs:73), although connections share one server:  *)
(* what a harness has read are the answers to all requests up to one of    *)
(* its frames, and nothing else.                                           *)
(***************************************************************************)
AnswersInOrder ==
  \A c \in Client :
    \E n \in 0 .. sent[c] : IsListing(got[c], Requests(c, 0, n))

(***************************************************************************)
(* "Proxy stdin/stdout ... byte for byte" (serve.rs:190): a proxy that     *)
(* ends of itself has passed every answer on, unless the service broke the *)
(* connection.  stdin ends long before the answers do.                     *)
(***************************************************************************)
NothingIsLost ==
  \A c \in Client : input[c].at = "done" /\ conn[c].at # "broken" => AllAnswered(c)

(***************************************************************************)
(* A client that reads gets all its answers or loses its connection,       *)
(* whatever the others do: they may never read, panic the server, or die.  *)
(***************************************************************************)
ReadersAreServed ==
  \A c \in Reader :
    <>(AllAnswered(c) \/ conn[c].at = "broken" \/ input[c].at = "killed")

(***************************************************************************)
(* The proxy of a client that reads and closes stdin ends (serve.rs:206):  *)
(* joining the output thread is no deadlock, also when the service went    *)
(* away first.                                                             *)
(***************************************************************************)
ProxiesEnd == \A c \in Reader : <>(input[c].at \in {"done", "killed"})
-----------------------------------------------------------------------------

\* The bytes of some lines; the last newline may be missing.
Bytes(lines, terminated) ==
  LET bytes == FlattenSeq([k \in DOMAIN lines |-> Append(lines[k], "newline")])
  IN  IF terminated \/ bytes = <<>> THEN bytes ELSE Front(bytes)

\* Where a stream may be cut into buffers: at most twice, or after every byte.
Cuts(stream) == {DOMAIN stream} \cup {{p, q} : p, q \in DOMAIN stream \cup {0}}

\* No line is left of an empty one that lacks its newline.
Whole(lines, terminated) ==
  IF ~terminated /\ lines # <<>> /\ Last(lines) = <<>> THEN Front(lines) ELSE lines

FrameOf(line) ==
  IF Len(line) > MaxFrameBytes THEN TooLarge
  ELSE IF "stray" \in ToSet(line) THEN InvalidData
  ELSE Line(IF line # <<>> /\ Last(line) = "return" THEN Front(line) ELSE line)

\* The frames of some lines, up to the one that ends the connection.
Expected(lines) ==
  LET all == [k \in DOMAIN lines |-> FrameOf(lines[k])]
      bad == {k \in DOMAIN all : all[k] = InvalidData}
  IN  IF bad = {} THEN Append(all, EndOfStream) ELSE SubSeq(all, 1, Min(bad))

\* However a sequence of kinds is spelled and cut, its frames are read.
ReadWhole ==
  [kinds \in UNION {{SubSeq(s, 1, k) : k \in 0 .. Len(s)} : s \in UNION {ScriptsOf[c] : c \in Client}} |->
     \A lines \in {l \in [DOMAIN kinds -> UNION {Spellings[k] : k \in Kind}] :
                    \A i \in DOMAIN kinds : l[i] \in Spellings[kinds[i]]}, terminated \in BOOLEAN :
       LET stream == Bytes(lines, terminated)
       IN  \A cuts \in Cuts(stream) : Frames(stream, cuts) = Expected(Whole(lines, terminated))]

(***************************************************************************)
(* What a client has sent reaches the server as the frames it is, an       *)
(* oversized line as one refusal, up to a line that is no text: in         *)
(* whatever buffers the bytes arrive, at and above the limit, with or      *)
(* without a last newline.  read_frame (serve.rs:29).                      *)
(***************************************************************************)
FramesAreLines ==
  \A c \in Client : ReadWhole[SubSeq(script[c], 1, sent[c])]
=============================================================================
