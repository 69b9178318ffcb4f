----------------------- MODULE ServiceConnectionsProofs -----------------------
(***************************************************************************)
(* Connections to a socket service for any number of clients, scripts and  *)
(* frames in flight.                                                       *)
(***************************************************************************)
EXTENDS ServiceConnectionsProps, NaturalsInduction, SequenceTheorems, WellFoundedInduction, TLAPS

(***************************************************************************)
(* The inductive invariant.  TypeOK in two parts: what any client's state  *)
(* may be, and what one client's state may be beside its script.           *)
(***************************************************************************)
Shapes ==
  /\ queue \in [Client -> SocketQueues]
  /\ ended \in [Client -> SUBSET {"up", "down"}]
  /\ input \in [Client -> [at : {"copy", "join", "done", "killed"}, hand : Nat \cup {None}]]
  /\ output \in [Client -> [at : {"copy", "done"}, hand : Nat \cup {None}]]
  /\ conn \in [Client -> Connecting]
  /\ sent \in [Client -> Nat] /\ got \in [Client -> Seq(Nat)]
  /\ mutex \in Client \cup {None}
  /\ poisoned \in BOOLEAN /\ running \in BOOLEAN

InRange(c) ==
  /\ script[c] \in ScriptsOf[c]
  /\ sent[c] \in Frame(c) \cup {0}
  /\ \A s \in {queue[c].up, queue[c].down, got[c]} : ToSet(s) \subseteq Frame(c)
  /\ Len(queue[c].up) <= Capacity /\ Len(queue[c].down) <= Capacity
  /\ {input[c].hand, output[c].hand, conn[c].hand} \subseteq Frame(c) \cup {None}
  /\ conn[c].at = "handle" <=> mutex = c

\* How far the two halves of a proxy and its connection have come together.
Control(c) ==
  /\ "up" \in ended[c] <=> input[c].at # "copy"
  /\ "down" \in ended[c] => HungUp(c)
  /\ conn[c].at = "closed" => queue[c].up = <<>> /\ input[c].at # "copy"
  /\ conn[c].hand # None <=> conn[c].at \in {"wait", "handle", "write"}
  /\ conn[c].at = "write" => KindOf(c, conn[c].hand) = "request"
  /\ input[c].hand # None => input[c].at = "copy"
  /\ output[c].at = "done" =>
       /\ output[c].hand = None
       /\ input[c].at = "killed" \/ (queue[c].down = <<>> /\ HungUp(c))
  /\ input[c].at = "done" => output[c].at = "done"

\* The connection has taken the first p frames; those in flight to it follow
\* them, up to the last the proxy has read from stdin.
Upward(c, p) ==
  /\ \A k \in DOMAIN queue[c].up : queue[c].up[k] = p + k
  /\ p + Len(queue[c].up) <= sent[c]
  /\ input[c].at = "copy" /\ input[c].hand = None => sent[c] = p + Len(queue[c].up)
  /\ input[c].at = "copy" /\ input[c].hand # None => sent[c] = p + Len(queue[c].up) + 1
  /\ input[c].hand # None => input[c].hand = sent[c]
  /\ conn[c].hand # None => conn[c].hand = p
  /\ input[c].at \in {"join", "done"} /\ conn[c].at # "broken" =>
       p + Len(queue[c].up) = Len(script[c])

\* The requests among them up to the l-th are answered on stdout, those up to
\* the m-th are with the output thread, and those up to the n-th in the socket.
Downward(c, p, l, m, n) ==
  /\ l <= m /\ m <= n /\ n <= p
  /\ IsListing(got[c], Requests(c, 0, l))
  /\ input[c].at # "killed" \/ output[c].at # "done" =>
       /\ Requests(c, l, m) = {output[c].hand} \ {None}
       /\ IsListing(queue[c].down, Requests(c, m, n))
       /\ conn[c].at # "broken" => n = IF conn[c].hand = None THEN p ELSE p - 1

Local(c) ==
  /\ InRange(c)
  /\ Control(c)
  /\ \E p, l, m, n \in Nat : Upward(c, p) /\ Downward(c, p, l, m, n)

IInv == Shapes /\ \A c \in Client : Local(c)
-----------------------------------------------------------------------------
(***************************************************************************)
(* Listings: what appending to one and taking from one does.               *)
(***************************************************************************)
LEMMA OneMoved == \A a, b \in Nat : (a + 1) + (b - 1) = a + b
  OBVIOUS

LEMMA TailFacts ==
  ASSUME NEW s \in Seq(Nat), s # <<>>
  PROVE  /\ Len(s) \in Nat \ {0} /\ DOMAIN s = 1 .. Len(s) /\ 1 \in DOMAIN s /\ Head(s) = s[1]
         /\ Tail(s) \in Seq(Nat) /\ Len(Tail(s)) = Len(s) - 1
         /\ DOMAIN Tail(s) = 1 .. Len(s) - 1
         /\ \A k \in DOMAIN Tail(s) : k + 1 \in DOMAIN s /\ Tail(s)[k] = s[k + 1]
         /\ ToSet(Tail(s)) \subseteq ToSet(s) /\ Head(s) \in ToSet(s)
<1>1. /\ Len(s) \in Nat \ {0} /\ DOMAIN s = 1 .. Len(s) /\ Head(s) = s[1]
      /\ Tail(s) \in Seq(Nat) /\ Len(Tail(s)) = Len(s) - 1
      /\ DOMAIN Tail(s) = 1 .. Len(s) - 1
  OBVIOUS
<1>2. 1 \in DOMAIN s
  BY <1>1
<1>3. \A k \in DOMAIN Tail(s) : k + 1 \in DOMAIN s
  BY <1>1
<1>4. \A k \in DOMAIN Tail(s) : Tail(s)[k] = s[k + 1]
  BY <1>1
<1>5. ToSet(Tail(s)) \subseteq ToSet(s) /\ Head(s) \in ToSet(s)
  BY <1>1, <1>2, <1>3, <1>4 DEF ToSet
<1> QED
  BY <1>1, <1>2, <1>3, <1>4, <1>5

LEMMA AppendFacts ==
  ASSUME NEW s \in Seq(Nat), NEW x \in Nat
  PROVE  /\ Len(s) \in Nat /\ Append(s, x) \in Seq(Nat) /\ Len(Append(s, x)) = Len(s) + 1
         /\ ToSet(Append(s, x)) \subseteq ToSet(s) \cup {x}
<1>1. /\ Len(s) \in Nat /\ DOMAIN s = 1 .. Len(s)
      /\ Append(s, x) \in Seq(Nat) /\ Len(Append(s, x)) = Len(s) + 1
      /\ DOMAIN Append(s, x) = 1 .. Len(s) + 1
  OBVIOUS
<1>2. /\ Append(s, x)[Len(s) + 1] = x
      /\ \A k \in DOMAIN s : Append(s, x)[k] = s[k]
  OBVIOUS
<1>3. \A k \in DOMAIN Append(s, x) : k \in DOMAIN s \/ k = Len(s) + 1
  BY <1>1
<1>4. ToSet(Append(s, x)) \subseteq ToSet(s) \cup {x}
  BY <1>2, <1>3 DEF ToSet
<1> QED
  BY <1>1, <1>4

LEMMA ListingOfNothing == IsListing(<<>>, {})
  BY DEF IsListing, ToSet

LEMMA ListingAppend ==
  ASSUME NEW s \in Seq(Nat), NEW S, IsListing(s, S), NEW x \in Nat, \A y \in S : y < x
  PROVE  IsListing(Append(s, x), S \cup {x})
<1>1. \A k \in DOMAIN s : s[k] \in S /\ s[k] < x
  BY DEF IsListing, ToSet
<1>2. /\ DOMAIN Append(s, x) = 1 .. Len(s) + 1 /\ DOMAIN s = 1 .. Len(s) /\ Len(s) \in Nat
      /\ Append(s, x)[Len(s) + 1] = x
      /\ \A k \in DOMAIN s : Append(s, x)[k] = s[k]
  OBVIOUS
<1>3. ToSet(Append(s, x)) = S \cup {x}
  <2>1. ToSet(Append(s, x)) \subseteq S \cup {x}
    BY <1>1, <1>2 DEF ToSet
  <2>2. S \subseteq ToSet(Append(s, x))
    <3>1. ASSUME NEW y \in S PROVE \E k \in DOMAIN s : Append(s, x)[k] = y
      BY <1>2 DEF IsListing, ToSet
    <3> QED
      BY <1>2, <3>1 DEF ToSet
  <2>3. x \in ToSet(Append(s, x))
    BY <1>2 DEF ToSet
  <2> QED
    BY <2>1, <2>2, <2>3
<1>4. ASSUME NEW j \in DOMAIN Append(s, x), NEW k \in DOMAIN Append(s, x), j < k
      PROVE  Append(s, x)[j] < Append(s, x)[k]
  <2>1. j \in DOMAIN s
    BY <1>2, <1>4
  <2>2. CASE k \in DOMAIN s
    BY <1>2, <1>4, <2>1, <2>2 DEF IsListing
  <2>3. CASE k = Len(s) + 1
    BY <1>1, <1>2, <2>1, <2>3
  <2> QED
    BY <1>2, <2>2, <2>3
<1> QED
  BY <1>3, <1>4 DEF IsListing

LEMMA ListingTake ==
  ASSUME NEW s \in Seq(Nat), s # <<>>, NEW S, IsListing(s, S)
  PROVE  /\ Head(s) \in S /\ \A y \in S : Head(s) <= y
         /\ IsListing(Tail(s), S \ {Head(s)})
<1>1. /\ Len(s) \in Nat \ {0} /\ DOMAIN s = 1 .. Len(s) /\ Head(s) = s[1]
      /\ Tail(s) \in Seq(Nat) /\ DOMAIN Tail(s) = 1 .. Len(s) - 1
      /\ \A k \in 1 .. Len(s) - 1 : Tail(s)[k] = s[k + 1]
  BY TailFacts
<1>2. \A k \in DOMAIN s : s[k] \in S /\ s[k] \in Nat
  BY DEF IsListing, ToSet
<1>3. \A k \in DOMAIN s : k # 1 => s[1] < s[k]
  BY <1>1 DEF IsListing
<1>4. \A y \in S : \E k \in DOMAIN s : s[k] = y
  BY DEF IsListing, ToSet
<1>5. Head(s) \in S /\ \A y \in S : Head(s) <= y
  BY <1>1, <1>2, <1>3, <1>4
<1>6. ToSet(Tail(s)) = S \ {Head(s)}
  <2>1. ASSUME NEW k \in DOMAIN Tail(s) PROVE Tail(s)[k] \in S \ {Head(s)}
    BY <1>1, <1>2, <1>3
  <2>2. ASSUME NEW y \in S \ {Head(s)} PROVE \E k \in DOMAIN Tail(s) : Tail(s)[k] = y
    <3>1. PICK k \in DOMAIN s : s[k] = y
      BY <1>4
    <3>2. k # 1 /\ k - 1 \in DOMAIN Tail(s) /\ Tail(s)[k - 1] = y
      BY <1>1, <2>2, <3>1
    <3> QED
      BY <3>2
  <2> QED
    BY <2>1, <2>2 DEF ToSet
<1>7. ASSUME NEW j \in DOMAIN Tail(s), NEW k \in DOMAIN Tail(s), j < k
      PROVE  Tail(s)[j] < Tail(s)[k]
  <2>1. j + 1 \in DOMAIN s /\ k + 1 \in DOMAIN s /\ j + 1 < k + 1
    BY <1>1, <1>7
  <2>2. s[j + 1] < s[k + 1]
    BY <2>1 DEF IsListing
  <2> QED
    BY <1>1, <2>2
<1> QED
  BY <1>5, <1>6, <1>7 DEF IsListing
-----------------------------------------------------------------------------
(***************************************************************************)
(* Putting a frame into one direction of a socket, or taking one out.      *)
(***************************************************************************)
LEMMA UpReplaced ==
  ASSUME Shapes, NEW c \in Client, NEW s \in Seq(Nat), queue' = [queue EXCEPT ![c]["up"] = s]
  PROVE  /\ queue' \in [Client -> SocketQueues]
         /\ queue'[c].up = s /\ queue'[c].down = queue[c].down
         /\ \A d \in Client \ {c} : queue'[d] = queue[d]
<1>1. queue \in [Client -> SocketQueues]
  BY DEF Shapes
<1>2. queue' = [queue EXCEPT ![c] = [queue[c] EXCEPT !["up"] = s]]
  OBVIOUS
<1>3. [queue[c] EXCEPT !["up"] = s] \in SocketQueues
  BY <1>1 DEF SocketQueues
<1>4. queue' \in [Client -> SocketQueues] /\ queue'[c] = [queue[c] EXCEPT !["up"] = s]
  BY <1>1, <1>2, <1>3
<1> QED
  BY <1>1, <1>2, <1>4 DEF SocketQueues

LEMMA DownReplaced ==
  ASSUME Shapes, NEW c \in Client, NEW s \in Seq(Nat), queue' = [queue EXCEPT ![c]["down"] = s]
  PROVE  /\ queue' \in [Client -> SocketQueues]
         /\ queue'[c].down = s /\ queue'[c].up = queue[c].up
         /\ \A d \in Client \ {c} : queue'[d] = queue[d]
<1>1. queue \in [Client -> SocketQueues]
  BY DEF Shapes
<1>2. queue' = [queue EXCEPT ![c] = [queue[c] EXCEPT !["down"] = s]]
  OBVIOUS
<1>3. [queue[c] EXCEPT !["down"] = s] \in SocketQueues
  BY <1>1 DEF SocketQueues
<1>4. queue' \in [Client -> SocketQueues] /\ queue'[c] = [queue[c] EXCEPT !["down"] = s]
  BY <1>1, <1>2, <1>3
<1> QED
  BY <1>1, <1>2, <1>4 DEF SocketQueues

LEMMA QueuesAreSequences ==
  ASSUME Shapes, NEW c \in Client
  PROVE  queue[c].up \in Seq(Nat) /\ queue[c].down \in Seq(Nat)
  BY DEF Shapes, SocketQueues

LEMMA PutUp ==
  ASSUME Shapes, NEW c \in Client, NEW x \in Nat, Put(c, "up", x)
  PROVE  /\ queue' \in [Client -> SocketQueues]
         /\ queue'[c].up = Append(queue[c].up, x) /\ queue'[c].down = queue[c].down
         /\ \A d \in Client \ {c} : queue'[d] = queue[d]
  BY QueuesAreSequences, Append(queue[c].up, x) \in Seq(Nat), UpReplaced DEF Put

LEMMA PutDown ==
  ASSUME Shapes, NEW c \in Client, NEW x \in Nat, Put(c, "down", x)
  PROVE  /\ queue' \in [Client -> SocketQueues]
         /\ queue'[c].down = Append(queue[c].down, x) /\ queue'[c].up = queue[c].up
         /\ \A d \in Client \ {c} : queue'[d] = queue[d]
  BY QueuesAreSequences, Append(queue[c].down, x) \in Seq(Nat), DownReplaced DEF Put

LEMMA TakeUp ==
  ASSUME Shapes, NEW c \in Client, queue[c].up # <<>>, Take(c, "up")
  PROVE  /\ queue' \in [Client -> SocketQueues]
         /\ queue'[c].up = Tail(queue[c].up) /\ queue'[c].down = queue[c].down
         /\ \A d \in Client \ {c} : queue'[d] = queue[d]
  BY QueuesAreSequences, Tail(queue[c].up) \in Seq(Nat), UpReplaced DEF Take

LEMMA TakeDown ==
  ASSUME Shapes, NEW c \in Client, queue[c].down # <<>>, Take(c, "down")
  PROVE  /\ queue' \in [Client -> SocketQueues]
         /\ queue'[c].down = Tail(queue[c].down) /\ queue'[c].up = queue[c].up
         /\ \A d \in Client \ {c} : queue'[d] = queue[d]
  BY QueuesAreSequences, Tail(queue[c].down) \in Seq(Nat), DownReplaced DEF Take

LEMMA ScriptIsSequence ==
  ASSUME NEW c \in Client, script[c] \in ScriptsOf[c]
  PROVE  script[c] \in Seq(Kind) /\ Frame(c) = 1 .. Len(script[c]) /\ Len(script[c]) \in Nat
  BY ConstantsAssumption DEF Frame

(***************************************************************************)
(* A step of one client leaves the others as they are.                     *)
(***************************************************************************)
Elsewhere(c) ==
  /\ script' = script
  /\ \A d \in Client \ {c} :
       /\ sent'[d] = sent[d] /\ queue'[d] = queue[d] /\ ended'[d] = ended[d]
       /\ input'[d] = input[d] /\ output'[d] = output[d] /\ conn'[d] = conn[d]
       /\ got'[d] = got[d] /\ (mutex' = d <=> mutex = d)

LEMMA OthersKeep ==
  ASSUME NEW c \in Client, Elsewhere(c), NEW d \in Client \ {c}, Local(d)
  PROVE  Local(d)'
<1>1. /\ script'[d] = script[d] /\ sent'[d] = sent[d] /\ queue'[d] = queue[d]
      /\ ended'[d] = ended[d] /\ input'[d] = input[d] /\ output'[d] = output[d]
      /\ conn'[d] = conn[d] /\ got'[d] = got[d] /\ (mutex' = d <=> mutex = d)
  BY DEF Elsewhere
<1>2. InRange(d)'
  BY <1>1 DEF Local, InRange, Frame
<1>3. Control(d)'
  BY <1>1 DEF Local, Control, HungUp, KindOf
<1>4. \A p \in Nat : Upward(d, p) => Upward(d, p)'
  BY <1>1 DEF Upward
<1>5. \A x, y : Requests(d, x, y)' = Requests(d, x, y)
  BY <1>1 DEF Requests, Frame, KindOf
<1>6. \A p, l, m, n \in Nat : Downward(d, p, l, m, n) => Downward(d, p, l, m, n)'
  BY <1>1, <1>5 DEF Downward, IsListing
<1> QED
  BY <1>2, <1>3, <1>4, <1>6 DEF Local

LEMMA OneClientSteps ==
  ASSUME IInv, NEW c \in Client, Shapes', Elsewhere(c), Local(c)'
  PROVE  IInv'
  BY OthersKeep DEF IInv

Sequences(c) ==
  /\ script[c] \in Seq(Kind) /\ got[c] \in Seq(Nat)
  /\ queue[c].up \in Seq(Nat) /\ queue[c].down \in Seq(Nat)

Numbers(c) ==
  /\ sent[c] \in Nat /\ Len(script[c]) \in Nat /\ Frame(c) = 1 .. Len(script[c])
  /\ Len(queue[c].up) \in Nat /\ Len(queue[c].down) \in Nat
  /\ Capacity \in Nat /\ None \notin Nat

LEMMA LocalFacts ==
  ASSUME IInv, NEW c \in Client
  PROVE  Shapes /\ Local(c) /\ InRange(c) /\ Control(c) /\ Sequences(c) /\ Numbers(c)
<1>1. Shapes /\ Local(c) /\ InRange(c) /\ Control(c)
  BY DEF IInv, Local
<1>2. queue[c].up \in Seq(Nat) /\ queue[c].down \in Seq(Nat)
  BY <1>1, QueuesAreSequences
<1>3. script[c] \in Seq(Kind) /\ Frame(c) = 1 .. Len(script[c]) /\ Len(script[c]) \in Nat
  BY <1>1, ScriptIsSequence DEF InRange
<1>4. Numbers(c)
  BY <1>1, <1>2, <1>3, ConstantsAssumption DEF Numbers, Shapes
<1>5. Sequences(c)
  BY <1>1, <1>2, <1>3 DEF Sequences, Shapes
<1> QED
  BY <1>1, <1>4, <1>5

\* Unless a step changes what is in the pipe towards stdout, its listing stays.
LEMMA DownwardKept ==
  ASSUME NEW c \in Client, NEW p \in Nat, NEW l \in Nat, NEW m \in Nat, NEW n \in Nat,
         Downward(c, p, l, m, n), script' = script, got'[c] = got[c],
         queue'[c].down = queue[c].down, output'[c].hand = output[c].hand,
         output'[c].at = output[c].at,
         input'[c].at = "killed" <=> input[c].at = "killed",
         conn'[c].at # "broken" =>
           conn[c].at # "broken" /\ (conn'[c].hand = None <=> conn[c].hand = None)
  PROVE  Downward(c, p, l, m, n)'
<1>1. \A x, y : Requests(c, x, y)' = Requests(c, x, y)
  BY DEF Requests, Frame, KindOf
<1> QED
  BY <1>1 DEF Downward, IsListing
-----------------------------------------------------------------------------
(***************************************************************************)
(* The proxy.                                                              *)
(***************************************************************************)
LEMMA ProxyReadKeeps ==
  ASSUME IInv, NEW c \in Client, ProxyRead(c)
  PROVE  IInv'
<1>0. Shapes /\ Local(c) /\ InRange(c) /\ Control(c) /\ Sequences(c) /\ Numbers(c)
  BY LocalFacts
<1>1. PICK p, l, m, n \in Nat : Upward(c, p) /\ Downward(c, p, l, m, n)
  BY <1>0 DEF Local
<1>2. Shapes'
  BY <1>0 DEF ProxyRead, Shapes, Hands
<1>3. Elsewhere(c)
  BY <1>0 DEF ProxyRead, Shapes, Elsewhere
<1>4. /\ input[c].at = "copy" /\ input[c].hand = None /\ sent[c] < Len(script[c])
      /\ sent'[c] = sent[c] + 1
      /\ input'[c].at = "copy" /\ input'[c].hand = sent[c] + 1
      /\ UNCHANGED <<script, queue, ended, output, conn, mutex, got>>
  BY <1>0 DEF ProxyRead, Shapes, Hands
<1>5. InRange(c)'
  BY <1>0, <1>4 DEF InRange, Frame
<1>6. Control(c)'
  BY <1>0, <1>4 DEF Control, HungUp, KindOf
<1>7. Upward(c, p)'
  <2>1. sent[c] = p + Len(queue[c].up)
    BY <1>0, <1>1, <1>4 DEF Upward
  <2>2. sent'[c] = p + Len(queue'[c].up) + 1 /\ p + Len(queue'[c].up) <= sent'[c]
    BY <1>0, <1>4, <2>1
  <2>3. input'[c].hand = sent'[c] /\ input'[c].hand # None
    BY <1>0, <1>4 DEF Numbers
  <2>4. \A k \in DOMAIN queue'[c].up : queue'[c].up[k] = p + k
    BY <1>0, <1>1, <1>4 DEF Upward
  <2>5. conn'[c].hand # None => conn'[c].hand = p
    BY <1>0, <1>1, <1>4 DEF Upward
  <2> QED
    BY <1>0, <1>4, <2>2, <2>3, <2>4, <2>5 DEF Upward
<1>8. Downward(c, p, l, m, n)'
  BY <1>0, <1>1, <1>4, DownwardKept
<1> QED
  BY <1>0, <1>2, <1>3, <1>5, <1>6, <1>7, <1>8, OneClientSteps DEF Local

LEMMA ProxyWriteKeeps ==
  ASSUME IInv, NEW c \in Client, ProxyWrite(c)
  PROVE  IInv'
<1>0. Shapes /\ Local(c) /\ InRange(c) /\ Control(c) /\ Sequences(c) /\ Numbers(c)
  BY LocalFacts
<1>1. PICK p, l, m, n \in Nat : Upward(c, p) /\ Downward(c, p, l, m, n)
  BY <1>0 DEF Local
<1>2. input[c].hand \in Frame(c) /\ input[c].hand \in Nat
  BY <1>0 DEF ProxyWrite, InRange, Numbers
<1>3. /\ queue' \in [Client -> SocketQueues]
      /\ queue'[c].up = Append(queue[c].up, input[c].hand) /\ queue'[c].down = queue[c].down
      /\ \A d \in Client \ {c} : queue'[d] = queue[d]
  BY <1>0, <1>2, PutUp DEF ProxyWrite
<1>4. Shapes'
  BY <1>0, <1>3 DEF ProxyWrite, Shapes, Hands
<1>5. Elsewhere(c)
  BY <1>0, <1>3 DEF ProxyWrite, Shapes, Elsewhere
<1>6. /\ input[c].at = "copy" /\ ~HungUp(c) /\ Len(queue[c].up) < Capacity
      /\ input'[c].at = "copy" /\ input'[c].hand = None
      /\ UNCHANGED <<script, sent, ended, output, conn, mutex, got>>
  BY <1>0 DEF ProxyWrite, HasRoom, Shapes, Hands
<1>7. /\ Len(queue'[c].up) = Len(queue[c].up) + 1
      /\ \A k \in DOMAIN queue[c].up : queue'[c].up[k] = queue[c].up[k]
      /\ queue'[c].up[Len(queue[c].up) + 1] = input[c].hand
      /\ \A k \in DOMAIN queue'[c].up : k \in DOMAIN queue[c].up \/ k = Len(queue[c].up) + 1
  BY <1>0, <1>2, <1>3
<1>8. InRange(c)'
  <2>1. \A k \in DOMAIN queue[c].up : queue[c].up[k] \in Frame(c)
    BY <1>0 DEF InRange, ToSet
  <2>2. \A k \in DOMAIN queue'[c].up : queue'[c].up[k] \in Frame(c)
    BY <1>0, <1>2, <1>7, <2>1
  <2>3. ToSet(queue'[c].up) \subseteq Frame(c)
    BY <2>2 DEF ToSet
  <2>4. Len(queue'[c].up) <= Capacity
    BY <1>0, <1>6, <1>7 DEF Numbers
  <2> QED
    BY <1>0, <1>3, <1>6, <2>3, <2>4 DEF InRange, Frame
<1>9. Control(c)'
  BY <1>0, <1>3, <1>6 DEF Control, HungUp, KindOf
<1>10. Upward(c, p)'
  <2>1. input[c].hand = sent[c] /\ sent[c] = p + Len(queue[c].up) + 1
    BY <1>0, <1>1, <1>2, <1>6 DEF Upward, Numbers
  <2>2. sent'[c] = p + Len(queue'[c].up) /\ p + Len(queue'[c].up) <= sent'[c]
    <3>1. PICK N \in Nat : N = Len(queue[c].up)
      BY <1>0 DEF Sequences
    <3>2. Len(queue'[c].up) = N + 1 /\ sent[c] = p + N + 1 /\ sent'[c] = sent[c]
      BY <1>6, <1>7, <2>1, <3>1
    <3> QED
      BY <3>2
  <2>3. \A k \in DOMAIN queue'[c].up : queue'[c].up[k] = p + k
    <3>1. \A k \in DOMAIN queue[c].up : queue'[c].up[k] = p + k
      BY <1>1, <1>7 DEF Upward
    <3>2. queue'[c].up[Len(queue[c].up) + 1] = p + (Len(queue[c].up) + 1)
      BY <1>0, <1>7, <2>1 DEF Numbers
    <3> QED
      BY <1>7, <3>1, <3>2
  <2>4. conn'[c].hand # None => conn'[c].hand = p
    BY <1>0, <1>1, <1>6 DEF Upward
  <2> QED
    BY <1>0, <1>6, <2>2, <2>3, <2>4 DEF Upward
<1>11. Downward(c, p, l, m, n)'
  BY <1>0, <1>1, <1>3, <1>6, DownwardKept
<1> QED
  BY <1>0, <1>4, <1>5, <1>8, <1>9, <1>10, <1>11, OneClientSteps DEF Local

LEMMA ProxyFinishInputKeeps ==
  ASSUME IInv, NEW c \in Client, ProxyFinishInput(c)
  PROVE  IInv'
<1>0. Shapes /\ Local(c) /\ InRange(c) /\ Control(c) /\ Sequences(c) /\ Numbers(c)
  BY LocalFacts
<1>1. PICK p, l, m, n \in Nat : Upward(c, p) /\ Downward(c, p, l, m, n)
  BY <1>0 DEF Local
<1>2. Shapes'
  BY <1>0 DEF ProxyFinishInput, Shutdown, Close, Shapes
<1>3. Elsewhere(c)
  BY <1>0 DEF ProxyFinishInput, Shutdown, Close, Shapes, Elsewhere
<1>4. /\ input[c].at = "copy"
      /\ \/ input[c].hand = None /\ sent[c] = Len(script[c])
         \/ input[c].hand # None /\ HungUp(c)
      /\ input'[c].at = "join" /\ input'[c].hand = None
      /\ ended'[c] = ended[c] \cup {"up"}
      /\ UNCHANGED <<script, sent, queue, output, conn, mutex, got>>
  BY <1>0 DEF ProxyFinishInput, Shutdown, Close, Shapes
<1>5. InRange(c)'
  BY <1>0, <1>4 DEF InRange, Frame
<1>6. Control(c)'
  BY <1>0, <1>4 DEF Control, HungUp, KindOf
<1>7. Upward(c, p)'
  BY <1>0, <1>1, <1>4 DEF Upward, Control, HungUp
<1>8. Downward(c, p, l, m, n)'
  BY <1>0, <1>1, <1>4, DownwardKept
<1> QED
  BY <1>0, <1>2, <1>3, <1>5, <1>6, <1>7, <1>8, OneClientSteps DEF Local

LEMMA ProxyExitKeeps ==
  ASSUME IInv, NEW c \in Client, ProxyExit(c)
  PROVE  IInv'
<1>0. Shapes /\ Local(c) /\ InRange(c) /\ Control(c) /\ Sequences(c) /\ Numbers(c)
  BY LocalFacts
<1>1. PICK p, l, m, n \in Nat : Upward(c, p) /\ Downward(c, p, l, m, n)
  BY <1>0 DEF Local
<1>2. Shapes'
  BY <1>0 DEF ProxyExit, Shapes
<1>3. Elsewhere(c)
  BY <1>0 DEF ProxyExit, Shapes, Elsewhere
<1>4. /\ input[c].at = "join" /\ output[c].at = "done" /\ output[c].hand = None
      /\ input'[c].at = "done" /\ input'[c].hand = input[c].hand
      /\ output'[c].at = "done" /\ output'[c].hand = None
      /\ UNCHANGED <<script, sent, queue, ended, conn, mutex, got>>
  BY <1>0 DEF ProxyExit, Joined, Shapes, Control
<1>5. InRange(c)'
  BY <1>0, <1>4 DEF InRange, Frame
<1>6. Control(c)'
  BY <1>0, <1>4 DEF Control, HungUp, KindOf
<1>7. Upward(c, p)'
  BY <1>0, <1>1, <1>4 DEF Upward, Control
<1>8. Downward(c, p, l, m, n)'
  BY <1>0, <1>1, <1>4, DownwardKept
<1> QED
  BY <1>0, <1>2, <1>3, <1>5, <1>6, <1>7, <1>8, OneClientSteps DEF Local

LEMMA ProxyKilledKeeps ==
  ASSUME IInv, NEW c \in Client, ProxyKilled(c)
  PROVE  IInv'
<1>0. Shapes /\ Local(c) /\ InRange(c) /\ Control(c) /\ Sequences(c) /\ Numbers(c)
  BY LocalFacts
<1>1. PICK p, l, m, n \in Nat : Upward(c, p) /\ Downward(c, p, l, m, n)
  BY <1>0 DEF Local
<1>2. Shapes'
  BY <1>0 DEF ProxyKilled, Close, Shapes
<1>3. Elsewhere(c)
  BY <1>0 DEF ProxyKilled, Close, Shapes, Elsewhere
<1>4. /\ input'[c].at = "killed" /\ input'[c].hand = None
      /\ output'[c].at = "done" /\ output'[c].hand = None
      /\ ended'[c] = ended[c] \cup {"up"}
      /\ UNCHANGED <<script, sent, queue, conn, mutex, got>>
  BY <1>0 DEF ProxyKilled, Close, Shapes
<1>5. InRange(c)'
  BY <1>0, <1>4 DEF InRange, Frame
<1>6. Control(c)'
  BY <1>0, <1>4 DEF Control, HungUp, KindOf
<1>7. Upward(c, p)'
  BY <1>0, <1>1, <1>4 DEF Upward
<1>8. Downward(c, p, l, m, n)'
  <2>1. Requests(c, 0, l)' = Requests(c, 0, l)
    BY <1>4 DEF Requests, Frame, KindOf
  <2> QED
    BY <1>1, <1>4, <2>1 DEF Downward, IsListing
<1> QED
  BY <1>2, <1>3, <1>5, <1>6, <1>7, <1>8, OneClientSteps DEF Local

\* The first answer in the socket: no request between it and those before it.
LEMMA OutputReadKeeps ==
  ASSUME IInv, NEW c \in Client, OutputRead(c)
  PROVE  IInv'
<1>0. Shapes /\ Local(c) /\ InRange(c) /\ Control(c) /\ Sequences(c) /\ Numbers(c)
  BY LocalFacts
<1>1. PICK p, l, m, n \in Nat : Upward(c, p) /\ Downward(c, p, l, m, n)
  BY <1>0 DEF Local
<1>2. /\ queue[c].down # <<>> /\ Len(queue[c].down) \in Nat \ {0}
      /\ DOMAIN queue[c].down = 1 .. Len(queue[c].down)
      /\ Tail(queue[c].down) \in Seq(Nat) /\ Len(Tail(queue[c].down)) = Len(queue[c].down) - 1
      /\ \A k \in DOMAIN Tail(queue[c].down) : Tail(queue[c].down)[k] = queue[c].down[k + 1]
  BY <1>0 DEF OutputRead, Sequences
<1>h. PICK h \in Nat : h = Head(queue[c].down)
  BY <1>0, <1>2 DEF Sequences
<1>3. /\ queue' \in [Client -> SocketQueues]
      /\ queue'[c].down = Tail(queue[c].down) /\ queue'[c].up = queue[c].up
      /\ \A d \in Client \ {c} : queue'[d] = queue[d]
  BY <1>0, <1>2, TakeDown DEF OutputRead
<1>4. /\ output[c].at = "copy" /\ output[c].hand = None
      /\ output'[c].at = "copy" /\ output'[c].hand = h
      /\ UNCHANGED <<script, sent, ended, input, conn, mutex, got>>
  BY <1>0, <1>h DEF OutputRead, Shapes, Hands
<1>5. Shapes'
  BY <1>0, <1>h, <1>3 DEF OutputRead, Shapes, Hands
<1>6. Elsewhere(c)
  BY <1>0, <1>3 DEF OutputRead, Shapes, Elsewhere
<1>7. InRange(c)'
  <2>1. ToSet(queue'[c].down) \subseteq ToSet(queue[c].down) /\ h \in ToSet(queue[c].down)
    <3>1. /\ queue[c].down[1] = h /\ 1 \in DOMAIN queue[c].down
          /\ \A k \in DOMAIN Tail(queue[c].down) : k + 1 \in DOMAIN queue[c].down
      BY <1>0, <1>2, <1>h, TailFacts DEF Sequences
    <3> QED
      BY <1>2, <1>3, <3>1 DEF ToSet
  <2>2. Len(queue'[c].down) <= Capacity
    BY <1>0, <1>2, <1>3 DEF InRange, Numbers
  <2> QED
    BY <1>0, <1>3, <1>4, <2>1, <2>2 DEF InRange, Frame
<1>8. Control(c)'
  BY <1>0, <1>3, <1>4 DEF Control, HungUp, KindOf
<1>9. Upward(c, p)'
  BY <1>0, <1>1, <1>3, <1>4 DEF Upward
<1>10. Downward(c, p, l, h, n)'
  <2>1. /\ l <= m /\ m <= n /\ n <= p /\ Requests(c, l, m) = {}
        /\ IsListing(queue[c].down, Requests(c, m, n))
        /\ conn[c].at # "broken" => n = IF conn[c].hand = None THEN p ELSE p - 1
        /\ IsListing(got[c], Requests(c, 0, l))
    BY <1>1, <1>4 DEF Downward
  <2>2. /\ h \in Requests(c, m, n) /\ \A y \in Requests(c, m, n) : h <= y
        /\ IsListing(Tail(queue[c].down), Requests(c, m, n) \ {h})
    BY <1>0, <1>2, <1>h, <2>1, ListingTake DEF Sequences
  <2>3. Frame(c) \subseteq Nat
    BY <1>0 DEF Numbers
  <2>4. Requests(c, h, n) = Requests(c, m, n) \ {h}
    BY <1>h, <2>2, <2>3 DEF Requests
  <2>5. m < h /\ h <= n /\ KindOf(c, h) = "request" /\ h \in Frame(c)
    BY <2>2 DEF Requests
  <2>6. Requests(c, l, h) = {h}
    <3>1. ASSUME NEW i \in Requests(c, l, h) PROVE i = h
      <4>1. i \in Nat /\ l < i /\ i <= h /\ i \in Frame(c) /\ KindOf(c, i) = "request"
        BY <2>3, <3>1 DEF Requests
      <4>2. ~(i <= m)
        BY <2>1, <4>1 DEF Requests
      <4>3. i \in Requests(c, m, n)
        BY <1>h, <2>5, <4>1, <4>2 DEF Requests
      <4> QED
        BY <1>h, <2>2, <4>1, <4>3
    <3>2. h \in Requests(c, l, h)
      BY <1>h, <2>1, <2>5 DEF Requests
    <3> QED
      BY <3>1, <3>2
  <2>7. \A x, y : Requests(c, x, y)' = Requests(c, x, y)
    BY <1>4 DEF Requests, Frame, KindOf
  <2>8. l <= h
    BY <1>h, <2>1, <2>5
  <2>9. h # None
    BY <1>0, <1>h DEF Numbers
  <2>10. /\ Requests(c, l, h)' = {output'[c].hand} \ {None}
         /\ IsListing(queue[c].down, Requests(c, h, n))'
         /\ IsListing(got[c], Requests(c, 0, l))'
    <3>1. Requests(c, l, h)' = {output'[c].hand} \ {None}
      BY <1>4, <2>6, <2>7, <2>9
    <3>2. IsListing(queue'[c].down, Requests(c, h, n)')
      BY <1>3, <2>2, <2>4, <2>7
    <3>3. IsListing(got'[c], Requests(c, 0, l)')
      BY <1>4, <2>1, <2>7
    <3> QED
      BY <3>1, <3>2, <3>3
  <2> QED
    BY <1>4, <2>1, <2>5, <2>8, <2>10 DEF Downward
<1> QED
  BY <1>h, <1>5, <1>6, <1>7, <1>8, <1>9, <1>10, OneClientSteps DEF Local

LEMMA OutputWriteKeeps ==
  ASSUME IInv, NEW c \in Client, OutputWrite(c)
  PROVE  IInv'
<1>0. Shapes /\ Local(c) /\ InRange(c) /\ Control(c) /\ Sequences(c) /\ Numbers(c)
  BY LocalFacts
<1>1. PICK p, l, m, n \in Nat : Upward(c, p) /\ Downward(c, p, l, m, n)
  BY <1>0 DEF Local
<1> DEFINE h == output[c].hand
<1>2. /\ output[c].at = "copy" /\ h # None
      /\ got'[c] = Append(got[c], h)
      /\ output'[c].at = "copy" /\ output'[c].hand = None
      /\ UNCHANGED <<script, sent, queue, ended, input, conn, mutex>>
  BY <1>0 DEF OutputWrite, Shapes, Hands
<1>3. h \in Nat /\ h \in Frame(c)
  BY <1>0, <1>2 DEF InRange, Numbers
<1>4. Append(got[c], h) \in Seq(Nat) /\ ToSet(Append(got[c], h)) \subseteq ToSet(got[c]) \cup {h}
  BY <1>0, <1>3 DEF Sequences, ToSet
<1>5. Shapes'
  BY <1>0, <1>4 DEF OutputWrite, Shapes, Hands
<1>6. Elsewhere(c)
  BY <1>0 DEF OutputWrite, Shapes, Elsewhere
<1>7. InRange(c)'
  BY <1>0, <1>2, <1>3, <1>4 DEF InRange, Frame
<1>8. Control(c)'
  BY <1>0, <1>2 DEF Control, HungUp, KindOf
<1>9. Upward(c, p)'
  BY <1>0, <1>1, <1>2 DEF Upward
<1> HIDE DEF h
<1>10. Downward(c, p, m, m, n)'
  <2>1. /\ l <= m /\ m <= n /\ n <= p /\ Requests(c, l, m) = {h}
        /\ IsListing(queue[c].down, Requests(c, m, n))
        /\ conn[c].at # "broken" => n = IF conn[c].hand = None THEN p ELSE p - 1
        /\ IsListing(got[c], Requests(c, 0, l))
    BY <1>1, <1>2 DEF Downward, h
  <2>2. Frame(c) \subseteq Nat
    BY <1>0 DEF Numbers
  <2>3. \A y \in Requests(c, 0, l) : y < h
    <3>1. l < h
      BY <1>3, <2>1 DEF Requests
    <3> QED
      BY <1>3, <2>2, <3>1 DEF Requests
  <2>4. IsListing(Append(got[c], h), Requests(c, 0, l) \cup {h})
    BY <1>0, <1>3, <2>1, <2>3, ListingAppend DEF Sequences
  <2>5. Requests(c, 0, m) = Requests(c, 0, l) \cup Requests(c, l, m)
    BY <2>1, <2>2 DEF Requests
  <2>6. Requests(c, m, m) = {}
    BY <2>2 DEF Requests
  <2>7. \A x, y : Requests(c, x, y)' = Requests(c, x, y)
    BY <1>2 DEF Requests, Frame, KindOf
  <2>8. /\ IsListing(got[c], Requests(c, 0, m))'
        /\ Requests(c, m, m)' = {output'[c].hand} \ {None}
        /\ IsListing(queue[c].down, Requests(c, m, n))'
    BY <1>2, <2>1, <2>4, <2>5, <2>6, <2>7 DEF IsListing
  <2> QED
    BY <1>2, <2>1, <2>8 DEF Downward
<1> QED
  BY <1>5, <1>6, <1>7, <1>8, <1>9, <1>10, OneClientSteps DEF Local

LEMMA OutputEofKeeps ==
  ASSUME IInv, NEW c \in Client, OutputEof(c)
  PROVE  IInv'
<1>0. Shapes /\ Local(c) /\ InRange(c) /\ Control(c) /\ Sequences(c) /\ Numbers(c)
  BY LocalFacts
<1>1. PICK p, l, m, n \in Nat : Upward(c, p) /\ Downward(c, p, l, m, n)
  BY <1>0 DEF Local
<1>2. Shapes'
  BY <1>0 DEF OutputEof, Shapes
<1>3. Elsewhere(c)
  BY <1>0 DEF OutputEof, Shapes, Elsewhere
<1>4. /\ output[c].at = "copy" /\ output[c].hand = None
      /\ queue[c].down = <<>> /\ "down" \in ended[c]
      /\ output'[c].at = "done" /\ output'[c].hand = None
      /\ UNCHANGED <<script, sent, queue, ended, input, conn, mutex, got>>
  BY <1>0 DEF OutputEof, AtEof, Shapes, Hands
<1>5. InRange(c)'
  BY <1>0, <1>4 DEF InRange, Frame
<1>6. Control(c)'
  BY <1>0, <1>4 DEF Control, HungUp, KindOf
<1>7. Upward(c, p)'
  BY <1>0, <1>1, <1>4 DEF Upward
<1>8. Downward(c, p, l, m, n)'
  <2>1. \A x, y : Requests(c, x, y)' = Requests(c, x, y)
    BY <1>4 DEF Requests, Frame, KindOf
  <2> QED
    BY <1>1, <1>4, <2>1 DEF Downward, IsListing
<1> QED
  BY <1>2, <1>3, <1>5, <1>6, <1>7, <1>8, OneClientSteps DEF Local
-----------------------------------------------------------------------------
(***************************************************************************)
(* The service.                                                            *)
(***************************************************************************)
LEMMA Becomes ==
  ASSUME Shapes, NEW c \in Client, NEW at, NEW hand, Become(c, at, hand),
         [at |-> at, hand |-> hand] \in Connecting
  PROVE  /\ conn' \in [Client -> Connecting]
         /\ conn'[c].at = at /\ conn'[c].hand = hand
         /\ \A d \in Client \ {c} : conn'[d] = conn[d]
  BY DEF Become, Shapes

LEMMA HangsUp ==
  ASSUME Shapes, NEW c \in Client, NEW how \in {"closed", "broken"}, HangUp(c, how)
  PROVE  /\ conn' \in [Client -> Connecting]
         /\ conn'[c].at = how /\ conn'[c].hand = None
         /\ ended' \in [Client -> SUBSET {"up", "down"}] /\ ended'[c] = ended[c] \cup {"down"}
         /\ \A d \in Client \ {c} : conn'[d] = conn[d] /\ ended'[d] = ended[d]
<1>1. Become(c, how, None) /\ Close(c, "down")
  BY DEF HangUp
<1>2. [at |-> how, hand |-> None] \in Connecting
  BY DEF Connecting
<1>3. /\ conn' \in [Client -> Connecting] /\ conn'[c].at = how /\ conn'[c].hand = None
      /\ \A d \in Client \ {c} : conn'[d] = conn[d]
  BY <1>1, <1>2, Becomes
<1>4. /\ ended' \in [Client -> SUBSET {"up", "down"}] /\ ended'[c] = ended[c] \cup {"down"}
      /\ \A d \in Client \ {c} : ended'[d] = ended[d]
  BY <1>1 DEF Close, Shapes
<1> QED
  BY <1>3, <1>4

\* A connection that breaks with nothing else in its client's state changed.
LEMMA BreakKeeps ==
  ASSUME IInv, NEW c \in Client, HangUp(c, "broken"), mutex' # c,
         UNCHANGED <<script, sent, queue, input, output, got>>,
         \A d \in Client \ {c} : mutex' = d <=> mutex = d,
         mutex' \in Client \cup {None}, poisoned' \in BOOLEAN, running' \in BOOLEAN
  PROVE  IInv'
<1>0. Shapes /\ Local(c) /\ InRange(c) /\ Control(c) /\ Sequences(c) /\ Numbers(c)
  BY LocalFacts
<1>1. PICK p, l, m, n \in Nat : Upward(c, p) /\ Downward(c, p, l, m, n)
  BY <1>0 DEF Local
<1>2. /\ conn' \in [Client -> Connecting]
      /\ conn'[c].at = "broken" /\ conn'[c].hand = None
      /\ ended' \in [Client -> SUBSET {"up", "down"}] /\ ended'[c] = ended[c] \cup {"down"}
      /\ \A d \in Client \ {c} : conn'[d] = conn[d] /\ ended'[d] = ended[d]
  BY <1>0, HangsUp
<1>3. Shapes'
  BY <1>0, <1>2 DEF Shapes
<1>4. Elsewhere(c)
  BY <1>2 DEF Elsewhere
<1>5. InRange(c)'
  BY <1>0, <1>2 DEF InRange, Frame
<1>6. Control(c)'
  BY <1>0, <1>2 DEF Control, HungUp
<1>7. Upward(c, p)'
  BY <1>1, <1>2 DEF Upward
<1>8. Downward(c, p, l, m, n)'
  BY <1>1, <1>2, DownwardKept
<1> QED
  BY <1>3, <1>4, <1>5, <1>6, <1>7, <1>8, OneClientSteps DEF Local

LEMMA AcceptKeeps ==
  ASSUME IInv, NEW c \in Client, Accept(c)
  PROVE  IInv'
<1>0. Shapes /\ Local(c) /\ InRange(c) /\ Control(c) /\ Sequences(c) /\ Numbers(c)
  BY LocalFacts
<1>1. PICK p, l, m, n \in Nat : Upward(c, p) /\ Downward(c, p, l, m, n)
  BY <1>0 DEF Local
<1>2. [at |-> "read", hand |-> None] \in Connecting
  BY DEF Connecting
<1>3. /\ conn' \in [Client -> Connecting]
      /\ conn'[c].at = "read" /\ conn'[c].hand = None
      /\ \A d \in Client \ {c} : conn'[d] = conn[d]
  BY <1>0, <1>2, Becomes DEF Accept
<1>4. /\ conn[c].at = "queued"
      /\ UNCHANGED <<script, sent, queue, ended, input, output, mutex, poisoned, running, got>>
  BY DEF Accept
<1>5. Shapes'
  BY <1>0, <1>3, <1>4 DEF Shapes
<1>6. Elsewhere(c)
  BY <1>3, <1>4 DEF Elsewhere
<1>7. InRange(c)'
  BY <1>0, <1>3, <1>4 DEF InRange, Frame
<1>8. Control(c)'
  BY <1>0, <1>3, <1>4 DEF Control, HungUp
<1>9. Upward(c, p)'
  BY <1>1, <1>3, <1>4 DEF Upward
<1>10. conn[c].hand = None
  BY <1>0, <1>4 DEF Control
<1>11. Downward(c, p, l, m, n)'
  BY <1>1, <1>3, <1>4, <1>10, DownwardKept
<1> QED
  BY <1>5, <1>6, <1>7, <1>8, <1>9, <1>11, OneClientSteps DEF Local

\* The next frame is the one after the p frames taken so far.
LEMMA ConnReadKeeps ==
  ASSUME IInv, NEW c \in Client, ConnRead(c)
  PROVE  IInv'
<1>0. Shapes /\ Local(c) /\ InRange(c) /\ Control(c) /\ Sequences(c) /\ Numbers(c)
  BY LocalFacts
<1>1. PICK p, l, m, n \in Nat : Upward(c, p) /\ Downward(c, p, l, m, n)
  BY <1>0 DEF Local
<1>2. /\ conn[c].at = "read" /\ conn[c].hand = None
      /\ UNCHANGED <<script, sent, input, output, mutex, poisoned, running, got>>
  BY <1>0 DEF ConnRead, Control
<1>3. /\ queue[c].up # <<>> /\ Len(queue[c].up) \in Nat \ {0}
      /\ DOMAIN queue[c].up = 1 .. Len(queue[c].up) /\ Head(queue[c].up) = queue[c].up[1]
      /\ Len(Tail(queue[c].up)) = Len(queue[c].up) - 1
      /\ DOMAIN Tail(queue[c].up) = 1 .. Len(queue[c].up) - 1
      /\ \A k \in 1 .. Len(queue[c].up) - 1 : Tail(queue[c].up)[k] = queue[c].up[k + 1]
  BY <1>0, TailFacts DEF ConnRead, Sequences
<1>4. Head(queue[c].up) = p + 1
  BY <1>1, <1>3 DEF Upward
<1>5. /\ queue' \in [Client -> SocketQueues]
      /\ queue'[c].up = Tail(queue[c].up) /\ queue'[c].down = queue[c].down
      /\ \A d \in Client \ {c} : queue'[d] = queue[d]
  BY <1>0, <1>3, TakeUp DEF ConnRead
<1>6. /\ conn' \in [Client -> Connecting] /\ ended' \in [Client -> SUBSET {"up", "down"}]
      /\ \A d \in Client \ {c} : conn'[d] = conn[d] /\ ended'[d] = ended[d]
      /\ \/ /\ conn'[c].at = "broken" /\ conn'[c].hand = None
            /\ ended'[c] = ended[c] \cup {"down"}
         \/ /\ conn'[c].at = "wait" /\ conn'[c].hand = p + 1
            /\ ended'[c] = ended[c]
  <2>1. CASE HangUp(c, "broken")
    BY <1>0, <2>1, HangsUp
  <2>2. CASE Become(c, "wait", p + 1) /\ UNCHANGED ended
    <3>1. [at |-> "wait", hand |-> p + 1] \in Connecting
      BY DEF Connecting
    <3> QED
      BY <1>0, <2>2, <3>1, Becomes DEF Shapes
  <2> QED
    BY <1>4, <2>1, <2>2 DEF ConnRead
<1>7. Shapes'
  BY <1>0, <1>2, <1>5, <1>6 DEF Shapes
<1>8. Elsewhere(c)
  BY <1>2, <1>5, <1>6 DEF Elsewhere
<1>9. InRange(c)'
  <2>1. p + 1 \in Frame(c)
    BY <1>0, <1>3, <1>4 DEF InRange, ToSet
  <2>2. ToSet(queue'[c].up) \subseteq ToSet(queue[c].up)
    BY <1>3, <1>5 DEF ToSet
  <2>3. Len(queue'[c].up) <= Capacity
    BY <1>0, <1>3, <1>5 DEF InRange, Numbers
  <2> QED
    BY <1>0, <1>2, <1>5, <1>6, <2>1, <2>2, <2>3 DEF InRange, Frame
<1>10. Control(c)'
  BY <1>0, <1>2, <1>5, <1>6 DEF Control, HungUp, Numbers
<1>11. Upward(c, p + 1)'
  <2>1. \A k \in DOMAIN queue'[c].up : queue'[c].up[k] = (p + 1) + k
    <3>1. \A k \in 1 .. Len(queue[c].up) - 1 :
            k + 1 \in DOMAIN queue[c].up /\ p + (k + 1) = (p + 1) + k
      BY <1>3
    <3> QED
      BY <1>1, <1>3, <1>5, <3>1 DEF Upward
  <2>2. (p + 1) + Len(queue'[c].up) = p + Len(queue[c].up)
    <3>1. Len(queue'[c].up) = Len(queue[c].up) - 1
      BY <1>3, <1>5
    <3>2. Len(queue[c].up) \in Nat
      BY <1>3
    <3>3. (p + 1) + (Len(queue[c].up) - 1) = p + Len(queue[c].up)
      BY <3>2, OneMoved
    <3> QED
      BY <3>1, <3>3, Zenon
  <2> QED
    BY <1>1, <1>2, <1>6, <2>1, <2>2 DEF Upward
<1>12. Downward(c, p + 1, l, m, n)'
  <2>1. \A x, y : Requests(c, x, y)' = Requests(c, x, y)
    BY <1>2 DEF Requests, Frame, KindOf
  <2>3. n <= p + 1 /\ l <= m /\ m <= n
    BY <1>1 DEF Downward
  <2>4. conn[c].at # "broken" /\ (input[c].at # "killed" \/ output[c].at # "done") => n = p
    BY <1>1, <1>2 DEF Downward
  <2>5. conn'[c].at # "broken" => conn'[c].hand # None
    BY <1>0, <1>6 DEF Numbers
  <2> QED
    BY <1>1, <1>2, <1>5, <2>1, <2>3, <2>4, <2>5 DEF Downward, IsListing
<1>13. p + 1 \in Nat
  OBVIOUS
<1> QED
  BY <1>7, <1>8, <1>9, <1>10, <1>11, <1>12, <1>13, OneClientSteps DEF Local

LEMMA ConnEofKeeps ==
  ASSUME IInv, NEW c \in Client, ConnEof(c)
  PROVE  IInv'
<1>0. Shapes /\ Local(c) /\ InRange(c) /\ Control(c) /\ Sequences(c) /\ Numbers(c)
  BY LocalFacts
<1>1. PICK p, l, m, n \in Nat : Upward(c, p) /\ Downward(c, p, l, m, n)
  BY <1>0 DEF Local
<1>2. /\ conn[c].at = "read" /\ conn[c].hand = None
      /\ queue[c].up = <<>> /\ "up" \in ended[c]
      /\ UNCHANGED <<script, sent, queue, input, output, mutex, poisoned, running, got>>
  BY <1>0 DEF ConnEof, AtEof, Control
<1>3. /\ conn' \in [Client -> Connecting]
      /\ conn'[c].at = "closed" /\ conn'[c].hand = None
      /\ ended' \in [Client -> SUBSET {"up", "down"}] /\ ended'[c] = ended[c] \cup {"down"}
      /\ \A d \in Client \ {c} : conn'[d] = conn[d] /\ ended'[d] = ended[d]
  BY <1>0, HangsUp DEF ConnEof
<1>4. Shapes'
  BY <1>0, <1>2, <1>3 DEF Shapes
<1>5. Elsewhere(c)
  BY <1>2, <1>3 DEF Elsewhere
<1>6. InRange(c)'
  BY <1>0, <1>2, <1>3 DEF InRange, Frame
<1>7. Control(c)'
  BY <1>0, <1>2, <1>3 DEF Control, HungUp
<1>8. Upward(c, p)'
  BY <1>1, <1>2, <1>3 DEF Upward
<1>9. Downward(c, p, l, m, n)'
  BY <1>1, <1>2, <1>3, DownwardKept
<1> QED
  BY <1>4, <1>5, <1>6, <1>7, <1>8, <1>9, OneClientSteps DEF Local

LEMMA LockKeeps ==
  ASSUME IInv, NEW c \in Client, Lock(c)
  PROVE  IInv'
<1>0. Shapes /\ Local(c) /\ InRange(c) /\ Control(c) /\ Sequences(c) /\ Numbers(c)
  BY LocalFacts
<1>1. PICK p, l, m, n \in Nat : Upward(c, p) /\ Downward(c, p, l, m, n)
  BY <1>0 DEF Local
<1>2. /\ conn[c].at = "wait" /\ mutex = None /\ None \notin Client
      /\ UNCHANGED <<script, sent, queue, input, output, poisoned, running, got>>
  BY ConstantsAssumption DEF Lock
<1>3. CASE poisoned
  BY <1>0, <1>2, <1>3, BreakKeeps DEF Lock, Shapes
<1>4. CASE ~poisoned
  <2>1. Become(c, "handle", conn[c].hand) /\ mutex' = c /\ UNCHANGED ended
    BY <1>4 DEF Lock
  <2>2. [at |-> "handle", hand |-> conn[c].hand] \in Connecting
    BY <1>0 DEF Shapes, Connecting
  <2>3. /\ conn' \in [Client -> Connecting]
        /\ conn'[c].at = "handle" /\ conn'[c].hand = conn[c].hand
        /\ \A d \in Client \ {c} : conn'[d] = conn[d]
    BY <1>0, <2>1, <2>2, Becomes
  <2>4. Shapes'
    BY <1>0, <1>2, <2>1, <2>3 DEF Shapes
  <2>5. Elsewhere(c)
    BY <1>2, <2>1, <2>3 DEF Elsewhere
  <2>6. InRange(c)'
    BY <1>0, <1>2, <2>1, <2>3 DEF InRange, Frame
  <2>7. Control(c)'
    BY <1>0, <1>2, <2>1, <2>3 DEF Control, HungUp
  <2>8. Upward(c, p)'
    BY <1>1, <1>2, <2>3 DEF Upward
  <2>9. Downward(c, p, l, m, n)'
    BY <1>1, <1>2, <2>3, DownwardKept
  <2> QED
    BY <2>4, <2>5, <2>6, <2>7, <2>8, <2>9, OneClientSteps DEF Local
<1> QED
  BY <1>3, <1>4

LEMMA PanicKeeps ==
  ASSUME IInv, NEW c \in Client, Panic(c)
  PROVE  IInv'
<1>1. InRange(c) /\ Shapes /\ None \notin Client
  BY LocalFacts, ConstantsAssumption
<1>2. mutex = c /\ mutex' = None /\ poisoned' = TRUE /\ HangUp(c, "broken")
  BY <1>1 DEF Panic, InRange
<1>3. UNCHANGED <<script, sent, queue, input, output, running, got>>
  BY DEF Panic
<1> QED
  BY <1>1, <1>2, <1>3, BreakKeeps DEF Shapes

\* A frame that calls for no answer adds no request to those answered.
LEMMA HandleKeeps ==
  ASSUME IInv, NEW c \in Client, Handle(c)
  PROVE  IInv'
<1>0. Shapes /\ Local(c) /\ InRange(c) /\ Control(c) /\ Sequences(c) /\ Numbers(c)
  BY LocalFacts
<1>1. PICK p, l, m, n \in Nat : Upward(c, p) /\ Downward(c, p, l, m, n)
  BY <1>0 DEF Local
<1>2. /\ conn[c].at = "handle" /\ conn[c].hand = p /\ p # None /\ mutex = c /\ mutex' = None
      /\ None \notin Client
      /\ UNCHANGED <<script, sent, queue, ended, input, output, poisoned, running, got>>
  BY <1>0, <1>1, ConstantsAssumption DEF Handle, Control, Upward, InRange
<1>3. \A x, y : Requests(c, x, y)' = Requests(c, x, y)
  BY <1>2 DEF Requests, Frame, KindOf
<1>4. p \in Frame(c) /\ Frame(c) \subseteq Nat
  BY <1>0, <1>2 DEF InRange, Numbers
<1>5. CASE Answered(KindOf(c, p))
  <2>1. [at |-> "write", hand |-> p] \in Connecting
    BY DEF Connecting
  <2>2. /\ conn' \in [Client -> Connecting]
        /\ conn'[c].at = "write" /\ conn'[c].hand = p
        /\ \A d \in Client \ {c} : conn'[d] = conn[d]
    BY <1>0, <1>2, <1>5, <2>1, Becomes DEF Handle
  <2>3. Shapes'
    BY <1>0, <1>2, <2>2 DEF Shapes
  <2>4. Elsewhere(c)
    BY <1>2, <2>2 DEF Elsewhere
  <2>5. InRange(c)'
    BY <1>0, <1>2, <2>2 DEF InRange, Frame
  <2>6. Control(c)'
    BY <1>0, <1>2, <1>5, <2>2 DEF Control, HungUp, KindOf, Answered
  <2>7. Upward(c, p)'
    BY <1>1, <1>2, <2>2 DEF Upward
  <2>8. Downward(c, p, l, m, n)'
    BY <1>1, <1>2, <2>2, DownwardKept
  <2> QED
    BY <2>3, <2>4, <2>5, <2>6, <2>7, <2>8, OneClientSteps DEF Local
<1>6. CASE ~Answered(KindOf(c, p))
  <2>1. [at |-> "read", hand |-> None] \in Connecting
    BY DEF Connecting
  <2>2. /\ conn' \in [Client -> Connecting]
        /\ conn'[c].at = "read" /\ conn'[c].hand = None
        /\ \A d \in Client \ {c} : conn'[d] = conn[d]
    BY <1>0, <1>2, <1>6, <2>1, Becomes DEF Handle
  <2>3. Shapes'
    BY <1>0, <1>2, <2>2 DEF Shapes
  <2>4. Elsewhere(c)
    BY <1>2, <2>2 DEF Elsewhere
  <2>5. InRange(c)'
    BY <1>0, <1>2, <2>2 DEF InRange, Frame
  <2>6. Control(c)'
    BY <1>0, <1>2, <2>2 DEF Control, HungUp
  <2>7. Upward(c, p)'
    BY <1>1, <1>2, <2>2 DEF Upward
  <2>8. CASE input[c].at = "killed" /\ output[c].at = "done"
    <3>1. Downward(c, p, l, m, n)'
      BY <1>1, <1>2, <1>3, <2>2, <2>8 DEF Downward, IsListing
    <3> QED
      BY <2>3, <2>4, <2>5, <2>6, <2>7, <3>1, OneClientSteps DEF Local
  <2>9. CASE ~(input[c].at = "killed" /\ output[c].at = "done")
    <3>1. /\ l <= m /\ m <= n /\ n = p - 1 /\ n <= p
          /\ IsListing(got[c], Requests(c, 0, l))
          /\ Requests(c, l, m) = {output[c].hand} \ {None}
          /\ IsListing(queue[c].down, Requests(c, m, n))
      BY <1>1, <1>2, <2>9 DEF Downward
    <3>2. Requests(c, m, p) = Requests(c, m, n)
      <4>1. ASSUME NEW i \in Frame(c), i <= p, KindOf(c, i) = "request" PROVE i <= n
        <5>1. i # p
          BY <1>6, <4>1 DEF Answered
        <5> QED
          BY <1>4, <3>1, <4>1, <5>1
      <4> QED
        BY <1>4, <3>1, <4>1 DEF Requests
    <3>3. IsListing(queue'[c].down, Requests(c, m, p)')
      BY <1>2, <1>3, <3>1, <3>2
    <3>4. m <= p
      BY <3>1
    <3>5. Downward(c, p, l, m, p)'
      BY <1>2, <1>3, <2>2, <3>1, <3>3, <3>4 DEF Downward, IsListing
    <3> QED
      BY <2>3, <2>4, <2>5, <2>6, <2>7, <3>5, OneClientSteps DEF Local
  <2> QED
    BY <2>8, <2>9
<1> QED
  BY <1>5, <1>6

LEMMA ConnWriteKeeps ==
  ASSUME IInv, NEW c \in Client, ConnWrite(c)
  PROVE  IInv'
<1>0. Shapes /\ Local(c) /\ InRange(c) /\ Control(c) /\ Sequences(c) /\ Numbers(c)
  BY LocalFacts
<1>1. PICK p, l, m, n \in Nat : Upward(c, p) /\ Downward(c, p, l, m, n)
  BY <1>0 DEF Local
<1>2. /\ conn[c].at = "write" /\ conn[c].hand = p /\ p # None /\ mutex # c
      /\ KindOf(c, p) = "request"
      /\ UNCHANGED <<script, sent, input, output, mutex, poisoned, running, got>>
  BY <1>0, <1>1 DEF ConnWrite, Control, Upward, InRange
<1>3. CASE output[c].at = "done"
  BY <1>0, <1>2, <1>3, BreakKeeps DEF ConnWrite, Shapes
<1>4. CASE output[c].at # "done"
  <2>1. /\ HasRoom(c, "down") /\ Put(c, "down", p) /\ Become(c, "read", None)
        /\ UNCHANGED ended
    BY <1>2, <1>4 DEF ConnWrite
  <2>2. [at |-> "read", hand |-> None] \in Connecting
    BY DEF Connecting
  <2>3. /\ conn' \in [Client -> Connecting]
        /\ conn'[c].at = "read" /\ conn'[c].hand = None
        /\ \A d \in Client \ {c} : conn'[d] = conn[d]
    BY <1>0, <2>1, <2>2, Becomes
  <2>4. /\ queue' \in [Client -> SocketQueues]
        /\ queue'[c].down = Append(queue[c].down, p) /\ queue'[c].up = queue[c].up
        /\ \A d \in Client \ {c} : queue'[d] = queue[d]
    BY <1>0, <2>1, PutDown
  <2>5. Shapes'
    BY <1>0, <1>2, <2>1, <2>3, <2>4 DEF Shapes
  <2>6. Elsewhere(c)
    BY <1>2, <2>1, <2>3, <2>4 DEF Elsewhere
  <2>7. p \in Frame(c) /\ Frame(c) \subseteq Nat
    BY <1>0, <1>2 DEF InRange, Numbers
  <2>8. InRange(c)'
    <3>1. /\ Len(queue'[c].down) = Len(queue[c].down) + 1
          /\ ToSet(queue'[c].down) \subseteq ToSet(queue[c].down) \cup {p}
      BY <1>0, <2>4, <2>7, AppendFacts DEF Sequences
    <3>2. Len(queue'[c].down) <= Capacity
      BY <1>0, <2>1, <3>1 DEF HasRoom, Numbers
    <3> QED
      BY <1>0, <1>2, <2>3, <2>4, <2>7, <3>1, <3>2 DEF InRange, Frame
  <2>9. Control(c)'
    BY <1>0, <1>2, <1>4, <2>1, <2>3, <2>4 DEF Control, HungUp
  <2>10. Upward(c, p)'
    BY <1>1, <1>2, <2>3, <2>4 DEF Upward
  <2>11. /\ l <= m /\ m <= n /\ n = p - 1 /\ m < p
         /\ IsListing(got[c], Requests(c, 0, l))
         /\ Requests(c, l, m) = {output[c].hand} \ {None}
         /\ IsListing(queue[c].down, Requests(c, m, n))
    BY <1>1, <1>2, <1>4 DEF Downward
  <2>12. \A x, y : Requests(c, x, y)' = Requests(c, x, y)
    BY <1>2 DEF Requests, Frame, KindOf
  <2>13. Requests(c, m, p) = Requests(c, m, n) \cup {p}
    BY <1>2, <2>7, <2>11 DEF Requests
  <2>14. \A y \in Requests(c, m, n) : y < p
    BY <2>7, <2>11 DEF Requests
  <2>15. IsListing(queue'[c].down, Requests(c, m, p)')
    <3>1. IsListing(Append(queue[c].down, p), Requests(c, m, n) \cup {p})
      BY <1>0, <2>11, <2>14, ListingAppend DEF Sequences
    <3> QED
      BY <2>4, <2>12, <2>13, <3>1
  <2>16. Downward(c, p, l, m, p)'
    BY <1>2, <2>3, <2>11, <2>12, <2>15 DEF Downward, IsListing
  <2> QED
    BY <2>5, <2>6, <2>8, <2>9, <2>10, <2>16, OneClientSteps DEF Local
<1> QED
  BY <1>3, <1>4

\* Every connection that was open is broken.
LEMMA StopKeeps == IInv /\ Stop => IInv'
<1> SUFFICES ASSUME IInv, Stop PROVE IInv'
  OBVIOUS
<1>1. Shapes /\ None \notin Client
  BY ConstantsAssumption DEF IInv
<1>2. /\ mutex' = None /\ UNCHANGED <<script, sent, queue, input, output, poisoned, got>>
      /\ conn' = [c \in Client |->
           IF HungUp(c) THEN conn[c] ELSE [at |-> "broken", hand |-> None]]
      /\ ended' = [c \in Client |-> ended[c] \cup {"down"}]
      /\ running' = FALSE
  BY DEF Stop
<1>3. [at |-> "broken", hand |-> None] \in Connecting
  BY DEF Connecting
<1>4. Shapes'
  BY <1>1, <1>2, <1>3 DEF Shapes
<1>5. ASSUME NEW c \in Client PROVE Local(c)'
  <2>0. Shapes /\ Local(c) /\ InRange(c) /\ Control(c) /\ Sequences(c) /\ Numbers(c)
    BY LocalFacts
  <2>1. PICK p, l, m, n \in Nat : Upward(c, p) /\ Downward(c, p, l, m, n)
    BY <2>0 DEF Local
  <2>2. ended'[c] = ended[c] \cup {"down"}
    BY <1>2
  <2>3. \/ conn'[c] = conn[c] /\ HungUp(c)
        \/ conn'[c].at = "broken" /\ conn'[c].hand = None /\ ~HungUp(c)
    BY <1>2
  <2>4. InRange(c)'
    BY <1>1, <1>2, <2>0, <2>3 DEF InRange, Frame, HungUp
  <2>5. Control(c)'
    BY <1>2, <2>0, <2>2, <2>3 DEF Control, HungUp, KindOf
  <2>6. Upward(c, p)'
    BY <1>2, <2>1, <2>3 DEF Upward, HungUp
  <2>7. Downward(c, p, l, m, n)'
    BY <1>2, <2>1, <2>3, DownwardKept DEF HungUp
  <2> QED
    BY <2>4, <2>5, <2>6, <2>7 DEF Local
<1> QED
  BY <1>4, <1>5 DEF IInv

LEMMA StutterKeeps == IInv /\ UNCHANGED vars => IInv'
<1> SUFFICES ASSUME IInv, UNCHANGED vars PROVE IInv'
  OBVIOUS
<1>1. Shapes'
  BY DEF IInv, Shapes, vars
<1>2. ASSUME NEW c \in Client PROVE Local(c)'
  <2>1. Local(c)
    BY DEF IInv
  <2>2. InRange(c)' /\ Control(c)'
    BY <2>1 DEF Local, InRange, Control, Frame, HungUp, KindOf, vars
  <2>3. \A p \in Nat : Upward(c, p) => Upward(c, p)'
    BY DEF Upward, vars
  <2>4. \A x, y : Requests(c, x, y)' = Requests(c, x, y)
    BY DEF Requests, Frame, KindOf, vars
  <2>5. \A p, l, m, n \in Nat : Downward(c, p, l, m, n) => Downward(c, p, l, m, n)'
    BY <2>4 DEF Downward, IsListing, vars
  <2> QED
    BY <2>1, <2>2, <2>3, <2>5 DEF Local
<1> QED
  BY <1>1, <1>2 DEF IInv

LEMMA InitInv == Init => IInv
<1> SUFFICES ASSUME Init PROVE IInv
  OBVIOUS
<1>1. <<>> \in Seq(Nat) /\ Len(<<>>) = 0 /\ DOMAIN <<>> = {}
  OBVIOUS
<1>2. Shapes
  BY <1>1 DEF Init, Shapes, SocketQueues, Connecting, Hands
<1>3. ASSUME NEW c \in Client PROVE Local(c)
  <2>1. /\ script[c] \in ScriptsOf[c] /\ sent[c] = 0
        /\ queue[c].up = <<>> /\ queue[c].down = <<>> /\ ended[c] = {} /\ got[c] = <<>>
        /\ input[c].at = "copy" /\ input[c].hand = None
        /\ output[c].at = "copy" /\ output[c].hand = None
        /\ conn[c].at = "queued" /\ conn[c].hand = None /\ mutex # c
    BY ConstantsAssumption DEF Init, Hands
  <2>2. ToSet(<<>>) = {} /\ IsListing(<<>>, {})
    BY ListingOfNothing DEF ToSet
  <2>3. InRange(c)
    BY <1>1, <2>1, <2>2, ConstantsAssumption DEF InRange
  <2>4. Control(c)
    BY <2>1 DEF Control, HungUp
  <2>5. Upward(c, 0)
    BY <1>1, <2>1 DEF Upward
  <2>6. Requests(c, 0, 0) = {}
    BY <2>1, ScriptIsSequence DEF Requests
  <2>7. Downward(c, 0, 0, 0, 0)
    <3>1. /\ IsListing(got[c], Requests(c, 0, 0)) /\ IsListing(queue[c].down, Requests(c, 0, 0))
          /\ Requests(c, 0, 0) = {output[c].hand} \ {None}
      BY <2>1, <2>2, <2>6
    <3> QED
      BY <2>1, <3>1 DEF Downward
  <2> QED
    BY <2>3, <2>4, <2>5, <2>7 DEF Local
<1> QED
  BY <1>2, <1>3 DEF IInv
-----------------------------------------------------------------------------
LEMMA Invariance == Spec => []IInv
<1>1. IInv /\ [Next]_vars => IInv'
  <2> SUFFICES ASSUME IInv, [Next]_vars PROVE IInv'
    OBVIOUS
  <2>1. ASSUME NEW c \in Client, InputStep(c) PROVE IInv'
    BY <2>1, ProxyReadKeeps, ProxyWriteKeeps, ProxyFinishInputKeeps, ProxyExitKeeps DEF InputStep
  <2>2. ASSUME NEW c \in Client, OutputStep(c) PROVE IInv'
    BY <2>2, OutputReadKeeps, OutputWriteKeeps, OutputEofKeeps DEF OutputStep
  <2>3. ASSUME NEW c \in Client, ConnStep(c) PROVE IInv'
    BY <2>3, ConnReadKeeps, ConnEofKeeps, LockKeeps, HandleKeeps, PanicKeeps, ConnWriteKeeps
    DEF ConnStep
  <2> QED
    BY <2>1, <2>2, <2>3, AcceptKeeps, ProxyKilledKeeps, StopKeeps, StutterKeeps DEF Next
<1> QED
  BY InitInv, <1>1, PTL DEF Spec

(***************************************************************************)
(* No direction of a socket overflows, frames in flight are frames of the  *)
(* script, and the server is held by the one connection that handles a     *)
(* frame (serve.rs:172).                                                   *)
(***************************************************************************)
THEOREM TypeCorrectness == Spec => []TypeOK
<1>1. IInv => TypeOK
  <2> SUFFICES ASSUME IInv PROVE TypeOK
    OBVIOUS
  <2>1. ASSUME NEW c \in Client
        PROVE  InRange(c) /\ \A q \in {"up", "down"} : Len(queue[c][q]) <= Capacity
    BY DEF IInv, Local, InRange
  <2> QED
    BY <2>1 DEF IInv, Shapes, InRange, TypeOK
<1> QED
  BY <1>1, Invariance, PTL

(***************************************************************************)
(* However connections interleave, break or stop, what a harness reads are *)
(* the answers to its requests, each once and in their order (rpc.rs:73).  *)
(***************************************************************************)
THEOREM RequestsAnsweredInOrder == Spec => []AnswersInOrder
<1>1. IInv => AnswersInOrder
  <2> SUFFICES ASSUME IInv, NEW c \in Client
               PROVE  \E n \in 0 .. sent[c] : IsListing(got[c], Requests(c, 0, n))
    BY DEF AnswersInOrder
  <2>1. Local(c) /\ Numbers(c)
    BY LocalFacts
  <2>2. PICK p, l, m, n \in Nat : Upward(c, p) /\ Downward(c, p, l, m, n)
    BY <2>1 DEF Local
  <2>3. l <= p /\ p <= sent[c] /\ IsListing(got[c], Requests(c, 0, l))
    BY <2>1, <2>2 DEF Upward, Downward, Numbers
  <2>4. l \in 0 .. sent[c]
    BY <2>1, <2>3 DEF Numbers
  <2> QED
    BY <2>3, <2>4
<1> QED
  BY <1>1, Invariance, PTL

(***************************************************************************)
(* A proxy that ends of itself has passed every answer on, unless the      *)
(* service broke the connection (serve.rs:190).                            *)
(***************************************************************************)
THEOREM ProxiesLoseNothing == Spec => []NothingIsLost
<1>1. IInv => NothingIsLost
  <2> SUFFICES ASSUME IInv, NEW c \in Client, input[c].at = "done", conn[c].at # "broken"
               PROVE  IsListing(got[c], Requests(c, 0, Len(script[c])))
    BY DEF NothingIsLost, AllAnswered
  <2>1. Local(c) /\ Control(c) /\ Numbers(c)
    BY LocalFacts
  <2>2. PICK p, l, m, n \in Nat : Upward(c, p) /\ Downward(c, p, l, m, n)
    BY <2>1 DEF Local
  <2>3. /\ output[c].at = "done" /\ output[c].hand = None /\ queue[c].down = <<>>
        /\ conn[c].at = "closed" /\ queue[c].up = <<>> /\ conn[c].hand = None
    BY <2>1 DEF Control, HungUp
  <2>4. p = Len(script[c])
    BY <2>1, <2>2, <2>3 DEF Upward
  <2>5. /\ n = p /\ l <= m /\ m <= n /\ Requests(c, l, m) = {}
        /\ IsListing(<<>>, Requests(c, m, n)) /\ IsListing(got[c], Requests(c, 0, l))
    BY <2>2, <2>3 DEF Downward
  <2>6. Requests(c, m, n) = {}
    BY <2>5 DEF IsListing, ToSet
  <2>7. Requests(c, 0, p) = Requests(c, 0, l) \cup Requests(c, l, m) \cup Requests(c, m, n)
    BY <2>1, <2>5 DEF Requests, Numbers
  <2> QED
    BY <2>4, <2>5, <2>6, <2>7
<1> QED
  BY <1>1, Invariance, PTL
-----------------------------------------------------------------------------
(***************************************************************************)
(* read_frame.  The reader is always in one line of the stream, having     *)
(* kept of it what lies before its position (Reading).  That a stream made *)
(* of lines has them where their lengths say (LaidOut) is shown for        *)
(* FlattenSeq; that the recursive functions of the model exist, by a       *)
(* shortest one that does not.                                             *)
(***************************************************************************)

LOCAL Less == OpToRel(<, Nat)

LEMMA LessIsLess == \A m, n \in Nat : <<m, n>> \in Less <=> m < n
  BY DEF Less, OpToRel

LEMMA LeastNatural ==
  ASSUME NEW T, T \subseteq Nat, T # {}
  PROVE  \E m \in T : \A n \in T : m <= n
<1>1. IsWellFoundedOn(Less, Nat)
  BY NatLessThanWellFounded DEF Less
<1>2. PICK m \in T : \A n \in T : ~(<<n, m>> \in Less)
  BY <1>1, WFMin
<1>3. \A n \in T : ~(n < m)
  BY <1>2, LessIsLess
<1> QED
  BY <1>3

LEMMA MinIsLeast ==
  ASSUME NEW T, T \subseteq Nat, T # {}
  PROVE  Min(T) \in T /\ \A n \in T : Min(T) <= n
  BY LeastNatural DEF Min

LEMMA MinIs ==
  ASSUME NEW T, T \subseteq Nat, NEW m \in T, \A n \in T : m <= n
  PROVE  Min(T) = m
<1>1. Min(T) \in T /\ \A n \in T : Min(T) <= n
  BY MinIsLeast
<1>2. Min(T) \in Nat /\ m \in Nat /\ m <= Min(T) /\ Min(T) <= m
  BY <1>1
<1> QED
  BY <1>2

\* The frames of lines.
Framed == [kind : {"line", "too_large", "invalid", "end"}, bytes : Seq(Byte)]

LEMMA FrameOfLine ==
  ASSUME NEW line \in Seq(Byte)
  PROVE  FrameOf(line) \in Framed /\ FrameOf(line) # EndOfStream
<1>1. line # <<>> => Front(line) \in Seq(Byte)
  BY DEF Front
<1>2. CASE Len(line) > MaxFrameBytes
  BY <1>2 DEF FrameOf, TooLarge, EndOfStream, Framed
<1>3. CASE ~(Len(line) > MaxFrameBytes) /\ "stray" \in ToSet(line)
  BY <1>3 DEF FrameOf, InvalidData, EndOfStream, Framed
<1>4. CASE ~(Len(line) > MaxFrameBytes) /\ "stray" \notin ToSet(line)
  <2>1. PICK b \in Seq(Byte) : FrameOf(line) = Line(b)
    BY <1>1, <1>4 DEF FrameOf
  <2> QED
    BY <2>1 DEF Line, EndOfStream, Framed
<1> QED
  BY <1>2, <1>3, <1>4

\* Once a line was read to its end.
LEMMA FinishedLine ==
  ASSUME NEW line \in Seq(Byte), NEW too_large, too_large <=> Len(line) > MaxFrameBytes, NEW bytes,
         ~too_large => bytes = line
  PROVE  Finished(bytes, too_large) = FrameOf(line)
  BY DEF Finished, FrameOf, WithoutReturn

\* The stream is the lines, each with its newline, though that of the last may
\* lie beyond its end; starts[i] bytes come before line i.
LaidOut(stream, lines, starts) ==
  /\ stream \in Seq(Byte \cup {"newline"}) /\ lines \in Seq(Seq(Byte))
  /\ starts \in [1 .. Len(lines) + 1 -> Nat] /\ starts[1] = 0
  /\ \A i \in 1 .. Len(lines) :
       /\ starts[i + 1] = starts[i] + Len(lines[i]) + 1
       /\ starts[i] + Len(lines[i]) <= Len(stream)
       /\ \A k \in 1 .. Len(lines[i]) : stream[starts[i] + k] = lines[i][k]
       /\ starts[i + 1] <= Len(stream) => stream[starts[i + 1]] = "newline"
  /\ starts[Len(lines) + 1] \in {Len(stream), Len(stream) + 1}
  /\ starts[Len(lines) + 1] = Len(stream) + 1 => Len(lines) > 0 /\ lines[Len(lines)] # <<>>

\* The first j lines were read, and what was met of the next one is kept.
Reading(stream, lines, starts, s, j) ==
  /\ j \in 0 .. Len(lines)
  /\ s.at \in 0 .. Len(stream)
  /\ s.frames \in Seq(Framed) /\ Len(s.frames) = j
  /\ \A i \in 1 .. j : s.frames[i] = FrameOf(lines[i]) /\ s.frames[i] # InvalidData
  /\ s.saw_data \in BOOLEAN /\ s.too_large \in BOOLEAN
  /\ j = Len(lines) => s.at = Len(stream) /\ ~s.saw_data
  /\ j < Len(lines) =>
       /\ starts[j + 1] <= s.at /\ s.at < starts[j + 2]
       /\ s.saw_data <=> s.at > starts[j + 1]
       /\ s.too_large <=> s.at - starts[j + 1] > MaxFrameBytes
       /\ s.bytes = IF s.too_large THEN <<>> ELSE SubSeq(lines[j + 1], 1, s.at - starts[j + 1])
  /\ s = [at |-> s.at, bytes |-> s.bytes, too_large |-> s.too_large, saw_data |-> s.saw_data,
          frames |-> s.frames]

Read(lines, s) == Over(s) /\ s.frames = Expected(lines)

LEMMA ReadingGoesOn ==
  ASSUME NEW stream, NEW lines, NEW starts, LaidOut(stream, lines, starts),
         NEW s, NEW j, Reading(stream, lines, starts, s, j)
  PROVE  ~Over(s)
<1>1. j \in Nat /\ Len(s.frames) = j
  BY DEF Reading, LaidOut
<1>2. CASE s.frames = <<>>
  BY <1>2 DEF Over
<1>3. CASE s.frames # <<>>
  <2>1. j \in 1 .. j /\ j \in 1 .. Len(lines)
    BY <1>1, <1>3 DEF Reading, LaidOut
  <2>2. Last(s.frames) = FrameOf(lines[j]) /\ Last(s.frames) # InvalidData
    BY <1>1, <2>1 DEF Reading, Last
  <2>3. lines[j] \in Seq(Byte)
    BY <2>1 DEF LaidOut
  <2> QED
    BY <2>2, <2>3, FrameOfLine DEF Over
<1> QED
  BY <1>2, <1>3

\* The frame that ends line j + 1, and with it perhaps everything.
LEMMA LineIsRead ==
  ASSUME NEW lines \in Seq(Seq(Byte)), NEW j \in 0 .. Len(lines), j < Len(lines),
         NEW frames \in Seq(Framed), Len(frames) = j,
         \A i \in 1 .. j : frames[i] = FrameOf(lines[i]) /\ frames[i] # InvalidData
  PROVE  \E after \in Seq(Framed) :
           /\ after = Append(frames, FrameOf(lines[j + 1])) /\ Len(after) = j + 1
           /\ \A i \in 1 .. j + 1 : after[i] = FrameOf(lines[i])
           /\ FrameOf(lines[j + 1]) # InvalidData => \A i \in 1 .. j + 1 : after[i] # InvalidData
           /\ FrameOf(lines[j + 1]) = InvalidData => after = Expected(lines) /\ Last(after) = InvalidData
<1> DEFINE after == Append(frames, FrameOf(lines[j + 1]))
           all == [k \in DOMAIN lines |-> FrameOf(lines[k])]
           bad == {k \in DOMAIN all : all[k] = InvalidData}
<1>1. j + 1 \in DOMAIN lines /\ lines[j + 1] \in Seq(Byte) /\ j \in Nat
  OBVIOUS
<1>2. FrameOf(lines[j + 1]) \in Framed
  BY <1>1, FrameOfLine
<1>3. /\ after \in Seq(Framed) /\ Len(after) = j + 1
      /\ \A i \in 1 .. j + 1 : after[i] = FrameOf(lines[i])
  <2>1. /\ after \in Seq(Framed) /\ Len(after) = j + 1 /\ after[j + 1] = FrameOf(lines[j + 1])
        /\ \A i \in 1 .. j : after[i] = frames[i]
    BY <1>1, <1>2
  <2>2. ASSUME NEW i \in 1 .. j + 1 PROVE after[i] = FrameOf(lines[i])
    <3>1. i = j + 1 \/ i \in 1 .. j
      BY <1>1
    <3> QED
      BY <2>1, <3>1
  <2> QED
    BY <2>1, <2>2
<1>4. ASSUME FrameOf(lines[j + 1]) # InvalidData, NEW i \in 1 .. j + 1 PROVE after[i] # InvalidData
  <2>1. i = j + 1 \/ i \in 1 .. j
    BY <1>1
  <2> QED
    BY <1>3, <1>4, <2>1
<1>5. ASSUME FrameOf(lines[j + 1]) = InvalidData PROVE after = Expected(lines) /\ Last(after) = InvalidData
  <2>1. all \in Seq(Framed) /\ Len(all) = Len(lines) /\ \A k \in 1 .. Len(lines) : all[k] = FrameOf(lines[k])
    <3>1. \A k \in DOMAIN lines : FrameOf(lines[k]) \in Framed
      BY FrameOfLine
    <3>2. all \in [1 .. Len(lines) -> Framed] /\ Len(lines) \in Nat
      BY <3>1
    <3> QED
      BY <3>2
  <2>2. j + 1 \in bad /\ bad \subseteq Nat
    BY <1>1, <1>5
  <2>3. \A k \in bad : j + 1 <= k
    BY <1>1, <2>1
  <2>4. Min(bad) = j + 1
    BY <2>2, <2>3, MinIs
  <2> HIDE DEF bad
  <2>5. Expected(lines) = SubSeq(all, 1, j + 1)
    BY <2>2, <2>4 DEF Expected, bad
  <2> HIDE DEF all
  <2>6. SubSeq(all, 1, j + 1) \in Seq(Framed) /\ Len(SubSeq(all, 1, j + 1)) = j + 1
        /\ \A i \in 1 .. j + 1 : SubSeq(all, 1, j + 1)[i] = all[i]
    BY <1>1, <2>1
  <2>7. after = SubSeq(all, 1, j + 1)
    BY <1>1, <1>3, <2>1, <2>6
  <2>8. Last(after) = after[j + 1] /\ j + 1 \in 1 .. j + 1
    BY <1>1, <1>3 DEF Last
  <2> QED
    BY <1>3, <1>5, <2>5, <2>7, <2>8
<1> QED
  <2> HIDE DEF all, bad
  <2>1. after = Append(frames, FrameOf(lines[j + 1]))
    OBVIOUS
  <2> HIDE DEF after
  <2> QED
    BY <1>3, <1>4, <1>5, <2>1

\* When nothing is left the frames are complete.
LEMMA AllIsRead ==
  ASSUME NEW lines \in Seq(Seq(Byte)),
         NEW frames \in Seq(Framed), Len(frames) = Len(lines),
         \A i \in 1 .. Len(lines) : frames[i] = FrameOf(lines[i]) /\ frames[i] # InvalidData,
         NEW after, after = Append(frames, EndOfStream)
  PROVE  after = Expected(lines) /\ Last(after) = EndOfStream /\ after # <<>>
<1> DEFINE all == [k \in DOMAIN lines |-> FrameOf(lines[k])]
           bad == {k \in DOMAIN all : all[k] = InvalidData}
<1>1. all \in Seq(Framed) /\ Len(all) = Len(lines) /\ \A k \in 1 .. Len(lines) : all[k] = FrameOf(lines[k])
  <2>1. \A k \in DOMAIN lines : FrameOf(lines[k]) \in Framed
    BY FrameOfLine
  <2>2. all \in [1 .. Len(lines) -> Framed] /\ Len(lines) \in Nat
    BY <2>1
  <2> QED
    BY <2>2
<1>2. bad = {}
  BY <1>1
<1>3. Expected(lines) = Append(all, EndOfStream)
  BY <1>2 DEF Expected
<1> HIDE DEF all, bad
<1>4. all = frames
  <2>1. Len(all) = Len(frames) /\ \A k \in 1 .. Len(all) : all[k] = frames[k]
    BY <1>1
  <2> QED
    BY <1>1, <2>1, SeqEqual
<1> QED
  BY <1>3, <1>4 DEF Last

LEMMA PartIs ==
  ASSUME NEW S, NEW s \in Seq(S), NEW m \in Nat, NEW n \in Nat, m <= n, n <= Len(s)
  PROVE  /\ SubSeq(s, m + 1, n) \in Seq(S) /\ Len(SubSeq(s, m + 1, n)) = n - m
         /\ \A k \in 1 .. n - m : SubSeq(s, m + 1, n)[k] = s[m + k]
<1>1. Len(SubSeq(s, m + 1, n)) = n - m
  OBVIOUS
<1>2. ASSUME NEW k \in 1 .. n - m PROVE SubSeq(s, m + 1, n)[k] = s[m + k]
  OBVIOUS
<1> QED
  BY <1>1, <1>2

LEMMA PrefixIs ==
  ASSUME NEW S, NEW s \in Seq(S), NEW n \in Nat, n <= Len(s)
  PROVE  /\ SubSeq(s, 1, n) \in Seq(S) /\ Len(SubSeq(s, 1, n)) = n
         /\ \A k \in 1 .. n : SubSeq(s, 1, n)[k] = s[k]
  OBVIOUS

LEMMA JoinedIs ==
  ASSUME NEW S, NEW s \in Seq(S), NEW t \in Seq(S)
  PROVE  /\ s \o t \in Seq(S) /\ Len(s \o t) = Len(s) + Len(t)
         /\ \A k \in 1 .. Len(s) : (s \o t)[k] = s[k]
         /\ \A k \in 1 .. Len(t) : (s \o t)[Len(s) + k] = t[k]
  OBVIOUS

\* Line i of the stream.
LEMMA LineLies ==
  ASSUME NEW stream, NEW lines, NEW starts, LaidOut(stream, lines, starts), NEW i \in 1 .. Len(lines)
  PROVE  /\ Len(stream) \in Nat /\ Len(lines) \in Nat /\ i \in Nat
         /\ starts[i] \in Nat /\ starts[i + 1] \in Nat /\ lines[i] \in Seq(Byte) /\ Len(lines[i]) \in Nat
         /\ starts[i + 1] = starts[i] + Len(lines[i]) + 1 /\ starts[i] + Len(lines[i]) <= Len(stream)
         /\ \A k \in 1 .. Len(lines[i]) : stream[starts[i] + k] = lines[i][k]
         /\ starts[i + 1] <= Len(stream) => stream[starts[i + 1]] = "newline"
         /\ i < Len(lines) => starts[i + 1] <= Len(stream)
<1>1. /\ Len(stream) \in Nat /\ Len(lines) \in Nat /\ i \in Nat
      /\ starts \in [1 .. Len(lines) + 1 -> Nat] /\ lines[i] \in Seq(Byte)
  BY DEF LaidOut
<1>2. starts[i] \in Nat /\ starts[i + 1] \in Nat /\ Len(lines[i]) \in Nat
  BY <1>1
<1>3. /\ starts[i + 1] = starts[i] + Len(lines[i]) + 1 /\ starts[i] + Len(lines[i]) <= Len(stream)
      /\ \A k \in 1 .. Len(lines[i]) : stream[starts[i] + k] = lines[i][k]
      /\ starts[i + 1] <= Len(stream) => stream[starts[i + 1]] = "newline"
  BY DEF LaidOut
<1>4. ASSUME i < Len(lines) PROVE starts[i + 1] <= Len(stream)
  <2>1. i + 1 \in 1 .. Len(lines) /\ starts[i + 1] \in Nat
    BY <1>1, <1>2, <1>4
  <2>2. starts[i + 1] + Len(lines[i + 1]) <= Len(stream) /\ lines[i + 1] \in Seq(Byte)
    BY <2>1 DEF LaidOut
  <2>3. Len(lines[i + 1]) \in Nat
    BY <2>2
  <2> QED
    BY <1>1, <2>1, <2>2, <2>3
<1> QED
  BY <1>1, <1>2, <1>3, <1>4

\* The bytes of a stream between p and q continue the line that starts after a.
Continues(stream, line, a, p, q) ==
  /\ Len(SubSeq(stream, p + 1, q)) = q - p
  /\ Len(SubSeq(line, 1, p - a)) = p - a
  /\ SubSeq(line, 1, p - a) \o SubSeq(stream, p + 1, q) = SubSeq(line, 1, q - a)

LEMMA BodyContinues ==
  ASSUME NEW stream, NEW lines, NEW starts, LaidOut(stream, lines, starts), NEW i \in 1 .. Len(lines),
         NEW p \in Nat, NEW q \in Nat, starts[i] <= p, p <= q, q <= starts[i] + Len(lines[i])
  PROVE  Continues(stream, lines[i], starts[i], p, q)
<1> DEFINE a == starts[i]
           line == lines[i]
           bytes == Byte \cup {"newline"}
           body == SubSeq(stream, p + 1, q)
           head == SubSeq(line, 1, p - a)
           all == SubSeq(line, 1, q - a)
<1>1. /\ a \in Nat /\ line \in Seq(Byte) /\ Len(line) \in Nat /\ Len(stream) \in Nat
      /\ a + Len(line) <= Len(stream) /\ \A k \in 1 .. Len(line) : stream[a + k] = line[k]
      /\ a <= p /\ p <= q /\ q <= a + Len(line)
  BY LineLies
<1>2. stream \in Seq(bytes) /\ line \in Seq(bytes)
  BY <1>1 DEF LaidOut
<1> HIDE DEF a, line, bytes
<1>3. /\ q <= Len(stream) /\ p - a \in Nat /\ q - a \in Nat /\ q - p \in Nat
      /\ p - a <= Len(line) /\ q - a <= Len(line) /\ (p - a) + (q - p) = q - a
  BY <1>1
<1>4. body \in Seq(bytes) /\ Len(body) = q - p /\ \A k \in 1 .. q - p : body[k] = stream[p + k]
  BY <1>1, <1>2, <1>3, PartIs
<1>5. head \in Seq(bytes) /\ Len(head) = p - a /\ \A k \in 1 .. p - a : head[k] = line[k]
  BY <1>2, <1>3, PrefixIs
<1>6. all \in Seq(bytes) /\ Len(all) = q - a /\ \A k \in 1 .. q - a : all[k] = line[k]
  BY <1>2, <1>3, PrefixIs
<1> HIDE DEF body, head, all
<1>7. /\ head \o body \in Seq(bytes) /\ Len(head \o body) = q - a
      /\ \A k \in 1 .. p - a : (head \o body)[k] = head[k]
      /\ \A k \in 1 .. q - p : (head \o body)[(p - a) + k] = body[k]
  <2>1. /\ head \o body \in Seq(bytes) /\ Len(head \o body) = Len(head) + Len(body)
        /\ \A k \in 1 .. Len(head) : (head \o body)[k] = head[k]
        /\ \A k \in 1 .. Len(body) : (head \o body)[Len(head) + k] = body[k]
    <3>1. head \in Seq(bytes) /\ body \in Seq(bytes)
      BY <1>4, <1>5
    <3> QED
      BY <3>1, JoinedIs
  <2> QED
    BY <1>3, <1>4, <1>5, <2>1
<1>8. ASSUME NEW k \in 1 .. q - a PROVE (head \o body)[k] = all[k]
  <2>1. CASE k <= p - a
    <3>1. k \in 1 .. p - a
      BY <1>3, <2>1
    <3> QED
      BY <1>5, <1>6, <1>7, <3>1
  <2>2. CASE ~(k <= p - a)
    <3>1. /\ k - (p - a) \in 1 .. q - p /\ (p - a) + (k - (p - a)) = k
          /\ p + (k - (p - a)) = a + k /\ k \in 1 .. Len(line)
      BY <1>1, <1>3, <2>2
    <3>2. (head \o body)[(p - a) + (k - (p - a))] = body[k - (p - a)]
      BY <1>7, <3>1
    <3>3. body[k - (p - a)] = stream[p + (k - (p - a))]
      BY <1>4, <3>1
    <3>4. stream[a + k] = line[k] /\ all[k] = line[k]
      BY <1>1, <1>6, <3>1
    <3> QED
      BY <3>1, <3>2, <3>3, <3>4
  <2> QED
    BY <2>1, <2>2
<1>9. head \o body = all
  BY <1>6, <1>7, <1>8, SeqEqual
<1> QED
  BY <1>4, <1>5, <1>9 DEF Continues, body, head, all, a, line

LEMMA FilledIs ==
  ASSUME NEW stream, Len(stream) \in Nat, NEW cuts \in SUBSET (0 .. Len(stream)), NEW at \in 0 .. Len(stream)
  PROVE  /\ at = Len(stream) => Filled(stream, cuts, at) = at
         /\ at < Len(stream) => Filled(stream, cuts, at) \in at + 1 .. Len(stream)
<1> DEFINE ends == {k \in cuts \cup {Len(stream)} : at < k}
<1>1. CASE at = Len(stream)
  BY <1>1 DEF Filled
<1>2. CASE at < Len(stream)
  <2>4. ASSUME NEW k \in ends PROVE k \in at + 1 .. Len(stream) /\ k \in Nat
    <3>1. k \in 0 .. Len(stream) /\ at < k /\ at \in Nat
      OBVIOUS
    <3> QED
      BY <3>1
  <2>1. Len(stream) \in ends /\ ends \subseteq Nat
    BY <1>2, <2>4
  <2>2. Min(ends) \in ends
    BY <2>1, MinIsLeast
  <2>3. Filled(stream, cuts, at) = Min(ends)
    BY <1>2 DEF Filled
  <2> QED
    <3>1. Filled(stream, cuts, at) \in at + 1 .. Len(stream)
      BY <2>2, <2>3, <2>4
    <3>2. at # Len(stream)
      BY <1>2
    <3> QED
      BY <3>1, <3>2
<1> QED
  BY <1>1, <1>2

\* A line ends: the connection may end with it.
LEMMA FrameIsReturned ==
  ASSUME NEW stream, NEW lines, NEW starts, LaidOut(stream, lines, starts),
         NEW s, NEW j, Reading(stream, lines, starts, s, j), j < Len(lines),
         NEW at \in 0 .. Len(stream),
         j + 1 < Len(lines) => at = starts[j + 2],
         j + 1 = Len(lines) => at = Len(stream),
         NEW s2, s2 = NewCall(at, Append(s.frames, FrameOf(lines[j + 1])))
  PROVE  Read(lines, s2) \/ Reading(stream, lines, starts, s2, j + 1)
<1>1. /\ lines \in Seq(Seq(Byte)) /\ j \in 0 .. Len(lines) /\ s.frames \in Seq(Framed) /\ Len(s.frames) = j
      /\ \A i \in 1 .. j : s.frames[i] = FrameOf(lines[i]) /\ s.frames[i] # InvalidData
  BY DEF LaidOut, Reading
<1>2. /\ s2.frames \in Seq(Framed) /\ Len(s2.frames) = j + 1
      /\ \A i \in 1 .. j + 1 : s2.frames[i] = FrameOf(lines[i])
      /\ FrameOf(lines[j + 1]) # InvalidData => \A i \in 1 .. j + 1 : s2.frames[i] # InvalidData
      /\ FrameOf(lines[j + 1]) = InvalidData =>
           s2.frames = Expected(lines) /\ Last(s2.frames) = InvalidData
  <2>1. s2.frames = Append(s.frames, FrameOf(lines[j + 1]))
    BY DEF NewCall
  <2> QED
    <3> DEFINE frames == s.frames
               after == s2.frames
    <3>1. /\ frames \in Seq(Framed) /\ Len(frames) = j
          /\ \A i \in 1 .. j : frames[i] = FrameOf(lines[i]) /\ frames[i] # InvalidData
          /\ after = Append(frames, FrameOf(lines[j + 1]))
      BY <1>1, <2>1
    <3>3. lines \in Seq(Seq(Byte)) /\ j \in 0 .. Len(lines) /\ j < Len(lines)
      BY <1>1
    <3> HIDE DEF frames, after
    <3>2. \E f \in Seq(Framed) :
            /\ f = Append(frames, FrameOf(lines[j + 1])) /\ Len(f) = j + 1
            /\ \A i \in 1 .. j + 1 : f[i] = FrameOf(lines[i])
            /\ FrameOf(lines[j + 1]) # InvalidData => \A i \in 1 .. j + 1 : f[i] # InvalidData
            /\ FrameOf(lines[j + 1]) = InvalidData => f = Expected(lines) /\ Last(f) = InvalidData
      BY <3>1, <3>3, LineIsRead
    <3> QED
      BY <3>1, <3>2 DEF after
<1>3. CASE FrameOf(lines[j + 1]) = InvalidData
  <2>1. s2.frames # <<>>
    BY <1>1, <1>2
  <2> QED
    BY <1>2, <1>3, <2>1 DEF Read, Over
<1>4. CASE FrameOf(lines[j + 1]) # InvalidData
  <2>1. /\ s2.at = at /\ s2.bytes = <<>> /\ s2.too_large = FALSE /\ s2.saw_data = FALSE
        /\ s2 = [at |-> s2.at, bytes |-> s2.bytes, too_large |-> s2.too_large, saw_data |-> s2.saw_data,
                 frames |-> s2.frames]
    BY DEF NewCall
  <2>2. j + 1 \in 0 .. Len(lines)
    BY <1>1
  <2>3. ASSUME j + 1 < Len(lines)
        PROVE  /\ starts[j + 2] <= s2.at /\ s2.at < starts[j + 3]
               /\ s2.saw_data <=> s2.at > starts[j + 2]
               /\ s2.too_large <=> s2.at - starts[j + 2] > MaxFrameBytes
               /\ s2.bytes = SubSeq(lines[j + 2], 1, s2.at - starts[j + 2])
               /\ s2.too_large = FALSE
    <3>1. at = starts[j + 2] /\ j + 2 \in 1 .. Len(lines) /\ (j + 2) + 1 = j + 3
      BY <1>1, <2>3
    <3>2. /\ starts[j + 2] \in Nat /\ Len(lines[j + 2]) \in Nat /\ lines[j + 2] \in Seq(Byte)
          /\ starts[j + 3] = starts[j + 2] + Len(lines[j + 2]) + 1
      BY <3>1, LineLies
    <3>3. starts[j + 2] < starts[j + 3] /\ at - starts[j + 2] = 0 /\ ~(at > starts[j + 2])
      BY <3>1, <3>2
    <3>5. SubSeq(lines[j + 2], 1, 0) = <<>>
      BY <3>2
    <3>6. ~(0 > MaxFrameBytes)
      BY FramingAssumption
    <3>7. s2.at = starts[j + 2] /\ s2.at - starts[j + 2] = 0 /\ ~(s2.at > starts[j + 2])
      BY <2>1, <3>1, <3>3
    <3>4. starts[j + 2] <= s2.at /\ s2.at < starts[j + 3]
      BY <3>2, <3>3, <3>7
    <3>8. s2.saw_data <=> s2.at > starts[j + 2]
      BY <2>1, <3>7
    <3>9. s2.too_large <=> s2.at - starts[j + 2] > MaxFrameBytes
      BY <2>1, <3>6, <3>7
    <3>10. s2.bytes = SubSeq(lines[j + 2], 1, s2.at - starts[j + 2])
      BY <2>1, <3>5, <3>7
    <3> QED
      BY <2>1, <3>4, <3>8, <3>9, <3>10
  <2>4. (j + 1) + 1 = j + 2 /\ (j + 1) + 2 = j + 3
    BY <1>1
  <2>5. Reading(stream, lines, starts, s2, j + 1)
    BY <1>2, <1>4, <2>1, <2>2, <2>3, <2>4 DEF Reading
  <2> QED
    BY <2>5
<1> QED
  BY <1>3, <1>4

\* Nothing is left, but the last line lacked its newline.
LEMMA LastLineIsRead ==
  ASSUME NEW stream, NEW lines, NEW starts, LaidOut(stream, lines, starts),
         NEW s, NEW j, Reading(stream, lines, starts, s, j), j < Len(lines), s.at = Len(stream)
  PROVE  j + 1 = Len(lines) /\ s.saw_data /\ Finished(s.bytes, s.too_large) = FrameOf(lines[j + 1])
<1> DEFINE i == j + 1
           line == lines[i]
<1>1. /\ i \in 1 .. Len(lines) /\ j + 2 = i + 1 /\ Len(lines) \in Nat
      /\ starts[i] <= s.at /\ s.at < starts[i + 1]
      /\ s.saw_data <=> s.at > starts[i]
      /\ s.too_large <=> s.at - starts[i] > MaxFrameBytes
      /\ s.bytes = IF s.too_large THEN <<>> ELSE SubSeq(line, 1, s.at - starts[i])
  BY DEF Reading, LaidOut
<1> HIDE DEF i
<1>2. /\ Len(stream) \in Nat /\ starts[i] \in Nat /\ starts[i + 1] \in Nat
      /\ line \in Seq(Byte) /\ Len(line) \in Nat
      /\ starts[i + 1] = starts[i] + Len(line) + 1 /\ starts[i] + Len(line) <= Len(stream)
      /\ i < Len(lines) => starts[i + 1] <= Len(stream)
  BY <1>1, LineLies
<1> HIDE DEF line
<1>3. i = Len(lines)
  BY <1>1, <1>2
<1>4. starts[i] + Len(line) = s.at /\ s.at \in Nat
  BY <1>1, <1>2
<1>5. lines[i] # <<>>
  <2>1. starts[Len(lines) + 1] = Len(stream) + 1
    BY <1>2, <1>3, <1>4
  <2> QED
    BY <1>3, <2>1 DEF LaidOut
<1>6. Len(line) > 0
  BY <1>2, <1>5 DEF line
<1>7. s.saw_data /\ s.at - starts[i] = Len(line)
  BY <1>1, <1>2, <1>4, <1>6
<1>8. SubSeq(line, 1, Len(line)) = line
  BY <1>2
<1>9. s.too_large <=> Len(line) > MaxFrameBytes
  BY <1>1, <1>7
<1>10. ~s.too_large => s.bytes = line
  BY <1>1, <1>7, <1>8
<1>11. Finished(s.bytes, s.too_large) = FrameOf(line)
  BY <1>2, <1>9, <1>10, FinishedLine
<1> QED
  BY <1>3, <1>7, <1>11 DEF i, line

\* When a body of a line that starts after a, up to q, was met.
Kept(s, line, a, q, body) ==
  /\ (s.too_large \/ ~Fits(s, body)) <=> q - a > MaxFrameBytes
  /\ ~(s.too_large \/ ~Fits(s, body)) => s.bytes \o body = SubSeq(line, 1, q - a)

LEMMA BytesAreKept ==
  ASSUME NEW stream, NEW lines, NEW starts, LaidOut(stream, lines, starts),
         NEW s, NEW j, Reading(stream, lines, starts, s, j), j < Len(lines),
         NEW q \in Nat, s.at <= q, q <= starts[j + 1] + Len(lines[j + 1])
  PROVE  Kept(s, lines[j + 1], starts[j + 1], q, SubSeq(stream, s.at + 1, q))
<1> DEFINE body == SubSeq(stream, s.at + 1, q)
           i == j + 1
           line == lines[i]
           p == s.at
<1>1. /\ i \in 1 .. Len(lines) /\ p \in Nat /\ starts[i] <= p
      /\ s.too_large <=> p - starts[i] > MaxFrameBytes
      /\ ~s.too_large => s.bytes = SubSeq(line, 1, p - starts[i])
  <2>1. j \in 0 .. Len(lines) /\ Len(lines) \in Nat /\ p \in 0 .. Len(stream)
    BY DEF Reading, LaidOut
  <2>2. /\ starts[i] <= p /\ (s.too_large <=> p - starts[i] > MaxFrameBytes)
        /\ s.bytes = IF s.too_large THEN <<>> ELSE SubSeq(line, 1, p - starts[i])
    BY DEF Reading
  <2>3. i \in 1 .. Len(lines) /\ p \in Nat
    BY <2>1
  <2> HIDE DEF i, p, line
  <2>4. ~s.too_large => s.bytes = SubSeq(line, 1, p - starts[i])
    BY <2>2
  <2> QED
    BY <2>2, <2>3, <2>4
<1> HIDE DEF i, p
<1>2. /\ starts[i] \in Nat /\ Len(line) \in Nat /\ MaxFrameBytes \in Nat
  BY <1>1, LineLies, FramingAssumption
<1>4. p <= q /\ q <= starts[i] + Len(line) /\ (Fits(s, body) <=> Len(body) <= MaxFrameBytes - Len(s.bytes))
  BY DEF Fits, i, p
<1>3. /\ Len(body) = q - p /\ Len(SubSeq(line, 1, p - starts[i])) = p - starts[i]
      /\ SubSeq(line, 1, p - starts[i]) \o body = SubSeq(line, 1, q - starts[i])
  <2>1. body = SubSeq(stream, p + 1, q)
    BY DEF p
  <2>2. Continues(stream, line, starts[i], p, q)
    BY <1>1, <1>4, BodyContinues
  <2> QED
    BY <2>1, <2>2 DEF Continues
<1> HIDE DEF line, body
<1>5. CASE s.too_large
  BY <1>1, <1>2, <1>4, <1>5 DEF Kept, i, line, body
<1>6. CASE ~s.too_large
  <2>1. Len(s.bytes) = p - starts[i]
    BY <1>1, <1>3, <1>6
  <2>2. Fits(s, body) <=> q - starts[i] <= MaxFrameBytes
    <3>1. Fits(s, body) <=> q - p <= MaxFrameBytes - (p - starts[i])
      BY <1>3, <1>4, <2>1
    <3> QED
      BY <1>1, <1>2, <3>1
  <2>3. s.bytes \o body = SubSeq(line, 1, q - starts[i])
    BY <1>1, <1>3, <1>6
  <2>4. q - starts[i] <= MaxFrameBytes <=> ~(q - starts[i] > MaxFrameBytes)
    BY <1>2
  <2> QED
    BY <1>6, <2>2, <2>3, <2>4 DEF Kept, i, line, body
<1> QED
  BY <1>5, <1>6

Newlines(stream, p, q) == {k \in p + 1 .. q : stream[k] = "newline"}

\* The newlines in sight are none, or first that of line i.
LEMMA NewlinesAre ==
  ASSUME NEW stream, NEW lines, NEW starts, LaidOut(stream, lines, starts), NEW i \in 1 .. Len(lines),
         NEW p \in Nat, NEW q \in Nat, starts[i] <= p, p < starts[i + 1], q <= Len(stream)
  PROVE  /\ q < starts[i + 1] => Newlines(stream, p, q) = {}
         /\ starts[i + 1] <= q =>
              Newlines(stream, p, q) # {} /\ Min(Newlines(stream, p, q)) = starts[i + 1]
<1> DEFINE newlines == Newlines(stream, p, q)
<1>1. /\ Len(stream) \in Nat /\ starts[i] \in Nat /\ starts[i + 1] \in Nat
      /\ lines[i] \in Seq(Byte) /\ Len(lines[i]) \in Nat
      /\ starts[i + 1] = starts[i] + Len(lines[i]) + 1
      /\ \A k \in 1 .. Len(lines[i]) : stream[starts[i] + k] = lines[i][k]
      /\ starts[i + 1] <= Len(stream) => stream[starts[i + 1]] = "newline"
  BY LineLies
<1>2. ASSUME NEW k \in newlines PROVE k \in Nat /\ k <= q /\ starts[i + 1] <= k
  <2>1. k \in Nat /\ k <= q /\ p < k /\ stream[k] = "newline"
    BY DEF Newlines
  <2>2. ASSUME k < starts[i + 1] PROVE FALSE
    <3>1. k - starts[i] \in 1 .. Len(lines[i]) /\ starts[i] + (k - starts[i]) = k
      BY <1>1, <2>1, <2>2
    <3>2. stream[k] = lines[i][k - starts[i]]
      BY <1>1, <3>1
    <3>3. lines[i][k - starts[i]] \in Byte
      BY <1>1, <3>1
    <3> QED
      BY <2>1, <3>2, <3>3 DEF Byte
  <2> QED
    BY <1>1, <2>1, <2>2
<1>3. ASSUME q < starts[i + 1] PROVE newlines = {}
  <2> SUFFICES ASSUME NEW k \in newlines PROVE FALSE
    OBVIOUS
  <2> QED
    BY <1>1, <1>2, <1>3
<1>4. ASSUME starts[i + 1] <= q PROVE newlines # {} /\ Min(newlines) = starts[i + 1]
  <2>1. starts[i + 1] \in newlines
    <3>1. starts[i + 1] \in p + 1 .. q /\ stream[starts[i + 1]] = "newline"
      BY <1>1, <1>4
    <3> QED
      BY <3>1 DEF Newlines
  <2>2. newlines \subseteq Nat /\ \A k \in newlines : starts[i + 1] <= k
    BY <1>2
  <2> QED
    BY <2>1, <2>2, MinIs
<1> QED
  BY <1>3, <1>4

\* A round ends the frames, goes on with the line, or ends it.
LEMMA RoundReads ==
  ASSUME NEW stream, NEW lines, NEW starts, LaidOut(stream, lines, starts),
         NEW cuts \in SUBSET (0 .. Len(stream)),
         NEW s, NEW j, Reading(stream, lines, starts, s, j),
         NEW s2, s2 = Round(stream, cuts, s)
  PROVE  \/ Read(lines, s2)
         \/ j < Len(lines) /\ Reading(stream, lines, starts, s2, j) /\ s.at < s2.at
         \/ /\ j < Len(lines) /\ Reading(stream, lines, starts, s2, j + 1) /\ s.at <= s2.at
            /\ j + 1 < Len(lines) => s.at < s2.at
<1> DEFINE filled == Filled(stream, cuts, s.at)
           newlines == {k \in s.at + 1 .. filled : stream[k] = "newline"}
           consumed == IF newlines = {} THEN filled ELSE Min(newlines)
           q == IF newlines = {} THEN filled ELSE consumed - 1
           body == SubSeq(stream, s.at + 1, q)
           too_large == s.too_large \/ ~Fits(s, body)
           bytes == IF too_large THEN <<>> ELSE s.bytes \o body
<1>1. s2 = IF filled = s.at
           THEN NewCall(s.at, Append(s.frames, IF s.saw_data THEN Finished(s.bytes, s.too_large)
                                                             ELSE EndOfStream))
           ELSE IF newlines # {}
           THEN NewCall(consumed, Append(s.frames, Finished(bytes, too_large)))
           ELSE [s EXCEPT !.at = consumed, !.bytes = bytes, !.too_large = too_large, !.saw_data = TRUE]
  BY DEF Round
<1>2. /\ Len(stream) \in Nat /\ Len(lines) \in Nat /\ lines \in Seq(Seq(Byte)) /\ j \in 0 .. Len(lines)
      /\ s.at \in 0 .. Len(stream)
  BY DEF Reading, LaidOut
<1>3. /\ s.at = Len(stream) => filled = s.at
      /\ s.at < Len(stream) => filled \in s.at + 1 .. Len(stream)
  BY <1>2, FilledIs
<1> HIDE DEF filled, newlines, consumed, q, body, too_large, bytes
<1>4. CASE s.at = Len(stream) /\ j = Len(lines)
  <2>1. /\ s.frames \in Seq(Framed) /\ Len(s.frames) = Len(lines) /\ ~s.saw_data
        /\ \A i \in 1 .. Len(lines) : s.frames[i] = FrameOf(lines[i]) /\ s.frames[i] # InvalidData
    BY <1>4 DEF Reading
  <2>2. s2 = NewCall(s.at, Append(s.frames, EndOfStream))
    BY <1>1, <1>3, <1>4, <2>1
  <2> DEFINE after == Append(s.frames, EndOfStream)
  <2>3. after = Expected(lines) /\ Last(after) = EndOfStream /\ after # <<>>
    BY <1>2, <2>1, AllIsRead
  <2>4. s2.frames = after
    BY <2>2 DEF NewCall
  <2> HIDE DEF after
  <2>5. Read(lines, s2)
    BY <2>3, <2>4 DEF Read, Over
  <2> QED
    BY <2>5
<1>5. CASE s.at = Len(stream) /\ j < Len(lines)
  <2>1. j + 1 = Len(lines) /\ s.saw_data /\ Finished(s.bytes, s.too_large) = FrameOf(lines[j + 1])
    BY <1>5, LastLineIsRead
  <2>2. s2 = NewCall(s.at, Append(s.frames, FrameOf(lines[j + 1])))
    BY <1>1, <1>3, <1>5, <2>1
  <2>3. Read(lines, s2) \/ Reading(stream, lines, starts, s2, j + 1)
    BY <1>2, <1>5, <2>1, <2>2, FrameIsReturned
  <2>4. s2.at = s.at
    BY <2>2 DEF NewCall
  <2> QED
    BY <1>2, <1>5, <2>1, <2>3, <2>4
<1>6. CASE s.at < Len(stream)
  <2> DEFINE i == j + 1
             line == lines[i]
             e == starts[i + 1]
  <2>1. j < Len(lines)
    BY <1>2, <1>6 DEF Reading
  <2>2. i \in 1 .. Len(lines) /\ i + 1 = j + 2 /\ j + 1 = i
    BY <1>2, <2>1
  <2>3. starts[i] <= s.at /\ s.at < e
    BY <2>1, <2>2 DEF Reading
  <2> HIDE DEF i
  <2>4. /\ starts[i] \in Nat /\ e \in Nat /\ line \in Seq(Byte) /\ Len(line) \in Nat
        /\ e = starts[i] + Len(line) + 1 /\ starts[i] + Len(line) <= Len(stream)
        /\ i < Len(lines) => e <= Len(stream)
    BY <2>2, LineLies
  <2>5. /\ s.at \in Nat /\ filled \in Nat /\ s.at < filled /\ filled <= Len(stream)
    BY <1>2, <1>3, <1>6
  <2>6. /\ filled < e => newlines = {}
        /\ e <= filled => newlines # {} /\ Min(newlines) = e
    <3>1. newlines = Newlines(stream, s.at, filled)
      BY DEF newlines, Newlines
    <3> QED
      BY <2>2, <2>3, <2>5, <3>1, NewlinesAre
  <2> HIDE DEF line, e
  <2>7. CASE e <= filled
    <3>1. consumed = e /\ q = e - 1 /\ newlines # {}
      BY <2>6, <2>7 DEF consumed, q
    <3>2. q \in Nat /\ s.at <= q /\ q = starts[i] + Len(line)
      BY <2>3, <2>4, <2>5, <3>1
    <3>3. /\ too_large <=> q - starts[j + 1] > MaxFrameBytes
          /\ ~too_large => s.bytes \o body = SubSeq(lines[j + 1], 1, q - starts[j + 1])
      <4>1. q <= starts[j + 1] + Len(lines[j + 1])
        BY <2>2, <2>4, <3>2 DEF line
      <4>2. Kept(s, lines[j + 1], starts[j + 1], q, SubSeq(stream, s.at + 1, q))
        BY <2>1, <3>2, <4>1, BytesAreKept
      <4> QED
        BY <4>2 DEF Kept, too_large, body
    <3>4. q - starts[j + 1] = Len(line) /\ lines[j + 1] = line
      BY <2>2, <2>4, <3>2 DEF line
    <3>5. SubSeq(line, 1, Len(line)) = line
      BY <2>4
    <3>6. /\ too_large <=> Len(line) > MaxFrameBytes
          /\ ~too_large => bytes = line
      BY <3>3, <3>4, <3>5 DEF bytes
    <3>7. Finished(bytes, too_large) = FrameOf(line)
      BY <2>4, <3>6, FinishedLine
    <3>8. s2 = NewCall(e, Append(s.frames, FrameOf(lines[j + 1])))
      BY <1>1, <2>5, <3>1, <3>4, <3>7
    <3>9. e \in 0 .. Len(stream) /\ (j + 1 < Len(lines) => e = starts[j + 2])
      BY <2>2, <2>4, <2>5, <2>7 DEF e
    <3>10. j + 1 = Len(lines) => e = Len(stream)
      <4>1. starts[Len(lines) + 1] \in {Len(stream), Len(stream) + 1}
        BY DEF LaidOut
      <4>2. j + 1 = Len(lines) => e = starts[Len(lines) + 1]
        BY <2>2 DEF e
      <4> QED
        BY <1>2, <2>4, <2>5, <2>7, <4>1, <4>2
    <3>11. Read(lines, s2) \/ Reading(stream, lines, starts, s2, j + 1)
      BY <2>1, <3>8, <3>9, <3>10, FrameIsReturned
    <3>12. s2.at = e
      BY <3>8 DEF NewCall
    <3> QED
      BY <2>1, <2>3, <2>4, <2>5, <3>11, <3>12
  <2>8. CASE filled < e
    <3>1. consumed = filled /\ q = filled /\ newlines = {}
      BY <2>6, <2>8 DEF consumed, q
    <3>2. q \in Nat /\ s.at <= q /\ q <= starts[i] + Len(line)
      BY <2>3, <2>4, <2>5, <2>8, <3>1
    <3>3. /\ too_large <=> q - starts[j + 1] > MaxFrameBytes
          /\ ~too_large => s.bytes \o body = SubSeq(lines[j + 1], 1, q - starts[j + 1])
      <4>1. q <= starts[j + 1] + Len(lines[j + 1])
        BY <2>2, <3>2 DEF line
      <4>2. Kept(s, lines[j + 1], starts[j + 1], q, SubSeq(stream, s.at + 1, q))
        BY <2>1, <3>2, <4>1, BytesAreKept
      <4> QED
        BY <4>2 DEF Kept, too_large, body
    <3>4. s2 = [s EXCEPT !.at = filled, !.bytes = bytes, !.too_large = too_large, !.saw_data = TRUE]
      BY <1>1, <2>5, <3>1
    <3>5. s = [at |-> s.at, bytes |-> s.bytes, too_large |-> s.too_large, saw_data |-> s.saw_data,
               frames |-> s.frames]
      BY DEF Reading
    <3>6. /\ s2.at = filled /\ s2.bytes = bytes /\ s2.too_large = too_large /\ s2.saw_data = TRUE
          /\ s2.frames = s.frames
          /\ s2 = [at |-> s2.at, bytes |-> s2.bytes, too_large |-> s2.too_large,
                   saw_data |-> s2.saw_data, frames |-> s2.frames]
      BY <3>4, <3>5
    <3>7. too_large \in BOOLEAN
      BY DEF too_large
    <3>8. Reading(stream, lines, starts, s2, j)
      <4>1. /\ s2.at \in 0 .. Len(stream) /\ s2.saw_data \in BOOLEAN /\ s2.too_large \in BOOLEAN
            /\ s2.frames = s.frames
        <5>1. s2.at \in 0 .. Len(stream) /\ s2.frames = s.frames
          BY <1>2, <2>5, <3>6
        <5>2. s2.saw_data \in BOOLEAN /\ s2.too_large \in BOOLEAN
          BY <3>6, <3>7
        <5> QED
          BY <5>1, <5>2
      <4>2. starts[j + 1] <= s2.at /\ s2.at < starts[j + 2]
        BY <2>2, <2>3, <2>4, <2>5, <2>8, <3>6 DEF e
      <4>3. s2.saw_data <=> s2.at > starts[j + 1]
        BY <2>2, <2>3, <2>4, <2>5, <3>6
      <4>4. s2.too_large <=> s2.at - starts[j + 1] > MaxFrameBytes
        BY <3>1, <3>3, <3>6
      <4>5. s2.bytes = IF s2.too_large THEN <<>> ELSE SubSeq(lines[j + 1], 1, s2.at - starts[j + 1])
        BY <3>1, <3>3, <3>6 DEF bytes
      <4>6. j # Len(lines)
        BY <1>2, <2>1
      <4>7. /\ j \in 0 .. Len(lines) /\ s.frames \in Seq(Framed) /\ Len(s.frames) = j
            /\ \A k \in 1 .. j : s.frames[k] = FrameOf(lines[k]) /\ s.frames[k] # InvalidData
        BY DEF Reading
      <4> QED
        BY <3>6, <4>1, <4>2, <4>3, <4>4, <4>5, <4>6, <4>7 DEF Reading
    <3> QED
      BY <2>1, <2>5, <3>6, <3>8
  <2> QED
    BY <2>4, <2>5, <2>7, <2>8
<1> QED
  <2>1. s.at = Len(stream) \/ s.at < Len(stream)
    BY <1>2
  <2>2. j = Len(lines) \/ j < Len(lines)
    BY <1>2
  <2> QED
    BY <1>4, <1>5, <1>6, <2>1, <2>2

ReaderFrom(stream, cuts, r) ==
  r = [k \in 0 .. Len(stream) + 2 |->
         IF k = 0 THEN NewCall(0, <<>>) ELSE NextRound(stream, cuts, r[k - 1])]

\* The run of Frames is a function: otherwise there were a shortest run that is none.
LEMMA ReaderIsDefined ==
  ASSUME NEW stream, Len(stream) \in Nat, NEW cuts
  PROVE  \E r : ReaderFrom(stream, cuts, r) /\ Frames(stream, cuts) = r[Len(stream) + 2].frames
<1> DEFINE step(s, k) == IF k = 0 THEN NewCall(0, <<>>) ELSE NextRound(stream, cuts, s)
           isRun(r, n) == r = [k \in 0 .. n |-> step(r[k - 1], k)]
           bad == {n \in Nat : ~ \E r : isRun(r, n)}
<1>1. bad = {}
  <2> SUFFICES ASSUME bad # {} PROVE FALSE
    OBVIOUS
  <2>1. PICK n \in bad : \A k \in bad : n <= k
    BY LeastNatural
  <2>2. n # 0
    <3> DEFINE f == [k \in 0 .. 0 |-> NewCall(0, <<>>)]
    <3>1. isRun(f, 0)
      OBVIOUS
    <3> QED
      BY <2>1, <3>1
  <2>3. n \in Nat /\ n - 1 \in Nat /\ n - 1 \notin bad
    <3>1. n \in Nat
      BY <2>1
    <3> HIDE DEF bad
    <3> QED
      BY <2>1, <2>2, <3>1
  <2> HIDE DEF step
  <2>4. PICK f : isRun(f, n - 1)
    BY <2>3
  <2> DEFINE g == [k \in 0 .. n |-> IF k = n THEN step(f[n - 1], n) ELSE f[k]]
  <2>5. ASSUME NEW k \in 0 .. n PROVE g[k] = step(g[k - 1], k)
    <3>1. CASE k = n
      BY <2>2, <2>3, <3>1
    <3>2. CASE k # n /\ k # 0
      <4>1. k \in 0 .. n - 1 /\ k - 1 \in 0 .. n /\ k - 1 # n
        BY <2>3, <3>2
      <4> QED
        BY <2>4, <3>2, <4>1
    <3>3. CASE k # n /\ k = 0
      <4>1. k \in 0 .. n - 1
        BY <2>3, <3>3
      <4>2. step(g[k - 1], k) = step(f[k - 1], k)
        BY <3>3 DEF step
      <4> QED
        BY <2>4, <3>3, <4>1, <4>2
    <3> QED
      BY <3>1, <3>2, <3>3
  <2>6. isRun(g, n)
    BY <2>5
  <2> QED
    BY <2>1, <2>6
<1>2. Len(stream) + 2 \in Nat
  OBVIOUS
<1>3. \E r : isRun(r, Len(stream) + 2)
  BY <1>1, <1>2
<1> HIDE DEF bad
<1>4. \A r : isRun(r, Len(stream) + 2) <=> ReaderFrom(stream, cuts, r)
  BY DEF ReaderFrom
<1> HIDE DEF isRun
<1>5. ReaderFrom(stream, cuts, CHOOSE r : ReaderFrom(stream, cuts, r))
  BY <1>3, <1>4
<1>6. Frames(stream, cuts) = (CHOOSE r : ReaderFrom(stream, cuts, r))[Len(stream) + 2].frames
  BY DEF Frames, ReaderFrom
<1> QED
  BY <1>5, <1>6

\* Each round takes a byte, but the one after a last line without newline; one
\* more finds the end.
LEMMA LinesAreRead ==
  ASSUME NEW stream, NEW lines, NEW starts, LaidOut(stream, lines, starts),
         NEW cuts \in SUBSET (0 .. Len(stream))
  PROVE  Frames(stream, cuts) = Expected(lines)
<1> DEFINE n == Len(stream)
           m == Len(lines)
<1>1. n \in Nat /\ m \in Nat /\ lines \in Seq(Seq(Byte)) /\ starts[1] = 0
  BY DEF LaidOut
<1>2. PICK r : ReaderFrom(stream, cuts, r) /\ Frames(stream, cuts) = r[n + 2].frames
  BY <1>1, ReaderIsDefined
<1>3. /\ r[0] = NewCall(0, <<>>)
      /\ \A k \in 1 .. n + 2 : r[k] = NextRound(stream, cuts, r[k - 1])
  <2> DEFINE value(k) == IF k = 0 THEN NewCall(0, <<>>) ELSE NextRound(stream, cuts, r[k - 1])
  <2>1. \A k \in 0 .. n + 2 : r[k] = value(k)
    BY <1>2 DEF ReaderFrom
  <2>2. 0 \in 0 .. n + 2 /\ \A k \in 1 .. n + 2 : k \in 0 .. n + 2 /\ k # 0
    BY <1>1
  <2> QED
    BY <2>1, <2>2
<1> DEFINE Fine(k) == \/ Read(lines, r[k])
                      \/ \E j \in 0 .. m : /\ Reading(stream, lines, starts, r[k], j)
                                           /\ k <= r[k].at + (IF j = m THEN 1 ELSE 0)
           bad == {k \in Nat : k <= n + 2 /\ ~Fine(k)}
<1>4. Fine(0)
  <2>1. /\ r[0].at = 0 /\ r[0].bytes = <<>> /\ r[0].too_large = FALSE /\ r[0].saw_data = FALSE
        /\ r[0].frames = <<>>
        /\ r[0] = [at |-> r[0].at, bytes |-> r[0].bytes, too_large |-> r[0].too_large,
                   saw_data |-> r[0].saw_data, frames |-> r[0].frames]
    BY <1>3 DEF NewCall
  <2>2. m = 0 => n = 0
    <3>1. starts[m + 1] \in {n, n + 1} /\ (starts[m + 1] = n + 1 => m > 0)
      BY DEF LaidOut
    <3> QED
      BY <1>1, <3>1
  <2>3. m > 0 => starts[2] > 0 /\ lines[1] \in Seq(Byte)
    <3>1. m > 0 => 1 \in 1 .. m /\ 1 + 1 = 2
      BY <1>1
    <3>2. m > 0 => starts[2] = starts[1] + Len(lines[1]) + 1 /\ Len(lines[1]) \in Nat /\ lines[1] \in Seq(Byte)
      BY <3>1, LineLies
    <3> QED
      BY <1>1, <3>2
  <2>4. m > 0 => SubSeq(lines[1], 1, 0) = <<>>
    BY <2>3
  <2>5. <<>> \in Seq(Framed) /\ Len(<<>>) = 0 /\ 1 .. 0 = {} /\ ~(0 > MaxFrameBytes) /\ 0 - 0 = 0
    BY FramingAssumption
  <2>6. /\ 0 \in 0 .. m /\ r[0].at \in 0 .. n /\ r[0].frames \in Seq(Framed) /\ Len(r[0].frames) = 0
        /\ \A i \in 1 .. 0 : r[0].frames[i] = FrameOf(lines[i]) /\ r[0].frames[i] # InvalidData
        /\ 0 = m => r[0].at = n /\ ~r[0].saw_data
    BY <1>1, <2>1, <2>2, <2>5
  <2>7. r[0].saw_data \in BOOLEAN /\ r[0].too_large \in BOOLEAN
    BY <2>1
  <2>8. ASSUME 0 < m
        PROVE  /\ starts[1] <= r[0].at /\ r[0].at < starts[2]
               /\ r[0].saw_data <=> r[0].at > starts[1]
               /\ r[0].too_large <=> r[0].at - starts[1] > MaxFrameBytes
               /\ r[0].bytes = IF r[0].too_large THEN <<>> ELSE SubSeq(lines[1], 1, r[0].at - starts[1])
    <3>1. r[0].at - starts[1] = 0 /\ starts[1] = 0
      BY <1>1, <2>1
    <3>2. starts[1] <= r[0].at /\ r[0].at < starts[2]
      BY <1>1, <2>1, <2>3, <2>8
    <3>3. r[0].saw_data <=> r[0].at > starts[1]
      BY <1>1, <2>1
    <3>4. r[0].too_large <=> r[0].at - starts[1] > MaxFrameBytes
      BY <2>1, <2>5, <3>1
    <3>5. r[0].bytes = SubSeq(lines[1], 1, r[0].at - starts[1])
      BY <2>1, <2>4, <2>8, <3>1
    <3> QED
      BY <2>1, <3>2, <3>3, <3>4, <3>5
  <2>9. 0 + 1 = 1 /\ 0 + 2 = 2
    OBVIOUS
  <2>10. Reading(stream, lines, starts, r[0], 0)
    BY <2>1, <2>6, <2>7, <2>8, <2>9 DEF Reading
  <2>11. 0 <= r[0].at + (IF 0 = m THEN 1 ELSE 0)
    BY <2>1
  <2> QED
    BY <2>6, <2>10, <2>11
<1>5. ASSUME NEW k \in Nat, k + 1 <= n + 2, Fine(k) PROVE Fine(k + 1)
  <2>1. r[k + 1] = NextRound(stream, cuts, r[k])
    <3>1. k + 1 \in 1 .. n + 2 /\ (k + 1) - 1 = k
      BY <1>1, <1>5
    <3>2. r[k + 1] = NextRound(stream, cuts, r[(k + 1) - 1])
      BY <1>3, <3>1
    <3> QED
      BY <3>1, <3>2
  <2>2. CASE Read(lines, r[k])
    <3>1. r[k + 1] = r[k]
      BY <2>1, <2>2 DEF NextRound, Read
    <3> QED
      BY <2>2, <3>1
  <2>3. ASSUME NEW j \in 0 .. m, Reading(stream, lines, starts, r[k], j),
               k <= r[k].at + (IF j = m THEN 1 ELSE 0)
        PROVE  Fine(k + 1)
    <3> DEFINE s == r[k]
               s2 == r[k + 1]
    <3>1. s2 = Round(stream, cuts, s)
      BY <2>1, <2>3, ReadingGoesOn DEF NextRound
    <3> HIDE DEF s, s2
    <3>2. \/ Read(lines, s2)
          \/ j < m /\ Reading(stream, lines, starts, s2, j) /\ s.at < s2.at
          \/ /\ j < m /\ Reading(stream, lines, starts, s2, j + 1) /\ s.at <= s2.at
             /\ j + 1 < m => s.at < s2.at
      BY <2>3, <3>1, RoundReads DEF s
    <3>3. s.at \in Nat /\ k <= s.at + (IF j = m THEN 1 ELSE 0)
      BY <1>1, <2>3 DEF s, Reading
    <3>4. CASE j < m /\ Reading(stream, lines, starts, s2, j) /\ s.at < s2.at
      <4>1. s2.at \in Nat
        BY <1>1, <3>4 DEF Reading
      <4>2. k <= s.at
        BY <1>1, <3>3, <3>4
      <4>3. k + 1 <= s2.at + (IF j = m THEN 1 ELSE 0)
        BY <1>1, <3>3, <3>4, <4>1, <4>2
      <4> QED
        BY <3>4, <4>3 DEF s2
    <3>5. CASE /\ j < m /\ Reading(stream, lines, starts, s2, j + 1) /\ s.at <= s2.at
               /\ j + 1 < m => s.at < s2.at
      <4>1. s2.at \in Nat /\ j + 1 \in 0 .. m
        BY <1>1, <3>5 DEF Reading
      <4>2. k <= s.at
        BY <1>1, <3>3, <3>5
      <4>3. k + 1 <= s2.at + (IF j + 1 = m THEN 1 ELSE 0)
        BY <1>1, <3>3, <3>5, <4>1, <4>2
      <4> QED
        BY <3>5, <4>1, <4>3 DEF s2
    <3> QED
      BY <3>2, <3>4, <3>5 DEF s2
  <2> QED
    BY <1>5, <2>2, <2>3
<1> HIDE DEF Fine
<1>6. bad = {}
  <2> SUFFICES ASSUME bad # {} PROVE FALSE
    OBVIOUS
  <2>1. PICK k \in bad : \A i \in bad : k <= i
    BY LeastNatural
  <2>2. k \in Nat /\ k <= n + 2 /\ ~Fine(k) /\ k # 0
    BY <1>4, <2>1
  <2>3. k - 1 \in Nat /\ (k - 1) + 1 = k /\ k - 1 <= n + 2 /\ ~(k <= k - 1)
    BY <1>1, <2>2
  <2>4. Fine(k - 1)
    BY <2>1, <2>3
  <2>5. Fine((k - 1) + 1)
    BY <1>5, <2>2, <2>3, <2>4
  <2> QED
    BY <2>2, <2>3, <2>5
<1>7. Fine(n + 2)
  <2>1. n + 2 \in Nat /\ n + 2 <= n + 2
    BY <1>1
  <2> QED
    BY <1>6, <2>1
<1>8. ASSUME NEW j \in 0 .. m, Reading(stream, lines, starts, r[n + 2], j),
             n + 2 <= r[n + 2].at + (IF j = m THEN 1 ELSE 0)
      PROVE  FALSE
  <2>1. r[n + 2].at \in 0 .. n
    BY <1>8 DEF Reading
  <2> QED
    BY <1>1, <1>8, <2>1
<1> QED
  BY <1>2, <1>7, <1>8 DEF Fine, Read

\* The lines up to the i-th, each with its newline, are flat[i].
FlatFrom(lines, flat) ==
  /\ flat[1] = Append(lines[1], "newline")
  /\ \A i \in 2 .. Len(lines) : flat[i] = flat[i - 1] \o Append(lines[i], "newline")

LEMMA FlatIsDefined ==
  ASSUME NEW lines, lines \in Seq(Seq(Byte)), lines # <<>>
  PROVE  \E flat : /\ FlatFrom(lines, flat)
                   /\ FlattenSeq([k \in DOMAIN lines |-> Append(lines[k], "newline")]) = flat[Len(lines)]
<1> DEFINE m == Len(lines)
           closed == [k \in DOMAIN lines |-> Append(lines[k], "newline")]
           step(f, i) == IF i = 1 THEN closed[i] ELSE f[i - 1] \o closed[i]
           isFlat(f, n) == f = [i \in 1 .. n |-> step(f, i)]
           bad == {n \in Nat : n > 0 /\ ~ \E f : isFlat(f, n)}
<1>1. m \in Nat /\ m > 0 /\ Len(closed) = m
  OBVIOUS
<1>2. bad = {}
  <2> SUFFICES ASSUME bad # {} PROVE FALSE
    OBVIOUS
  <2>1. PICK n \in bad : \A k \in bad : n <= k
    BY LeastNatural
  <2> HIDE DEF closed
  <2>2. n # 1
    <3> DEFINE f == [i \in 1 .. 1 |-> closed[1]]
    <3>1. isFlat(f, 1)
      OBVIOUS
    <3> QED
      BY <2>1, <3>1
  <2>3. n \in Nat /\ n - 1 \in Nat /\ n - 1 > 0 /\ n - 1 \notin bad
    <3>1. n \in Nat /\ n > 0
      BY <2>1
    <3> HIDE DEF bad
    <3> QED
      BY <2>1, <2>2, <3>1
  <2>4. PICK f : isFlat(f, n - 1)
    BY <2>3
  <2> DEFINE g == [i \in 1 .. n |-> IF i = n THEN f[n - 1] \o closed[n] ELSE f[i]]
  <2>5. ASSUME NEW i \in 1 .. n PROVE g[i] = step(g, i)
    <3>1. CASE i = n
      <4>1. n - 1 \in 1 .. n /\ n - 1 # n
        BY <2>3
      <4>2. g[n - 1] = f[n - 1]
        BY <4>1
      <4>3. g[n] = f[n - 1] \o closed[n]
        BY <3>1
      <4> HIDE DEF g
      <4> QED
        BY <2>2, <3>1, <4>2, <4>3
    <3>2. CASE i # n /\ i # 1
      <4>1. i \in 1 .. n - 1 /\ i - 1 \in 1 .. n /\ i - 1 # n
        BY <2>3, <3>2
      <4>2. g[i - 1] = f[i - 1] /\ g[i] = f[i]
        BY <3>2, <4>1
      <4>3. f[i] = f[i - 1] \o closed[i]
        BY <2>4, <3>2, <4>1
      <4> HIDE DEF g
      <4> QED
        BY <3>2, <4>2, <4>3
    <3>3. CASE i # n /\ i = 1
      <4>1. i \in 1 .. n - 1
        BY <2>3, <3>3
      <4>2. g[i] = f[i] /\ f[i] = closed[1]
        BY <2>4, <3>3, <4>1
      <4> QED
        BY <3>3, <4>2
    <3> QED
      BY <3>1, <3>2, <3>3
  <2>6. isFlat(g, n)
    BY <2>5
  <2> QED
    BY <2>1, <2>6
<1>3. \E f : isFlat(f, m)
  <2> HIDE DEF isFlat, m
  <2> QED
    BY <1>1, <1>2
<1> HIDE DEF bad, closed, m
<1>9. \E f : isFlat(f, Len(closed))
  <2> HIDE DEF isFlat
  <2> QED
    BY <1>1, <1>3
<1> DEFINE flat == CHOOSE f : isFlat(f, Len(closed))
<1>4. isFlat(flat, Len(closed))
  BY <1>9
<1>10. Len(closed) # 0
  BY <1>1
<1>5. FlattenSeq(closed) = flat[Len(closed)]
  BY <1>10 DEF FlattenSeq
<1> HIDE DEF flat
<1>6. \A i \in 1 .. m : flat[i] = step(flat, i)
  <2>1. \A i \in 1 .. Len(closed) : flat[i] = step(flat, i)
    BY <1>4
  <2> QED
    BY <1>1, <2>1
<1> USE DEF m, closed
<1>7. \A i \in 1 .. m : closed[i] = Append(lines[i], "newline")
  OBVIOUS
<1> HIDE DEF closed
<1>8. FlatFrom(lines, flat)
  <2>1. 1 \in 1 .. m /\ \A i \in 2 .. m : i \in 1 .. m /\ i # 1
    BY <1>1
  <2> QED
    BY <1>6, <1>7, <2>1 DEF FlatFrom
<1> QED
  BY <1>1, <1>5, <1>8 DEF closed

\* How many bytes come before line i.
StartOf(flat, i) == IF i = 1 THEN 0 ELSE Len(flat[i - 1])

\* The first i lines are where they should be in their bytes.
Placed(lines, flat, i) ==
  /\ flat[i] \in Seq(Byte \cup {"newline"})
  /\ \A h \in 1 .. i :
       /\ StartOf(flat, h) \in Nat /\ StartOf(flat, h + 1) = StartOf(flat, h) + Len(lines[h]) + 1
       /\ StartOf(flat, h + 1) <= Len(flat[i])
       /\ \A k \in 1 .. Len(lines[h]) : flat[i][StartOf(flat, h) + k] = lines[h][k]
       /\ flat[i][StartOf(flat, h + 1)] = "newline"

LEMMA FirstIsPlaced ==
  ASSUME NEW lines \in Seq(Seq(Byte)), lines # <<>>, NEW flat, FlatFrom(lines, flat)
  PROVE  Placed(lines, flat, 1)
<1> DEFINE line == lines[1]
           bytes == Byte \cup {"newline"}
<1>1. line \in Seq(bytes) /\ Len(line) \in Nat /\ flat[1] = Append(line, "newline") /\ "newline" \in bytes
  BY DEF FlatFrom
<1> HIDE DEF line, bytes
<1>2. /\ flat[1] \in Seq(bytes) /\ Len(flat[1]) = Len(line) + 1
      /\ \A k \in 1 .. Len(line) : flat[1][k] = line[k]
      /\ flat[1][Len(line) + 1] = "newline"
  BY <1>1
<1>3. StartOf(flat, 1) = 0 /\ StartOf(flat, 2) = Len(line) + 1
  BY <1>1, <1>2 DEF StartOf
<1>4. \A h \in 1 .. 1 : h = 1 /\ h + 1 = 2
  OBVIOUS
<1>5. \A k \in 1 .. Len(line) : 0 + k = k
  BY <1>1
<1>6. StartOf(flat, 1) \in Nat /\ StartOf(flat, 2) = StartOf(flat, 1) + Len(line) + 1 /\ StartOf(flat, 2) <= Len(flat[1])
  BY <1>1, <1>2, <1>3
<1>7. flat[1][StartOf(flat, 2)] = "newline" /\ \A k \in 1 .. Len(line) : flat[1][StartOf(flat, 1) + k] = line[k]
  BY <1>2, <1>3, <1>5
<1> QED
  BY <1>2, <1>4, <1>6, <1>7 DEF Placed, line, bytes

LEMMA NextIsPlaced ==
  ASSUME NEW lines \in Seq(Seq(Byte)), NEW flat, FlatFrom(lines, flat),
         NEW i \in 1 .. Len(lines), i < Len(lines), Placed(lines, flat, i)
  PROVE  Placed(lines, flat, i + 1)
<1> DEFINE n == i + 1
           line == lines[n]
           bytes == Byte \cup {"newline"}
           before == flat[i]
           after == flat[n]
<1>1. i \in Nat /\ i \in 1 .. i /\ n \in 2 .. Len(lines) /\ n - 1 = i /\ n # 1
  OBVIOUS
<1>2. after = before \o Append(line, "newline")
  BY <1>1 DEF FlatFrom
<1>3. line \in Seq(bytes) /\ Len(line) \in Nat /\ before \in Seq(bytes) /\ Len(before) \in Nat
  BY <1>1 DEF Placed
<1> HIDE DEF line, before, after
<1>4. /\ Append(line, "newline") \in Seq(bytes) /\ Len(Append(line, "newline")) = Len(line) + 1
      /\ \A k \in 1 .. Len(line) : Append(line, "newline")[k] = line[k]
      /\ Append(line, "newline")[Len(line) + 1] = "newline"
  BY <1>3
<1>5. /\ after \in Seq(bytes) /\ Len(after) = Len(before) + (Len(line) + 1)
      /\ \A k \in 1 .. Len(before) : after[k] = before[k]
      /\ \A k \in 1 .. Len(line) + 1 : after[Len(before) + k] = Append(line, "newline")[k]
  <2> DEFINE tail == Append(line, "newline")
  <2>1. before \in Seq(bytes) /\ tail \in Seq(bytes)
    BY <1>3, <1>4
  <2> HIDE DEF tail, bytes
  <2>2. /\ before \o tail \in Seq(bytes) /\ Len(before \o tail) = Len(before) + Len(tail)
        /\ \A k \in 1 .. Len(before) : (before \o tail)[k] = before[k]
        /\ \A k \in 1 .. Len(tail) : (before \o tail)[Len(before) + k] = tail[k]
    BY <2>1, JoinedIs
  <2>3. after = before \o tail /\ Len(tail) = Len(line) + 1
    BY <1>2, <1>4 DEF tail
  <2> QED
    BY <2>2, <2>3 DEF tail
<1>6. StartOf(flat, n) = Len(before) /\ StartOf(flat, n + 1) = Len(after)
  BY <1>1 DEF StartOf, before, after
<1>7. ASSUME NEW h \in 1 .. n
      PROVE  /\ StartOf(flat, h) \in Nat /\ StartOf(flat, h + 1) = StartOf(flat, h) + Len(lines[h]) + 1
             /\ StartOf(flat, h + 1) <= Len(after)
             /\ \A k \in 1 .. Len(lines[h]) : after[StartOf(flat, h) + k] = lines[h][k]
             /\ after[StartOf(flat, h + 1)] = "newline"
  <2>1. CASE h = n
    <3>1. /\ StartOf(flat, n) \in Nat /\ StartOf(flat, n + 1) = StartOf(flat, n) + Len(line) + 1
          /\ StartOf(flat, n + 1) <= Len(after)
      BY <1>3, <1>5, <1>6
    <3>2. ASSUME NEW k \in 1 .. Len(line) PROVE after[StartOf(flat, n) + k] = line[k]
      <4>1. k \in 1 .. Len(line) + 1
        BY <1>3
      <4> QED
        BY <1>4, <1>5, <1>6, <4>1
    <3>3. after[StartOf(flat, n + 1)] = "newline"
      <4>1. Len(line) + 1 \in 1 .. Len(line) + 1
        BY <1>3
      <4>2. after[Len(before) + (Len(line) + 1)] = "newline"
        BY <1>4, <1>5, <4>1
      <4> QED
        BY <1>5, <1>6, <4>2
    <3> QED
      BY <2>1, <3>1, <3>2, <3>3 DEF line
  <2>2. CASE h # n
    <3>1. h \in 1 .. i
      BY <1>1, <2>2
    <3>2. /\ StartOf(flat, h) \in Nat /\ StartOf(flat, h + 1) = StartOf(flat, h) + Len(lines[h]) + 1
          /\ StartOf(flat, h + 1) <= Len(before)
          /\ \A k \in 1 .. Len(lines[h]) : before[StartOf(flat, h) + k] = lines[h][k]
          /\ before[StartOf(flat, h + 1)] = "newline"
      BY <3>1 DEF Placed, before
    <3>3. Len(lines[h]) \in Nat
      <4>1. h \in 1 .. Len(lines)
        BY <1>1, <3>1
      <4> QED
        BY <4>1
    <3> DEFINE x == StartOf(flat, h)
               y == StartOf(flat, h + 1)
               l == Len(lines[h])
    <3>6. x \in Nat /\ l \in Nat /\ y = x + l + 1 /\ y <= Len(before) /\ Len(before) \in Nat
      BY <1>3, <3>2, <3>3
    <3>7. Len(after) = Len(before) + (Len(line) + 1) /\ Len(line) \in Nat
      BY <1>3, <1>5
    <3> HIDE DEF x, y, l
    <3>8. y \in 1 .. Len(before) /\ y <= Len(after)
      BY <3>6, <3>7
    <3>9. \A k \in 1 .. l : x + k \in 1 .. Len(before)
      BY <3>6
    <3>4. StartOf(flat, h + 1) \in 1 .. Len(before) /\ StartOf(flat, h + 1) <= Len(after)
      BY <3>8 DEF y
    <3>5. ASSUME NEW k \in 1 .. Len(lines[h]) PROVE after[StartOf(flat, h) + k] = lines[h][k]
      <4>1. StartOf(flat, h) + k \in 1 .. Len(before)
        BY <3>9 DEF x, l
      <4> QED
        BY <1>5, <3>2, <4>1
    <3> QED
      BY <1>5, <3>2, <3>4, <3>5
  <2> QED
    BY <2>1, <2>2
<1> QED
  BY <1>5, <1>7 DEF Placed, after

LEMMA AllArePlaced ==
  ASSUME NEW lines \in Seq(Seq(Byte)), NEW flat, FlatFrom(lines, flat)
  PROVE  \A i \in 1 .. Len(lines) : Placed(lines, flat, i)
<1> DEFINE bad == {i \in 1 .. Len(lines) : ~Placed(lines, flat, i)}
<1> SUFFICES ASSUME bad # {} PROVE FALSE
  OBVIOUS
<1>1. Len(lines) \in Nat /\ bad \subseteq Nat
  OBVIOUS
<1>2. PICK i \in bad : \A h \in bad : i <= h
  BY <1>1, LeastNatural
<1>3. i # 1
  <2>1. i = 1 => lines # <<>>
    BY <1>1, <1>2
  <2> QED
    BY <1>2, <2>1, FirstIsPlaced
<1>4. i - 1 \in 1 .. Len(lines) /\ i - 1 < Len(lines) /\ (i - 1) + 1 = i /\ ~(i <= i - 1)
  BY <1>1, <1>2, <1>3
<1>5. Placed(lines, flat, i - 1)
  BY <1>2, <1>4
<1>6. Placed(lines, flat, (i - 1) + 1)
  BY <1>4, <1>5, NextIsPlaced
<1> QED
  BY <1>2, <1>4, <1>6

LEMMA WholeStreamIsLaidOut ==
  ASSUME NEW lines \in Seq(Seq(Byte)), lines # <<>>, NEW flat, FlatFrom(lines, flat),
         NEW starts, starts = [i \in 1 .. Len(lines) + 1 |-> StartOf(flat, i)]
  PROVE  /\ LaidOut(flat[Len(lines)], lines, starts)
         /\ flat[Len(lines)] # <<>>
         /\ starts[Len(lines) + 1] = Len(flat[Len(lines)])
<1> DEFINE m == Len(lines)
           stream == flat[m]
<1>1. m \in Nat /\ m \in 1 .. m
  OBVIOUS
<1>2. Placed(lines, flat, m)
  BY <1>1, AllArePlaced
<1>3. /\ stream \in Seq(Byte \cup {"newline"})
      /\ \A h \in 1 .. m :
           /\ StartOf(flat, h) \in Nat /\ StartOf(flat, h + 1) = StartOf(flat, h) + Len(lines[h]) + 1
           /\ StartOf(flat, h + 1) <= Len(stream)
           /\ \A k \in 1 .. Len(lines[h]) : stream[StartOf(flat, h) + k] = lines[h][k]
           /\ stream[StartOf(flat, h + 1)] = "newline"
  BY <1>2 DEF Placed
<1>4. \A h \in 1 .. m + 1 : starts[h] = StartOf(flat, h)
  OBVIOUS
<1>5. starts[m + 1] = Len(stream) /\ starts[1] = 0
  <2>1. m + 1 \in 1 .. m + 1 /\ 1 \in 1 .. m + 1 /\ m + 1 # 1 /\ (m + 1) - 1 = m
    BY <1>1
  <2> QED
    BY <1>4, <2>1 DEF StartOf
<1>6. Len(stream) \in Nat
  BY <1>3
<1>7. ASSUME NEW h \in 1 .. m
      PROVE  /\ starts[h] \in Nat /\ starts[h + 1] = starts[h] + Len(lines[h]) + 1
             /\ starts[h] + Len(lines[h]) <= Len(stream)
             /\ \A k \in 1 .. Len(lines[h]) : stream[starts[h] + k] = lines[h][k]
             /\ stream[starts[h + 1]] = "newline"
  <2>1. h \in 1 .. m + 1 /\ h + 1 \in 1 .. m + 1
    BY <1>1
  <2>2. starts[h] = StartOf(flat, h) /\ starts[h + 1] = StartOf(flat, h + 1)
    BY <1>4, <2>1
  <2>3. Len(lines[h]) \in Nat
    OBVIOUS
  <2> HIDE DEF m, stream
  <2>4. /\ starts[h] \in Nat /\ starts[h + 1] = starts[h] + Len(lines[h]) + 1
        /\ starts[h + 1] <= Len(stream) /\ stream[starts[h + 1]] = "newline"
    BY <1>3, <2>2
  <2>5. \A k \in 1 .. Len(lines[h]) : stream[starts[h] + k] = lines[h][k]
    BY <1>3, <2>2
  <2>6. starts[h] + Len(lines[h]) <= Len(stream)
    BY <1>6, <2>3, <2>4
  <2> QED
    BY <2>4, <2>5, <2>6
<1>8. starts \in [1 .. m + 1 -> Nat]
  <2>1. ASSUME NEW h \in 1 .. m + 1 PROVE starts[h] \in Nat
    <3>1. h = m + 1 \/ h \in 1 .. m
      BY <1>1
    <3> QED
      BY <1>5, <1>6, <1>7, <3>1
  <2> QED
    BY <2>1
<1>11. lines[m] \in Seq(Byte)
  BY <1>1
<1> HIDE DEF m, stream
<1>9. stream # <<>>
  <2>1. starts[m + 1] = starts[m] + Len(lines[m]) + 1 /\ starts[m] \in Nat
    BY <1>1, <1>7
  <2>2. Len(lines[m]) \in Nat
    BY <1>11
  <2>3. Len(stream) # 0
    BY <1>5, <2>1, <2>2
  <2> QED
    BY <2>3
<1>10. LaidOut(stream, lines, starts)
  <2>1. starts[m + 1] \in {Len(stream), Len(stream) + 1} /\ starts[m + 1] # Len(stream) + 1
    BY <1>5, <1>6
  <2> QED
    BY <1>3, <1>5, <1>7, <1>8, <2>1 DEF LaidOut, m
<1> QED
  BY <1>5, <1>9, <1>10 DEF m, stream

\* Without its last newline the stream has the same lines, but for an empty last one.
LEMMA CutStreamIsLaidOut ==
  ASSUME NEW stream, NEW lines, NEW starts, LaidOut(stream, lines, starts),
         lines # <<>>, starts[Len(lines) + 1] = Len(stream)
  PROVE  \E some : LaidOut(Front(stream), Whole(lines, FALSE), some)
<1> DEFINE m == Len(lines)
           n == Len(stream)
           cut == Front(stream)
           bytes == Byte \cup {"newline"}
<1>1. /\ m \in Nat /\ m \in 1 .. m /\ n \in Nat /\ stream \in Seq(bytes) /\ lines \in Seq(Seq(Byte))
      /\ starts \in [1 .. m + 1 -> Nat] /\ starts[1] = 0
  BY DEF LaidOut
<1>2. /\ starts[m] \in Nat /\ Len(lines[m]) \in Nat /\ n = starts[m] + Len(lines[m]) + 1
  BY <1>1, LineLies
<1> HIDE DEF m, n
<1>3. n - 1 \in Nat /\ n - 1 = starts[m] + Len(lines[m])
  BY <1>2
<1>4. cut \in Seq(bytes) /\ Len(cut) = n - 1 /\ \A k \in 1 .. n - 1 : cut[k] = stream[k]
  <2>1. cut = SubSeq(stream, 1, n - 1) /\ n - 1 <= Len(stream)
    BY <1>1 DEF Front, n
  <2> HIDE DEF cut, bytes
  <2>2. /\ SubSeq(stream, 1, n - 1) \in Seq(bytes) /\ Len(SubSeq(stream, 1, n - 1)) = n - 1
        /\ \A k \in 1 .. n - 1 : SubSeq(stream, 1, n - 1)[k] = stream[k]
    <3>1. stream \in Seq(bytes) /\ n - 1 \in Nat /\ n - 1 <= Len(stream)
      BY <1>1, <1>3, <2>1
    <3> QED
      BY <3>1, PrefixIs
  <2> QED
    BY <2>1, <2>2
<1> HIDE DEF cut
<1>5. \A i \in 1 .. m :
        /\ starts[i] \in Nat /\ starts[i + 1] \in Nat /\ lines[i] \in Seq(Byte) /\ Len(lines[i]) \in Nat
        /\ starts[i + 1] = starts[i] + Len(lines[i]) + 1 /\ starts[i] + Len(lines[i]) <= n
        /\ \A k \in 1 .. Len(lines[i]) : stream[starts[i] + k] = lines[i][k]
        /\ starts[i + 1] <= n => stream[starts[i + 1]] = "newline"
        /\ i < m => starts[i + 1] <= n
  BY LineLies DEF m, n
<1>6. ASSUME NEW i \in 1 .. m
      PROVE  /\ starts[i] + Len(lines[i]) <= n - 1
             /\ \A k \in 1 .. Len(lines[i]) : cut[starts[i] + k] = lines[i][k]
             /\ starts[i + 1] <= n - 1 => cut[starts[i + 1]] = "newline"
  <2>1. i = m \/ starts[i + 1] <= n
    <3>1. i = m \/ i < m
      BY <1>1
    <3> QED
      BY <1>5, <3>1
  <2>2. starts[i] + Len(lines[i]) <= n - 1
    BY <1>2, <1>3, <1>5, <2>1
  <2>3. ASSUME NEW k \in 1 .. Len(lines[i]) PROVE cut[starts[i] + k] = lines[i][k]
    <3>1. starts[i] \in Nat /\ Len(lines[i]) \in Nat /\ stream[starts[i] + k] = lines[i][k]
      BY <1>5
    <3>2. starts[i] + k \in 1 .. n - 1
      BY <1>3, <2>2, <3>1
    <3> QED
      BY <1>4, <3>1, <3>2
  <2>4. ASSUME starts[i + 1] <= n - 1 PROVE cut[starts[i + 1]] = "newline"
    <3>1. starts[i] \in Nat /\ Len(lines[i]) \in Nat /\ starts[i + 1] = starts[i] + Len(lines[i]) + 1
      BY <1>5
    <3>2. starts[i + 1] \in 1 .. n - 1 /\ starts[i + 1] <= n
      BY <1>2, <2>4, <3>1
    <3> QED
      BY <1>4, <1>5, <3>2
  <2> QED
    BY <2>2, <2>3, <2>4
<1>7. CASE lines[m] # <<>>
  <2>1. Whole(lines, FALSE) = lines
    BY <1>7 DEF Whole, Last, m
  <2>2. starts[m + 1] = (n - 1) + 1
    BY <1>1, <1>2 DEF m, n
  <2>3. LaidOut(cut, lines, starts)
    <3>1. starts[m + 1] \in {Len(cut), Len(cut) + 1} /\ m > 0 /\ "newline" \in bytes
      BY <1>1, <1>4, <2>2
    <3>2. \A i \in 1 .. m : starts[i + 1] = starts[i] + Len(lines[i]) + 1
      BY <1>5
    <3> QED
      BY <1>1, <1>4, <1>6, <1>7, <3>1, <3>2 DEF LaidOut, m
  <2> QED
    BY <2>1, <2>3 DEF cut
<1>8. CASE lines[m] = <<>>
  <2> DEFINE less == Front(lines)
             some == [i \in 1 .. m |-> starts[i]]
  <2>1. Whole(lines, FALSE) = less
    BY <1>8 DEF Whole, Last, m
  <2>2. less \in Seq(Seq(Byte)) /\ Len(less) = m - 1 /\ \A i \in 1 .. m - 1 : less[i] = lines[i]
    <3>1. less = SubSeq(lines, 1, m - 1) /\ m - 1 <= Len(lines) /\ m - 1 \in Nat
      BY <1>1 DEF Front, m
    <3> HIDE DEF less
    <3> QED
      BY <1>1, <3>1, PrefixIs
  <2> HIDE DEF less
  <2>3. starts[m] = n - 1
    BY <1>2, <1>8
  <2>4. /\ some \in [1 .. (m - 1) + 1 -> Nat] /\ some[1] = 0 /\ some[(m - 1) + 1] = n - 1
        /\ \A i \in 1 .. m - 1 : i \in 1 .. m /\ some[i] = starts[i] /\ some[i + 1] = starts[i + 1]
    <3>1. (m - 1) + 1 = m /\ \A i \in 1 .. m : i \in 1 .. m + 1 /\ starts[i] \in Nat
      BY <1>1
    <3>2. 1 \in 1 .. m /\ m \in 1 .. m /\ \A i \in 1 .. m - 1 : i \in 1 .. m /\ i + 1 \in 1 .. m
      BY <1>1
    <3> QED
      BY <1>1, <2>3, <3>1, <3>2
  <2> HIDE DEF some
  <2>5. ASSUME NEW i \in 1 .. Len(less)
        PROVE  /\ some[i + 1] = some[i] + Len(less[i]) + 1
               /\ some[i] + Len(less[i]) <= Len(cut)
               /\ \A k \in 1 .. Len(less[i]) : cut[some[i] + k] = less[i][k]
               /\ some[i + 1] <= Len(cut) => cut[some[i + 1]] = "newline"
    <3>1. less[i] = lines[i] /\ i \in 1 .. m /\ some[i] = starts[i] /\ some[i + 1] = starts[i + 1]
      BY <2>2, <2>4
    <3> QED
      BY <1>4, <1>5, <1>6, <3>1
  <2>6. some[Len(less) + 1] = Len(cut) /\ Len(cut) # Len(cut) + 1
    BY <1>3, <1>4, <2>2, <2>4
  <2>7. LaidOut(cut, less, some)
    <3>1. some \in [1 .. Len(less) + 1 -> Nat] /\ some[1] = 0
      BY <2>2, <2>4
    <3> QED
      BY <1>4, <2>2, <2>5, <2>6, <3>1 DEF LaidOut
  <2> QED
    BY <2>1, <2>7 DEF cut
<1> QED
  BY <1>7, <1>8

LEMMA BytesAreLaidOut ==
  ASSUME NEW lines \in Seq(Seq(Byte)), NEW terminated \in BOOLEAN
  PROVE  \E starts : LaidOut(Bytes(lines, terminated), Whole(lines, terminated), starts)
<1> DEFINE closed == [k \in DOMAIN lines |-> Append(lines[k], "newline")]
<1>1. Bytes(lines, terminated) = IF terminated \/ FlattenSeq(closed) = <<>> THEN FlattenSeq(closed)
                                 ELSE Front(FlattenSeq(closed))
  BY DEF Bytes
<1>2. CASE lines = <<>>
  <2>1. closed = <<>>
    BY <1>2
  <2> HIDE DEF closed
  <2>2. FlattenSeq(closed) = <<>>
    BY <2>1 DEF FlattenSeq
  <2>3. Bytes(lines, terminated) = <<>> /\ Whole(lines, terminated) = <<>>
    BY <1>1, <1>2, <2>2 DEF Whole
  <2>4. LaidOut(<<>>, <<>>, [i \in 1 .. 1 |-> 0])
    BY DEF LaidOut
  <2> QED
    BY <2>3, <2>4
<1>3. CASE lines # <<>>
  <2>1. PICK flat : FlatFrom(lines, flat) /\ FlattenSeq(closed) = flat[Len(lines)]
    BY <1>3, FlatIsDefined
  <2> HIDE DEF closed
  <2> DEFINE starts == [i \in 1 .. Len(lines) + 1 |-> StartOf(flat, i)]
             stream == flat[Len(lines)]
  <2>2. LaidOut(stream, lines, starts) /\ stream # <<>> /\ starts[Len(lines) + 1] = Len(stream)
    BY <1>3, <2>1, WholeStreamIsLaidOut
  <2> HIDE DEF starts, stream
  <2>3. FlattenSeq(closed) = stream
    BY <2>1 DEF stream
  <2>4. CASE terminated
    <3>1. Bytes(lines, terminated) = stream /\ Whole(lines, terminated) = lines
      BY <1>1, <2>3, <2>4 DEF Whole
    <3> QED
      BY <2>2, <3>1
  <2>5. CASE ~terminated
    <3>1. Bytes(lines, terminated) = Front(stream) /\ Whole(lines, terminated) = Whole(lines, FALSE)
      BY <1>1, <2>2, <2>3, <2>5 DEF Whole
    <3>2. \E some : LaidOut(Front(stream), Whole(lines, FALSE), some)
      BY <1>3, <2>2, CutStreamIsLaidOut
    <3> QED
      BY <3>1, <3>2
  <2> QED
    BY <2>4, <2>5
<1> QED
  BY <1>2, <1>3

(***************************************************************************)
(* Whatever lines are sent, with or without a last newline, and wherever   *)
(* the stream is cut into buffers, read_frame (serve.rs:29) returns their  *)
(* frames.                                                                 *)
(***************************************************************************)
THEOREM LinesAreFrames ==
  \A lines \in Seq(Seq(Byte)), terminated \in BOOLEAN :
    LET stream == Bytes(lines, terminated)
    IN  \A cuts \in SUBSET (0 .. Len(stream)) :
          Frames(stream, cuts) = Expected(Whole(lines, terminated))
  BY BytesAreLaidOut, LinesAreRead

LEMMA CutsAreInside ==
  ASSUME NEW stream, NEW S, stream \in Seq(S)
  PROVE  Cuts(stream) \subseteq SUBSET (0 .. Len(stream))
  BY DEF Cuts

LEMMA KindsAreRead ==
  ASSUME NEW kinds \in DOMAIN ReadWhole, kinds \in Seq(Kind)
  PROVE  ReadWhole[kinds]
<1> DEFINE spelled == {l \in [DOMAIN kinds -> UNION {Spellings[k] : k \in Kind}] :
                         \A i \in DOMAIN kinds : l[i] \in Spellings[kinds[i]]}
<1>1. ASSUME NEW lines \in spelled, NEW terminated \in BOOLEAN,
             NEW cuts \in Cuts(Bytes(lines, terminated))
      PROVE  Frames(Bytes(lines, terminated), cuts) = Expected(Whole(lines, terminated))
  <2>1. lines \in Seq(Seq(Byte))
    <3>1. \A i \in 1 .. Len(kinds) : lines[i] \in Seq(Byte)
      BY SpellingsAssumption
    <3>2. DOMAIN lines = 1 .. Len(kinds) /\ Len(kinds) \in Nat /\ lines = [i \in 1 .. Len(kinds) |-> lines[i]]
      OBVIOUS
    <3> QED
      BY <3>1, <3>2
  <2>2. Bytes(lines, terminated) \in Seq(Byte \cup {"newline"})
    BY <2>1, BytesAreLaidOut DEF LaidOut
  <2>3. cuts \in SUBSET (0 .. Len(Bytes(lines, terminated)))
    BY <2>2, CutsAreInside
  <2> QED
    BY <2>1, <2>3, LinesAreFrames
<1> QED
  BY <1>1 DEF ReadWhole

(***************************************************************************)
(* What a client has sent at any moment is read as the frames it is        *)
(* (serve.rs:29).                                                          *)
(***************************************************************************)
THEOREM FramesAreRead == Spec => []FramesAreLines
<1>1. TypeOK => FramesAreLines
  <2> SUFFICES ASSUME TypeOK, NEW c \in Client
               PROVE  ReadWhole[SubSeq(script[c], 1, sent[c])]
    BY DEF FramesAreLines
  <2>1. script[c] \in ScriptsOf[c] /\ sent[c] \in Frame(c) \cup {0}
    BY DEF TypeOK
  <2>2. script[c] \in Seq(Kind) /\ script[c] \in UNION {ScriptsOf[d] : d \in Client}
    BY <2>1, ConstantsAssumption
  <2>3. sent[c] \in 0 .. Len(script[c])
    BY <2>1, <2>2 DEF Frame
  <2>4. SubSeq(script[c], 1, sent[c]) \in Seq(Kind)
    BY <2>2, <2>3
  <2>5. SubSeq(script[c], 1, sent[c]) \in DOMAIN ReadWhole
    BY <2>2, <2>3 DEF ReadWhole
  <2> QED
    BY <2>4, <2>5, KindsAreRead
<1> QED
  BY <1>1, TypeCorrectness, PTL
=============================================================================
