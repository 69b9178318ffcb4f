--------------------------------- MODULE Framing ---------------------------------
(***************************************************************************)
(* read_frame of src/serve.rs, called until the stream ends, over a reader *)
(* that hands the bytes out in buffers cut anywhere.  A byte is "newline", *)
(* "return", "letter", or "stray": one that is no UTF-8.                   *)
(***************************************************************************)
EXTENDS Naturals, SequencesExt

CONSTANT MaxFrameBytes \* MAX_FRAME_BYTES

ASSUME FramingAssumption == MaxFrameBytes \in Nat

\* The bytes of a line.
Byte == {"return", "letter", "stray"}

Line(bytes) == [kind |-> "line", bytes |-> bytes]
TooLarge == [kind |-> "too_large", bytes |-> <<>>]
InvalidData == [kind |-> "invalid", bytes |-> <<>>]
EndOfStream == [kind |-> "end", bytes |-> <<>>]

\* Where in the stream a call of read_frame is, the locals of the call, and the
\* frames returned by the calls before.
NewCall(at, frames) ==
  [at |-> at, bytes |-> <<>>, too_large |-> FALSE, saw_data |-> FALSE, frames |-> frames]

Over(s) == s.frames # <<>> /\ Last(s.frames) \in {InvalidData, EndOfStream}

WithoutReturn(bytes) ==
  IF bytes # <<>> /\ Last(bytes) = "return" THEN Front(bytes) ELSE bytes

Finished(bytes, too_large) ==
  IF too_large THEN TooLarge
  ELSE IF "stray" \in ToSet(bytes) THEN InvalidData
  ELSE Line(WithoutReturn(bytes))

\* Mutant: a frame may fill the limit once more with every buffer.
FitsBuffer(s, body) == Len(body) <= MaxFrameBytes

Fits(s, body) == Len(body) <= MaxFrameBytes - Len(s.bytes)

\* How far fill_buf has the stream at hand: to the end of the buffer that the
\* next byte is in.  The buffers end where the stream is cut, and at its end.
Filled(stream, cuts, at) ==
  IF at = Len(stream) THEN at ELSE Min({k \in cuts \cup {Len(stream)} : at < k})

\* One round of the loop.  Once a line is too large it stays so, to its newline.
Round(stream, cuts, s) ==
  LET filled == Filled(stream, cuts, s.at)
      newlines == {k \in s.at + 1 .. filled : stream[k] = "newline"}
      consumed == IF newlines = {} THEN filled ELSE Min(newlines)
      body == SubSeq(stream, s.at + 1, IF newlines = {} THEN filled ELSE consumed - 1)
      too_large == s.too_large \/ ~Fits(s, body)
      bytes == IF too_large THEN <<>> ELSE s.bytes \o body
  IN  IF filled = s.at
      THEN NewCall(s.at, Append(s.frames, IF s.saw_data THEN Finished(s.bytes, s.too_large)
                                                        ELSE EndOfStream))
      ELSE IF newlines # {}
      THEN NewCall(consumed, Append(s.frames, Finished(bytes, too_large)))
      ELSE [s EXCEPT !.at = consumed, !.bytes = bytes, !.too_large = too_large, !.saw_data = TRUE]

\* What calls read_frame goes on to the end of the stream or an error.
NextRound(stream, cuts, s) == IF Over(s) THEN s ELSE Round(stream, cuts, s)

\* A round takes at least one byte, or ends a call; the last finds nothing.
Frames(stream, cuts) ==
  LET reader[k \in 0 .. Len(stream) + 2] ==
        IF k = 0 THEN NewCall(0, <<>>) ELSE NextRound(stream, cuts, reader[k - 1])
  IN  reader[Len(stream) + 2].frames
=============================================================================
