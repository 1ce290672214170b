------------------------------ MODULE SseFrames ------------------------------
(* SseParser (internal/api/sse.go): the body of a stream arrives in chunks cut *)
(* anywhere; complete frames are taken from the buffer as soon as their        *)
(* delimiter is there, a blank line in any of three spellings.  Bytes are line  *)
(* feeds, carriage returns and one other.                                      *)
EXTENDS Integers, Sequences, SequencesExt

CONSTANTS
  MaxBytes,       \* bound on the bytes of a body
  BufferLimit     \* maxSseBufferBytes

ASSUME SseAssumption == MaxBytes \in Nat /\ BufferLimit \in Nat

VARIABLES
  body,           \* every byte pushed since the parser was made or gave up
  buffer,         \* p.buffer
  frames,         \* the frames taken so far, as the bytes before their delimiter
  parser          \* "open", "finished", or "refused" when a frame did not fit

sseVars == <<body, buffer, frames, parser>>

Bytes == {"LF", "CR", "x"}
(* The delimiter at position i of buf: its length, or 0.                       *)
DelimiterAt(buf, i) ==
  LET has(k, byte) == i + k <= Len(buf) /\ buf[i + k] = byte
  IN CASE has(0, "LF") /\ has(1, "LF") -> 2
       [] has(0, "LF") /\ has(1, "CR") /\ has(2, "LF") -> 3
       [] has(0, "CR") /\ has(1, "LF") /\ has(2, "CR") /\ has(3, "LF") -> 4
       [] OTHER -> 0
(* findFrameDelimiter: the first one.                                          *)
Delimiters(buf) == {i \in 1..Len(buf) : DelimiterAt(buf, i) > 0}
First(buf) == CHOOSE i \in Delimiters(buf) : \A k \in Delimiters(buf) : i <= k

(* parseFrames: takes frames from the front while there are delimiters.  Each  *)
(* pass takes one; a buffer holds no more than half its length of them.        *)
Take(s) ==
  IF Delimiters(s.rest) = {} THEN s
  ELSE LET i == First(s.rest)
       IN [frames |-> Append(s.frames, SubSeq(s.rest, 1, i - 1)),
           rest |-> SubSeq(s.rest, i + DelimiterAt(s.rest, i), Len(s.rest))]
Drain(buf) ==
  LET passes[k \in 0..Len(buf)] == IF k = 0 THEN [frames |-> <<>>, rest |-> buf] ELSE Take(passes[k - 1])
  IN passes[Len(buf)]

(* parseFrame gives nothing for a frame of blank lines, which is not delivered.*)
Blank(bytes) == \A i \in 1..Len(bytes) : bytes[i] # "x"
Delivered(s) == FlattenSeq([i \in DOMAIN s |-> IF Blank(s[i]) THEN <<>> ELSE <<s[i]>>])

SseInit == body = <<>> /\ buffer = <<>> /\ frames = <<>> /\ parser = "open"

(* Push: a chunk that would not fit is refused together with the buffer.       *)
MutKept(chunk) == chunk
Kept(chunk) == buffer \o chunk

Push ==
  /\ parser = "open" /\ Len(body) < MaxBytes
  /\ \E n \in 1..3 : \E chunk \in [1..n -> Bytes] :
       /\ Len(body) + n <= MaxBytes /\ body' = body \o chunk
       /\ IF Len(buffer) + n > BufferLimit
          THEN buffer' = <<>> /\ parser' = "refused" /\ UNCHANGED frames
          ELSE LET d == Drain(Kept(chunk))
               IN buffer' = d.rest /\ frames' = frames \o Delivered(d.frames) /\ UNCHANGED parser

(* Finish, at the end of the body or after a refusal: two line feeds are added *)
(* to what is left, unless it is blank.                                        *)
MutSseFinish == parser # "finished" /\ parser' = "finished" /\ buffer' = <<>> /\ UNCHANGED <<body, frames>>
SseFinish ==
  /\ parser # "finished" /\ parser' = "finished" /\ UNCHANGED body
  /\ IF Blank(buffer) THEN buffer' = <<>> /\ UNCHANGED frames
     ELSE LET d == Drain(buffer \o <<"LF", "LF">>)
          IN buffer' = d.rest /\ frames' = frames \o Delivered(d.frames)

SseNext == Push \/ SseFinish
SseSpec == SseInit /\ [][SseNext]_sseVars

-----------------------------------------------------------------------------
SseTypeOK ==
  /\ Len(body) <= MaxBytes /\ Len(buffer) <= BufferLimit
  /\ parser \in {"open", "finished", "refused"}

(* Where the chunks are cut does not show: the frames so far are those of the  *)
(* bytes so far, parsed in one piece.                                          *)
CutsDoNotShow ==
  parser = "open" => LET d == Drain(body) IN frames = Delivered(d.frames) /\ buffer = d.rest

Written(bytes) == FlattenSeq([i \in DOMAIN bytes |-> IF bytes[i] = "x" THEN <<"x">> ELSE <<>>])

(* Nothing is delivered twice or invented, and a body that was not refused is  *)
(* delivered to the last byte that is not a line end.                          *)
NothingIsLost ==
  parser = "finished" /\ Len(body) <= BufferLimit =>
    Written(FlattenSeq(frames)) = Written(body)
=============================================================================
