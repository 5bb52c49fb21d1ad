----------------------------- MODULE TcpFraming -----------------------------
(***************************************************************************)
(* One connection of src/collection/tcp_collector.py: _handle_conn splits  *)
(* the byte stream at newlines and hands each frame to the collection      *)
(* pipeline, whatever chunks the network delivers.                         *)
(*                                                                         *)
(* A byte is a delimiter or it is not; the stream is whatever recv()       *)
(* returns.  Connections share nothing but the pipeline (module            *)
(* Collection), so one of them is enough.  Every emitted frame goes        *)
(* through ingest(), which checks its size again.                          *)
(***************************************************************************)
EXTENDS Naturals, Sequences

CONSTANTS MaxEventSize,  \* config.max_event_size_bytes
          RecvLimit,     \* 65535: the most one recv() is asked for
          MaxBytes       \* bound: bytes received on the connection

ASSUME ConstantsAssumption ==
    MaxEventSize \in Nat \ {0} /\ RecvLimit \in Nat \ {0} /\ MaxBytes \in Nat

Bytes == {"delimiter", "other"}

Reasons == {"none", "empty_event", "oversized_event", "incomplete_frame"}

VARIABLES pc,        \* "recv", "split" or "closed"
          buffer,    \* received and not yet handed over
          frames,    \* handed over: bytes, whether a delimiter ended them, refusal,
                     \* and (history) how much of the stream came before
          received,  \* history: all bytes recv() has returned
          ending     \* history: what closed the connection

vars == <<pc, buffer, frames, received, ending>>

Frame == [bytes : Seq(Bytes), ended : BOOLEAN, refused : Reasons, at : Nat]

\* The part of the stream up to the end of a frame, and up to the end of the last.
End(f) == f.at + Len(f.bytes) + (IF f.ended THEN 1 ELSE 0)
Cut == IF frames = <<>> THEN 0 ELSE End(frames[Len(frames)])

TypeOK ==
    /\ pc \in {"recv", "split", "closed"}
    /\ buffer \in Seq(Bytes) /\ Len(buffer) <= MaxEventSize + 1
    /\ frames \in Seq(Frame)
    /\ received \in Seq(Bytes)
    /\ ending \in {"open", "eof", "timeout", "error", "oversized"}

Init ==
    /\ pc = "recv"
    /\ buffer = <<>>
    /\ frames = <<>>
    /\ received = <<>>
    /\ ending = "open"

HasDelimiter(s) == \E i \in 1 .. Len(s) : s[i] = "delimiter"

FirstDelimiter(s) ==
    CHOOSE i \in 1 .. Len(s) : s[i] = "delimiter" /\ ~HasDelimiter(SubSeq(s, 1, i - 1))

\* Seeded fault: ingest() compares with >= .
RefusesAtLimit(s) ==
    CASE s = <<>>                -> "empty_event"
      [] Len(s) >= MaxEventSize  -> "oversized_event"
      [] OTHER                   -> "none"

\* What ingest() says to the size of a frame.
SizeRefusal(s) ==
    CASE s = <<>>               -> "empty_event"
      [] Len(s) > MaxEventSize  -> "oversized_event"
      [] OTHER                  -> "none"

Emitted(s, ended) ==
    frames' = Append(frames, [bytes |-> s, ended |-> ended, refused |-> SizeRefusal(s),
                              at |-> Cut])

Closes(how) == pc' = "closed" /\ ending' = how

\* Seeded fault: the buffer is not taken into account.
RoomForAll == IF MaxEventSize + 1 < RecvLimit THEN MaxEventSize + 1 ELSE RecvLimit

\* How many bytes recv() is asked for: at most one past the limit is buffered.
Room ==
    LET remaining == IF MaxEventSize + 1 > Len(buffer) THEN MaxEventSize + 1 - Len(buffer) ELSE 1
    IN  IF remaining < RecvLimit THEN remaining ELSE RecvLimit

Recv == \E n \in 1 .. Room : \E chunk \in [1 .. n -> Bytes] :
    /\ pc = "recv"
    /\ Len(received) + n <= MaxBytes
    /\ buffer' = buffer \o chunk
    /\ received' = received \o chunk
    /\ pc' = "split"
    /\ UNCHANGED <<frames, ending>>

\* Seeded fault: only the first delimiter of a chunk is looked for.
SplitOnce ==
    /\ pc = "split"
    /\ HasDelimiter(buffer)
    /\ LET at == FirstDelimiter(buffer)
       IN  /\ Emitted(SubSeq(buffer, 1, at - 1), TRUE)
           /\ buffer' = SubSeq(buffer, at + 1, Len(buffer))
    /\ pc' = "recv"
    /\ UNCHANGED <<received, ending>>

\* One round of `while DELIMITER in buffer`; an oversized line ends the connection.
Split ==
    /\ pc = "split"
    /\ HasDelimiter(buffer)
    /\ LET at == FirstDelimiter(buffer)
           line == SubSeq(buffer, 1, at - 1)
       IN  /\ Emitted(line, TRUE)
           /\ buffer' = SubSeq(buffer, at + 1, Len(buffer))
           /\ IF Len(line) > MaxEventSize THEN Closes("oversized")
                                          ELSE UNCHANGED <<pc, ending>>
    /\ UNCHANGED received

\* No delimiter is left: an oversized remainder is handed over and ends the
\* connection, anything else waits for more bytes.
AwaitMore ==
    /\ pc = "split"
    /\ ~HasDelimiter(buffer)
    /\ IF Len(buffer) > MaxEventSize
       THEN Emitted(buffer, FALSE) /\ buffer' = <<>> /\ Closes("oversized")
       ELSE pc' = "recv" /\ UNCHANGED <<buffer, frames, ending>>
    /\ UNCHANGED received

\* The peer has closed: what it left is a frame.
Eof ==
    /\ pc = "recv"
    /\ IF buffer # <<>> THEN Emitted(buffer, FALSE) ELSE UNCHANGED frames
    /\ buffer' = <<>>
    /\ Closes("eof")
    /\ UNCHANGED received

\* The peer has been silent: what it left is rejected, and accounted for.
Timeout ==
    /\ pc = "recv"
    /\ frames' = IF buffer = <<>> THEN frames
                 ELSE Append(frames, [bytes |-> buffer, ended |-> FALSE,
                                      refused |-> "incomplete_frame", at |-> Cut])
    /\ buffer' = <<>>
    /\ Closes("timeout")
    /\ UNCHANGED received

\* Any other socket error drops the partial frame.
SocketError ==
    /\ pc = "recv"
    /\ Closes("error")
    /\ UNCHANGED <<buffer, frames, received>>

Next == Recv \/ Split \/ AwaitMore \/ Eof \/ Timeout \/ SocketError

Spec == Init /\ [][Next]_vars
-----------------------------------------------------------------------------
\* The bytes that begin after the first n of the stream are s.
IsStreamAt(n, s) ==
    n + Len(s) <= Len(received) /\ \A i \in 1 .. Len(s) : s[i] = received[n + i]

\* Frame k follows frame k - 1 in the stream, with the delimiter that ended it; only
\* the last may have none.
InStream(k) == LET f == frames[k] IN
    /\ f.at = IF k = 1 THEN 0 ELSE End(frames[k - 1])
    /\ IsStreamAt(f.at, f.bytes) /\ ~HasDelimiter(f.bytes)
    /\ IF f.ended THEN End(f) <= Len(received) /\ received[End(f)] = "delimiter"
                  ELSE k = Len(frames)

\* However the stream is cut into chunks, the frames handed over follow one another in
\* the stream, byte for byte, each up to its delimiter and none with a delimiter inside,
\* and the buffer is all that follows them: so the frames are what splitting the whole
\* stream would give.  What is not handed over when a connection closes is the partial
\* frame a socket error leaves.
FramesAreTheStream ==
    /\ \A k \in 1 .. Len(frames) : InStream(k)
    /\ IsStreamAt(Cut, buffer) /\ Cut + Len(buffer) = Len(received)
    /\ pc = "closed" /\ ending # "error" => buffer = <<>>

\* A frame is refused for its size as soon as it is one byte past the limit, so no
\* line that a delimiter ended ever is, and such a refusal ends the connection.
OversizeIsSeenEarly ==
    /\ \A k \in 1 .. Len(frames) :
           /\ frames[k].refused = "oversized_event" <=> Len(frames[k].bytes) = MaxEventSize + 1
           /\ frames[k].ended => frames[k].refused # "oversized_event"
    /\ ending = "oversized" => frames[Len(frames)].refused = "oversized_event"
(***************************************************************************)
(* The inductive invariant adds what the loops leave behind: while the     *)
(* connection is open no partial frame was handed over, and recv() is      *)
(* called with nothing in the buffer that could be handed over.            *)
(***************************************************************************)
AllEnded == pc # "closed" => \A k \in 1 .. Len(frames) : frames[k].ended

BufferIsPartial == pc = "recv" => ~HasDelimiter(buffer) /\ Len(buffer) <= MaxEventSize

OpenIsOpen == ending = "oversized" => pc = "closed" /\ frames # <<>>

IInv ==
    /\ TypeOK
    /\ FramesAreTheStream
    /\ OversizeIsSeenEarly
    /\ AllEnded
    /\ BufferIsPartial
    /\ OpenIsOpen
=============================================================================
