-------------------------- MODULE TcpFramingProofs --------------------------
(***************************************************************************)
(* The frames of a connection are the stream it received, whatever chunks  *)
(* the network delivers: for any size limit, any number of bytes asked of  *)
(* recv() and any length of the stream.                                    *)
(***************************************************************************)
EXTENDS TcpFraming, SequenceTheorems, WellFoundedInduction, TLAPS

\* The delimiter that is found is the first: none comes before it.
LEMMA FirstIsFirst ==
    ASSUME NEW s \in Seq(Bytes), HasDelimiter(s)
    PROVE  LET at == FirstDelimiter(s) IN
           /\ at \in 1 .. Len(s) /\ s[at] = "delimiter"
           /\ SubSeq(s, 1, at - 1) \in Seq(Bytes) /\ Len(SubSeq(s, 1, at - 1)) = at - 1
           /\ \A i \in 1 .. at - 1 : SubSeq(s, 1, at - 1)[i] = s[i]
           /\ ~HasDelimiter(SubSeq(s, 1, at - 1))
           /\ SubSeq(s, at + 1, Len(s)) \in Seq(Bytes)
           /\ Len(SubSeq(s, at + 1, Len(s))) = Len(s) - at
           /\ \A i \in 1 .. Len(s) - at : SubSeq(s, at + 1, Len(s))[i] = s[at + i]
<1> DEFINE T == {i \in 1 .. Len(s) : s[i] = "delimiter"}
<1>1. Len(s) \in Nat /\ \A i \in 1 .. Len(s) : s[i] \in Bytes
  OBVIOUS
<1>2. ASSUME NEW n \in 1 .. Len(s)
      PROVE  /\ SubSeq(s, 1, n - 1) \in Seq(Bytes) /\ Len(SubSeq(s, 1, n - 1)) = n - 1
             /\ \A i \in 1 .. n - 1 : SubSeq(s, 1, n - 1)[i] = s[i]
             /\ SubSeq(s, n + 1, Len(s)) \in Seq(Bytes)
             /\ Len(SubSeq(s, n + 1, Len(s))) = Len(s) - n
             /\ \A i \in 1 .. Len(s) - n : SubSeq(s, n + 1, Len(s))[i] = s[n + i]
  BY <1>1
<1>3. PICK x \in T : \A y \in T : ~(<<y, x>> \in OpToRel(<, Nat))
  <2>1. T \subseteq Nat /\ T # {}
    BY <1>1 DEF HasDelimiter
  <2> HIDE DEF T
  <2> QED  BY <2>1, WFMin, NatLessThanWellFounded
<1>4. ASSUME NEW y \in T  PROVE ~(y < x)
  <2> DEFINE ss == <<y, x>>
  <2>1. ss \in Nat \X Nat /\ ss[1] = y /\ ss[2] = x
    BY <1>1
  <2> HIDE DEF ss
  <2>2. ss[1] < ss[2] => ss \in OpToRel(<, Nat)
    BY <2>1, Zenon DEF OpToRel
  <2> QED  BY <1>3, <2>1, <2>2 DEF ss
<1>5. x \in 1 .. Len(s) /\ s[x] = "delimiter" /\ ~HasDelimiter(SubSeq(s, 1, x - 1))
  BY <1>1, <1>2, <1>4 DEF HasDelimiter
<1> DEFINE at == FirstDelimiter(s)
<1>6. at \in 1 .. Len(s) /\ s[at] = "delimiter" /\ ~HasDelimiter(SubSeq(s, 1, at - 1))
  BY <1>5 DEF FirstDelimiter
<1> HIDE DEF at
<1>7. /\ SubSeq(s, 1, at - 1) \in Seq(Bytes) /\ Len(SubSeq(s, 1, at - 1)) = at - 1
      /\ \A i \in 1 .. at - 1 : SubSeq(s, 1, at - 1)[i] = s[i]
      /\ SubSeq(s, at + 1, Len(s)) \in Seq(Bytes)
      /\ Len(SubSeq(s, at + 1, Len(s))) = Len(s) - at
      /\ \A i \in 1 .. Len(s) - at : SubSeq(s, at + 1, Len(s))[i] = s[at + i]
  BY <1>2, <1>6
<1> QED  BY <1>6, <1>7 DEF at

\* The typed parts of the state, as the steps below need them.
LEMMA Typed ==
    ASSUME TypeOK
    PROVE  /\ buffer \in Seq(Bytes) /\ Len(buffer) \in Nat
           /\ frames \in Seq(Frame) /\ Len(frames) \in Nat
           /\ received \in Seq(Bytes) /\ Len(received) \in Nat
           /\ \A k \in 1 .. Len(frames) :
                 /\ frames[k] \in Frame /\ frames[k].bytes \in Seq(Bytes)
                 /\ Len(frames[k].bytes) \in Nat /\ frames[k].at \in Nat
                 /\ End(frames[k]) \in Nat
           /\ Cut \in Nat
           /\ MaxEventSize \in Nat \ {0} /\ RecvLimit \in Nat \ {0}
<1>1. /\ buffer \in Seq(Bytes) /\ Len(buffer) \in Nat
      /\ frames \in Seq(Frame) /\ Len(frames) \in Nat
      /\ received \in Seq(Bytes) /\ Len(received) \in Nat
  BY DEF TypeOK
<1>2. ASSUME NEW f \in Frame
      PROVE  f.bytes \in Seq(Bytes) /\ Len(f.bytes) \in Nat /\ f.at \in Nat /\ End(f) \in Nat
  <2>1. f.bytes \in Seq(Bytes) /\ f.at \in Nat
    BY DEF Frame
  <2>2. Len(f.bytes) \in Nat
    BY <2>1
  <2> QED  BY <2>1, <2>2 DEF End
<1>3. \A k \in 1 .. Len(frames) : frames[k] \in Frame
  BY <1>1
<1>4. Cut \in Nat
  <2>1. frames # <<>> => Len(frames) \in 1 .. Len(frames)
    BY <1>1
  <2> QED  BY <1>2, <1>3, <2>1 DEF Cut
<1> QED  BY <1>1, <1>2, <1>3, <1>4, ConstantsAssumption

\* A frame that takes the next part of the buffer follows the others in the stream.
LEMMA FrameAdded ==
    ASSUME IInv, pc # "closed", NEW f \in Frame,
           frames' = Append(frames, f), received' = received, f.at = Cut,
           Len(f.bytes) <= Len(buffer),
           \A i \in 1 .. Len(f.bytes) : f.bytes[i] = buffer[i],
           ~HasDelimiter(f.bytes),
           f.ended => Len(f.bytes) < Len(buffer) /\ buffer[Len(f.bytes) + 1] = "delimiter"
    PROVE  /\ frames' \in Seq(Frame) /\ Len(frames') = Len(frames) + 1
           /\ \A k \in 1 .. Len(frames) : frames'[k] = frames[k]
           /\ frames'[Len(frames) + 1] = f
           /\ Cut' = End(f) /\ frames' # <<>>
           /\ \A k \in 1 .. Len(frames') : InStream(k)'
<1>1. frames \in Seq(Frame) /\ Len(frames) \in Nat /\ Cut \in Nat /\ Len(buffer) \in Nat
  BY Typed DEF IInv
<1> DEFINE n == Len(frames) + 1
<1>2. /\ frames' \in Seq(Frame) /\ Len(frames') = n /\ n \in Nat
      /\ \A k \in 1 .. Len(frames) : frames'[k] = frames[k]
      /\ frames'[n] = f /\ frames' # <<>>
  BY <1>1
<1>3. Cut' = End(f)
  BY <1>2 DEF Cut
<1>4. IsStreamAt(Cut, buffer) /\ \A k \in 1 .. Len(frames) : InStream(k) /\ frames[k].ended
  BY DEF IInv, FramesAreTheStream, AllEnded
<1>5. f.bytes \in Seq(Bytes) /\ Len(f.bytes) \in Nat
  <2>1. f.bytes \in Seq(Bytes)  BY DEF Frame
  <2> QED  BY <2>1
<1>6. ASSUME NEW k \in 1 .. Len(frames)  PROVE InStream(k)'
  <2>1. frames'[k] = frames[k] /\ (k # 1 => frames'[k - 1] = frames[k - 1])
    BY <1>1, <1>2
  <2> QED  BY <1>4, <2>1 DEF InStream, IsStreamAt
<1>7. ASSUME NEW k \in 1 .. Len(frames'), k = n  PROVE InStream(k)'
  <2>1. f.at = IF k = 1 THEN 0 ELSE End(frames'[k - 1])
    BY <1>1, <1>2, <1>7 DEF Cut
  <2>2. f.at + Len(f.bytes) <= Len(received)
        /\ \A i \in 1 .. Len(f.bytes) : f.bytes[i] = received[f.at + i]
    BY <1>1, <1>4, <1>5, Typed DEF IsStreamAt, IInv
  <2>3. ASSUME f.ended  PROVE End(f) <= Len(received) /\ received[End(f)] = "delimiter"
    <3> DEFINE i == Len(f.bytes) + 1
    <3>1. i \in 1 .. Len(buffer) /\ buffer[i] = "delimiter" /\ End(f) = Cut + i
      BY <1>1, <1>5, <2>3 DEF End
    <3>2. buffer[i] = received[Cut + i] /\ Cut + Len(buffer) <= Len(received)
      BY <1>4, <3>1 DEF IsStreamAt
    <3>3. Len(received) \in Nat
      BY Typed DEF IInv
    <3> HIDE DEF i
    <3> QED  BY <1>1, <3>1, <3>2, <3>3
  <2>4. IsStreamAt(f.at, f.bytes)'
    BY <2>2 DEF IsStreamAt
  <2>5. frames'[k] = f /\ Len(frames') = k /\ received' = received
    BY <1>2, <1>7
  <2> HIDE DEF n
  <2> QED  BY <2>1, <2>3, <2>4, <2>5 DEF InStream, HasDelimiter
<1>8. \A k \in 1 .. Len(frames') : InStream(k)'
  <2>1. ASSUME NEW k \in 1 .. Len(frames')  PROVE k \in 1 .. Len(frames) \/ k = n
    BY <1>1, <1>2
  <2> QED  BY <1>6, <1>7, <2>1
<1> QED  BY <1>2, <1>3, <1>8

\* What ingest() says to a frame of at most the bytes that are buffered.
LEMMA RefusalOfSize ==
    ASSUME NEW s \in Seq(Bytes), Len(s) <= MaxEventSize + 1
    PROVE  /\ SizeRefusal(s) \in Reasons
           /\ SizeRefusal(s) = "oversized_event" <=> Len(s) = MaxEventSize + 1
<1>1. Len(s) \in Nat /\ (s = <<>> <=> Len(s) = 0) /\ MaxEventSize \in Nat \ {0}
  BY ConstantsAssumption
<1>2. s = <<>> => ~(Len(s) > MaxEventSize)
  BY <1>1
<1> QED  BY <1>1, <1>2 DEF SizeRefusal, Reasons

\* One more frame whose refusal agrees with its size leaves every frame so.
LEMMA RefusalsAgree ==
    ASSUME TypeOK, OversizeIsSeenEarly, NEW f \in Frame, frames' = Append(frames, f),
           f.refused = "oversized_event" <=> Len(f.bytes) = MaxEventSize + 1,
           f.ended => f.refused # "oversized_event",
           ending' = "oversized" => f.refused = "oversized_event"
    PROVE  OversizeIsSeenEarly'
<1>1. /\ Len(frames) \in Nat /\ Len(frames') = Len(frames) + 1
      /\ \A k \in 1 .. Len(frames) : frames'[k] = frames[k]
      /\ frames'[Len(frames) + 1] = f
  BY Typed
<1>2. ASSUME NEW k \in 1 .. Len(frames')
      PROVE  /\ frames'[k].refused = "oversized_event"
                   <=> Len(frames'[k].bytes) = MaxEventSize + 1
             /\ frames'[k].ended => frames'[k].refused # "oversized_event"
  <2>1. k \in 1 .. Len(frames) \/ k = Len(frames) + 1
    BY <1>1
  <2>2. CASE k \in 1 .. Len(frames)
    BY <1>1, <2>2 DEF OversizeIsSeenEarly
  <2>3. CASE k = Len(frames) + 1
    BY <1>1, <2>3
  <2> QED  BY <2>1, <2>2, <2>3
<1>3. frames'[Len(frames')] = f
  BY <1>1
<1> QED  BY <1>2, <1>3 DEF OversizeIsSeenEarly

\* recv() appends to the stream and to the buffer, which stays within one past the limit.
LEMMA RecvKeeps == IInv /\ Recv => IInv'
<1> SUFFICES ASSUME IInv, Recv  PROVE IInv'
  OBVIOUS
<1>1. PICK n \in 1 .. Room, chunk \in UNION {[1 .. m -> Bytes] : m \in Nat} :
        /\ chunk \in [1 .. n -> Bytes]
        /\ pc = "recv" /\ buffer' = buffer \o chunk /\ received' = received \o chunk
        /\ pc' = "split" /\ UNCHANGED <<frames, ending>>
  <2>1. Room \in Nat
    BY Typed DEF Room, IInv
  <2>2. PICK n \in 1 .. Room : \E chunk \in [1 .. n -> Bytes] :
          /\ pc = "recv" /\ buffer' = buffer \o chunk /\ received' = received \o chunk
          /\ pc' = "split" /\ UNCHANGED <<frames, ending>>
    BY DEF Recv
  <2>3. n \in Nat
    BY <2>1
  <2> QED  BY <2>2, <2>3, Zenon
<1>2. /\ buffer \in Seq(Bytes) /\ received \in Seq(Bytes) /\ Cut \in Nat
      /\ Len(buffer) \in Nat /\ Len(received) \in Nat
      /\ MaxEventSize \in Nat \ {0} /\ RecvLimit \in Nat \ {0}
  BY Typed DEF IInv
<1>3. n <= MaxEventSize + 1 - Len(buffer) /\ Len(buffer) <= MaxEventSize /\ n \in Nat
  BY <1>1, <1>2 DEF Room, IInv, BufferIsPartial
<1>4. chunk \in Seq(Bytes) /\ Len(chunk) = n
  BY <1>1, <1>3
<1>5. /\ buffer' \in Seq(Bytes) /\ Len(buffer') = Len(buffer) + n
      /\ \A i \in 1 .. Len(buffer) : buffer'[i] = buffer[i]
      /\ \A i \in 1 .. n : buffer'[Len(buffer) + i] = chunk[i]
      /\ received' \in Seq(Bytes) /\ Len(received') = Len(received) + n
      /\ \A i \in 1 .. Len(received) : received'[i] = received[i]
      /\ \A i \in 1 .. n : received'[Len(received) + i] = chunk[i]
  <2>1. ASSUME NEW s \in Seq(Bytes), NEW u \in Seq(Bytes)
        PROVE  /\ s \o u \in Seq(Bytes) /\ Len(s \o u) = Len(s) + Len(u)
               /\ \A i \in 1 .. Len(s) : (s \o u)[i] = s[i]
               /\ \A i \in 1 .. Len(u) : (s \o u)[Len(s) + i] = u[i]
    OBVIOUS
  <2>2. /\ buffer \in Seq(Bytes) /\ received \in Seq(Bytes)
        /\ buffer' = buffer \o chunk /\ received' = received \o chunk
    BY <1>1, <1>2
  <2>3. /\ buffer' \in Seq(Bytes) /\ Len(buffer') = Len(buffer) + n
        /\ \A i \in 1 .. Len(buffer) : buffer'[i] = buffer[i]
        /\ \A i \in 1 .. n : buffer'[Len(buffer) + i] = chunk[i]
    BY ONLY <1>4, <2>1, <2>2, Zenon
  <2>4. /\ received' \in Seq(Bytes) /\ Len(received') = Len(received) + n
        /\ \A i \in 1 .. Len(received) : received'[i] = received[i]
        /\ \A i \in 1 .. n : received'[Len(received) + i] = chunk[i]
    BY ONLY <1>4, <2>1, <2>2, Zenon
  <2> QED  BY <2>3, <2>4
<1>6. TypeOK'
  BY <1>1, <1>2, <1>3, <1>5 DEF TypeOK, IInv
<1>7. /\ IsStreamAt(Cut, buffer) /\ Cut + Len(buffer) = Len(received)
      /\ \A k \in 1 .. Len(frames) : InStream(k)
      /\ Cut' = Cut
  BY <1>1 DEF IInv, FramesAreTheStream, Cut
<1>8. ASSUME NEW k \in 1 .. Len(frames)  PROVE InStream(k)'
  <2>1. /\ frames[k].at \in Nat /\ Len(frames[k].bytes) \in Nat /\ End(frames[k]) \in Nat
        /\ frames[k].ended => End(frames[k]) > 0
    <3>1. frames[k].at \in Nat /\ Len(frames[k].bytes) \in Nat
      BY Typed DEF IInv
    <3> QED  BY <3>1 DEF End
  <2>2. /\ IsStreamAt(frames[k].at, frames[k].bytes)
        /\ frames[k].ended => /\ End(frames[k]) <= Len(received)
                              /\ received[End(frames[k])] = "delimiter"
    BY <1>7 DEF InStream
  <2>3. IsStreamAt(frames[k].at, frames[k].bytes)'
    <3> DEFINE a == frames[k].at
               s == frames[k].bytes
    <3>1. a \in Nat /\ Len(s) \in Nat /\ a + Len(s) <= Len(received)
          /\ \A i \in 1 .. Len(s) : s[i] = received[a + i]
      BY <2>1, <2>2 DEF IsStreamAt
    <3>2. frames'[k].at = a /\ frames'[k].bytes = s
      BY <1>1
    <3> HIDE DEF a, s
    <3>3. a + Len(s) <= Len(received')
      BY <1>2, <1>3, <1>5, <3>1
    <3>4. ASSUME NEW i \in 1 .. Len(s)  PROVE s[i] = received'[a + i]
      <4>1. a + i \in 1 .. Len(received)
        BY <1>2, <3>1
      <4> QED  BY <1>5, <3>1, <4>1
    <3> QED  BY <3>2, <3>3, <3>4 DEF IsStreamAt
  <2>4. frames[k].ended => /\ End(frames[k]) <= Len(received')
                           /\ received'[End(frames[k])] = "delimiter"
    BY <1>2, <1>3, <1>5, <2>1, <2>2
  <2> QED  BY <1>1, <1>7, <2>3, <2>4 DEF InStream
<1>9. IsStreamAt(Cut, buffer)' /\ Cut' + Len(buffer') = Len(received')
  <2> DEFINE b == Len(buffer)
             l == Len(received)
             c == Cut
  <2>0. /\ b \in Nat /\ l \in Nat /\ c \in Nat /\ n \in Nat /\ c + b = l
        /\ Len(buffer') = b + n /\ Len(received') = l + n
        /\ \A i \in 1 .. b : buffer'[i] = buffer[i] /\ buffer[i] = received[c + i]
        /\ \A i \in 1 .. n : buffer'[b + i] = chunk[i] /\ received'[l + i] = chunk[i]
        /\ \A i \in 1 .. l : received'[i] = received[i]
    BY <1>2, <1>3, <1>5, <1>7 DEF IsStreamAt
  <2> HIDE DEF b, l, c
  <2>1. ASSUME NEW i \in 1 .. b + n  PROVE buffer'[i] = received'[c + i]
    <3>1. CASE i \in 1 .. b
      <4>1. c + i \in 1 .. l
        BY <2>0, <3>1
      <4> QED  BY <2>0, <3>1, <4>1
    <3>2. CASE i \in b + 1 .. b + n
      <4> DEFINE j == i - b
      <4>1. j \in 1 .. n /\ i = b + j /\ c + i = l + j
        BY <2>0, <3>2
      <4> HIDE DEF j
      <4> QED  BY <2>0, <4>1
    <3> QED  BY <2>0, <3>1, <3>2
  <2>2. c + (b + n) = l + n
    BY <2>0
  <2> QED  BY <1>7, <2>0, <2>1, <2>2 DEF IsStreamAt, c
<1>10. FramesAreTheStream'
  BY <1>1, <1>8, <1>9 DEF FramesAreTheStream
<1>11. OversizeIsSeenEarly' /\ AllEnded' /\ BufferIsPartial'
  BY <1>1 DEF IInv, OversizeIsSeenEarly, AllEnded, BufferIsPartial
<1>12. OpenIsOpen'
  BY <1>1 DEF IInv, OpenIsOpen
<1> QED  BY <1>6, <1>10, <1>11, <1>12 DEF IInv

\* A delimiter in the buffer: the line before it follows the other frames, and what
\* comes after it is what is left.
LEMMA SplitKeeps == IInv /\ Split => IInv'
<1> SUFFICES ASSUME IInv, Split  PROVE IInv'
  OBVIOUS
<1> DEFINE at == FirstDelimiter(buffer)
           line == SubSeq(buffer, 1, at - 1)
           rest == SubSeq(buffer, at + 1, Len(buffer))
           f == [bytes |-> line, ended |-> TRUE, refused |-> SizeRefusal(line), at |-> Cut]
<1>1. /\ pc = "split" /\ HasDelimiter(buffer) /\ received' = received
      /\ frames' = Append(frames, f) /\ buffer' = rest
      /\ IF Len(line) > MaxEventSize THEN pc' = "closed" /\ ending' = "oversized"
                                     ELSE pc' = pc /\ ending' = ending
  BY DEF Split, Emitted, Closes
<1>2. /\ buffer \in Seq(Bytes) /\ received \in Seq(Bytes) /\ Cut \in Nat
      /\ Len(buffer) \in Nat /\ Len(received) \in Nat
      /\ MaxEventSize \in Nat \ {0} /\ Len(buffer) <= MaxEventSize + 1
  BY Typed DEF IInv, TypeOK
<1>3. /\ at \in 1 .. Len(buffer) /\ buffer[at] = "delimiter"
      /\ line \in Seq(Bytes) /\ Len(line) = at - 1
      /\ \A i \in 1 .. at - 1 : line[i] = buffer[i]
      /\ ~HasDelimiter(line)
      /\ rest \in Seq(Bytes) /\ Len(rest) = Len(buffer) - at
      /\ \A i \in 1 .. Len(buffer) - at : rest[i] = buffer[at + i]
  BY <1>1, <1>2, FirstIsFirst
<1> HIDE DEF at, line, rest
<1>4. /\ at \in Nat /\ Len(line) \in Nat /\ Len(line) <= MaxEventSize
      /\ pc' = "split" /\ ending' = ending /\ ending # "oversized"
  BY <1>1, <1>2, <1>3 DEF IInv, OpenIsOpen
<1>5. /\ SizeRefusal(line) \in Reasons
      /\ SizeRefusal(line) = "oversized_event" <=> Len(line) = MaxEventSize + 1
  BY <1>2, <1>3, <1>4, RefusalOfSize
<1>6. f \in Frame /\ f.bytes = line /\ f.ended /\ f.at = Cut /\ f.refused = SizeRefusal(line)
  BY <1>2, <1>3, <1>5 DEF Frame
<1> HIDE DEF f
<1>7. /\ frames' \in Seq(Frame) /\ Len(frames') = Len(frames) + 1
      /\ \A k \in 1 .. Len(frames) : frames'[k] = frames[k]
      /\ frames'[Len(frames) + 1] = f
      /\ Cut' = End(f) /\ frames' # <<>>
      /\ \A k \in 1 .. Len(frames') : InStream(k)'
  <2>1. /\ Len(f.bytes) < Len(buffer) /\ buffer[Len(f.bytes) + 1] = "delimiter"
        /\ \A i \in 1 .. Len(f.bytes) : f.bytes[i] = buffer[i]
    BY <1>2, <1>3, <1>4, <1>6
  <2>2. pc # "closed" /\ Len(f.bytes) <= Len(buffer)
    BY <1>1, <1>2, <1>4, <1>6, <2>1
  <2>3. ~HasDelimiter(f.bytes)
    BY <1>3, <1>6
  <2> QED  BY <1>1, <1>6, <2>1, <2>2, <2>3, FrameAdded
<1>8. Cut' = Cut + at
  BY <1>2, <1>3, <1>4, <1>6, <1>7 DEF End
<1>9. TypeOK'
  BY <1>1, <1>2, <1>3, <1>4, <1>7 DEF TypeOK, IInv
<1>10. FramesAreTheStream'
  <2>1. IsStreamAt(Cut, buffer) /\ Cut + Len(buffer) = Len(received)
    BY DEF IInv, FramesAreTheStream
  <2>2. ASSUME NEW i \in 1 .. Len(rest)  PROVE rest[i] = received[Cut + at + i]
    <3>1. at + i \in 1 .. Len(buffer) /\ Cut + (at + i) = Cut + at + i
      BY <1>2, <1>3, <1>4
    <3> QED  BY <1>3, <2>1, <3>1 DEF IsStreamAt
  <2>3. Cut + at + Len(rest) = Len(received)
    <3> DEFINE b == Len(buffer)
    <3>1. b \in Nat /\ at \in Nat /\ Cut \in Nat
          /\ Len(rest) = b - at /\ Cut + b = Len(received)
      BY <1>2, <1>3, <1>4, <2>1
    <3> HIDE DEF b
    <3> QED  BY <3>1
  <2>4. IsStreamAt(Cut, buffer)' /\ Cut' + Len(buffer') = Len(received')
    BY <1>1, <1>2, <1>8, <2>2, <2>3 DEF IsStreamAt
  <2> QED  BY <1>4, <1>7, <2>4 DEF FramesAreTheStream
<1>11. OversizeIsSeenEarly'
  <2>1. /\ f.refused = "oversized_event" <=> Len(f.bytes) = MaxEventSize + 1
        /\ f.refused # "oversized_event" /\ ending' # "oversized"
    BY <1>2, <1>4, <1>5, <1>6
  <2> QED  BY <1>1, <1>6, <2>1, RefusalsAgree DEF IInv
<1>12. AllEnded'
  <2>1. Len(frames) \in Nat /\ \A k \in 1 .. Len(frames) : frames[k].ended
    BY <1>1, Typed DEF IInv, AllEnded
  <2>2. ASSUME NEW k \in 1 .. Len(frames')  PROVE frames'[k].ended
    <3>1. k \in 1 .. Len(frames) \/ k = Len(frames) + 1
      BY <1>7, <2>1
    <3> QED  BY <1>6, <1>7, <2>1, <3>1
  <2> QED  BY <2>2 DEF AllEnded
<1>13. BufferIsPartial' /\ OpenIsOpen'
  BY <1>4 DEF BufferIsPartial, OpenIsOpen
<1> QED  BY <1>9, <1>10, <1>11, <1>12, <1>13 DEF IInv

\* A connection that hands over all it has buffered, as the peer left it, and closes.
LEMMA RemainderKeeps ==
    ASSUME IInv, pc # "closed", ~HasDelimiter(buffer), NEW f \in Frame,
           f.bytes = buffer, ~f.ended, f.at = Cut,
           f.refused = "oversized_event" <=> Len(buffer) = MaxEventSize + 1,
           frames' = Append(frames, f), buffer' = <<>>, received' = received,
           pc' = "closed", ending' \in {"eof", "timeout", "oversized"},
           ending' = "oversized" => f.refused = "oversized_event"
    PROVE  IInv'
<1>1. /\ buffer \in Seq(Bytes) /\ received \in Seq(Bytes) /\ Cut \in Nat
      /\ Len(buffer) \in Nat /\ Len(received) \in Nat /\ Len(frames) \in Nat
      /\ MaxEventSize \in Nat \ {0} /\ Len(buffer) <= MaxEventSize + 1
  BY Typed DEF IInv, TypeOK
<1>2. /\ frames' \in Seq(Frame) /\ Len(frames') = Len(frames) + 1
      /\ Cut' = End(f) /\ frames' # <<>>
      /\ \A k \in 1 .. Len(frames') : InStream(k)'
  <2>1. Len(f.bytes) <= Len(buffer) /\ \A i \in 1 .. Len(f.bytes) : f.bytes[i] = buffer[i]
    BY <1>1
  <2> QED  BY <2>1, FrameAdded
<1>3. Cut' = Cut + Len(buffer)
  BY <1>1, <1>2 DEF End
<1>4. TypeOK'
  <2>1. <<>> \in Seq(Bytes) /\ Len(<<>>) = 0
    OBVIOUS
  <2> QED  BY <1>1, <1>2, <2>1 DEF TypeOK
<1>5. FramesAreTheStream'
  <2>1. Cut' + Len(buffer') = Len(received') /\ Cut' \in Nat /\ Len(buffer') = 0
    BY <1>1, <1>3 DEF IInv, FramesAreTheStream
  <2>2. IsStreamAt(Cut, buffer)'
    BY <1>1, <2>1 DEF IsStreamAt
  <2> QED  BY <1>2, <2>1, <2>2 DEF FramesAreTheStream
<1>6. OversizeIsSeenEarly'
  BY RefusalsAgree DEF IInv
<1>7. AllEnded' /\ BufferIsPartial' /\ OpenIsOpen'
  BY <1>2 DEF AllEnded, BufferIsPartial, OpenIsOpen
<1> QED  BY <1>4, <1>5, <1>6, <1>7 DEF IInv

\* A connection that closes with every frame handed over, or with a partial one left.
LEMMA CloseKeeps ==
    ASSUME IInv, pc = "recv", frames' = frames, received' = received, pc' = "closed",
           \/ buffer = <<>> /\ buffer' = <<>> /\ ending' \in {"eof", "timeout"}
           \/ buffer' = buffer /\ ending' = "error"
    PROVE  IInv'
<1>1. buffer' = buffer /\ ending' \in {"eof", "timeout", "error"} /\ Cut' = Cut
      /\ (ending' = "error" \/ buffer' = <<>>)
  BY DEF Cut
<1>2. TypeOK'
  BY <1>1 DEF IInv, TypeOK
<1>3. FramesAreTheStream'
  BY <1>1 DEF IInv, FramesAreTheStream, InStream, IsStreamAt
<1>4. OversizeIsSeenEarly'
  BY <1>1 DEF IInv, OversizeIsSeenEarly
<1>5. AllEnded' /\ BufferIsPartial' /\ OpenIsOpen'
  BY <1>1 DEF AllEnded, BufferIsPartial, OpenIsOpen
<1> QED  BY <1>2, <1>3, <1>4, <1>5 DEF IInv

LEMMA InitIInv == Init => IInv
<1> SUFFICES ASSUME Init  PROVE IInv
  OBVIOUS
<1>1. /\ pc = "recv" /\ buffer = <<>> /\ frames = <<>> /\ received = <<>> /\ ending = "open"
      /\ Len(buffer) = 0 /\ Len(frames) = 0 /\ Len(received) = 0 /\ Cut = 0
      /\ MaxEventSize \in Nat
  BY ConstantsAssumption DEF Init, Cut
<1>2. TypeOK
  BY <1>1 DEF TypeOK
<1>3. FramesAreTheStream
  BY <1>1 DEF FramesAreTheStream, IsStreamAt
<1>4. OversizeIsSeenEarly /\ AllEnded /\ OpenIsOpen
  BY <1>1 DEF OversizeIsSeenEarly, AllEnded, OpenIsOpen
<1>5. BufferIsPartial
  BY <1>1 DEF BufferIsPartial, HasDelimiter
<1> QED  BY <1>2, <1>3, <1>4, <1>5 DEF IInv

LEMMA NextIInv == IInv /\ [Next]_vars => IInv'
<1> SUFFICES ASSUME IInv, [Next]_vars  PROVE IInv'
  OBVIOUS
<1>0. /\ buffer \in Seq(Bytes) /\ Len(buffer) \in Nat /\ Len(buffer) <= MaxEventSize + 1
      /\ Cut \in Nat /\ MaxEventSize \in Nat \ {0}
  BY Typed DEF IInv, TypeOK
<1>1. CASE Recv
  BY <1>1, RecvKeeps
<1>2. CASE Split
  BY <1>2, SplitKeeps
<1>3. CASE AwaitMore
  <2>1. CASE Len(buffer) > MaxEventSize
    <3> DEFINE f == [bytes |-> buffer, ended |-> FALSE, refused |-> SizeRefusal(buffer),
                     at |-> Cut]
    <3>1. /\ pc = "split" /\ ~HasDelimiter(buffer) /\ frames' = Append(frames, f)
          /\ buffer' = <<>> /\ received' = received /\ pc' = "closed" /\ ending' = "oversized"
      BY <1>3, <2>1 DEF AwaitMore, Emitted, Closes
    <3>2. /\ SizeRefusal(buffer) \in Reasons /\ SizeRefusal(buffer) = "oversized_event"
          /\ Len(buffer) = MaxEventSize + 1
      BY <1>0, <2>1, RefusalOfSize
    <3>3. f \in Frame /\ f.bytes = buffer /\ ~f.ended /\ f.at = Cut
          /\ f.refused = "oversized_event"
      BY <1>0, <3>2 DEF Frame
    <3> HIDE DEF f
    <3> QED  BY <3>1, <3>2, <3>3, RemainderKeeps
  <2>2. CASE ~(Len(buffer) > MaxEventSize)
    <3>1. /\ pc = "split" /\ ~HasDelimiter(buffer) /\ Len(buffer) <= MaxEventSize
          /\ pc' = "recv" /\ UNCHANGED <<buffer, frames, ending, received>> /\ Cut' = Cut
      BY <1>0, <1>3, <2>2 DEF AwaitMore, Cut
    <3>2. TypeOK' /\ OversizeIsSeenEarly'
      BY <3>1 DEF IInv, TypeOK, OversizeIsSeenEarly
    <3>3. FramesAreTheStream'
      BY <3>1 DEF IInv, FramesAreTheStream, InStream, IsStreamAt
    <3>4. AllEnded' /\ BufferIsPartial' /\ OpenIsOpen'
      BY <3>1 DEF IInv, AllEnded, BufferIsPartial, OpenIsOpen, HasDelimiter
    <3> QED  BY <3>2, <3>3, <3>4 DEF IInv
  <2> QED  BY <2>1, <2>2
<1>4. CASE Eof
  <2>1. CASE buffer = <<>>
    BY <1>4, <2>1, CloseKeeps DEF Eof, Closes
  <2>2. CASE buffer # <<>>
    <3> DEFINE f == [bytes |-> buffer, ended |-> FALSE, refused |-> SizeRefusal(buffer),
                     at |-> Cut]
    <3>1. /\ pc = "recv" /\ ~HasDelimiter(buffer) /\ frames' = Append(frames, f)
          /\ buffer' = <<>> /\ received' = received /\ pc' = "closed" /\ ending' = "eof"
      BY <1>4, <2>2 DEF Eof, Emitted, Closes, IInv, BufferIsPartial
    <3>2. /\ SizeRefusal(buffer) \in Reasons
          /\ SizeRefusal(buffer) = "oversized_event" <=> Len(buffer) = MaxEventSize + 1
      BY <1>0, RefusalOfSize
    <3>3. f \in Frame /\ f.bytes = buffer /\ ~f.ended /\ f.at = Cut
          /\ f.refused = SizeRefusal(buffer)
      BY <1>0, <3>2 DEF Frame
    <3> HIDE DEF f
    <3> QED  BY <3>1, <3>2, <3>3, RemainderKeeps
  <2> QED  BY <2>1, <2>2
<1>5. CASE Timeout
  <2>1. CASE buffer = <<>>
    BY <1>5, <2>1, CloseKeeps DEF Timeout, Closes
  <2>2. CASE buffer # <<>>
    <3> DEFINE f == [bytes |-> buffer, ended |-> FALSE, refused |-> "incomplete_frame",
                     at |-> Cut]
    <3>1. /\ pc = "recv" /\ ~HasDelimiter(buffer) /\ frames' = Append(frames, f)
          /\ buffer' = <<>> /\ received' = received /\ pc' = "closed" /\ ending' = "timeout"
          /\ Len(buffer) <= MaxEventSize
      BY <1>5, <2>2 DEF Timeout, Closes, IInv, BufferIsPartial
    <3>2. f \in Frame /\ f.bytes = buffer /\ ~f.ended /\ f.at = Cut
          /\ f.refused = "incomplete_frame" /\ Len(buffer) # MaxEventSize + 1
      BY <1>0, <3>1 DEF Frame, Reasons
    <3> HIDE DEF f
    <3> QED  BY <3>1, <3>2, RemainderKeeps
  <2> QED  BY <2>1, <2>2
<1>6. CASE SocketError
  BY <1>6, CloseKeeps DEF SocketError, Closes
<1>7. CASE UNCHANGED vars
  <2>1. UNCHANGED <<pc, buffer, frames, received, ending>> /\ Cut' = Cut
    BY <1>7 DEF vars, Cut
  <2>2. FramesAreTheStream'
    BY <2>1 DEF IInv, FramesAreTheStream, InStream, IsStreamAt
  <2>3. TypeOK' /\ OversizeIsSeenEarly' /\ AllEnded' /\ BufferIsPartial' /\ OpenIsOpen'
    BY <2>1 DEF IInv, TypeOK, OversizeIsSeenEarly, AllEnded, BufferIsPartial, OpenIsOpen,
                HasDelimiter
  <2> QED  BY <2>2, <2>3 DEF IInv
<1> QED  BY <1>1, <1>2, <1>3, <1>4, <1>5, <1>6, <1>7 DEF Next

\* The inductive invariant of a connection: its frames and its buffer tile the stream.
THEOREM Invariant == Spec => []IInv
<1> QED  BY InitIInv, NextIInv, PTL DEF Spec

\* The buffer never exceeds one byte past the limit, whatever recv() returns.
THEOREM TypeCorrect == Spec => []TypeOK
<1>1. IInv => TypeOK
  BY DEF IInv
<1> QED  BY <1>1, Invariant, PTL

\* However the stream is cut into chunks, the frames handed over and the buffer are the
\* stream, split at its delimiters.
THEOREM SplitWhole == Spec => []FramesAreTheStream
<1>1. IInv => FramesAreTheStream
  BY DEF IInv
<1> QED  BY <1>1, Invariant, PTL

\* A frame is refused for its size exactly when it is one byte past the limit, never
\* after a delimiter ended it, and that refusal closes the connection.
THEOREM OversizeCloses == Spec => []OversizeIsSeenEarly
<1>1. IInv => OversizeIsSeenEarly
  BY DEF IInv
<1> QED  BY <1>1, Invariant, PTL
=============================================================================
